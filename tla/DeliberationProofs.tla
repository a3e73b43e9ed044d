------------------------- MODULE DeliberationProofs -------------------------
(***************************************************************************)
(* Proofs about Deliberation, ToolCalls and Evaluation: references between *)
(* drafts always resolve, the answer of a query is the grounded labelling, *)
(* a tool call means the same in the browser and in the terminal, an entry *)
(* that comes twice is harmless, the confirmation a turn ends with tells   *)
(* of what was drafted, an evaluation's scores agree with each other and   *)
(* add up, the order that a query visits its nodes in does not matter, and *)
(* previews and prompts show what is so.                                   *)
(***************************************************************************)
EXTENDS Evaluation, TLAPS, FiniteSetTheorems, SequenceTheorems, WellFoundedInduction

DraftType == [id : Nat, entry : DraftContents]

-----------------------------------------------------------------------------
(* The buffer of drafts *)

\* Ids are handed out in order and never twice.
IdsOK ==
  /\ next_draft_id \in Nat
  /\ drafts \in Seq(DraftType)
  /\ \A i \in DOMAIN drafts : drafts[i].id < next_draft_id
  /\ \A i, j \in DOMAIN drafts : i < j => drafts[i].id < drafts[j].id

\* RefsResolve for every id, those not handed out yet included.
RefsStrong ==
  \A i \in DOMAIN drafts : \A n \in Nat :
    Draft(n) \in Refs(drafts[i].entry) =>
      \E j \in DOMAIN drafts :
        j < i /\ drafts[j].id = n /\ IsClaimDraft(drafts[j])

BufferInv == IdsOK /\ RefsStrong

\* What is left of a sequence without one of its elements.
LEMMA RemoveAtFacts ==
  ASSUME NEW S, NEW s \in Seq(S), NEW k \in DOMAIN s
  PROVE  /\ RemoveAt(s, k) \in Seq(S)
         /\ Len(RemoveAt(s, k)) = Len(s) - 1
         /\ \A i \in DOMAIN RemoveAt(s, k) :
              RemoveAt(s, k)[i] = IF i < k THEN s[i] ELSE s[i + 1]
<1> DEFINE before == SubSeq(s, 1, k - 1)
           after == SubSeq(s, k + 1, Len(s))
<1>1. Len(s) \in Nat /\ k \in 1 .. Len(s)
  OBVIOUS
<1>2. /\ before \in Seq(S) /\ Len(before) = k - 1
      /\ \A i \in 1 .. k - 1 : before[i] = s[i]
  BY <1>1
<1>3. /\ after \in Seq(S) /\ Len(after) = Len(s) - k
      /\ \A i \in 1 .. Len(s) - k : after[i] = s[k + i]
  BY <1>1
<1>4. RemoveAt(s, k) = before \o after
  BY DEF RemoveAt
<1> HIDE DEF before, after
<1>5. /\ before \o after \in Seq(S)
      /\ Len(before \o after) = Len(before) + Len(after)
      /\ \A i \in 1 .. Len(before) + Len(after) :
           (before \o after)[i] = IF i <= Len(before) THEN before[i] ELSE after[i - Len(before)]
  BY <1>2, <1>3, ConcatProperties
<1>6. Len(before) + Len(after) = Len(s) - 1
  BY <1>1, <1>2, <1>3
<1>7. /\ before \o after \in Seq(S) /\ Len(before \o after) = Len(s) - 1
      /\ DOMAIN (before \o after) = 1 .. Len(s) - 1
      /\ \A i \in 1 .. Len(s) - 1 :
           (before \o after)[i] = IF i <= k - 1 THEN before[i] ELSE after[i - (k - 1)]
  <2>1. before \o after \in Seq(S) /\ Len(before \o after) = Len(s) - 1
    BY <1>5, <1>6
  <2>2. DOMAIN (before \o after) = 1 .. Len(s) - 1
    BY <2>1
  <2>3. \A i \in 1 .. Len(s) - 1 :
          (before \o after)[i] = IF i <= k - 1 THEN before[i] ELSE after[i - (k - 1)]
    BY <1>2, <1>5, <1>6
  <2> QED
    BY <2>1, <2>2, <2>3
<1>8. \A i \in 1 .. Len(s) - 1 :
        (before \o after)[i] = IF i < k THEN s[i] ELSE s[i + 1]
  <2> SUFFICES ASSUME NEW i \in 1 .. Len(s) - 1
               PROVE  (before \o after)[i] = IF i < k THEN s[i] ELSE s[i + 1]
    OBVIOUS
  <2>1. CASE i < k
    <3>1. i \in 1 .. k - 1 /\ i <= k - 1
      BY <1>1, <2>1
    <3> QED
      BY <1>2, <1>7, <2>1, <3>1
  <2>2. CASE ~(i < k)
    <3>1. i - (k - 1) \in 1 .. Len(s) - k /\ ~(i <= k - 1) /\ k + (i - (k - 1)) = i + 1
      BY <1>1, <2>2
    <3> QED
      BY <1>3, <1>7, <2>2, <3>1
  <2> QED
    BY <2>1, <2>2
<1> QED
  BY <1>4, <1>7, <1>8

\* The numbers of drafts are natural numbers.
LEMMA IdsAreNat ==
  ASSUME BufferInv
  PROVE  \A i \in DOMAIN drafts : drafts[i] \in DraftType /\ drafts[i].id \in Nat
<1>1. \A i \in DOMAIN drafts : drafts[i] \in DraftType
  BY DEF BufferInv, IdsOK
<1>2. \A d \in DraftType : d.id \in Nat
  BY DEF DraftType
<1> QED
  BY <1>1, <1>2

\* A content that passes validation refers to claim drafts only.
LEMMA ValidContent ==
  ASSUME NEW content, NEW n \in Nat,
         ContentError(drafts, content) = "none",
         Draft(n) \in Refs(content)
  PROVE  \E i \in DOMAIN drafts : drafts[i].id = n /\ IsClaimDraft(drafts[i])
<1> DEFINE errors == {RefError(drafts, r) : r \in Refs(content)} \ {"none"}
<1>1. errors = {}
  <2>1. CASE errors # {}
    <3>1. (CHOOSE e \in errors : TRUE) \in errors
      BY <2>1
    <3> QED
      BY <2>1, <3>1 DEF ContentError
  <2> QED
    BY <2>1
<1>2. RefError(drafts, Draft(n)) = "none"
  BY <1>1
<1>3. Draft(n) # NoRef /\ Draft(n)[1] # "committed" /\ Draft(n)[2] = n
  BY DEF Draft, NoRef
<1> QED
  BY <1>2, <1>3 DEF RefError, DraftsWithId

\* A draft appended after validation keeps the buffer in order.
LEMMA CreateKeeps ==
  ASSUME BufferInv, NEW content \in DraftContents,
         ContentError(drafts, content) = "none", CreateDraft(content)
  PROVE  BufferInv'
<1> DEFINE d == [id |-> next_draft_id, entry |-> content]
<1>1. d \in DraftType /\ drafts' = Append(drafts, d) /\ next_draft_id' = next_draft_id + 1
  BY DEF BufferInv, IdsOK, DraftType, CreateDraft
<1>2. /\ drafts' \in Seq(DraftType) /\ Len(drafts') = Len(drafts) + 1
      /\ \A i \in DOMAIN drafts : drafts'[i] = drafts[i]
      /\ drafts'[Len(drafts) + 1] = d
      /\ DOMAIN drafts = 1 .. Len(drafts) /\ DOMAIN drafts' = 1 .. Len(drafts) + 1
  BY <1>1 DEF BufferInv, IdsOK
<1>3. d.id = next_draft_id /\ d.entry = content
  OBVIOUS
<1> HIDE DEF d
<1>4. IdsOK'
  <2>1. \A i \in DOMAIN drafts : drafts[i].id \in Nat
    BY IdsAreNat
  <2>2. \A i \in DOMAIN drafts' : drafts'[i].id < next_draft_id'
    BY <1>1, <1>2, <1>3, <2>1 DEF BufferInv, IdsOK
  <2>3. \A i, j \in DOMAIN drafts' : i < j => drafts'[i].id < drafts'[j].id
    BY <1>1, <1>2, <1>3, <2>1 DEF BufferInv, IdsOK
  <2> QED
    BY <1>1, <1>2, <2>2, <2>3 DEF BufferInv, IdsOK, DraftType
<1>5. RefsStrong'
  <2> SUFFICES ASSUME NEW i \in DOMAIN drafts', NEW n \in Nat,
                      Draft(n) \in Refs(drafts'[i].entry)
               PROVE  \E j \in DOMAIN drafts' :
                        j < i /\ drafts'[j].id = n /\ IsClaimDraft(drafts'[j])
    BY DEF RefsStrong, IsClaimDraft, Draft, Refs
  <2>1. CASE i \in DOMAIN drafts
    BY <1>2, <2>1 DEF BufferInv, RefsStrong
  <2>2. CASE i = Len(drafts) + 1
    <3>1. PICK j \in DOMAIN drafts : drafts[j].id = n /\ IsClaimDraft(drafts[j])
      BY <1>2, <1>3, <2>2, ValidContent
    <3> QED
      BY <1>2, <2>2, <3>1
  <2> QED
    BY <1>2, <2>1, <2>2
<1> QED
  BY <1>4, <1>5 DEF BufferInv

\* A removal that is granted keeps the buffer in order.
LEMMA DropKeeps ==
  ASSUME BufferInv, NEW n \in Nat,
         RemovalError(drafts, n) = "none", DropDraft(n), next_draft_id' = next_draft_id
  PROVE  BufferInv'
<1> DEFINE IsFirst(i) == \A j \in DraftsWithId(drafts, n) : i <= j
           k == CHOOSE i \in DraftsWithId(drafts, n) : IsFirst(i)
<1>0. drafts \in Seq(DraftType) /\ DOMAIN drafts = 1 .. Len(drafts) /\ Len(drafts) \in Nat
  BY DEF BufferInv, IdsOK
<1>1. k \in DOMAIN drafts /\ drafts[k].id = n
  <2>1. PICK i \in DOMAIN drafts : drafts[i].id = n
    BY DEF RemovalError, DraftsWithId
  <2>2. \A j \in DOMAIN drafts : drafts[j].id = n => j = i
    BY <1>0, <2>1 DEF BufferInv, IdsOK, DraftType
  <2>3. DraftsWithId(drafts, n) = {i}
    BY <2>1, <2>2 DEF DraftsWithId
  <2>4. i \in DraftsWithId(drafts, n) /\ IsFirst(i)
    BY <1>0, <2>3
  <2>5. k \in DraftsWithId(drafts, n)
    BY <2>4
  <2> QED
    BY <2>5 DEF DraftsWithId
<1>2. \A j \in DOMAIN drafts : drafts[j].id = n => j = k
  BY <1>0, <1>1 DEF BufferInv, IdsOK, DraftType
<1>3. drafts' = RemoveAt(drafts, k)
  BY DEF DropDraft, Dropped
<1> HIDE DEF k
<1>4. /\ drafts' \in Seq(DraftType) /\ Len(drafts') = Len(drafts) - 1
      /\ \A i \in DOMAIN drafts' : drafts'[i] = IF i < k THEN drafts[i] ELSE drafts[i + 1]
  BY <1>0, <1>1, <1>3, RemoveAtFacts
<1>5. DOMAIN drafts' = 1 .. Len(drafts) - 1
  BY <1>0, <1>4
<1> DEFINE was(i) == IF i < k THEN i ELSE i + 1
<1>6. /\ \A i \in DOMAIN drafts' : was(i) \in DOMAIN drafts /\ drafts'[i] = drafts[was(i)]
      /\ \A i, j \in DOMAIN drafts' : i < j => was(i) < was(j)
  BY <1>0, <1>1, <1>4, <1>5
<1> HIDE DEF was
<1>7. IdsOK'
  BY <1>4, <1>6 DEF BufferInv, IdsOK
<1>8. RefsStrong'
  <2> SUFFICES ASSUME NEW i \in DOMAIN drafts', NEW m \in Nat,
                      Draft(m) \in Refs(drafts'[i].entry)
               PROVE  \E j \in DOMAIN drafts' :
                        j < i /\ drafts'[j].id = m /\ IsClaimDraft(drafts'[j])
    BY DEF RefsStrong, IsClaimDraft, Draft, Refs
  \* The places of the two drafts before the removal.
  <2>1. PICK p \in DOMAIN drafts : p # k /\ drafts'[i] = drafts[p] /\ p = IF i < k THEN i ELSE i + 1
    BY <1>0, <1>1, <1>4, <1>5
  <2>2. PICK q \in DOMAIN drafts : q < p /\ drafts[q].id = m /\ IsClaimDraft(drafts[q])
    BY <2>1 DEF BufferInv, RefsStrong
  <2>3. q # k
    <3> SUFFICES ASSUME q = k PROVE FALSE
      OBVIOUS
    <3>1. m = n /\ q \in DraftsWithId(drafts, n)
      BY <1>1, <2>2 DEF DraftsWithId
    <3>2. drafts[p].id # n
      BY <1>2, <2>1
    <3>3. DraftReferencesDraft(drafts[p].entry, n)
      BY <2>1, <3>1 DEF DraftReferencesDraft
    <3> QED
      BY <2>2, <3>1, <3>2, <3>3 DEF RemovalError
  <2> DEFINE j == IF q < k THEN q ELSE q - 1
  <2>4. j \in DOMAIN drafts' /\ drafts'[j] = drafts[q]
    <3>1. CASE q < k
      BY <1>0, <1>1, <1>4, <1>5, <3>1
    <3>2. CASE ~(q < k)
      <4>1. q - 1 \in 1 .. Len(drafts) - 1 /\ ~(q - 1 < k) /\ (q - 1) + 1 = q
        BY <1>0, <1>1, <2>3, <3>2
      <4> QED
        BY <1>4, <1>5, <3>2, <4>1
    <3> QED
      BY <3>1, <3>2
  <2>5. j < i
    BY <1>0, <1>1, <1>5, <2>1, <2>2, <2>3, <2>4
  <2>6. drafts'[j].id = m /\ IsClaimDraft(drafts'[j])
    BY <2>2, <2>4
  <2> HIDE DEF j
  <2> QED
    BY <2>4, <2>5, <2>6
<1> QED
  BY <1>7, <1>8 DEF BufferInv

\* No drafts at the start.
LEMMA BufferInit == Init => BufferInv
BY DEF Init, BufferInv, IdsOK, RefsStrong, DraftType

\* Drafts that are gone refer to nothing.
LEMMA EmptyKeeps ==
  ASSUME BufferInv, drafts' = << >>, next_draft_id' = next_draft_id
  PROVE  BufferInv'
BY DEF BufferInv, IdsOK, RefsStrong, DraftType

\* Nothing happens to the drafts.
LEMMA SameBuffer ==
  ASSUME BufferInv, UNCHANGED <<drafts, next_draft_id>>
  PROVE  BufferInv'
<1>1. drafts' = drafts /\ next_draft_id' = next_draft_id
  OBVIOUS
<1>2. IdsOK'
  BY <1>1 DEF BufferInv, IdsOK
<1>3. RefsStrong'
  BY <1>1 DEF BufferInv, RefsStrong, IsClaimDraft, Refs, Draft
<1> QED
  BY <1>2, <1>3 DEF BufferInv

\* No step leaves the invariant of the drafts.
LEMMA BufferStep == BufferInv /\ [Next]_vars => BufferInv'
<1> SUFFICES ASSUME BufferInv, [Next]_vars PROVE BufferInv'
  OBVIOUS
<1>1. ASSUME NEW content \in DraftContents, DraftTool(content) PROVE BufferInv'
  BY <1>1, CreateKeeps DEF DraftTool
<1>2. ASSUME NEW content \in DraftContents, DraftClaimRequested(content) PROVE BufferInv'
  BY <1>2, CreateKeeps, SameBuffer DEF DraftClaimRequested
<1>3. ASSUME NEW n \in DraftIds, RemoveDraftTool(n) PROVE BufferInv'
  <2>1. n \in Nat
    BY DEF DraftIds, BufferInv, IdsOK
  <2> QED
    BY <1>3, <2>1, DropKeeps DEF RemoveDraftTool
<1>4. ASSUME NEW n \in DraftIds, RemoveDraftRequested(n) PROVE BufferInv'
  <2>1. n \in Nat
    BY DEF DraftIds, BufferInv, IdsOK
  <2> QED
    BY <1>4, <2>1, DropKeeps, SameBuffer DEF RemoveDraftRequested
<1>5. CASE SubmitDrafts \/ ClearDrafts
  BY <1>5, EmptyKeeps DEF SubmitDrafts, ClearDrafts
<1>6. ASSUME NEW e \in OtherEntries, EntryCommitted(e) PROVE BufferInv'
  BY <1>6, SameBuffer DEF EntryCommitted, buffer
<1>7. CASE QueryCommitted \/ QueryPreview
  BY <1>7, SameBuffer DEF QueryCommitted, QueryPreview, Query, buffer
<1>8. CASE Visit \/ NextPass \/ Solved \/ Answer
  BY <1>8, SameBuffer DEF Visit, NextPass, Solved, Answer, buffer
<1>9. CASE UNCHANGED vars
  BY <1>9, SameBuffer DEF vars, buffer
<1> QED
  BY <1>1, <1>2, <1>3, <1>4, <1>5, <1>6, <1>7, <1>8, <1>9 DEF Next

\* References between drafts resolve, whatever was drafted and removed.
THEOREM DraftReferencesResolve == Spec => []RefsResolve
<1>1. BufferInv => RefsResolve
  BY DEF BufferInv, IdsOK, RefsStrong, RefsResolve, DraftIds
<1> QED
  BY <1>1, BufferInit, BufferStep, PTL DEF Spec

-----------------------------------------------------------------------------
(* The solver *)

SolverType ==
  /\ phase \in {"idle", "solving", "done"}
  /\ attackedBy \in [Nodes -> SUBSET Nodes]
  /\ Cardinality(Nodes) \in Nat /\ order \in Orders(Nodes)
  /\ labels \in [Nodes -> Labels]
  /\ at \in 1 .. Cardinality(Nodes) + 1 /\ passes \in Nat

\* Every label given so far has its reason in the labels themselves.
Justified ==
  \A n \in Nodes :
    /\ labels[n] = "in" => AllAttackersOut(labels, attackedBy[n])
    /\ labels[n] = "out" => AnyAttackerIn(labels, attackedBy[n])

\* Every label given so far is given by every complete labelling.
Forced ==
  \A L \in [Nodes -> Labels] :
    Complete(L) => \A n \in Nodes : labels[n] # "undec" => L[n] = labels[n]

\* Neither rule applies to the node.
Settled(n) ==
  labels[n] = "undec" =>
    /\ ~AllAttackersOut(labels, attackedBy[n])
    /\ ~AnyAttackerIn(labels, attackedBy[n])

\* A pass that has changed nothing leaves settled nodes behind it.
PassSettles == ~changed => \A i \in 1 .. at - 1 : Settled(order[i])
DoneAtEnd == phase = "done" => ~changed /\ at = Cardinality(Nodes) + 1

SolverInv == SolverType /\ Justified /\ Forced /\ PassSettles /\ DoneAtEnd

\* The solver at rest: no graph, no labels.
LEMMA AtRest ==
  ASSUME phase = "idle", attackedBy = EmptyMap, order = << >>, labels = EmptyMap,
         at = 1, changed = FALSE, passes = 0
  PROVE  SolverInv
<1>1. Nodes = {} /\ Cardinality(Nodes) = 0
  BY FS_EmptySet DEF Nodes, EmptyMap
<1>2. attackedBy \in [Nodes -> SUBSET Nodes] /\ labels \in [Nodes -> Labels]
  BY <1>1 DEF EmptyMap
<1>3. order \in Orders(Nodes)
  BY <1>1 DEF Orders
<1>4. SolverType
  BY <1>1, <1>2, <1>3 DEF SolverType
<1> QED
  BY <1>1, <1>4 DEF SolverInv, Justified, Forced, PassSettles, DoneAtEnd

\* What one visit does to the labels.
LEMMA VisitFacts ==
  ASSUME SolverType, NEW n \in Nodes,
         labels' = VisitNode(labels, attackedBy[n], n)
  PROVE  \/ /\ labels' = labels /\ Settled(n)
         \/ /\ labels[n] = "undec" /\ labels' = [labels EXCEPT ![n] = "in"]
            /\ AllAttackersOut(labels, attackedBy[n])
         \/ /\ labels[n] = "undec" /\ labels' = [labels EXCEPT ![n] = "out"]
            /\ AnyAttackerIn(labels, attackedBy[n])
BY DEF VisitNode, Settled

\* A visit of a node.
LEMMA VisitKeeps == SolverInv /\ Visit => SolverInv'
<1> SUFFICES ASSUME SolverInv, Visit PROVE SolverInv'
  OBVIOUS
<1> DEFINE n == order[at]
<1>1. /\ n \in Nodes /\ at \in 1 .. Cardinality(Nodes)
      /\ attackedBy[n] \subseteq Nodes /\ Nodes' = Nodes
      /\ attackedBy' = attackedBy /\ order' = order /\ at' = at + 1
      /\ phase = "solving" /\ phase' = phase /\ passes' = passes
      /\ labels' = VisitNode(labels, attackedBy[n], n)
      /\ changed' = (changed \/ labels' # labels)
  BY DEF SolverInv, SolverType, Orders, Visit, Nodes
<1> HIDE DEF n
<1>2. labels \in [Nodes -> Labels] /\ attackedBy \in [Nodes -> SUBSET Nodes]
  BY DEF SolverInv, SolverType
<1>3. CASE labels' = labels /\ Settled(n)
  <2>1. SolverType'
    BY <1>1, <1>3 DEF SolverInv, SolverType, Nodes, Labels
  <2>2. Justified' /\ Forced'
    BY <1>1, <1>3
    DEF SolverInv, Justified, Forced, Nodes, Labels, Complete, AllAttackersOut, AnyAttackerIn
  <2>3. PassSettles'
    <3> SUFFICES ASSUME ~changed', NEW i \in 1 .. at PROVE Settled(order[i])'
      BY <1>1 DEF PassSettles, SolverInv, SolverType
    <3>1. Settled(order[i])
      <4>1. CASE i = at
        BY <1>3, <4>1 DEF n
      <4>2. CASE i # at
        <5>1. ~changed
          BY <1>1, Zenon
        <5>2. i \in 1 .. at - 1
          BY <1>1, <4>2
        <5> QED
          BY <5>1, <5>2 DEF SolverInv, PassSettles
      <4> QED
        BY <4>1, <4>2
    <3> QED
      BY <1>1, <1>3, <3>1 DEF Settled, AllAttackersOut, AnyAttackerIn
  <2> QED
    BY <1>1, <2>1, <2>2, <2>3 DEF SolverInv, DoneAtEnd
<1>4. ASSUME NEW v \in {"in", "out"}, labels[n] = "undec",
             labels' = [labels EXCEPT ![n] = v],
             v = "in" => AllAttackersOut(labels, attackedBy[n]),
             v = "out" => AnyAttackerIn(labels, attackedBy[n])
      PROVE  SolverInv'
  <2>1. /\ labels'[n] = v /\ labels' \in [Nodes -> Labels]
        /\ \A m \in Nodes : m # n => labels'[m] = labels[m]
        /\ \A m \in Nodes : labels[m] # "undec" => labels'[m] = labels[m]
    BY <1>1, <1>2, <1>4 DEF Labels
  <2>2. changed'
    BY <1>1, <1>4, <2>1
  <2>3. SolverType'
    BY <1>1, <2>1, <2>2 DEF SolverInv, SolverType, Nodes, Labels
  \* A reason for a label stays one when an undecided node is labelled.
  <2>4. ASSUME NEW m \in Nodes
        PROVE  /\ AllAttackersOut(labels, attackedBy[m]) => AllAttackersOut(labels', attackedBy[m])
               /\ AnyAttackerIn(labels, attackedBy[m]) => AnyAttackerIn(labels', attackedBy[m])
    BY <1>2, <2>1 DEF AllAttackersOut, AnyAttackerIn
  <2>5. Justified'
    <3> SUFFICES ASSUME NEW m \in Nodes
                 PROVE  /\ labels'[m] = "in" => AllAttackersOut(labels', attackedBy[m])
                        /\ labels'[m] = "out" => AnyAttackerIn(labels', attackedBy[m])
      BY <1>1 DEF Justified, AllAttackersOut, AnyAttackerIn
    <3>1. CASE m = n
      BY <1>4, <2>1, <2>4, <3>1
    <3>2. CASE m # n
      BY <2>1, <2>4, <3>2 DEF SolverInv, Justified
    <3> QED
      BY <3>1, <3>2
  <2>6. Forced'
    <3> SUFFICES ASSUME NEW L \in [Nodes -> Labels], Complete(L), NEW m \in Nodes,
                        labels'[m] # "undec"
                 PROVE  L[m] = labels'[m]
      BY <1>1 DEF Forced, Complete, Nodes, Labels
    <3>1. \A k \in Nodes : labels[k] # "undec" => L[k] = labels[k]
      BY DEF SolverInv, Forced
    <3>2. CASE m # n
      BY <2>1, <3>1, <3>2
    <3>3. CASE m = n /\ v = "in"
      <4>1. AllAttackersOut(L, attackedBy[n])
        BY <1>1, <1>4, <3>1, <3>3 DEF AllAttackersOut
      <4> QED
        BY <1>1, <2>1, <3>3, <4>1 DEF Complete
    <3>4. CASE m = n /\ v = "out"
      <4>1. AnyAttackerIn(L, attackedBy[n])
        BY <1>1, <1>4, <3>1, <3>4 DEF AnyAttackerIn
      <4> QED
        BY <1>1, <2>1, <3>4, <4>1 DEF Complete
    <3> QED
      BY <3>2, <3>3, <3>4
  <2> QED
    BY <1>1, <2>2, <2>3, <2>5, <2>6 DEF SolverInv, PassSettles, DoneAtEnd
<1>5. CASE /\ labels[n] = "undec" /\ labels' = [labels EXCEPT ![n] = "in"]
           /\ AllAttackersOut(labels, attackedBy[n])
  BY <1>4, <1>5
<1>6. CASE /\ labels[n] = "undec" /\ labels' = [labels EXCEPT ![n] = "out"]
           /\ AnyAttackerIn(labels, attackedBy[n])
  BY <1>4, <1>6
<1> QED
  BY <1>1, <1>3, <1>5, <1>6, VisitFacts DEF SolverInv

\* A query starts with every node undecided.
LEMMA QueryStarts ==
  ASSUME NEW entries, Query(entries)
  PROVE  SolverInv'
<1> DEFINE A == Active(Replay(entries))
<1>1. /\ Cardinality(A) \in Nat /\ phase' = "solving"
      /\ attackedBy' = AttackedBy(Replay(entries)) /\ order' \in Orders(A)
      /\ labels' = AllUndecided(A) /\ at' = 1 /\ changed' = FALSE /\ passes' = 1
  <2>1. Cardinality(A) \in 1 .. MaxNodes
    BY DEF Query
  <2> QED
    BY <2>1 DEF Query
<1>2. attackedBy' \in [A -> SUBSET A] /\ labels' \in [A -> Labels]
  BY <1>1 DEF AttackedBy, AllUndecided, Labels
<1> HIDE DEF A
<1>3. Nodes' = A
  BY <1>2 DEF Nodes
<1>4. \A m \in A : labels'[m] = "undec"
  BY <1>1 DEF AllUndecided
<1>5. SolverType'
  BY <1>1, <1>2, <1>3 DEF SolverType, Orders, Labels
<1>6. Justified' /\ Forced'
  BY <1>3, <1>4 DEF Justified, Forced
<1> QED
  BY <1>1, <1>5, <1>6 DEF SolverInv, PassSettles, DoneAtEnd

\* Nothing happens to the solver.
LEMMA SameSolver ==
  ASSUME SolverInv, UNCHANGED solver
  PROVE  SolverInv'
<1>1. /\ phase' = phase /\ attackedBy' = attackedBy /\ order' = order /\ labels' = labels
      /\ at' = at /\ changed' = changed /\ passes' = passes
  BY DEF solver
<1>2. SolverType'
  BY <1>1 DEF SolverInv, SolverType, Nodes, Labels, Orders
<1>3. Justified' /\ Forced'
  BY <1>1 DEF SolverInv, Justified, Forced, Nodes, Labels, Complete, AllAttackersOut, AnyAttackerIn
<1>4. PassSettles'
  BY <1>1 DEF SolverInv, PassSettles, Settled, AllAttackersOut, AnyAttackerIn
<1>5. DoneAtEnd'
  BY <1>1 DEF SolverInv, DoneAtEnd, Nodes
<1> QED
  BY <1>2, <1>3, <1>4, <1>5 DEF SolverInv

\* Another pass over the nodes.
LEMMA NextPassKeeps == SolverInv /\ NextPass => SolverInv'
<1> SUFFICES ASSUME SolverInv, NextPass PROVE SolverInv'
  OBVIOUS
<1>1. SolverType'
  BY DEF SolverInv, NextPass, SolverType, Nodes, Labels, Orders
<1>2. Justified' /\ Forced'
  BY DEF SolverInv, NextPass, Justified, Forced, Nodes, Labels, Complete, AllAttackersOut,
         AnyAttackerIn
<1> QED
  BY <1>1, <1>2 DEF SolverInv, NextPass, PassSettles, DoneAtEnd

\* The last pass.
LEMMA SolvedKeeps == SolverInv /\ Solved => SolverInv'
<1> SUFFICES ASSUME SolverInv, Solved PROVE SolverInv'
  OBVIOUS
<1>1. SolverType'
  BY DEF SolverInv, Solved, SolverType, Nodes, Labels, Orders
<1>2. Justified' /\ Forced' /\ PassSettles'
  BY DEF SolverInv, Solved, Justified, Forced, PassSettles, Settled, Nodes, Labels, Complete,
         AllAttackersOut, AnyAttackerIn
<1>3. at = Cardinality(Nodes) + 1
  BY DEF SolverInv, Solved, SolverType, Orders
<1> QED
  BY <1>1, <1>2, <1>3 DEF SolverInv, Solved, DoneAtEnd, Nodes

\* The solver rests at the start.
LEMMA SolverInit == Init => SolverInv
BY AtRest DEF Init

\* The answer is read, and the solver rests again.
LEMMA AnswerKeeps == Answer => SolverInv'
<1> SUFFICES ASSUME Answer PROVE SolverInv'
  OBVIOUS
<1>1. Nodes' = {} /\ Cardinality(Nodes)' = 0
  BY FS_EmptySet DEF Answer, Nodes, EmptyMap
<1>2. attackedBy' \in [{} -> SUBSET {}] /\ labels' \in [{} -> Labels]
  BY DEF Answer, EmptyMap
<1>3. order' \in Orders({})
  BY FS_EmptySet DEF Answer, Orders
<1>4. SolverType'
  BY <1>1, <1>2, <1>3 DEF Answer, SolverType, Labels, Orders
<1> QED
  BY <1>1, <1>4 DEF Answer, SolverInv, Justified, Forced, PassSettles, DoneAtEnd

\* No step leaves the invariant of the solver.
LEMMA SolverStep == SolverInv /\ [Next]_vars => SolverInv'
<1> SUFFICES ASSUME SolverInv, [Next]_vars PROVE SolverInv'
  OBVIOUS
<1>1. CASE Visit
  BY <1>1, VisitKeeps
<1>2. CASE NextPass
  BY <1>2, NextPassKeeps
<1>3. CASE Solved
  BY <1>3, SolvedKeeps
<1>4. CASE Answer
  BY <1>4, AnswerKeeps
<1>5. CASE QueryCommitted \/ QueryPreview
  BY <1>5, QueryStarts DEF QueryCommitted, QueryPreview
<1>6. ASSUME NEW content \in DraftContents, DraftTool(content) \/ DraftClaimRequested(content)
      PROVE  SolverInv'
  BY <1>6, SameSolver DEF DraftTool, DraftClaimRequested
<1>7. ASSUME NEW n \in DraftIds, RemoveDraftTool(n) \/ RemoveDraftRequested(n)
      PROVE  SolverInv'
  BY <1>7, SameSolver DEF RemoveDraftTool, RemoveDraftRequested
<1>8. CASE SubmitDrafts \/ ClearDrafts
  BY <1>8, SameSolver DEF SubmitDrafts, ClearDrafts
<1>9. ASSUME NEW e \in OtherEntries, EntryCommitted(e) PROVE SolverInv'
  BY <1>9, SameSolver DEF EntryCommitted
<1>10. CASE UNCHANGED vars
  BY <1>10, SameSolver DEF vars
<1> QED
  BY <1>1, <1>2, <1>3, <1>4, <1>5, <1>6, <1>7, <1>8, <1>9, <1>10 DEF Next

\* When a pass has changed nothing, the labels are complete.
LEMMA SettledIsComplete ==
  ASSUME SolverInv, phase = "done"
  PROVE  Complete(labels)
<1>1. \A n \in Nodes : Settled(n)
  <2>1. \A i \in 1 .. Cardinality(Nodes) : Settled(order[i])
    BY DEF SolverInv, SolverType, PassSettles, DoneAtEnd
  <2>2. \A n \in Nodes : \E i \in 1 .. Cardinality(Nodes) : order[i] = n
    BY DEF SolverInv, SolverType, Orders
  <2> QED
    BY <2>1, <2>2
<1> SUFFICES ASSUME NEW n \in Nodes
             PROVE  /\ labels[n] = "in" <=> AllAttackersOut(labels, attackedBy[n])
                    /\ labels[n] = "out" <=> AnyAttackerIn(labels, attackedBy[n])
  BY DEF Complete
<1>2. labels[n] \in Labels /\ attackedBy[n] \subseteq Nodes
  BY DEF SolverInv, SolverType
<1>3. ~(AllAttackersOut(labels, attackedBy[n]) /\ AnyAttackerIn(labels, attackedBy[n]))
  BY DEF AllAttackersOut, AnyAttackerIn
<1> QED
  BY <1>1, <1>2, <1>3 DEF SolverInv, Justified, Settled, Labels

\* The answer of every query is the grounded labelling of its graph.
THEOREM AnswersAreGrounded == Spec => []GroundedLabels
<1>1. SolverInv => GroundedLabels
  BY SettledIsComplete DEF SolverInv, Forced, GroundedLabels
<1> QED
  BY <1>1, SolverInit, SolverStep, PTL DEF Spec

-----------------------------------------------------------------------------
(* Tool calls *)

\* What is no string, number or reference has no reading.
LEMMA AbsentUnread ==
  \A kind : kind.type \in {"text", "natural", "number", "reference", "word"} =>
    Readings(kind, Absent) = {}
<1>1. Absent.json = "absent"
  BY DEF Absent
<1>2. Field(Absent, "claim_id") = Absent /\ Field(Absent, "draft_id") = Absent
  BY <1>1 DEF Field
<1>3. ClaimRefOf(Absent) = NoRef
  BY <1>1, <1>2 DEF ClaimRefOf
<1> QED
  BY <1>1, <1>3 DEF Readings

Types == {"text", "natural", "reference", "word"}

\* The two programs have the same parameters for every tool in common.
LEMMA SameTools ==
  /\ DOMAIN BrowserTools = DOMAIN CliTools \ Hidden
  /\ \A name \in DOMAIN BrowserTools : BrowserTools[name] = CliTools[name]
<1>1. DOMAIN BrowserTools =
        {"overview", "show_drafts", "preview_overview", "impact_analysis", "claim_detail",
         "preview_claim_detail", "draft_claim", "draft_relation", "draft_stance",
         "draft_resolve", "draft_comment", "remove_draft"}
  BY DEF BrowserTools
<1>2. DOMAIN CliTools = DOMAIN BrowserTools \union Hidden
  BY <1>1 DEF CliTools, Hidden
<1> QED
  BY <1>1, <1>2 DEF BrowserTools, CliTools, Hidden

\* The tools that take arguments.
Taking == {"claim_detail", "preview_claim_detail", "draft_claim", "draft_relation",
           "draft_stance", "draft_resolve", "draft_comment", "remove_draft"}

\* The tools of the terminal, which take arguments, are hidden or take none.
LEMMA ToolNames ==
  /\ DOMAIN CliTools = Taking \union Hidden \union
       {"overview", "show_drafts", "preview_overview", "impact_analysis"}
  /\ \A name \in DOMAIN CliTools \ Taking : CliTools[name] = << >>
BY DEF CliTools, Taking, Hidden

\* What each tool that takes arguments takes.
LEMMA Parameters ==
  /\ CliTools["claim_detail"] = <<Need("claim_id", Text)>>
  /\ CliTools["preview_claim_detail"] = <<Need("claim", Reference)>>
  /\ CliTools["draft_claim"] =
       <<Need("body", Text), Need("kind", OneOf(ClaimKinds)), May("parent", Reference)>>
  /\ CliTools["draft_relation"] =
       <<Need("source", Reference), Need("target", Reference),
         Need("kind", OneOf(RelationKinds))>>
  /\ CliTools["draft_stance"] = <<Need("target", Reference), Need("position", OneOf(Positions))>>
  /\ CliTools["draft_resolve"] = <<Need("claim", Reference), Need("outcome", OneOf(Outcomes))>>
  /\ CliTools["draft_comment"] = <<Need("body", Text), May("claim", Reference)>>
  /\ CliTools["remove_draft"] = <<Need("draft_id", Natural)>>
BY DEF CliTools

\* A parameter is of its name and kind, and required or not.
LEMMA ParameterFields ==
  \A f, k : /\ Need(f, k).field = f /\ Need(f, k).kind = k /\ Need(f, k).required
            /\ May(f, k).field = f /\ May(f, k).kind = k /\ ~May(f, k).required
BY DEF Need, May

\* The type of each kind of argument.
LEMMA KindTypes ==
  /\ Text.type = "text" /\ Natural.type = "natural" /\ Reference.type = "reference"
  /\ AnyNumber.type = "number"
  /\ \A words : OneOf(words).type = "word" /\ OneOf(words).words = words
BY DEF Text, Natural, AnyNumber, Reference, OneOf, Kind

\* Every parameter is of one of the types.
LEMMA ParameterTypes ==
  \A name \in DOMAIN CliTools : \A i \in DOMAIN CliTools[name] :
    CliTools[name][i].kind.type \in Types
<1> SUFFICES ASSUME NEW name \in Taking, NEW i \in DOMAIN CliTools[name]
             PROVE  CliTools[name][i].kind.type \in Types
  BY ToolNames
<1>1. CASE name = "claim_detail"
  BY <1>1, Parameters, ParameterFields, KindTypes DEF Types
<1>2. CASE name = "preview_claim_detail"
  BY <1>2, Parameters, ParameterFields, KindTypes DEF Types
<1>3. CASE name = "draft_claim"
  BY <1>3, Parameters, ParameterFields, KindTypes DEF Types
<1>4. CASE name = "draft_relation"
  BY <1>4, Parameters, ParameterFields, KindTypes DEF Types
<1>5. CASE name = "draft_stance"
  BY <1>5, Parameters, ParameterFields, KindTypes DEF Types
<1>6. CASE name = "draft_resolve"
  BY <1>6, Parameters, ParameterFields, KindTypes DEF Types
<1>7. CASE name = "draft_comment"
  BY <1>7, Parameters, ParameterFields, KindTypes DEF Types
<1>8. CASE name = "remove_draft"
  BY <1>8, Parameters, ParameterFields, KindTypes DEF Types
<1> QED
  BY <1>1, <1>2, <1>3, <1>4, <1>5, <1>6, <1>7, <1>8 DEF Taking

\* Both programs tell the model the same.
LEMMA SameSchemas == BrowserSchemas = CliSchemas
BY DEF BrowserSchemas, CliSchemas

\* An argument is wrong for both programs or for neither.
LEMMA SameVerdict ==
  ASSUME NEW p, p.kind.type \in Types, NEW v
  PROVE  BrowserError(p, v) = "none" <=> CliError(p, v) = "none"
BY AbsentUnread DEF BrowserError, CliError, Types

\* Positions have a first one.
LEMMA LeastExists ==
  ASSUME NEW T, T \subseteq Nat, T # {}
  PROVE  \E i \in T : \A j \in T : i <= j
<1> DEFINE Less == {ss \in Nat \X Nat : ss[1] < ss[2]}
<1>1. IsWellFoundedOn(Less, Nat)
  BY NatLessThanWellFounded DEF OpToRel
<1>2. \A i, j \in Nat : j < i => <<j, i>> \in Less
  OBVIOUS
<1> HIDE DEF Less
<1>3. PICK i \in T : \A j \in T : <<j, i>> \notin Less
  BY <1>1, WFMin
<1>4. \A j \in T : ~ (j < i)
  BY <1>2, <1>3
<1> QED
  BY <1>4

\* What is read depends on which arguments are wrong and not on how they are.
LEMMA ReadAgrees ==
  ASSUME NEW params, DOMAIN params \subseteq Nat, NEW e, NEW f, NEW args,
         \A i \in DOMAIN params : e[i] = "none" <=> f[i] = "none"
  PROVE  /\ Read(params, e, args).error = "none" <=> Read(params, f, args).error = "none"
         /\ Read(params, e, args).field = Read(params, f, args).field
         /\ Read(params, e, args).args = Read(params, f, args).args
<1> DEFINE wrong == {i \in DOMAIN params : e[i] # "none"}
           first == CHOOSE i \in wrong : \A j \in wrong : i <= j
<1>1. wrong = {i \in DOMAIN params : f[i] # "none"}
  OBVIOUS
<1>2. CASE wrong = {}
  BY <1>1, <1>2 DEF Read
<1>3. CASE wrong # {}
  <2>1. first \in wrong
    BY <1>3, LeastExists
  <2>2. Read(params, e, args) = Rejected(e[first], params[first].field)
    BY <1>3 DEF Read
  <2>3. Read(params, f, args) = Rejected(f[first], params[first].field)
    BY <1>3, <1>1 DEF Read
  <2> QED
    BY <2>1, <2>2, <2>3 DEF Rejected
<1> QED
  BY <1>2, <1>3

\* The parameters of a tool are a list.
LEMMA ParametersListed ==
  \A name \in DOMAIN CliTools : DOMAIN CliTools[name] \subseteq Nat
<1> SUFFICES ASSUME NEW name \in Taking
             PROVE  DOMAIN CliTools[name] \subseteq Nat
  BY ToolNames
<1> QED
  BY Parameters DEF Taking

\* A tool that both programs tell of is decoded by one if it is by the other, to
\* the same arguments, and the same argument is blamed if it is not.
LEMMA DecodersAgree ==
  ASSUME NEW call, call.type = "function", call.name \notin Hidden
  PROVE  /\ BrowserDecodes(call).error = "none" <=> CliDecodes(call).error = "none"
         /\ BrowserDecodes(call).field = CliDecodes(call).field
         /\ BrowserDecodes(call).args = CliDecodes(call).args
<1>1. CASE call.args = Malformed
  BY <1>1 DEF BrowserDecodes, CliDecodes
<1>2. CASE call.args # Malformed /\ call.name \notin DOMAIN BrowserTools
  <2>1. call.name \notin DOMAIN CliTools
    BY <1>2, SameTools
  <2> QED
    BY <1>2, <2>1 DEF BrowserDecodes, CliDecodes
<1>3. CASE call.args # Malformed /\ call.name \in DOMAIN BrowserTools
  <2> DEFINE params == CliTools[call.name]
             V(i) == Field(call.args, params[i].field)
             e == [i \in DOMAIN params |-> BrowserError(params[i], V(i))]
             f == [i \in DOMAIN params |-> CliError(params[i], V(i))]
  <2>1. call.name \in DOMAIN CliTools /\ BrowserTools[call.name] = params
    BY <1>3, SameTools
  <2>2. \A i \in DOMAIN params : e[i] = "none" <=> f[i] = "none"
    BY <2>1, SameVerdict, ParameterTypes
  <2>3. BrowserDecodes(call) = Read(params, e, call.args)
    BY <1>3, <2>1 DEF BrowserDecodes
  <2>4. CliDecodes(call) = Read(params, f, call.args)
    BY <1>3, <2>1 DEF CliDecodes
  <2>5. DOMAIN params \subseteq Nat
    BY <2>1, ParametersListed
  <2> HIDE DEF params, e, f
  <2> QED
    BY <2>2, <2>3, <2>4, <2>5, ReadAgrees
<1> QED
  BY <1>1, <1>2, <1>3

\* Calls decoded alike come to the same, whatever drafts they find.
LEMMA OutcomesAgree ==
  ASSUME NEW name, NEW b, NEW c, NEW buf,
         b.error = "none" <=> c.error = "none", b.field = c.field, b.args = c.args
  PROVE  /\ Outcome(name, b, buf).error = "none" <=> Outcome(name, c, buf).error = "none"
         /\ Outcome(name, b, buf).field = Outcome(name, c, buf).field
         /\ Outcome(name, b, buf).buffer = Outcome(name, c, buf).buffer
<1>1. CASE b.error = "none"
  BY <1>1 DEF Outcome
<1>2. CASE b.error # "none"
  BY <1>2 DEF Outcome
<1> QED
  BY <1>1, <1>2

\* Both programs know the same successful calls for changes of the drafts.
LEMMA MutationsAgree ==
  ASSUME NEW name, NEW b, NEW c, b.error = "none" <=> c.error = "none"
  PROVE  BrowserMutates(name, b) <=> CliMutates(name, c)
BY DEF BrowserMutates, CliMutates, DraftTools

-----------------------------------------------------------------------------
(* A call that keeps to its schema is decoded *)

\* What a schema calls a parameter: a reference is a string, and a natural number
\* a number.
Called(kind) == IF kind = Reference THEN Text ELSE IF kind = Natural THEN AnyNumber ELSE kind

\* What the schema of a tool says of a parameter.
Declared(name, p) ==
  /\ p.field \in DOMAIN CliSchemas[name].properties
  /\ p.required => p.field \in CliSchemas[name].required
  /\ CliSchemas[name].properties[p.field] = Called(p.kind)

\* What a tool needs its schema declares.
LEMMA SchemasDeclare ==
  /\ DOMAIN CliSchemas = DOMAIN CliTools \ Hidden
  /\ \A name \in DOMAIN CliSchemas : \A i \in DOMAIN CliTools[name] :
       Declared(name, CliTools[name][i])
<1>1. DOMAIN CliSchemas = DOMAIN CliTools \ Hidden
  BY ToolNames DEF CliSchemas, Taking, Hidden
<1> SUFFICES ASSUME NEW name \in Taking, NEW i \in DOMAIN CliTools[name]
             PROVE  Declared(name, CliTools[name][i])
  BY <1>1, ToolNames DEF Hidden, Taking
<1>2. \A properties, optional : /\ Schema(properties, optional).properties = properties
                               /\ Schema(properties, optional).required = DOMAIN properties \ optional
  BY DEF Schema
<1>3. /\ Called(Reference) = Text /\ Called(Text) = Text /\ Called(Natural) = AnyNumber
      /\ \A words : Called(OneOf(words)) = OneOf(words)
  BY KindTypes DEF Called
<1>4. CASE name = "claim_detail"
  <2>1. CliSchemas[name] = Schema([claim_id |-> Text], {})
    BY <1>4 DEF CliSchemas
  <2> QED
    BY <1>2, <1>3, <1>4, <2>1, Parameters, ParameterFields DEF Declared
<1>5. CASE name = "preview_claim_detail"
  <2>1. CliSchemas[name] = Schema([claim |-> Text], {})
    BY <1>5 DEF CliSchemas
  <2> QED
    BY <1>2, <1>3, <1>5, <2>1, Parameters, ParameterFields DEF Declared
<1>6. CASE name = "draft_claim"
  <2>1. CliSchemas[name] = Schema([body |-> Text, kind |-> OneOf(ClaimKinds), parent |-> Text], {"parent"})
    BY <1>6 DEF CliSchemas
  <2> QED
    BY <1>2, <1>3, <1>6, <2>1, Parameters, ParameterFields DEF Declared
<1>7. CASE name = "draft_relation"
  <2>1. CliSchemas[name] = Schema([source |-> Text, target |-> Text, kind |-> OneOf(RelationKinds)], {})
    BY <1>7 DEF CliSchemas
  <2> QED
    BY <1>2, <1>3, <1>7, <2>1, Parameters, ParameterFields DEF Declared
<1>8. CASE name = "draft_stance"
  <2>1. CliSchemas[name] = Schema([target |-> Text, position |-> OneOf(Positions)], {})
    BY <1>8 DEF CliSchemas
  <2> QED
    BY <1>2, <1>3, <1>8, <2>1, Parameters, ParameterFields DEF Declared
<1>9. CASE name = "draft_resolve"
  <2>1. CliSchemas[name] = Schema([claim |-> Text, outcome |-> OneOf(Outcomes)], {})
    BY <1>9 DEF CliSchemas
  <2> QED
    BY <1>2, <1>3, <1>9, <2>1, Parameters, ParameterFields DEF Declared
<1>10. CASE name = "draft_comment"
  <2>1. CliSchemas[name] = Schema([body |-> Text, claim |-> Text], {"claim"})
    BY <1>10 DEF CliSchemas
  <2> QED
    BY <1>2, <1>3, <1>10, <2>1, Parameters, ParameterFields DEF Declared
<1>11. CASE name = "remove_draft"
  <2>1. CliSchemas[name] = Schema([draft_id |-> AnyNumber], {})
    BY <1>11 DEF CliSchemas
  <2> QED
    BY <1>2, <1>3, <1>11, <2>1, Parameters, ParameterFields DEF Declared
<1> QED
  BY <1>4, <1>5, <1>6, <1>7, <1>8, <1>9, <1>10, <1>11 DEF Taking

\* Arguments none of which is wrong are read.
LEMMA ReadFine ==
  ASSUME NEW params, NEW errors, NEW args, {i \in DOMAIN params : errors[i] # "none"} = {}
  PROVE  Read(params, errors, args).error = "none"
BY DEF Read

\* Arguments one of which is wrong are not.
LEMMA ReadWrong ==
  ASSUME NEW params, DOMAIN params \subseteq Nat, NEW errors, NEW args,
         NEW i \in DOMAIN params, errors[i] # "none"
  PROVE  Read(params, errors, args).error # "none"
<1> DEFINE wrong == {j \in DOMAIN params : errors[j] # "none"}
           first == CHOOSE j \in wrong : \A k \in wrong : j <= k
<1>1. wrong # {} /\ wrong \subseteq Nat
  OBVIOUS
<1>2. first \in wrong
  BY <1>1, LeastExists
<1>3. Read(params, errors, args) = Rejected(errors[first], params[first].field)
  BY <1>1 DEF Read
<1> QED
  BY <1>2, <1>3 DEF Rejected

\* An argument that keeps to its schema is taken if it can be read.
LEMMA ConformingArgument ==
  ASSUME NEW call, Conforms(call, CliSchemas), NEW i \in DOMAIN CliTools[call.name]
  PROVE  LET p == CliTools[call.name][i]
             v == Field(call.args, p.field)
         IN  CliError(p, v) = "none"
               <=> (p.kind \in {Reference, Natural} /\ v # Absent => Readings(p.kind, v) # {})
<1> DEFINE p == CliTools[call.name][i]
           v == Field(call.args, p.field)
<1>1. call.args.json = "object" /\ call.name \in DOMAIN CliTools
  BY SchemasDeclare DEF Conforms
<1>2. Declared(call.name, p) /\ p.kind.type \in Types
  BY <1>1, SchemasDeclare, ParameterTypes DEF Conforms
<1>3. CASE p.field \notin DOMAIN call.args.fields
  <2>1. v = Absent
    BY <1>3 DEF Field
  <2>2. ~p.required
    BY <1>2, <1>3 DEF Declared, Conforms
  <2> QED
    BY <2>1, <2>2 DEF CliError
<1>4. CASE p.field \in DOMAIN call.args.fields
  <2>1. v = call.args.fields[p.field]
    BY <1>1, <1>4 DEF Field
  <2>2. Readings(Called(p.kind), v) # {}
    BY <1>2, <1>4, <2>1 DEF Declared, Conforms
  <2>3. v # Absent
    <3>1. Called(p.kind).type \in {"text", "natural", "number", "reference", "word"}
      BY <1>2, KindTypes DEF Called, Types
    <3> QED
      BY <2>2, <3>1, AbsentUnread
  <2>4. p.kind \notin {Reference, Natural} => Readings(p.kind, v) # {}
    BY <2>2 DEF Called
  <2>5. CliError(p, v) = "none" <=> Readings(p.kind, v) # {}
    BY <2>3 DEF CliError
  <2> QED
    BY <2>3, <2>4, <2>5
<1> QED
  BY <1>3, <1>4

\* A call that keeps to its schema is decoded by both programs if it can be
\* read, and refused by both if not.
LEMMA ConformingDecoded ==
  ASSUME NEW call, Conforms(call, CliSchemas)
  PROVE  /\ BrowserDecodes(call).error = "none" <=> Readable(call)
         /\ CliDecodes(call).error = "none" <=> Readable(call)
<1> DEFINE params == CliTools[call.name]
           V(i) == Field(call.args, params[i].field)
           f == [i \in DOMAIN params |-> CliError(params[i], V(i))]
<1>1. /\ call.type = "function" /\ call.args.json = "object"
      /\ call.name \in DOMAIN CliTools /\ call.name \notin Hidden
  BY SchemasDeclare DEF Conforms
<1>2. call.args # Malformed
  BY <1>1 DEF Malformed
<1>3. CliDecodes(call) = Read(params, f, call.args)
  BY <1>1, <1>2 DEF CliDecodes
<1>4. (\A i \in DOMAIN params : f[i] = "none") <=> Readable(call)
  BY ConformingArgument DEF Readable
<1>5. DOMAIN params \subseteq Nat
  BY <1>1, ParametersListed
<1> HIDE DEF params, f
<1>6. CliDecodes(call).error = "none" <=> Readable(call)
  <2>1. CASE Readable(call)
    <3>1. {i \in DOMAIN params : f[i] # "none"} = {}
      BY <1>4, <2>1
    <3>2. Read(params, f, call.args).error = "none"
      BY <3>1, ReadFine
    <3> QED
      BY <1>3, <2>1, <3>2
  <2>2. CASE ~Readable(call)
    <3>1. PICK i \in DOMAIN params : f[i] # "none"
      BY <1>4, <2>2
    <3>2. Read(params, f, call.args).error # "none"
      BY <1>5, <3>1, ReadWrong
    <3> QED
      BY <1>3, <2>2, <3>2
  <2> QED
    BY <2>1, <2>2
<1> QED
  BY <1>1, <1>6, DecodersAgree

\* Each call means the same in both programs, whatever the model may call and
\* whatever drafts it finds.
LEMMA CallsMeanTheSame == ToolCallsAgree
<1>1. Advertised
  BY SameSchemas, ConformingDecoded DEF Advertised
<1>2. ASSUME NEW d \in Decoded, NEW buf
      PROVE  LET browser == Outcome(d.name, d.browser, buf)
                 cli == Outcome(d.name, d.cli, buf)
             IN  /\ browser.error = "none" <=> cli.error = "none"
                 /\ browser.field = cli.field /\ browser.buffer = cli.buffer
                 /\ BrowserMutates(d.name, browser) <=> CliMutates(d.name, cli)
  <2>1. PICK call \in Common :
          d = [name |-> call.name, browser |-> BrowserDecodes(call), cli |-> CliDecodes(call)]
    BY DEF Decoded
  <2>2. /\ d.browser.error = "none" <=> d.cli.error = "none"
        /\ d.browser.field = d.cli.field /\ d.browser.args = d.cli.args
    BY <2>1, DecodersAgree DEF Common
  <2> QED
    BY <2>2, OutcomesAgree, MutationsAgree
<1> QED
  BY <1>1, <1>2 DEF ToolCallsAgree

\* Whatever the model may call and whatever is drafted: the browser and the
\* terminal decode the call alike, fail or succeed alike, leave the same drafts
\* and agree on whether they were changed; and a call as the schemas ask for it
\* is decoded by both or, if a reference or the number of a draft in it cannot be
\* read, refused by both (app_tools.rs and app.rs against tools.rs and llm_turn.rs).
THEOREM CallsAlwaysAgree == Spec => []ToolCallsAgree
BY CallsMeanTheSame, PTL

-----------------------------------------------------------------------------
(* The replay *)

\* f has the states that the first n entries go through.
Replays(entries, n, f) ==
  f = [k \in 0 .. n |-> IF k = 0 THEN EmptyState ELSE Reduce(f[k - 1], entries[k])]

\* There are such states, and Replay is the last of them.
LEMMA ReplaysExist ==
  ASSUME NEW entries, NEW n \in Nat
  PROVE  \E f : Replays(entries, n, f)
<1> DEFINE Missing == {k \in Nat : ~ \E f : Replays(entries, k, f)}
<1>1. SUFFICES ASSUME Missing # {} PROVE FALSE
  OBVIOUS
<1>2. PICK m \in Missing : \A k \in Missing : m <= k
  BY <1>1, LeastExists
<1>3. CASE m = 0
  <2>1. Replays(entries, 0, [k \in 0 .. 0 |-> EmptyState])
    BY DEF Replays
  <2> QED  BY <1>2, <1>3, <2>1
<1>4. CASE m # 0
  <2>1. m - 1 \in Nat /\ m - 1 \notin Missing
    BY <1>2, <1>4
  <2>2. PICK f : Replays(entries, m - 1, f)
    BY <2>1
  <2> DEFINE g == [k \in 0 .. m |-> IF k = m THEN Reduce(f[m - 1], entries[m]) ELSE f[k]]
  <2>3. /\ \A k \in 0 .. m - 1 : f[k] = IF k = 0 THEN EmptyState ELSE Reduce(f[k - 1], entries[k])
        /\ m \in Nat /\ m > 0
    BY <1>4, <2>2 DEF Replays
  <2>4. ASSUME NEW k \in 0 .. m
        PROVE  g[k] = IF k = 0 THEN EmptyState ELSE Reduce(g[k - 1], entries[k])
    <3>1. CASE k = m
      <4>1. m - 1 \in 0 .. m /\ m - 1 # m /\ g[m - 1] = f[m - 1]
        BY <2>3
      <4> QED  BY <2>3, <3>1, <4>1
    <3>2. CASE k = 0
      BY <2>3, <3>2
    <3>3. CASE k # m /\ k # 0
      <4>1. k - 1 \in 0 .. m /\ k - 1 # m /\ k \in 0 .. m - 1
        BY <2>3, <3>3
      <4> QED  BY <2>3, <3>3, <4>1
    <3> QED  BY <3>1, <3>2, <3>3
  <2>5. DOMAIN g = 0 .. m /\ g = [k \in 0 .. m |-> g[k]]
    OBVIOUS
  <2> HIDE DEF g
  <2>6. Replays(entries, m, g)
    BY <2>4, <2>5 DEF Replays
  <2> QED  BY <1>2, <2>6
<1> QED  BY <1>3, <1>4

\* Replay is the last of the states.
LEMMA ReplayIs ==
  ASSUME NEW entries, Len(entries) \in Nat
  PROVE  \E f : Replays(entries, Len(entries), f) /\ Replay(entries) = f[Len(entries)]
<1>1. \E f : Replays(entries, Len(entries), f)
  BY ReplaysExist
<1>2. Replay(entries)
        = (CHOOSE f : f = [k \in 0 .. Len(entries) |->
             IF k = 0 THEN EmptyState ELSE Reduce(f[k - 1], entries[k])])[Len(entries)]
  BY DEF Replay
<1>3. \E f : f = [k \in 0 .. Len(entries) |->
                    IF k = 0 THEN EmptyState ELSE Reduce(f[k - 1], entries[k])]
  BY <1>1 DEF Replays
<1> QED  BY <1>2, <1>3 DEF Replays

\* Logs that begin alike go through the same states there.
LEMMA SameStates ==
  ASSUME NEW one, NEW other, NEW m \in Nat, NEW n \in Nat, NEW f, NEW g,
         Replays(one, m, f), Replays(other, n, g),
         NEW j \in Nat, j <= m, j <= n, \A k \in 1 .. j : one[k] = other[k]
  PROVE  f[j] = g[j]
<1> DEFINE Differ == {k \in Nat : k <= j /\ f[k] # g[k]}
<1>1. SUFFICES ASSUME Differ # {} PROVE FALSE
  OBVIOUS
<1>2. PICK k \in Differ : \A l \in Differ : k <= l
  BY <1>1, LeastExists
<1>3. k \in Nat /\ k <= j /\ k \in 0 .. m /\ k \in 0 .. n /\ f[k] # g[k]
  BY <1>2
<1>4. /\ f[k] = IF k = 0 THEN EmptyState ELSE Reduce(f[k - 1], one[k])
      /\ g[k] = IF k = 0 THEN EmptyState ELSE Reduce(g[k - 1], other[k])
  BY <1>3 DEF Replays
<1>5. k # 0
  BY <1>3, <1>4
<1>6. k - 1 \in Nat /\ k - 1 <= j /\ ~(k <= k - 1) /\ one[k] = other[k]
  BY <1>3, <1>5
<1>7. f[k - 1] = g[k - 1]
  BY <1>2, <1>6
<1> QED  BY <1>3, <1>4, <1>5, <1>6, <1>7

\* The states of a log are the replays of its beginnings; one entry more takes
\* the last of them a step further.
LEMMA ReplayStates ==
  ASSUME NEW S, NEW entries \in Seq(S), NEW f, Replays(entries, Len(entries), f)
  PROVE  /\ \A i \in 1 .. Len(entries) : f[i] = Replay(SubSeq(entries, 1, i))
         /\ Replay(entries) = f[Len(entries)]
         /\ \A e \in S : Replay(Append(entries, e)) = Reduce(f[Len(entries)], e)
<1> DEFINE n == Len(entries)
<1>1. n \in Nat
  OBVIOUS
<1>2. ASSUME NEW i \in 1 .. n
      PROVE  f[i] = Replay(SubSeq(entries, 1, i))
  <2> DEFINE t == SubSeq(entries, 1, i)
  <2>1. Len(t) = i /\ i \in Nat /\ i <= n /\ i <= i /\ \A k \in 1 .. i : t[k] = entries[k]
    BY <1>1
  <2> HIDE DEF t, n
  <2>2. PICK g : Replays(t, i, g) /\ Replay(t) = g[i]
    BY <2>1, ReplayIs
  <2>3. g[i] = f[i]
    BY <1>1, <2>1, <2>2, SameStates DEF n
  <2> QED  BY <2>2, <2>3 DEF t
<1>3. Replay(entries) = f[n]
  <2>1. PICK g : Replays(entries, n, g) /\ Replay(entries) = g[n]
    BY <1>1, ReplayIs
  <2>2. g[n] = f[n]
    <3>1. n <= n /\ \A k \in 1 .. n : entries[k] = entries[k]
      BY <1>1
    <3> HIDE DEF n
    <3> QED  BY <1>1, <2>1, <3>1, SameStates DEF n
  <2> QED  BY <2>1, <2>2
<1>4. ASSUME NEW e \in S
      PROVE  Replay(Append(entries, e)) = Reduce(f[n], e)
  <2> DEFINE t == Append(entries, e)
  <2>1. /\ Len(t) = n + 1 /\ n + 1 \in Nat /\ n <= n + 1 /\ n <= n
        /\ t[n + 1] = e /\ \A k \in 1 .. n : t[k] = entries[k]
    BY <1>1
  <2> HIDE DEF t, n
  <2>2. PICK g : Replays(t, n + 1, g) /\ Replay(t) = g[n + 1]
    BY <2>1, ReplayIs
  <2>3. g[n] = f[n]
    BY <1>1, <2>1, <2>2, SameStates DEF n
  <2>4. n + 1 \in 0 .. n + 1 /\ n + 1 # 0 /\ n + 1 - 1 = n
    BY <1>1
  <2>5. g[n + 1] = Reduce(g[n], e)
    BY <2>1, <2>2, <2>4, SMTT(30) DEF Replays
  <2> QED  BY <2>2, <2>3, <2>5 DEF t
<1> QED  BY <1>2, <1>3, <1>4 DEF n

-----------------------------------------------------------------------------
(* Repeated entries *)

\* What the reducer keeps of a relation, and the relations of all entries.
RelationOf(e) == [source |-> e.source, target |-> e.target, kind |-> e.kind]
Relations == {RelationOf(e) : e \in OtherEntries}

Shaped(s) ==
  /\ s = [claims |-> s.claims, relations |-> s.relations, stances |-> s.stances]
  /\ \A c \in DOMAIN s.claims :
       s.claims[c] = [author |-> s.claims[c].author, kind |-> s.claims[c].kind,
                      parent |-> s.claims[c].parent, resolution |-> s.claims[c].resolution]
StateOK(s) == Shaped(s) /\ s.relations \in Seq(Relations)

\* What a state still has of an entry.
Kept(e, s) ==
  /\ e.type = "claim" => e.id \in DOMAIN s.claims
  /\ e.type = "relation" => \E r \in DOMAIN s.relations : s.relations[r] = RelationOf(e)
  /\ e.type = "stance" => /\ <<e.target, e.author>> \in DOMAIN s.stances
                          /\ s.stances[<<e.target, e.author>>] = e.position
  /\ e.type = "resolve" => /\ e.claim \in DOMAIN s.claims
                           /\ s.claims[e.claim].resolution # NoResolution

\* The other entry is a stance of the same author on the same claim.
Overtakes(other, e) ==
  /\ e.type = "stance" /\ other.type = "stance"
  /\ other.target = e.target /\ other.author = e.author

\* What the reducer does with each type of entry.
LEMMA ReduceCases ==
  ASSUME NEW s, NEW e
  PROVE  /\ e.type = "claim" => Reduce(s, e) = ReduceClaim(s, e)
         /\ e.type = "relation" => Reduce(s, e) = ReduceRelation(s, e)
         /\ e.type = "stance" => Reduce(s, e) = ReduceStance(s, e)
         /\ e.type = "resolve" => Reduce(s, e) = ReduceResolve(s, e)
         /\ e.type = "comment" => Reduce(s, e) = s
BY DEF Reduce

\* Who resolved a claim, and how, is more than nothing.
LEMMA Resolutions == \A outcome, author : <<outcome, author>> # NoResolution
BY DEF NoResolution

\* A new claim is put under its id.
LEMMA ClaimReduced ==
  ASSUME NEW s, Shaped(s), NEW e, e.type = "claim", e.id \notin DOMAIN s.claims
  PROVE  Reduce(s, e) =
           [claims |-> Put(s.claims, e.id,
                         [author |-> e.author, kind |-> e.kind, parent |-> e.parent,
                          resolution |-> NoResolution]),
            relations |-> s.relations, stances |-> s.stances]
BY ReduceCases DEF ReduceClaim, Shaped

\* A relation is appended.
LEMMA RelationReduced ==
  ASSUME NEW s, Shaped(s), NEW e, e.type = "relation"
  PROVE  Reduce(s, e) =
           [claims |-> s.claims, relations |-> Append(s.relations, RelationOf(e)),
            stances |-> s.stances]
BY ReduceCases DEF ReduceRelation, Shaped, RelationOf

\* A stance is put in its place.
LEMMA StanceReduced ==
  ASSUME NEW s, Shaped(s), NEW e, e.type = "stance"
  PROVE  Reduce(s, e) =
           [claims |-> s.claims, relations |-> s.relations,
            stances |-> Put(s.stances, <<e.target, e.author>>, e.position)]
BY ReduceCases DEF ReduceStance, Shaped

\* Of the claim resolved the resolution changes.
LEMMA ResolveReduced ==
  ASSUME NEW s, Shaped(s), NEW e, e.type = "resolve", e.claim \in DOMAIN s.claims
  PROVE  LET t == Reduce(s, e)
         IN  /\ t.relations = s.relations /\ t.stances = s.stances
             /\ t = [claims |-> t.claims, relations |-> s.relations, stances |-> s.stances]
             /\ DOMAIN t.claims = DOMAIN s.claims
             /\ \A c \in DOMAIN s.claims :
                  t.claims[c] = [author |-> s.claims[c].author, kind |-> s.claims[c].kind,
                                 parent |-> s.claims[c].parent,
                                 resolution |-> t.claims[c].resolution]
             /\ \A c \in DOMAIN s.claims :
                  t.claims[c].resolution = IF c = e.claim THEN <<e.outcome, e.author>>
                                           ELSE s.claims[c].resolution
<1>1. Reduce(s, e) = [s EXCEPT !.claims[e.claim].resolution = <<e.outcome, e.author>>]
  BY ReduceCases DEF ReduceResolve
<1>2. [s EXCEPT !.claims[e.claim].resolution = <<e.outcome, e.author>>] =
        [s EXCEPT !.claims =
           [s.claims EXCEPT ![e.claim] = [s.claims[e.claim] EXCEPT !.resolution = <<e.outcome, e.author>>]]]
  OBVIOUS
<1> DEFINE claim == [s.claims[e.claim] EXCEPT !.resolution = <<e.outcome, e.author>>]
           claims == [s.claims EXCEPT ![e.claim] = claim]
<1>3. Reduce(s, e) = [claims |-> claims, relations |-> s.relations, stances |-> s.stances]
  BY <1>1, <1>2 DEF Shaped
<1>4. claim = [author |-> s.claims[e.claim].author, kind |-> s.claims[e.claim].kind,
               parent |-> s.claims[e.claim].parent, resolution |-> <<e.outcome, e.author>>]
  BY DEF Shaped
<1>5. /\ DOMAIN claims = DOMAIN s.claims
      /\ \A c \in DOMAIN s.claims : claims[c] = IF c = e.claim THEN claim ELSE s.claims[c]
  OBVIOUS
<1> HIDE DEF claims
<1>6. \A c \in DOMAIN s.claims :
        claims[c].resolution = IF c = e.claim THEN <<e.outcome, e.author>> ELSE s.claims[c].resolution
  BY <1>4, <1>5 DEF claim
<1>7. ASSUME NEW c \in DOMAIN s.claims
      PROVE  claims[c] = [author |-> s.claims[c].author, kind |-> s.claims[c].kind,
                          parent |-> s.claims[c].parent, resolution |-> claims[c].resolution]
  <2>1. CASE c = e.claim
    BY <1>4, <1>5, <2>1 DEF claim
  <2>2. CASE c # e.claim
    BY <1>5, <2>2 DEF Shaped
  <2> QED  BY <2>1, <2>2
<1>8. Reduce(s, e).claims = claims
  BY <1>3
<1> QED  BY <1>3, <1>5, <1>6, <1>7, <1>8

\* An entry keeps the state one, adds claims, and what is kept of an earlier
\* entry it leaves, unless it overtakes it.
LEMMA ReduceKeeps ==
  ASSUME NEW s, StateOK(s), NEW e \in OtherEntries, NEW early
  PROVE  /\ StateOK(Reduce(s, e)) /\ DOMAIN s.claims \subseteq DOMAIN Reduce(s, e).claims
         /\ Kept(early, s) /\ ~Overtakes(e, early) => Kept(early, Reduce(s, e))
<1>1. CASE e.type = "claim" /\ e.id \in DOMAIN s.claims
  BY <1>1, ReduceCases DEF ReduceClaim
<1>2. CASE e.type = "claim" /\ e.id \notin DOMAIN s.claims
  <2> DEFINE claim == [author |-> e.author, kind |-> e.kind, parent |-> e.parent,
                       resolution |-> NoResolution]
             claims == Put(s.claims, e.id, claim)
  <2>1. /\ DOMAIN claims = DOMAIN s.claims \union {e.id} /\ claims[e.id] = claim
        /\ \A c \in DOMAIN s.claims : claims[c] = s.claims[c]
    BY <1>2 DEF Put
  <2>2. Reduce(s, e) = [claims |-> claims, relations |-> s.relations, stances |-> s.stances]
    BY <1>2, ClaimReduced DEF StateOK
  <2>3. claim = [author |-> claim.author, kind |-> claim.kind, parent |-> claim.parent,
                 resolution |-> claim.resolution]
    OBVIOUS
  <2> HIDE DEF claim, claims
  <2>4. StateOK(Reduce(s, e))
    BY <2>1, <2>2, <2>3 DEF StateOK, Shaped
  <2> QED  BY <2>1, <2>2, <2>4 DEF Kept
<1>3. CASE e.type = "relation"
  <2>1. RelationOf(e) \in Relations
    BY DEF Relations
  <2>2. PICK q \in Seq(Relations) : q = s.relations
    BY DEF StateOK, Shaped
  <2>3. /\ Append(q, RelationOf(e)) \in Seq(Relations)
        /\ \A r \in DOMAIN q : r \in DOMAIN Append(q, RelationOf(e))
                               /\ Append(q, RelationOf(e))[r] = q[r]
    BY <2>1
  <2>4. Reduce(s, e) = [claims |-> s.claims, relations |-> Append(q, RelationOf(e)),
                        stances |-> s.stances]
    BY <1>3, <2>2, RelationReduced DEF StateOK
  <2>5. StateOK(Reduce(s, e))
    BY <2>3, <2>4 DEF StateOK, Shaped
  <2> QED  BY <2>2, <2>3, <2>4, <2>5 DEF Kept
<1>4. CASE e.type = "stance"
  <2> DEFINE key == <<e.target, e.author>>
             stances == Put(s.stances, key, e.position)
  <2>1. Reduce(s, e) = [claims |-> s.claims, relations |-> s.relations, stances |-> stances]
    BY <1>4, StanceReduced DEF StateOK
  <2>2. /\ DOMAIN s.stances \subseteq DOMAIN stances
        /\ \A k \in DOMAIN s.stances : k # key => stances[k] = s.stances[k]
    BY DEF Put
  <2>3. <<early.target, early.author>> = key => early.target = e.target /\ early.author = e.author
    OBVIOUS
  <2> HIDE DEF stances
  <2>4. StateOK(Reduce(s, e))
    BY <2>1 DEF StateOK, Shaped
  <2>5. Kept(early, s) /\ ~Overtakes(e, early) => Kept(early, Reduce(s, e))
    <3> HIDE DEF key
    <3>1. early.type = "stance" /\ ~Overtakes(e, early) => <<early.target, early.author>> # key
      BY <1>4, <2>3 DEF Overtakes
    <3> QED  BY <2>1, <2>2, <3>1 DEF Kept
  <2> QED  BY <2>1, <2>4, <2>5
<1>5. CASE e.type = "resolve" /\ e.claim \in DOMAIN s.claims
  <2> DEFINE t == Reduce(s, e)
  <2>1. /\ t = [claims |-> t.claims, relations |-> s.relations, stances |-> s.stances]
        /\ t.relations = s.relations /\ t.stances = s.stances
        /\ DOMAIN t.claims = DOMAIN s.claims
        /\ \A c \in DOMAIN s.claims :
             t.claims[c] = [author |-> s.claims[c].author, kind |-> s.claims[c].kind,
                            parent |-> s.claims[c].parent,
                            resolution |-> t.claims[c].resolution]
        /\ \A c \in DOMAIN s.claims :
             t.claims[c].resolution = IF c = e.claim THEN <<e.outcome, e.author>>
                                      ELSE s.claims[c].resolution
    BY <1>5, ResolveReduced DEF StateOK
  <2> HIDE DEF t
  <2>2. StateOK(t)
    <3>1. ASSUME NEW c \in DOMAIN s.claims
          PROVE  t.claims[c] = [author |-> t.claims[c].author, kind |-> t.claims[c].kind,
                                parent |-> t.claims[c].parent,
                                resolution |-> t.claims[c].resolution]
      <4>1. PICK author, kind, parent, resolution :
              t.claims[c] = [author |-> author, kind |-> kind, parent |-> parent,
                             resolution |-> resolution]
        BY <2>1
      <4> QED  BY <4>1
    <3> QED  BY <2>1, <3>1 DEF StateOK, Shaped
  <2>3. \A c \in DOMAIN s.claims :
          s.claims[c].resolution # NoResolution => t.claims[c].resolution # NoResolution
    BY <2>1, Resolutions
  <2>4. Kept(early, s) => Kept(early, t)
    BY <2>1, <2>3 DEF Kept
  <2> QED  BY <2>1, <2>2, <2>4 DEF t
<1>6. CASE e.type = "resolve" /\ e.claim \notin DOMAIN s.claims
  BY <1>6, ReduceCases DEF ReduceResolve
<1>7. CASE e.type = "comment"
  BY <1>7, ReduceCases
<1> QED
  BY <1>1, <1>2, <1>3, <1>4, <1>5, <1>6, <1>7, EntriesAssumption DEF EntryTypes

\* An entry that was just applied is kept, unless it resolves no claim.
LEMMA AppliedIsKept ==
  ASSUME NEW s, StateOK(s), NEW e \in OtherEntries,
         e.type = "resolve" => e.claim \in DOMAIN Reduce(s, e).claims
  PROVE  Kept(e, Reduce(s, e))
<1>1. CASE e.type = "claim" /\ e.id \in DOMAIN s.claims
  BY <1>1, ReduceCases DEF ReduceClaim, Kept
<1>2. CASE e.type = "claim" /\ e.id \notin DOMAIN s.claims
  <2> DEFINE claim == [author |-> e.author, kind |-> e.kind, parent |-> e.parent,
                       resolution |-> NoResolution]
             claims == Put(s.claims, e.id, claim)
  <2>1. Reduce(s, e) = [claims |-> claims, relations |-> s.relations, stances |-> s.stances]
    BY <1>2, ClaimReduced DEF StateOK
  <2>2. e.id \in DOMAIN claims
    BY DEF Put
  <2> HIDE DEF claims
  <2> QED  BY <1>2, <2>1, <2>2 DEF Kept
<1>3. CASE e.type = "relation"
  <2>1. PICK q \in Seq(Relations) : q = s.relations
    BY DEF StateOK, Shaped
  <2>2. RelationOf(e) \in Relations
    BY DEF Relations
  <2>3. \E r \in DOMAIN Append(q, RelationOf(e)) : Append(q, RelationOf(e))[r] = RelationOf(e)
    <3>1. /\ Len(q) + 1 \in DOMAIN Append(q, RelationOf(e))
          /\ Append(q, RelationOf(e))[Len(q) + 1] = RelationOf(e)
      BY <2>2
    <3> QED  BY <3>1
  <2>4. Reduce(s, e).relations = Append(q, RelationOf(e))
    BY <1>3, <2>1, RelationReduced DEF StateOK
  <2> QED  BY <1>3, <2>3, <2>4 DEF Kept
<1>4. CASE e.type = "stance"
  <2> DEFINE key == <<e.target, e.author>>
  <2>1. Reduce(s, e).stances = Put(s.stances, key, e.position)
    BY <1>4, StanceReduced DEF StateOK
  <2> HIDE DEF key
  <2>2. /\ key \in DOMAIN Reduce(s, e).stances
        /\ Reduce(s, e).stances[key] = e.position
    BY <2>1 DEF Put
  <2> QED  BY <1>4, <2>2 DEF Kept, key
<1>5. CASE e.type = "resolve"
  <2>1. e.claim \in DOMAIN s.claims
    <3>1. e.claim \notin DOMAIN s.claims => Reduce(s, e) = s
      BY <1>5, ReduceCases DEF ReduceResolve
    <3> QED  BY <1>5, <3>1
  <2>2. Reduce(s, e).claims[e.claim].resolution = <<e.outcome, e.author>>
    BY <1>5, <2>1, ResolveReduced DEF StateOK
  <2> QED  BY <1>5, <2>2, Resolutions DEF Kept
<1>6. CASE e.type = "comment"
  BY <1>6 DEF Kept
<1> QED
  BY <1>1, <1>2, <1>3, <1>4, <1>5, <1>6, EntriesAssumption DEF EntryTypes

\* An entry of which all is kept changes no status when it comes again.
LEMMA KeptIsHarmless ==
  ASSUME NEW s, StateOK(s), NEW e \in OtherEntries, Kept(e, s)
  PROVE  Statuses(Reduce(s, e)) = Statuses(s)
<1> DEFINE t == Reduce(s, e)
<1>1. CASE e.type = "claim"
  BY <1>1, ReduceCases DEF ReduceClaim, Kept
<1>2. CASE e.type = "comment"
  BY <1>2, ReduceCases
<1>3. CASE e.type = "relation"
  <2>1. PICK q \in Seq(Relations) : q = s.relations
    BY DEF StateOK, Shaped
  <2>2. RelationOf(e) \in Relations /\ \E r \in DOMAIN q : q[r] = RelationOf(e)
    BY <1>3, <2>1 DEF Relations, Kept
  <2>3. t = [claims |-> s.claims, relations |-> Append(q, RelationOf(e)), stances |-> s.stances]
    BY <1>3, <2>1, RelationReduced DEF StateOK
  <2>4. ASSUME NEW x
        PROVE  (\E r \in DOMAIN t.relations : t.relations[r] = x) <=>
               (\E r \in DOMAIN s.relations : s.relations[r] = x)
    <3>0. Append(q, RelationOf(e)) \in Seq(Relations)
      BY <2>2
    <3>1. PICK p \in Seq(Relations) : p = Append(q, RelationOf(e))
      BY <3>0
    <3>2. /\ Len(q) \in Nat /\ DOMAIN q = 1 .. Len(q) /\ DOMAIN p = 1 .. (Len(q) + 1)
          /\ p[Len(q) + 1] = RelationOf(e) /\ \A r \in 1 .. Len(q) : p[r] = q[r]
      BY <2>2, <3>1
    <3>3. t.relations = p
      BY <2>3, <3>1
    <3> HIDE DEF t
    <3>4. (\E r \in DOMAIN p : p[r] = x) <=> (\E r \in DOMAIN q : q[r] = x)
      BY <2>2, <3>2
    <3> QED  BY <2>1, <3>3, <3>4
  <2>5. Active(t) = Active(s)
    BY <2>3 DEF Active
  <2> HIDE DEF t
  <2>6. AttackedBy(t) = AttackedBy(s)
    BY <2>4, <2>5 DEF AttackedBy
  <2>7. \A c : StancesOn(t, c) = StancesOn(s, c)
    BY <2>3 DEF StancesOn
  <2> QED  BY <2>5, <2>6, <2>7 DEF Statuses, StatusesFrom, t
<1>4. CASE e.type = "stance"
  <2>1. t = [claims |-> s.claims, relations |-> s.relations,
             stances |-> Put(s.stances, <<e.target, e.author>>, e.position)]
    BY <1>4, StanceReduced DEF StateOK
  <2>2. <<e.target, e.author>> \in DOMAIN s.stances
        /\ s.stances[<<e.target, e.author>>] = e.position
    BY <1>4 DEF Kept
  <2>3. DOMAIN t.stances = DOMAIN s.stances /\ \A k \in DOMAIN s.stances : t.stances[k] = s.stances[k]
    <3> DEFINE key == <<e.target, e.author>>
               stances == Put(s.stances, key, e.position)
    <3>1. /\ DOMAIN stances = DOMAIN s.stances \union {key} /\ stances[key] = e.position
          /\ \A k \in DOMAIN s.stances : k # key => stances[k] = s.stances[k]
      <4> HIDE DEF key
      <4> QED  BY DEF Put
    <3>2. key \in DOMAIN s.stances /\ s.stances[key] = e.position /\ t.stances = stances
      BY <2>1, <2>2
    <3> HIDE DEF key, stances, t
    <3> QED  BY <3>1, <3>2
  <2>4. Active(t) = Active(s) /\ AttackedBy(t) = AttackedBy(s)
    BY <2>1 DEF Active, AttackedBy
  <2> HIDE DEF t
  <2>5. \A c : StancesOn(t, c) = StancesOn(s, c)
    BY <2>3 DEF StancesOn
  <2> QED  BY <2>4, <2>5 DEF Statuses, StatusesFrom, t
<1>5. CASE e.type = "resolve"
  <2>1. e.claim \in DOMAIN s.claims /\ s.claims[e.claim].resolution # NoResolution
    BY <1>5 DEF Kept
  <2>2. /\ t.relations = s.relations /\ t.stances = s.stances
        /\ DOMAIN t.claims = DOMAIN s.claims
        /\ \A c \in DOMAIN s.claims :
             t.claims[c].resolution = IF c = e.claim THEN <<e.outcome, e.author>>
                                      ELSE s.claims[c].resolution
    BY <1>5, <2>1, ResolveReduced DEF StateOK
  <2> HIDE DEF t
  <2>3. \A c \in DOMAIN s.claims :
          t.claims[c].resolution = NoResolution <=> s.claims[c].resolution = NoResolution
    BY <2>1, <2>2, Resolutions
  <2>4. Active(t) = Active(s)
    BY <2>2, <2>3 DEF Active
  <2>5. AttackedBy(t) = AttackedBy(s)
    BY <2>2, <2>4 DEF AttackedBy
  <2>6. \A c : StancesOn(t, c) = StancesOn(s, c)
    BY <2>2 DEF StancesOn
  <2> QED  BY <2>4, <2>5, <2>6 DEF Statuses, StatusesFrom, t
<1> QED
  BY <1>1, <1>2, <1>3, <1>4, <1>5, EntriesAssumption DEF EntryTypes

\* From the entry on to the end of the log every state has what it said, and
\* so its repetition changes no status.
LEMMA RepeatedOnce ==
  ASSUME log \in Seq(OtherEntries), NEW i \in DOMAIN log, ~Overtaken(i)
  PROVE  Statuses(Replay(Append(log, log[i]))) = Statuses(Replay(log))
<1> DEFINE n == Len(log)
<1>1. /\ n \in Nat /\ i \in 1 .. n /\ \A k \in 1 .. n : log[k] \in OtherEntries
      /\ i \in Nat /\ i # 0 /\ i <= n
  OBVIOUS
<1>2. PICK f : Replays(log, n, f) /\ Replay(log) = f[n]
  BY <1>1, ReplayIs
<1>3. /\ f[i] = Replay(SubSeq(log, 1, i))
      /\ Replay(Append(log, log[i])) = Reduce(f[n], log[i])
  BY <1>1, <1>2, ReplayStates
<1>4. /\ f[0] = EmptyState
      /\ \A k \in Nat : k # 0 /\ k <= n => f[k] = Reduce(f[k - 1], log[k])
  <2> HIDE DEF n
  <2>1. 0 \in 0 .. n /\ \A k \in Nat : k # 0 /\ k <= n => k \in 0 .. n
    BY <1>1
  <2> QED  BY <1>2, <2>1 DEF Replays
<1>5. StateOK(EmptyState)
  BY DEF StateOK, Shaped, EmptyState, EmptyMap
<1>6. /\ log[i].type = "resolve" => log[i].claim \in DOMAIN f[i].claims
      /\ \A j \in 1 .. n : j > i => ~Overtakes(log[j], log[i])
  BY <1>1, <1>3 DEF Overtaken, Overtakes
<1> HIDE DEF n
<1>7. ASSUME NEW k \in Nat, k <= n
      PROVE  StateOK(f[k]) /\ (k >= i => Kept(log[i], f[k]))
  <2> DEFINE Good(m) == StateOK(f[m]) /\ (m >= i => Kept(log[i], f[m]))
             Bad == {m \in Nat : m <= n /\ ~Good(m)}
  <2>1. SUFFICES ASSUME Bad # {} PROVE FALSE
    BY <1>7
  <2>2. PICK m \in Bad : \A l \in Bad : m <= l
    BY <2>1, LeastExists
  <2>3. m # 0
    BY <1>1, <1>4, <1>5, <2>2
  <2>4. m - 1 \in Nat /\ m \in Nat /\ m <= n /\ m - 1 <= n /\ m \in 1 .. n /\ ~(m <= m - 1)
    BY <1>1, <2>2, <2>3
  <2>5. Good(m - 1)
    BY <2>2, <2>4
  <2>6. f[m] = Reduce(f[m - 1], log[m]) /\ log[m] \in OtherEntries
    BY <1>1, <1>4, <2>3, <2>4
  <2>7. StateOK(f[m])
    BY <2>5, <2>6, ReduceKeeps
  <2>8. CASE m = i
    <3>1. Kept(log[i], f[m])
      BY <1>6, <2>5, <2>6, <2>8, AppliedIsKept
    <3> QED  BY <2>2, <2>7, <3>1
  <2>9. CASE m > i
    <3>1. m - 1 >= i /\ ~Overtakes(log[m], log[i])
      BY <1>1, <1>6, <2>4, <2>9
    <3>2. Kept(log[i], f[m])
      BY <2>5, <2>6, <3>1, ReduceKeeps
    <3> QED  BY <2>2, <2>7, <3>2
  <2>10. CASE m < i
    BY <1>1, <2>2, <2>7, <2>10
  <2> QED  BY <1>1, <2>4, <2>8, <2>9, <2>10
<1>8. StateOK(f[n]) /\ Kept(log[i], f[n])
  <2>1. n \in Nat /\ n <= n /\ n >= i
    BY <1>1
  <2> QED  BY <1>7, <2>1
<1> QED
  BY <1>1, <1>2, <1>3, <1>8, KeptIsHarmless

LogOK == log \in Seq(OtherEntries)

\* The log has entries of the session only.
LEMMA LogStep ==
  ASSUME LogOK, [Next]_vars
  PROVE  LogOK'
<1>1. ASSUME NEW e \in OtherEntries, EntryCommitted(e) PROVE LogOK'
  BY <1>1 DEF EntryCommitted, LogOK
<1>2. log' = log \/ \E e \in OtherEntries : EntryCommitted(e)
  BY DEF Next, vars, DraftTool, DraftClaimRequested, RemoveDraftTool, RemoveDraftRequested,
         SubmitDrafts, ClearDrafts, QueryCommitted, QueryPreview, Query, Visit, NextPass,
         Solved, Answer
<1> QED  BY <1>1, <1>2 DEF LogOK

\* RepeatHarmless: an entry that is in the log twice, because a submission was
\* resumed after a lost connection, changes no status, for every log and every
\* entry in it, unless its author has changed the stance since or the entry
\* resolves a claim that came later (reducer.rs).
THEOREM RepeatAlwaysHarmless == Spec => []RepeatHarmless
<1>1. Init => LogOK
  BY DEF Init, LogOK
<1>2. LogOK /\ [Next]_vars => LogOK'
  BY LogStep
<1>3. LogOK => RepeatHarmless
  BY RepeatedOnce DEF RepeatHarmless, LogOK
<1> QED
  BY <1>1, <1>2, <1>3, PTL DEF Spec

-----------------------------------------------------------------------------
(* Lists *)

\* A sequence of whatever is a list.
LEMMA SequenceIsList ==
  ASSUME NEW S, NEW s \in Seq(S)
  PROVE  IsList(s)
<1>1. s \in [1 .. Len(s) -> ToSet(s)] /\ Len(s) \in Nat
  BY DEF ToSet
<1> QED
  BY <1>1 DEF IsList

\* A list has as many elements as it is long.
LEMMA ListFacts ==
  ASSUME NEW s, IsList(s)
  PROVE  /\ Len(s) \in Nat /\ DOMAIN s = 1 .. Len(s)
         /\ \A i \in 1 .. Len(s) : s[i] \in ToSet(s)
BY DEF IsList

\* The empty list.
LEMMA EmptyList == IsList(<< >>) /\ Len(<< >>) = 0 /\ DOMAIN << >> = {}
BY DEF IsList

\* A list grows at its end.
LEMMA ListAppended ==
  ASSUME NEW s, IsList(s), NEW x
  PROVE  /\ IsList(Append(s, x)) /\ Append(s, x) # << >>
         /\ Len(Append(s, x)) = Len(s) + 1 /\ Append(s, x)[Len(s) + 1] = x
         /\ \A i \in 1 .. Len(s) : Append(s, x)[i] = s[i]
<1> DEFINE S == ToSet(s) \union {x}
<1>1. s \in Seq(S) /\ x \in S /\ Len(s) \in Nat
  BY ListFacts DEF IsList
<1> HIDE DEF S
<1>2. Append(s, x) \in Seq(S) /\ Len(Append(s, x)) = Len(s) + 1
  BY <1>1
<1>3. Append(s, x)[Len(s) + 1] = x /\ \A i \in 1 .. Len(s) : Append(s, x)[i] = s[i]
  BY <1>1
<1>4. IsList(Append(s, x))
  BY <1>2, SequenceIsList
<1>5. Append(s, x) # << >>
  BY <1>1, <1>2
<1> QED
  BY <1>2, <1>3, <1>4, <1>5

-----------------------------------------------------------------------------
(* What is decoded *)

\* A value as a parameter has it.
ReadAs(p, v, x) ==
  IF v = Absent THEN ~p.required /\ x = NoRef ELSE x \in Readings(p.kind, v)

\* No tool has two parameters of a name.
LEMMA FieldsDiffer ==
  \A name \in DOMAIN CliTools : \A i, j \in DOMAIN CliTools[name] :
    CliTools[name][i].field = CliTools[name][j].field => i = j
<1> SUFFICES ASSUME NEW name \in Taking, NEW i \in DOMAIN CliTools[name],
                    NEW j \in DOMAIN CliTools[name],
                    CliTools[name][i].field = CliTools[name][j].field
             PROVE  i = j
  BY ToolNames
<1>1. CASE name \in {"claim_detail", "preview_claim_detail", "remove_draft"}
  BY <1>1, Parameters
<1>2. CASE name = "draft_claim"
  BY <1>2, Parameters, ParameterFields
<1>3. CASE name = "draft_relation"
  BY <1>3, Parameters, ParameterFields
<1>4. CASE name = "draft_stance"
  BY <1>4, Parameters, ParameterFields
<1>5. CASE name = "draft_resolve"
  BY <1>5, Parameters, ParameterFields
<1>6. CASE name = "draft_comment"
  BY <1>6, Parameters, ParameterFields
<1> QED
  BY <1>1, <1>2, <1>3, <1>4, <1>5, <1>6 DEF Taking

\* Arguments none of which is wrong are taken as they are.
LEMMA ReadTaken ==
  ASSUME NEW params, NEW errors, NEW args, {i \in DOMAIN params : errors[i] # "none"} = {}
  PROVE  Read(params, errors, args).args = Arguments(params, args)
<1>1. \A x : [error |-> "none", field |-> "", args |-> x].args = x
  OBVIOUS
<1>2. Read(params, errors, args) = [error |-> "none", field |-> "", args |-> Arguments(params, args)]
  BY DEF Read
<1> QED
  BY <1>1, <1>2, Zenon

\* The argument for a parameter.
LEMMA ArgumentIs ==
  ASSUME NEW params, NEW args, NEW i \in DOMAIN params,
         \A j \in DOMAIN params : params[j].field = params[i].field => j = i
  PROVE  LET v == Field(args, params[i].field)
         IN  Arguments(params, args)[params[i].field]
               = IF v = Absent THEN NoRef ELSE CHOOSE x \in Readings(params[i].kind, v) : TRUE
<1>1. (CHOOSE j \in DOMAIN params : params[j].field = params[i].field) = i
  OBVIOUS
<1> DEFINE Of(j, f) == LET v == Field(args, f)
                       IN  IF v = Absent THEN NoRef ELSE CHOOSE x \in Readings(params[j].kind, v) : TRUE
           At(f) == CHOOSE j \in DOMAIN params : params[j].field = f
<1>2. params[i].field \in {params[j].field : j \in DOMAIN params}
  OBVIOUS
<1>3. Arguments(params, args) = [f \in {params[j].field : j \in DOMAIN params} |-> Of(At(f), f)]
  BY DEF Arguments
<1>4. At(params[i].field) = i
  BY <1>1
<1> HIDE DEF Of, At
<1>5. Arguments(params, args)[params[i].field] = Of(i, params[i].field)
  BY <1>2, <1>3, <1>4
<1> QED
  BY <1>5 DEF Of

\* A call that is decoded has, for each parameter of its tool, what its argument
\* comes to.
LEMMA DecodedIs ==
  ASSUME NEW call, CliDecodes(call).error = "none"
  PROVE  /\ call.args # Malformed /\ call.name \in DOMAIN CliTools
         /\ \A i \in DOMAIN CliTools[call.name] :
              ReadAs(CliTools[call.name][i], Field(call.args, CliTools[call.name][i].field),
                     CliDecodes(call).args[CliTools[call.name][i].field])
<1> DEFINE params == CliTools[call.name]
           V(i) == Field(call.args, params[i].field)
           errors == [i \in DOMAIN params |-> CliError(params[i], V(i))]
           wrong == {i \in DOMAIN params : errors[i] # "none"}
<1>1. call.args # Malformed /\ call.name \in DOMAIN CliTools
  BY DEF CliDecodes, Rejected
<1>2. CliDecodes(call) = Read(params, errors, call.args)
  BY <1>1 DEF CliDecodes
<1>3. wrong = {}
  <2>1. SUFFICES ASSUME wrong # {} PROVE FALSE
    OBVIOUS
  <2>2. DOMAIN params \subseteq Nat
    BY <1>1, ParametersListed
  <2> DEFINE first == CHOOSE i \in wrong : \A j \in wrong : i <= j
  <2>3. first \in wrong
    BY <2>1, <2>2, LeastExists
  <2>4. Read(params, errors, call.args) = Rejected(errors[first], params[first].field)
    BY <2>1 DEF Read
  <2> HIDE DEF params, errors, first
  <2> QED
    BY <1>2, <2>3, <2>4 DEF Rejected
<1>4. CliDecodes(call).args = Arguments(params, call.args)
  <2> HIDE DEF params, errors
  <2> QED
    BY <1>2, <1>3, ReadTaken
<1>5. ASSUME NEW i \in DOMAIN params
      PROVE  ReadAs(params[i], V(i), Arguments(params, call.args)[params[i].field])
  <2>1. CliError(params[i], V(i)) = "none"
    BY <1>3
  <2>2. \A j \in DOMAIN params : params[j].field = params[i].field => j = i
    BY <1>1, FieldsDiffer
  <2> HIDE DEF params, errors
  <2>3. Arguments(params, call.args)[params[i].field]
          = IF V(i) = Absent THEN NoRef ELSE CHOOSE x \in Readings(params[i].kind, V(i)) : TRUE
    BY <2>2, ArgumentIs
  <2>4. CASE V(i) = Absent
    <3>1. params[i].kind.type \in Types
      BY <1>1, ParameterTypes DEF params
    <3>2. Readings(params[i].kind, V(i)) = {}
      BY <2>4, <3>1, AbsentUnread DEF Types
    <3>3. ~params[i].required
      BY <2>1, <2>4, <3>2 DEF CliError
    <3> QED
      BY <2>3, <2>4, <3>3 DEF ReadAs
  <2>5. CASE V(i) # Absent
    <3>1. Readings(params[i].kind, V(i)) # {}
      BY <2>1, <2>5 DEF CliError
    <3> QED
      BY <2>3, <2>5, <3>1 DEF ReadAs
  <2> QED
    BY <2>4, <2>5
<1> QED
  BY <1>1, <1>4, <1>5

\* A reference that a value can come to.
WellRef(ref) == \E x : ref = Committed(x) \/ ref = Draft(x)

\* What is read as a reference is one, or none at all.
LEMMA ReferenceShape ==
  ASSUME NEW v
  PROVE  ClaimRefOf(v) = NoRef \/ WellRef(ClaimRefOf(v))
BY DEF ClaimRefOf, WellRef

\* A reference is its kind and what it is to.
LEMMA RefParts ==
  ASSUME NEW x
  PROVE  /\ Committed(x)[1] = "committed" /\ Committed(x)[2] = x /\ Committed(x) # NoRef
         /\ Draft(x)[1] = "draft" /\ Draft(x)[2] = x /\ Draft(x) # NoRef
BY DEF Committed, Draft, NoRef

\* What the readings of each kind are.
LEMMA ReadingsAre ==
  ASSUME NEW v, NEW x
  PROVE  /\ x \in Readings(Text, v) => v.json = "string" /\ x = Literal(v)
         /\ x \in Readings(Reference, v) => x = ClaimRefOf(v) /\ WellRef(x) /\ x # NoRef
         /\ \A words : x \in Readings(OneOf(words), v) =>
              v.json = "string" /\ Literal(v) = <<"word", x>>
<1>1. x \in Readings(Text, v) => v.json = "string" /\ x = Literal(v)
  BY KindTypes DEF Readings
<1>2. x \in Readings(Reference, v) => x = ClaimRefOf(v) /\ WellRef(x) /\ x # NoRef
  BY KindTypes, ReferenceShape DEF Readings
<1>3. ASSUME NEW words, x \in Readings(OneOf(words), v)
      PROVE  v.json = "string" /\ Literal(v) = <<"word", x>>
  BY <1>3, KindTypes DEF Readings
<1> QED
  BY <1>1, <1>2, <1>3

\* The arguments that a confirmation tells of.
ToldFields ==
  [draft_claim |-> {"body"}, draft_relation |-> {"source", "target", "kind"},
   draft_stance |-> {"target", "position"}, draft_resolve |-> {"claim", "outcome"},
   draft_comment |-> {"body"}]

\* The draft that a decoded call makes is of the tool's type, its references can
\* be looked up, and it says what the arguments that are told of say.
MadeBy(entry, call) ==
  LET V(f) == Field(call.args, f)
      told == ToldFields[call.name]
  IN  /\ ToolFor[entry.type] = call.name
      /\ \A ref \in Refs(entry) : WellRef(ref)
      /\ \A f \in told \ RefFields :
           Literal(V(f)) = IF f = "body" THEN entry.body ELSE <<"word", entry[f]>>
      /\ \A f \in told \intersect RefFields :
           entry[f] = ClaimRefOf(V(f)) /\ WellRef(entry[f]) /\ entry[f] \in Refs(entry)

\* The draft a call makes has what its arguments say.
LEMMA DraftMade ==
  ASSUME NEW call, call.name \in DraftTools, CliDecodes(call).error = "none"
  PROVE  MadeBy(Content(call.name, CliDecodes(call).args), call)
<1> DEFINE a == CliDecodes(call).args
           entry == Content(call.name, a)
           V(f) == Field(call.args, f)
<1>1. \A i \in DOMAIN CliTools[call.name] :
        ReadAs(CliTools[call.name][i], V(CliTools[call.name][i].field), a[CliTools[call.name][i].field])
  BY DecodedIs
<1> HIDE DEF a, V
<1>2. ASSUME NEW f, NEW v, NEW x, NEW p, p \in {Need(f, Reference), May(f, Reference)}, ReadAs(p, v, x)
      PROVE  x = NoRef \/ WellRef(x)
  BY <1>2, ParameterFields, ReadingsAre DEF ReadAs
<1>3. ASSUME NEW f, NEW v, NEW x, ReadAs(Need(f, Reference), v, x)
      PROVE  x = ClaimRefOf(v) /\ WellRef(x) /\ x # NoRef
  BY <1>3, ParameterFields, ReadingsAre DEF ReadAs
<1>4. ASSUME NEW f, NEW v, NEW x, ReadAs(Need(f, Text), v, x)
      PROVE  x = Literal(v)
  BY <1>4, ParameterFields, ReadingsAre DEF ReadAs
<1>5. ASSUME NEW f, NEW v, NEW x, NEW words, ReadAs(Need(f, OneOf(words)), v, x)
      PROVE  Literal(v) = <<"word", x>>
  <2>1. x \in Readings(OneOf(words), v)
    BY <1>5, ParameterFields DEF ReadAs
  <2> QED
    BY <2>1, ReadingsAre
<1>6. CASE call.name = "draft_claim"
  <2>1. entry = [type |-> "claim", body |-> a.body, kind |-> a.kind, parent |-> a.parent]
    BY <1>6 DEF Content
  <2>2. ReadAs(Need("body", Text), V("body"), a.body) /\ ReadAs(May("parent", Reference), V("parent"), a.parent)
    BY <1>1, <1>6, Parameters, ParameterFields
  <2>3. a.body = Literal(V("body")) /\ (a.parent = NoRef \/ WellRef(a.parent))
    BY <1>2, <1>4, <2>2
  <2>4. Refs(entry) = {a.parent} \ {NoRef}
    BY <2>1 DEF Refs, RefFields
  <2>5. ToolFor[entry.type] = call.name /\ ToldFields[call.name] = {"body"} /\ entry.body = a.body
    BY <1>6, <2>1 DEF ToolFor, ToldFields
  <2> HIDE DEF entry
  <2> QED
    BY <2>3, <2>4, <2>5 DEF MadeBy, RefFields, V, entry, a
<1>7. CASE call.name = "draft_relation"
  <2>1. entry = [type |-> "relation", source |-> a.source, target |-> a.target, kind |-> a.kind]
    BY <1>7 DEF Content
  <2>2. /\ ReadAs(Need("source", Reference), V("source"), a.source)
        /\ ReadAs(Need("target", Reference), V("target"), a.target)
        /\ ReadAs(Need("kind", OneOf(RelationKinds)), V("kind"), a.kind)
    BY <1>1, <1>7, Parameters, ParameterFields
  <2>3. /\ a.source = ClaimRefOf(V("source")) /\ WellRef(a.source) /\ a.source # NoRef
        /\ a.target = ClaimRefOf(V("target")) /\ WellRef(a.target) /\ a.target # NoRef
        /\ Literal(V("kind")) = <<"word", a.kind>>
    BY <1>3, <1>5, <2>2
  <2>4. Refs(entry) = {a.source, a.target} \ {NoRef}
    BY <2>1 DEF Refs, RefFields
  <2>5. /\ ToolFor[entry.type] = call.name /\ ToldFields[call.name] = {"source", "target", "kind"}
        /\ entry["source"] = a.source /\ entry["target"] = a.target /\ entry["kind"] = a.kind
    BY <1>7, <2>1 DEF ToolFor, ToldFields
  <2> HIDE DEF entry
  <2> QED
    BY <2>3, <2>4, <2>5 DEF MadeBy, RefFields, V, entry, a
<1>8. CASE call.name = "draft_stance"
  <2>1. entry = [type |-> "stance", target |-> a.target, position |-> a.position]
    BY <1>8 DEF Content
  <2>2. /\ ReadAs(Need("target", Reference), V("target"), a.target)
        /\ ReadAs(Need("position", OneOf(Positions)), V("position"), a.position)
    BY <1>1, <1>8, Parameters, ParameterFields
  <2>3. /\ a.target = ClaimRefOf(V("target")) /\ WellRef(a.target) /\ a.target # NoRef
        /\ Literal(V("position")) = <<"word", a.position>>
    BY <1>3, <1>5, <2>2
  <2>4. Refs(entry) = {a.target} \ {NoRef}
    BY <2>1 DEF Refs, RefFields
  <2>5. /\ ToolFor[entry.type] = call.name /\ ToldFields[call.name] = {"target", "position"}
        /\ entry["target"] = a.target /\ entry["position"] = a.position
    BY <1>8, <2>1 DEF ToolFor, ToldFields
  <2> HIDE DEF entry
  <2> QED
    BY <2>3, <2>4, <2>5 DEF MadeBy, RefFields, V, entry, a
<1>9. CASE call.name = "draft_resolve"
  <2>1. entry = [type |-> "resolve", claim |-> a.claim, outcome |-> a.outcome]
    BY <1>9 DEF Content
  <2>2. /\ ReadAs(Need("claim", Reference), V("claim"), a.claim)
        /\ ReadAs(Need("outcome", OneOf(Outcomes)), V("outcome"), a.outcome)
    BY <1>1, <1>9, Parameters, ParameterFields
  <2>3. /\ a.claim = ClaimRefOf(V("claim")) /\ WellRef(a.claim) /\ a.claim # NoRef
        /\ Literal(V("outcome")) = <<"word", a.outcome>>
    BY <1>3, <1>5, <2>2
  <2>4. Refs(entry) = {a.claim} \ {NoRef}
    BY <2>1 DEF Refs, RefFields
  <2>5. /\ ToolFor[entry.type] = call.name /\ ToldFields[call.name] = {"claim", "outcome"}
        /\ entry["claim"] = a.claim /\ entry["outcome"] = a.outcome
    BY <1>9, <2>1 DEF ToolFor, ToldFields
  <2> HIDE DEF entry
  <2> QED
    BY <2>3, <2>4, <2>5 DEF MadeBy, RefFields, V, entry, a
<1>10. CASE call.name = "draft_comment"
  <2>1. entry = [type |-> "comment", body |-> a.body, claim |-> a.claim]
    BY <1>10 DEF Content
  <2>2. ReadAs(Need("body", Text), V("body"), a.body) /\ ReadAs(May("claim", Reference), V("claim"), a.claim)
    BY <1>1, <1>10, Parameters, ParameterFields
  <2>3. a.body = Literal(V("body")) /\ (a.claim = NoRef \/ WellRef(a.claim))
    BY <1>2, <1>4, <2>2
  <2>4. Refs(entry) = {a.claim} \ {NoRef}
    BY <2>1 DEF Refs, RefFields
  <2>5. ToolFor[entry.type] = call.name /\ ToldFields[call.name] = {"body"} /\ entry.body = a.body
    BY <1>10, <2>1 DEF ToolFor, ToldFields
  <2> HIDE DEF entry
  <2> QED
    BY <2>3, <2>4, <2>5 DEF MadeBy, RefFields, V, entry, a
<1> QED
  BY <1>6, <1>7, <1>8, <1>9, <1>10 DEF DraftTools

-----------------------------------------------------------------------------
(* The buffer that calls are run on *)

\* The reference can be looked up, and its draft is there.
Refers(ds, ref) == WellRef(ref) /\ RefError(ds, ref) = "none"

\* BufferInv, of any buffer.
Sound(b) ==
  /\ b = [drafts |-> b.drafts, next |-> b.next]
  /\ b.next \in Nat /\ IsList(b.drafts)
  /\ \A i \in DOMAIN b.drafts :
       /\ b.drafts[i].id \in Nat /\ b.drafts[i].id < b.next
       /\ \A ref \in Refs(b.drafts[i].entry) : Refers(b.drafts, ref)
  /\ \A i, j \in DOMAIN b.drafts : i < j => b.drafts[i].id < b.drafts[j].id

\* A content has no error if and only if none of its references has.
LEMMA NoError ==
  ASSUME NEW ds, NEW content
  PROVE  ContentError(ds, content) = "none" <=> \A ref \in Refs(content) : RefError(ds, ref) = "none"
<1> DEFINE errors == {RefError(ds, r) : r \in Refs(content)} \ {"none"}
<1>1. CASE errors = {}
  BY <1>1 DEF ContentError
<1>2. CASE errors # {}
  <2>1. (CHOOSE e \in errors : TRUE) \in errors
    BY <1>2
  <2>2. ContentError(ds, content) # "none"
    BY <1>2, <2>1 DEF ContentError
  <2> QED
    BY <1>2, <2>2
<1> QED
  BY <1>1, <1>2

\* The drafts of a sound buffer materialize.
LEMMA SoundMaterializes ==
  ASSUME NEW b, Sound(b)
  PROVE  Materializes(b.drafts)
BY NoError DEF Sound, Materializes, Refers

\* What a reference to a draft needs.
LEMMA ReferenceFound ==
  ASSUME NEW ds, NEW n
  PROVE  RefError(ds, Draft(n)) = "none" <=>
           \E i \in DOMAIN ds : ds[i].id = n /\ IsClaimDraft(ds[i])
<1>1. Draft(n) # NoRef /\ Draft(n)[1] # "committed" /\ Draft(n)[2] = n
  BY RefParts
<1> QED
  BY <1>1 DEF RefError, DraftsWithId

\* A reference to a claim of the log is never wrong.
LEMMA CommittedFound ==
  ASSUME NEW ds, NEW x
  PROVE  RefError(ds, Committed(x)) = "none"
BY RefParts DEF RefError

\* References are still found in a buffer that has all the claims.
LEMMA StillRefers ==
  ASSUME NEW one, NEW other, NEW ref, Refers(one, ref),
         \A i \in DOMAIN one : IsClaimDraft(one[i]) /\ ref = Draft(one[i].id) =>
           \E j \in DOMAIN other : other[j] = one[i]
  PROVE  Refers(other, ref)
<1>1. CASE \E x : ref = Committed(x)
  BY <1>1, CommittedFound DEF Refers
<1>2. CASE \E x : ref = Draft(x)
  <2>1. PICK n : ref = Draft(n)
    BY <1>2
  <2>2. PICK i \in DOMAIN one : one[i].id = n /\ IsClaimDraft(one[i])
    BY <2>1, ReferenceFound DEF Refers
  <2>3. PICK j \in DOMAIN other : other[j] = one[i]
    BY <2>1, <2>2
  <2>4. RefError(other, ref) = "none"
    BY <2>1, <2>2, <2>3, ReferenceFound
  <2> QED
    BY <2>4 DEF Refers
<1> QED
  BY <1>1, <1>2 DEF Refers, WellRef

\* The buffer a turn begins with.
LEMMA EmptySound ==
  ASSUME NEW n \in Nat
  PROVE  Sound([drafts |-> << >>, next |-> n])
BY EmptyList DEF Sound

\* CreateKeeps, of any buffer.
LEMMA DraftingSound ==
  ASSUME NEW b, Sound(b), NEW content, \A ref \in Refs(content) : WellRef(ref),
         ContentError(b.drafts, content) = "none"
  PROVE  Sound([drafts |-> Append(b.drafts, [id |-> b.next, entry |-> content]), next |-> b.next + 1])
<1> DEFINE d == [id |-> b.next, entry |-> content]
           ds == b.drafts
           new == Append(ds, d)
           n == Len(ds)
<1>1. /\ b.next \in Nat /\ b.next + 1 \in Nat /\ d.id = b.next /\ d.entry = content
      /\ IsList(ds) /\ n \in Nat /\ DOMAIN ds = 1 .. n
  BY ListFacts DEF Sound
<1>2. /\ IsList(new) /\ Len(new) = n + 1 /\ new[n + 1] = d
      /\ \A i \in 1 .. n : new[i] = ds[i]
  BY <1>1, ListAppended
<1>3. DOMAIN new = 1 .. n + 1
  BY <1>2, ListFacts
<1> HIDE DEF new, n, d
<1>4. \A ref : Refers(ds, ref) => Refers(new, ref)
  <2> SUFFICES ASSUME NEW ref, Refers(ds, ref) PROVE Refers(new, ref)
    OBVIOUS
  <2>1. \A i \in DOMAIN ds : \E j \in DOMAIN new : new[j] = ds[i]
    BY <1>1, <1>2, <1>3
  <2> HIDE DEF ds
  <2> QED
    BY <2>1, StillRefers
<1>5. \A ref \in Refs(content) : Refers(ds, ref)
  BY NoError DEF Refers
<1>6. ASSUME NEW i \in DOMAIN new
      PROVE  /\ new[i].id \in Nat /\ new[i].id < b.next + 1
             /\ \A ref \in Refs(new[i].entry) : Refers(new, ref)
  <2>1. CASE i \in 1 .. n
    <3>1. new[i] = ds[i] /\ ds[i].id \in Nat /\ ds[i].id < b.next
          /\ \A ref \in Refs(ds[i].entry) : Refers(ds, ref)
      BY <1>1, <1>2, <2>1 DEF Sound
    <3> QED
      BY <1>1, <1>4, <3>1
  <2>2. CASE i = n + 1
    BY <1>1, <1>2, <1>4, <1>5, <2>2
  <2> QED
    BY <1>1, <1>3, <2>1, <2>2
<1>7. ASSUME NEW i \in DOMAIN new, NEW j \in DOMAIN new, i < j
      PROVE  new[i].id < new[j].id
  <2>1. i \in 1 .. n /\ new[i] = ds[i]
    BY <1>1, <1>2, <1>3, <1>7
  <2>2. CASE j \in 1 .. n
    BY <1>1, <1>2, <1>7, <2>1, <2>2 DEF Sound
  <2>3. CASE j = n + 1
    BY <1>1, <1>2, <2>1, <2>3 DEF Sound
  <2> QED
    BY <1>1, <1>3, <2>2, <2>3
<1>8. Sound([drafts |-> new, next |-> b.next + 1])
  BY <1>1, <1>2, <1>6, <1>7 DEF Sound
<1> QED
  BY <1>8 DEF new, d

\* The draft with an id, in a sound buffer, and what its removal leaves.
LEMMA DroppedIs ==
  ASSUME NEW b, Sound(b), NEW n, DraftsWithId(b.drafts, n) # {}
  PROVE  \E k \in DOMAIN b.drafts :
           /\ b.drafts[k].id = n /\ \A j \in DOMAIN b.drafts : b.drafts[j].id = n => j = k
           /\ Dropped(b.drafts, n) = RemoveAt(b.drafts, k)
<1> DEFINE ds == b.drafts
           IsFirst(i) == \A j \in DraftsWithId(ds, n) : i <= j
           k == CHOOSE i \in DraftsWithId(ds, n) : IsFirst(i)
<1>1. Len(ds) \in Nat /\ DOMAIN ds = 1 .. Len(ds)
  BY ListFacts DEF Sound
<1>2. PICK i \in DOMAIN ds : ds[i].id = n
  BY DEF DraftsWithId
<1>3. \A j \in DOMAIN ds : ds[j].id = n => j = i
  BY <1>1, <1>2 DEF Sound
<1>4. DraftsWithId(ds, n) = {i}
  BY <1>2, <1>3 DEF DraftsWithId
<1>5. k = i
  BY <1>1, <1>4
<1> QED
  BY <1>2, <1>3, <1>5 DEF Dropped

\* DropKeeps, of any buffer.
LEMMA RemovalSound ==
  ASSUME NEW b, Sound(b), NEW n, RemovalError(b.drafts, n) = "none"
  PROVE  Sound([drafts |-> Dropped(b.drafts, n), next |-> b.next])
<1> DEFINE ds == b.drafts
           new == Dropped(ds, n)
<1>1. DraftsWithId(ds, n) # {}
  BY DEF RemovalError
<1>2. PICK k \in DOMAIN ds : /\ ds[k].id = n /\ \A j \in DOMAIN ds : ds[j].id = n => j = k
                             /\ new = RemoveAt(ds, k)
  BY <1>1, DroppedIs
<1>3. /\ b.next \in Nat /\ IsList(ds) /\ Len(ds) \in Nat /\ DOMAIN ds = 1 .. Len(ds)
      /\ ds \in Seq(ToSet(ds))
  BY ListFacts DEF Sound, IsList
<1> HIDE DEF new
<1>4. /\ new \in Seq(ToSet(ds)) /\ Len(new) = Len(ds) - 1
      /\ \A i \in DOMAIN new : new[i] = IF i < k THEN ds[i] ELSE ds[i + 1]
  BY <1>2, <1>3, RemoveAtFacts
<1>5. IsList(new) /\ DOMAIN new = 1 .. Len(ds) - 1
  BY <1>3, <1>4, SequenceIsList
<1>6. ASSUME NEW i \in DOMAIN new
      PROVE  \E p \in DOMAIN ds : p # k /\ new[i] = ds[p] /\ p = IF i < k THEN i ELSE i + 1
  BY <1>2, <1>3, <1>4, <1>5
<1>7. ASSUME NEW q \in DOMAIN ds, q # k
      PROVE  \E j \in DOMAIN new : new[j] = ds[q]
  <2>1. CASE q < k
    BY <1>2, <1>3, <1>4, <1>5, <2>1
  <2>2. CASE ~(q < k)
    <3>1. q - 1 \in DOMAIN new /\ ~(q - 1 < k) /\ (q - 1) + 1 = q
      BY <1>2, <1>3, <1>5, <1>7, <2>2
    <3> QED
      BY <1>4, <3>1
  <2> QED
    BY <2>1, <2>2
<1>8. ASSUME NEW i \in DOMAIN new
      PROVE  /\ new[i].id \in Nat /\ new[i].id < b.next
             /\ \A ref \in Refs(new[i].entry) : Refers(new, ref)
  <2>1. PICK p \in DOMAIN ds : p # k /\ new[i] = ds[p]
    BY <1>6
  <2>2. /\ ds[p].id \in Nat /\ ds[p].id < b.next
        /\ \A ref \in Refs(ds[p].entry) : Refers(ds, ref)
    BY DEF Sound
  <2>3. ASSUME NEW ref \in Refs(ds[p].entry)
        PROVE  Refers(new, ref)
    <3>1. ASSUME NEW q \in DOMAIN ds, IsClaimDraft(ds[q]), ref = Draft(ds[q].id)
          PROVE  q # k
      <4> SUFFICES ASSUME q = k PROVE FALSE
        OBVIOUS
      <4>1. k \in DraftsWithId(ds, n) /\ IsClaimDraft(ds[k])
        BY <1>2, <3>1 DEF DraftsWithId
      <4>2. ds[p].id # n /\ DraftReferencesDraft(ds[p].entry, n)
        BY <1>2, <2>1, <2>3, <3>1 DEF DraftReferencesDraft
      <4> QED
        BY <4>1, <4>2 DEF RemovalError
    <3>2. Refers(ds, ref)
      BY <2>2, <2>3
    <3>3. \A q \in DOMAIN ds : IsClaimDraft(ds[q]) /\ ref = Draft(ds[q].id) =>
            \E j \in DOMAIN new : new[j] = ds[q]
      BY <1>7, <3>1
    <3> HIDE DEF ds
    <3> QED
      BY <3>2, <3>3, StillRefers
  <2> QED
    BY <2>1, <2>2, <2>3
<1>9. ASSUME NEW i \in DOMAIN new, NEW j \in DOMAIN new, i < j
      PROVE  new[i].id < new[j].id
  <2>1. PICK p \in DOMAIN ds : p # k /\ new[i] = ds[p] /\ p = IF i < k THEN i ELSE i + 1
    BY <1>6
  <2>2. PICK q \in DOMAIN ds : q # k /\ new[j] = ds[q] /\ q = IF j < k THEN j ELSE j + 1
    BY <1>6
  <2>3. p < q
    BY <1>2, <1>3, <1>5, <1>9, <2>1, <2>2
  <2> QED
    BY <2>1, <2>2, <2>3 DEF Sound
<1>10. Sound([drafts |-> new, next |-> b.next])
  BY <1>3, <1>5, <1>8, <1>9 DEF Sound
<1> QED
  BY <1>10 DEF new

-----------------------------------------------------------------------------
(* The calls of a round *)

\* A call that has succeeded or failed; which of them were changes.
Result(call, outcome) == [name |-> call.name, args |-> call.args, error |-> outcome.error]
Changes(results) == {i \in DOMAIN results : CliMutates(results[i].name, results[i])}
RanHidden(results) == \E r \in ToSet(results) : r.name \in Hidden /\ r.error = "none"

\* The newest draft was made by the call.
Newest(r, b) ==
  r.name \in DraftTools => b.drafts # << >> /\ MadeBy(Last(b.drafts).entry, r)

\* Unless a call has changed something there are no drafts, and the last of the
\* changes, if it drafted something, made the newest draft.
RunOK(done) ==
  /\ done = [buffer |-> done.buffer, results |-> done.results, mutated |-> done.mutated]
  /\ Sound(done.buffer) /\ IsList(done.results)
  /\ done.mutated \in BOOLEAN /\ (done.mutated <=> Changes(done.results) # {})
  /\ ~done.mutated => done.buffer.drafts = << >>
  /\ ~RanHidden(done.results) =>
       \A i \in Changes(done.results) :
         (\A j \in Changes(done.results) : j <= i) => Newest(done.results[i], done.buffer)

\* What the drafts may object to, and what is done to them, by the kinds of tools.
LEMMA Objections ==
  ASSUME NEW name, NEW a, NEW ds
  PROVE  /\ name \in DraftTools => ExecutionError(name, a, ds) = ContentError(ds, Content(name, a))
         /\ name = "remove_draft" => ExecutionError(name, a, ds) = RemovalError(ds, a.draft_id)
<1>1. ASSUME name \in DraftTools
      PROVE  ExecutionError(name, a, ds) = ContentError(ds, Content(name, a))
  <2>1. name # "remove_draft" /\ name \notin PreviewTools \union {"submit_drafts"}
    BY <1>1 DEF DraftTools, PreviewTools
  <2> QED
    BY <1>1, <2>1, Zenon DEF ExecutionError
<1>2. ASSUME name = "remove_draft"
      PROVE  ExecutionError(name, a, ds) = RemovalError(ds, a.draft_id)
  <2>1. name \notin DraftTools /\ name \notin PreviewTools \union {"submit_drafts"}
    BY <1>2 DEF DraftTools, PreviewTools
  <2> QED
    BY <1>2, <2>1, Zenon DEF ExecutionError
<1> QED
  BY <1>1, <1>2

\* A draft is added, after the others.
LEMMA DraftExecuted ==
  ASSUME NEW name \in DraftTools, NEW a, NEW buf
  PROVE  Executed(name, a, buf) = [drafts |-> Append(buf.drafts, [id |-> buf.next, entry |-> Content(name, a)]),
                                   next |-> buf.next + 1]
<1>1. name # "remove_draft" /\ name \notin Hidden
  BY DEF DraftTools, Hidden
<1> QED
  BY <1>1, Zenon DEF Executed

\* A draft is removed, with the ones that need it.
LEMMA RemovalExecuted ==
  ASSUME NEW a, NEW buf, Sound(buf)
  PROVE  Executed("remove_draft", a, buf) = [drafts |-> Dropped(buf.drafts, a.draft_id), next |-> buf.next]
<1>1. "remove_draft" \notin DraftTools /\ "remove_draft" \notin Hidden
  BY DEF DraftTools, Hidden
<1>2. Executed("remove_draft", a, buf) = [buf EXCEPT !.drafts = Dropped(buf.drafts, a.draft_id)]
  BY <1>1 DEF Executed
<1> QED
  BY <1>2 DEF Sound

\* A tool that the model is not told of leaves no drafts.
LEMMA HiddenExecuted ==
  ASSUME NEW name \in Hidden, NEW a, NEW buf, Sound(buf)
  PROVE  Executed(name, a, buf) = [drafts |-> << >>, next |-> buf.next]
<1>1. name \notin DraftTools /\ name # "remove_draft"
  BY DEF DraftTools, Hidden
<1>2. Executed(name, a, buf) = [buf EXCEPT !.drafts = << >>]
  BY <1>1 DEF Executed
<1> QED
  BY <1>2 DEF Sound

\* Every other tool leaves the drafts alone.
LEMMA OtherExecuted ==
  ASSUME NEW name, NEW a, NEW buf, name \notin DraftTools, name # "remove_draft", name \notin Hidden
  PROVE  Executed(name, a, buf) = buf
BY DEF Executed

\* What a call comes to.
LEMMA OutcomeIs ==
  ASSUME NEW call, NEW b, Sound(b)
  PROVE  LET d == CliDecodes(call)
             o == Outcome(call.name, d, b)
         IN  IF o.error # "none" THEN o.buffer = b
             ELSE /\ d.error = "none"
                  /\ call.name \in DraftTools =>
                       /\ ContentError(b.drafts, Content(call.name, d.args)) = "none"
                       /\ o.buffer = [drafts |-> Append(b.drafts, [id |-> b.next, entry |-> Content(call.name, d.args)]),
                                      next |-> b.next + 1]
                  /\ call.name = "remove_draft" =>
                       /\ RemovalError(b.drafts, d.args.draft_id) = "none"
                       /\ o.buffer = [drafts |-> Dropped(b.drafts, d.args.draft_id), next |-> b.next]
                  /\ call.name \in Hidden => o.buffer = [drafts |-> << >>, next |-> b.next]
                  /\ call.name \notin DraftTools \union {"remove_draft"} \union Hidden => o.buffer = b
<1> DEFINE d == CliDecodes(call)
           o == Outcome(call.name, d, b)
<1>1. b = [drafts |-> b.drafts, next |-> b.next]
  BY DEF Sound
<1>2. o.error = IF d.error # "none" THEN d.error ELSE ExecutionError(call.name, d.args, b.drafts)
  BY DEF Outcome
<1>3. o.buffer = IF o.error = "none" THEN Executed(call.name, d.args, b) ELSE b
  BY DEF Outcome
<1> HIDE DEF d, o
<1>4. CASE o.error # "none"
  BY <1>3, <1>4 DEF d, o
<1>5. CASE o.error = "none"
  <2>1. d.error = "none" /\ ExecutionError(call.name, d.args, b.drafts) = "none"
        /\ o.buffer = Executed(call.name, d.args, b)
    BY <1>2, <1>3, <1>5
  <2>2. ASSUME call.name \in DraftTools
        PROVE  /\ ContentError(b.drafts, Content(call.name, d.args)) = "none"
               /\ o.buffer = [drafts |-> Append(b.drafts, [id |-> b.next, entry |-> Content(call.name, d.args)]),
                              next |-> b.next + 1]
    BY <2>1, <2>2, Objections, DraftExecuted
  <2>3. ASSUME call.name = "remove_draft"
        PROVE  /\ RemovalError(b.drafts, d.args.draft_id) = "none"
               /\ o.buffer = [drafts |-> Dropped(b.drafts, d.args.draft_id), next |-> b.next]
    <3>1. RemovalError(b.drafts, d.args.draft_id) = "none"
      BY <2>1, <2>3, Objections
    <3>2. o.buffer = [drafts |-> Dropped(b.drafts, d.args.draft_id), next |-> b.next]
      BY <2>1, <2>3, RemovalExecuted
    <3> QED
      BY <3>1, <3>2
  <2>4. ASSUME call.name \in Hidden
        PROVE  o.buffer = [drafts |-> << >>, next |-> b.next]
    BY <2>1, <2>4, HiddenExecuted
  <2>5. ASSUME call.name \notin DraftTools \union {"remove_draft"} \union Hidden
        PROVE  o.buffer = b
    BY <2>1, <2>5, OtherExecuted
  <2> QED
    BY <1>5, <2>1, <2>2, <2>3, <2>4, <2>5 DEF d, o
<1> QED
  BY <1>4, <1>5

\* One more result.
LEMMA ResultsGrow ==
  ASSUME NEW results, IsList(results), NEW r
  PROVE  /\ Changes(Append(results, r))
              = Changes(results) \union (IF CliMutates(r.name, r) THEN {Len(results) + 1} ELSE {})
         /\ RanHidden(Append(results, r)) <=>
              RanHidden(results) \/ (r.name \in Hidden /\ r.error = "none")
<1> DEFINE n == Len(results)
           new == Append(results, r)
<1>1. /\ IsList(new) /\ Len(new) = n + 1 /\ new[n + 1] = r /\ n \in Nat
      /\ DOMAIN results = 1 .. n /\ \A i \in 1 .. n : new[i] = results[i]
  BY ListAppended, ListFacts
<1>2. DOMAIN new = 1 .. n + 1
  BY <1>1, ListFacts
<1>3. ToSet(new) = ToSet(results) \union {r}
  <2> HIDE DEF new, n
  <2>1. \A i \in 1 .. n + 1 : i \in 1 .. n \/ i = n + 1
    BY <1>1
  <2>2. \A i \in 1 .. n : i \in 1 .. n + 1
    BY <1>1
  <2>3. n + 1 \in 1 .. n + 1
    BY <1>1
  <2> QED
    BY <1>1, <1>2, <2>1, <2>2, <2>3 DEF ToSet
<1> HIDE DEF new, n
<1>4. Changes(new) = Changes(results) \union (IF CliMutates(r.name, r) THEN {n + 1} ELSE {})
  BY <1>1, <1>2 DEF Changes
<1>5. RanHidden(new) <=> RanHidden(results) \/ (r.name \in Hidden /\ r.error = "none")
  BY <1>3 DEF RanHidden
<1> QED
  BY <1>4, <1>5 DEF new, n

\* Before the first call nothing has been run.
LEMMA RunBegins ==
  ASSUME NEW b, Sound(b), b.drafts = << >>
  PROVE  RunOK(Begun(b))
<1>1. Begun(b) = [buffer |-> b, results |-> << >>, mutated |-> FALSE]
  BY DEF Begun
<1>2. Changes(<< >>) = {} /\ IsList(<< >>)
  BY EmptyList DEF Changes
<1> QED
  BY <1>1, <1>2 DEF RunOK

\* Every call keeps to it.
LEMMA RunStep ==
  ASSUME NEW done, RunOK(done), NEW call
  PROVE  RunOK(Ran(done, call))
<1> DEFINE b == done.buffer
           d == CliDecodes(call)
           o == Outcome(call.name, d, b)
           r == Result(call, o)
           results == done.results
           n == Len(results)
           after == Ran(done, call)
<1>1. /\ after = [buffer |-> o.buffer, results |-> Append(results, r),
                  mutated |-> done.mutated \/ CliMutates(call.name, o)]
      /\ r.name = call.name /\ r.args = call.args /\ r.error = o.error
  BY DEF Ran, Recorded, Result
<1>2. CliMutates(call.name, o) <=> CliMutates(r.name, r)
  BY <1>1 DEF CliMutates
<1>3. /\ Sound(b) /\ IsList(results) /\ n \in Nat /\ done.mutated \in BOOLEAN
      /\ Append(results, r)[n + 1] = r /\ \A i \in 1 .. n : Append(results, r)[i] = results[i]
      /\ IsList(Append(results, r)) /\ DOMAIN results = 1 .. n
  BY ListFacts, ListAppended DEF RunOK
<1>4. /\ Changes(Append(results, r))
           = Changes(results) \union (IF CliMutates(r.name, r) THEN {n + 1} ELSE {})
      /\ RanHidden(Append(results, r)) <=> RanHidden(results) \/ (r.name \in Hidden /\ r.error = "none")
      /\ Changes(results) \subseteq 1 .. n
  BY <1>3, ResultsGrow DEF Changes
<1>5. CliMutates(r.name, r) <=> o.error = "none" /\ call.name \in DraftTools \union {"remove_draft"}
  BY <1>1 DEF CliMutates, DraftTools
<1>6. /\ after.buffer = o.buffer /\ after.results = Append(results, r)
      /\ after.mutated = (done.mutated \/ CliMutates(r.name, r))
      /\ after = [buffer |-> after.buffer, results |-> after.results, mutated |-> after.mutated]
      /\ after.mutated \in BOOLEAN
  BY <1>1, <1>2, <1>3
<1>7. after.mutated <=> Changes(after.results) # {}
  BY <1>4, <1>6 DEF RunOK
<1>8. IF o.error # "none" THEN o.buffer = b
      ELSE /\ d.error = "none"
           /\ call.name \in DraftTools =>
                /\ ContentError(b.drafts, Content(call.name, d.args)) = "none"
                /\ o.buffer = [drafts |-> Append(b.drafts, [id |-> b.next, entry |-> Content(call.name, d.args)]),
                               next |-> b.next + 1]
           /\ call.name = "remove_draft" =>
                /\ RemovalError(b.drafts, d.args.draft_id) = "none"
                /\ o.buffer = [drafts |-> Dropped(b.drafts, d.args.draft_id), next |-> b.next]
           /\ call.name \in Hidden => o.buffer = [drafts |-> << >>, next |-> b.next]
           /\ call.name \notin DraftTools \union {"remove_draft"} \union Hidden => o.buffer = b
  BY <1>3, OutcomeIs
<1> SUFFICES RunOK(after)
  OBVIOUS
<1> HIDE DEF after, r, o, d, n
\* Only a draft or a removal makes the set of drafts another one than before, but
\* for a tool that empties it.
<1>9. ASSUME o.buffer = b, ~CliMutates(r.name, r)
      PROVE  RunOK(after)
  <2>1. ~after.mutated => after.buffer.drafts = << >>
    BY <1>6, <1>9 DEF RunOK
  <2>2. ASSUME ~RanHidden(after.results), NEW i \in Changes(after.results),
               \A j \in Changes(after.results) : j <= i
        PROVE  Newest(after.results[i], after.buffer)
    <3>1. i \in Changes(results) /\ ~RanHidden(results) /\ \A j \in Changes(results) : j <= i
      BY <1>4, <1>6, <1>9, <2>2
    <3>2. after.results[i] = results[i]
      BY <1>3, <1>4, <1>6, <3>1
    <3> QED
      BY <1>6, <1>9, <3>1, <3>2 DEF RunOK
  <2> QED
    BY <1>3, <1>6, <1>7, <1>9, <2>1, <2>2 DEF RunOK
<1>10. CASE o.error # "none"
  BY <1>5, <1>8, <1>9, <1>10
<1>11. CASE o.error = "none" /\ call.name \notin DraftTools \union {"remove_draft"} \union Hidden
  BY <1>5, <1>8, <1>9, <1>11
<1>12. CASE o.error = "none" /\ call.name \in Hidden
  <2>1. o.buffer = [drafts |-> << >>, next |-> b.next] /\ b.next \in Nat
    BY <1>3, <1>8, <1>12 DEF Sound
  <2>2. Sound(o.buffer) /\ o.buffer.drafts = << >>
    BY <2>1, EmptySound
  <2>3. RanHidden(after.results)
    BY <1>1, <1>4, <1>6, <1>12
  <2> QED
    BY <1>3, <1>6, <1>7, <2>2, <2>3 DEF RunOK
<1>13. ASSUME Sound(o.buffer), o.error = "none", call.name \in DraftTools \union {"remove_draft"},
              Newest(r, o.buffer)
       PROVE  RunOK(after)
  <2>1. Changes(after.results) = Changes(results) \union {n + 1}
    BY <1>4, <1>5, <1>6, <1>13
  <2>2. ASSUME NEW i \in Changes(after.results), \A j \in Changes(after.results) : j <= i
        PROVE  Newest(after.results[i], after.buffer)
    <3>1. i = n + 1
      BY <1>3, <1>4, <2>1, <2>2
    <3> QED
      BY <1>3, <1>6, <1>13, <3>1
  <2>3. after.mutated
    BY <1>5, <1>6, <1>13
  <2> QED
    BY <1>3, <1>6, <1>7, <1>13, <2>2, <2>3 DEF RunOK
<1>14. CASE o.error = "none" /\ call.name \in DraftTools
  <2> DEFINE content == Content(call.name, d.args)
             made == [id |-> b.next, entry |-> content]
  <2>1. /\ d.error = "none" /\ ContentError(b.drafts, content) = "none"
        /\ o.buffer = [drafts |-> Append(b.drafts, made), next |-> b.next + 1]
    BY <1>8, <1>14
  <2>2. MadeBy(content, call)
    BY <1>14, <2>1, DraftMade DEF d
  <2>3. \A ref \in Refs(content) : WellRef(ref)
    BY <2>2 DEF MadeBy
  <2>4. made.entry = content /\ IsList(b.drafts)
    BY <1>3 DEF Sound
  <2> HIDE DEF content
  <2>5. Sound(o.buffer)
    BY <1>3, <2>1, <2>3, DraftingSound
  <2> HIDE DEF made
  <2>6. o.buffer.drafts # << >> /\ Last(o.buffer.drafts) = made
    <3>1. o.buffer.drafts = Append(b.drafts, made)
      BY <2>1
    <3> HIDE DEF b
    <3> QED
      BY <2>4, <3>1, ListAppended DEF Last
  <2>7. MadeBy(content, r)
    BY <1>1, <2>2 DEF MadeBy
  <2> QED
    BY <1>13, <1>14, <2>4, <2>5, <2>6, <2>7 DEF Newest
<1>15. CASE o.error = "none" /\ call.name = "remove_draft"
  <2>1. Sound(o.buffer)
    BY <1>3, <1>8, <1>15, RemovalSound
  <2>2. Newest(r, o.buffer)
    BY <1>1, <1>15 DEF Newest, DraftTools
  <2> QED
    BY <1>13, <1>15, <2>1, <2>2
<1> QED
  BY <1>8, <1>10, <1>11, <1>12, <1>14, <1>15

\* f has what the first n calls come to.
Runs(calls, b, n, f) ==
  f = [k \in 0 .. n |-> IF k = 0 THEN Begun(b) ELSE Ran(f[k - 1], calls[k])]

\* There is such a function.
LEMMA RunsExist ==
  ASSUME NEW calls, NEW b, NEW n \in Nat
  PROVE  \E f : Runs(calls, b, n, f)
<1> DEFINE Missing == {k \in Nat : ~ \E f : Runs(calls, b, k, f)}
<1>1. SUFFICES ASSUME Missing # {} PROVE FALSE
  OBVIOUS
<1>2. PICK m \in Missing : \A k \in Missing : m <= k
  BY <1>1, LeastExists
<1>3. CASE m = 0
  <2>1. Runs(calls, b, 0, [k \in 0 .. 0 |-> Begun(b)])
    BY DEF Runs
  <2> QED  BY <1>2, <1>3, <2>1
<1>4. CASE m # 0
  <2>1. m - 1 \in Nat /\ m - 1 \notin Missing
    BY <1>2, <1>4
  <2>2. PICK f : Runs(calls, b, m - 1, f)
    BY <2>1
  <2> DEFINE g == [k \in 0 .. m |-> IF k = m THEN Ran(f[m - 1], calls[m]) ELSE f[k]]
  <2>3. /\ \A k \in 0 .. m - 1 : f[k] = IF k = 0 THEN Begun(b) ELSE Ran(f[k - 1], calls[k])
        /\ m \in Nat /\ m > 0
    BY <1>4, <2>2 DEF Runs
  <2>4. ASSUME NEW k \in 0 .. m
        PROVE  g[k] = IF k = 0 THEN Begun(b) ELSE Ran(g[k - 1], calls[k])
    <3>1. CASE k = m
      <4>1. m - 1 \in 0 .. m /\ m - 1 # m /\ g[m - 1] = f[m - 1]
        BY <2>3
      <4> QED  BY <2>3, <3>1, <4>1
    <3>2. CASE k = 0
      BY <2>3, <3>2
    <3>3. CASE k # m /\ k # 0
      <4>1. k - 1 \in 0 .. m /\ k - 1 # m /\ k \in 0 .. m - 1
        BY <2>3, <3>3
      <4> QED  BY <2>3, <3>3, <4>1
    <3> QED  BY <3>1, <3>2, <3>3
  <2>5. DOMAIN g = 0 .. m /\ g = [k \in 0 .. m |-> g[k]]
    OBVIOUS
  <2> HIDE DEF g
  <2>6. Runs(calls, b, m, g)
    BY <2>4, <2>5 DEF Runs
  <2> QED  BY <1>2, <2>6
<1> QED  BY <1>3, <1>4

\* The calls of a round are what the last of them comes to.
LEMMA RanAllIs ==
  ASSUME NEW calls, NEW b, Len(calls) \in Nat
  PROVE  \E f : Runs(calls, b, Len(calls), f) /\ RanAll(calls, b) = f[Len(calls)]
<1>1. \E f : Runs(calls, b, Len(calls), f)
  BY RunsExist
<1>2. RanAll(calls, b)
        = (CHOOSE f : f = [k \in 0 .. Len(calls) |->
             IF k = 0 THEN Begun(b) ELSE Ran(f[k - 1], calls[k])])[Len(calls)]
  BY DEF RanAll
<1>3. \E f : f = [k \in 0 .. Len(calls) |-> IF k = 0 THEN Begun(b) ELSE Ran(f[k - 1], calls[k])]
  BY <1>1 DEF Runs
<1> QED  BY <1>2, <1>3 DEF Runs

\* After all calls of a round.
LEMMA RoundRuns ==
  ASSUME NEW calls, IsList(calls), NEW b, Sound(b), b.drafts = << >>
  PROVE  RunOK(RanAll(calls, b))
<1> DEFINE n == Len(calls)
<1>1. n \in Nat
  BY ListFacts
<1>2. PICK f : Runs(calls, b, n, f) /\ RanAll(calls, b) = f[n]
  BY <1>1, RanAllIs
<1> HIDE DEF n
<1>3. ASSUME NEW k \in Nat, k <= n
      PROVE  RunOK(f[k])
  <2> DEFINE Bad == {m \in Nat : m <= n /\ ~RunOK(f[m])}
  <2>1. SUFFICES ASSUME Bad # {} PROVE FALSE
    BY <1>3
  <2>2. PICK m \in Bad : \A l \in Bad : m <= l
    BY <2>1, LeastExists
  <2>3. m \in 0 .. n
    BY <1>1, <2>2
  <2>4. f[m] = IF m = 0 THEN Begun(b) ELSE Ran(f[m - 1], calls[m])
    BY <1>2, <2>3 DEF Runs
  <2>5. m # 0
    BY <2>2, <2>4, RunBegins
  <2>6. m - 1 \in Nat /\ m - 1 <= n /\ ~(m <= m - 1)
    BY <1>1, <2>3, <2>5
  <2>7. RunOK(f[m - 1])
    BY <2>2, <2>6
  <2>8. RunOK(f[m])
    BY <2>4, <2>5, <2>7, RunStep
  <2> QED
    BY <2>2, <2>8
<1> QED
  BY <1>1, <1>2, <1>3

-----------------------------------------------------------------------------
(* What is told of the last change *)

\* What the drafts, submitted, would refer to.
Known(entries, b) == DOMAIN Replay(MergedEntries(entries, b.drafts, Me)).claims

\* The newest draft is told of in its own words, and its references as the claims
\* that they would be to.
TellsNewest(told, entries, b) ==
  LET newest == Last(b.drafts)
      Referred(ref) == Resolved(ref, PreviewIds)
  IN  /\ b.drafts # << >> /\ ToolFor[newest.entry.type] = told.tool
      /\ \A f \in DOMAIN told.said \ RefFields :
           told.said[f] = IF f = "body" THEN newest.entry.body ELSE <<"word", newest.entry[f]>>
      /\ \A f \in DOMAIN told.said \intersect RefFields :
           told.said[f] = IF Referred(newest.entry[f]) \in Known(entries, b)
                            THEN Referred(newest.entry[f]) ELSE NoId

\* A reference of a sound buffer is told of as what it resolves to.
LEMMA DescribedAsResolved ==
  ASSUME NEW b, Sound(b), NEW ref, Refers(b.drafts, ref), NEW entries
  PROVE  Described(ref, entries, b)
           = IF Resolved(ref, PreviewIds) \in Known(entries, b) THEN Resolved(ref, PreviewIds) ELSE NoId
<1> DEFINE id == IF ref[1] = "draft" THEN PreviewId(ref[2]) ELSE ref[2]
<1>1. Materializes(b.drafts) /\ RefError(b.drafts, ref) = "none"
  BY SoundMaterializes DEF Refers
<1>2. id = Resolved(ref, PreviewIds)
  <2>1. CASE \E x : ref = Committed(x)
    BY <2>1, RefParts DEF Resolved
  <2>2. CASE \E x : ref = Draft(x)
    <3>1. PICK n : ref = Draft(n)
      BY <2>2
    <3>2. PICK i \in DOMAIN b.drafts : b.drafts[i].id = n
      BY <1>1, <3>1, ReferenceFound
    <3>3. n \in Nat
      BY <3>2 DEF Sound
    <3>4. PreviewIds[n] = PreviewId(n)
      BY <3>3 DEF PreviewIds
    <3> QED
      BY <3>1, <3>4, RefParts DEF Resolved
  <2> QED
    BY <2>1, <2>2 DEF Refers, WellRef
<1> HIDE DEF id
<1>3. Described(ref, entries, b) = IF id \in Known(entries, b) THEN id ELSE NoId
  BY <1>1 DEF Described, Known, id
<1> QED
  BY <1>2, <1>3

\* The last change is told of, and if it is a draft nothing is wrong with what is
\* told.
LEMMA ConfirmationTells ==
  ASSUME NEW entries, NEW b, Sound(b), NEW results,
         NEW i \in Changes(results), \A j \in Changes(results) : j <= i,
         Changes(results) \subseteq Nat
  PROVE  LET told == Confirmation(entries, b, results)
         IN  told.tool = results[i].name
             /\ (told.tool \in DraftTools /\ Newest(results[i], b) => TellsNewest(told, entries, b))
<1> DEFINE r == results[i]
           told == Confirmation(entries, b, results)
           V(f) == Field(r.args, f)
<1>1. MutationTold(results) = r
  <2>1. Changes(results) = {j \in DOMAIN results : CliMutates(results[j].name, results[j])}
    BY DEF Changes
  <2>2. (CHOOSE k \in Changes(results) : \A j \in Changes(results) : k >= j) = i
    <3>1. \A k \in Changes(results) : (\A j \in Changes(results) : k >= j) <=> k = i
      OBVIOUS
    <3> QED
      BY <3>1
  <2> QED
    BY <2>1, <2>2 DEF MutationTold
<1> DEFINE fields == CASE r.name = "draft_claim" -> {"body"}
                       [] r.name = "draft_relation" -> {"source", "target", "kind"}
                       [] r.name = "draft_stance" -> {"target", "position"}
                       [] r.name = "draft_resolve" -> {"claim", "outcome"}
                       [] r.name = "draft_comment" -> {"body"}
                       [] OTHER -> {}
<1>2. told = [tool |-> r.name,
              said |-> [f \in fields |-> IF f \in RefFields
                                          THEN Described(ClaimRefOf(V(f)), entries, b)
                                        ELSE Literal(V(f))]]
  BY <1>1 DEF Confirmation
<1>3. ASSUME r.name \in DraftTools
      PROVE  fields = ToldFields[r.name]
  BY <1>3 DEF DraftTools, ToldFields
<1> HIDE DEF fields, r
<1>4. told.tool = r.name /\ DOMAIN told.said = fields
  BY <1>2
<1>5. ASSUME NEW f \in fields
      PROVE  told.said[f] = IF f \in RefFields THEN Described(ClaimRefOf(V(f)), entries, b) ELSE Literal(V(f))
  BY <1>2, <1>5
<1> HIDE DEF told
<1>6. ASSUME r.name \in DraftTools, Newest(r, b)
      PROVE  TellsNewest(told, entries, b)
  <2> DEFINE newest == Last(b.drafts)
  <2>1. b.drafts # << >> /\ MadeBy(newest.entry, r)
    BY <1>6 DEF Newest
  <2>2. Len(b.drafts) \in DOMAIN b.drafts /\ newest = b.drafts[Len(b.drafts)]
    <3>1. IsList(b.drafts)
      BY DEF Sound
    <3>2. Len(b.drafts) # 0
      <4> DEFINE ds == b.drafts
      <4>1. ds \in Seq(ToSet(ds)) /\ ds # << >>
        BY <2>1, <3>1 DEF IsList
      <4> HIDE DEF ds
      <4>2. Len(ds) # 0
        BY <4>1
      <4> QED
        BY <4>2 DEF ds
    <3> QED
      BY <3>1, <3>2, ListFacts DEF Last
  <2>3. \A ref \in Refs(newest.entry) : Refers(b.drafts, ref)
    BY <2>2 DEF Sound
  <2> HIDE DEF newest
  <2>4. fields = ToldFields[r.name]
    BY <1>3, <1>6
  <2>5. ASSUME NEW f \in fields \ RefFields
        PROVE  told.said[f] = IF f = "body" THEN newest.entry.body ELSE <<"word", newest.entry[f]>>
    BY <1>5, <2>1, <2>4 DEF MadeBy
  <2>6. ASSUME NEW f \in fields \intersect RefFields
        PROVE  told.said[f] = IF Resolved(newest.entry[f], PreviewIds) \in Known(entries, b)
                                THEN Resolved(newest.entry[f], PreviewIds) ELSE NoId
    <3>1. newest.entry[f] = ClaimRefOf(V(f)) /\ newest.entry[f] \in Refs(newest.entry)
      BY <2>1, <2>4 DEF MadeBy
    <3>2. told.said[f] = Described(newest.entry[f], entries, b)
      BY <1>5, <3>1
    <3>3. Refers(b.drafts, newest.entry[f])
      BY <2>3, <3>1
    <3> QED
      BY <3>2, <3>3, DescribedAsResolved
  <2>7. ToolFor[newest.entry.type] = told.tool
    BY <1>4, <2>1 DEF MadeBy
  <2> QED
    BY <1>4, <2>1, <2>5, <2>6, <2>7 DEF TellsNewest, newest
<1> QED
  BY <1>4, <1>6 DEF r, told

-----------------------------------------------------------------------------
(* A turn *)

Unchanging(results) == \A r \in ToSet(results) : ~CliMutates(r.name, r)

\* A turn that has not ended well has changed nothing and tells of nothing; no
\* round but the last one has changed anything; and what is told is so.
TurnOK(turn) ==
  /\ turn = [log |-> turn.log, state |-> turn.state, rounds |-> turn.rounds,
             buffer |-> turn.buffer, text |-> turn.text, told |-> turn.told]
  /\ turn.state \in {"asking", "final", "error"}
  /\ Sound(turn.buffer) /\ IsList(turn.rounds)
  /\ \A i \in 1 .. Len(turn.rounds) - 1 : Unchanging(turn.rounds[i].results)
  /\ turn.state # "final" =>
       turn.buffer.drafts = << >> /\ \A i \in 1 .. Len(turn.rounds) : Unchanging(turn.rounds[i].results)
  /\ turn.told.tool \in DraftTools =>
       turn.state = "final" /\ (~HiddenRan(turn) => TellsNewest(turn.told, turn.log, turn.buffer))

\* A round with these calls and results.
Round(calls, results) == [calls |-> calls, results |-> results]

\* What an answer makes of a turn that asks.
LEMMA AnsweredIs ==
  ASSUME NEW turn, NEW answer
  PROVE  /\ turn.state # "asking" => Answered(turn, answer) = turn
         /\ turn.state = "asking" =>
              /\ answer = Lost =>
                   Answered(turn, answer) = [Traced(turn, << >>, << >>) EXCEPT !.state = "error"]
              /\ answer = Garbled => Answered(turn, answer) = [turn EXCEPT !.state = "error"]
              /\ answer \notin {Lost, Garbled} =>
                   Answered(turn, answer) =
                     IF answer.calls = << >>
                       THEN [Traced(turn, << >>, << >>) EXCEPT !.state = "final", !.text = answer.text]
                     ELSE IF Len(turn.rounds) >= MaxToolRounds
                       THEN [Traced(turn, answer.calls, << >>) EXCEPT !.state = "error"]
                     ELSE AfterCalls(turn, answer.calls, RanAll(answer.calls, turn.buffer))
<1>1. Lost # Garbled
  BY DEF Lost, Garbled
<1>2. turn.state # "asking" => Answered(turn, answer) = turn
  BY DEF Answered
<1>3. turn.state = "asking" /\ answer = Lost =>
        Answered(turn, answer) = [Traced(turn, << >>, << >>) EXCEPT !.state = "error"]
  BY <1>1 DEF Answered
<1>4. turn.state = "asking" /\ answer = Garbled =>
        Answered(turn, answer) = [turn EXCEPT !.state = "error"]
  BY <1>1 DEF Answered
<1>5. turn.state = "asking" /\ answer \notin {Lost, Garbled} =>
        Answered(turn, answer) =
          IF answer.calls = << >>
            THEN [Traced(turn, << >>, << >>) EXCEPT !.state = "final", !.text = answer.text]
          ELSE IF Len(turn.rounds) >= MaxToolRounds
            THEN [Traced(turn, answer.calls, << >>) EXCEPT !.state = "error"]
          ELSE AfterCalls(turn, answer.calls, RanAll(answer.calls, turn.buffer))
  BY DEF Answered
<1> QED
  BY <1>2, <1>3, <1>4, <1>5

\* One more round.
LEMMA RoundsGrow ==
  ASSUME NEW rounds, IsList(rounds), NEW round,
         \A i \in 1 .. Len(rounds) : Unchanging(rounds[i].results)
  PROVE  LET new == Append(rounds, round)
         IN  /\ IsList(new) /\ Len(new) = Len(rounds) + 1 /\ new[Len(rounds) + 1] = round
             /\ Len(rounds) \in Nat /\ DOMAIN new = 1 .. Len(rounds) + 1
             /\ \A i \in 1 .. Len(new) - 1 : Unchanging(new[i].results)
             /\ Unchanging(round.results) => \A i \in 1 .. Len(new) : Unchanging(new[i].results)
<1> DEFINE n == Len(rounds)
           new == Append(rounds, round)
<1>1. /\ IsList(new) /\ Len(new) = n + 1 /\ new[n + 1] = round /\ n \in Nat
      /\ \A i \in 1 .. n : new[i] = rounds[i]
  BY ListAppended, ListFacts
<1> HIDE DEF new, n
<1>2. DOMAIN new = 1 .. n + 1 /\ Len(new) - 1 = n
  BY <1>1, ListFacts
<1>3. \A i \in 1 .. n : Unchanging(new[i].results)
  BY <1>1 DEF n
<1>4. Unchanging(round.results) => \A i \in 1 .. n + 1 : Unchanging(new[i].results)
  BY <1>1, <1>3
<1> QED
  BY <1>1, <1>2, <1>3, <1>4 DEF new, n

\* A fresh turn.
LEMMA TurnBegins ==
  ASSUME NEW checkpoint
  PROVE  TurnOK(FreshTurn(checkpoint))
<1> DEFINE t == FreshTurn(checkpoint)
<1>1. t = [log |-> SubSeq(Scenario, 1, checkpoint), state |-> "asking", rounds |-> << >>,
           buffer |-> [drafts |-> << >>, next |-> 0], text |-> {}, told |-> NothingTold]
  BY DEF FreshTurn
<1>2. Sound([drafts |-> << >>, next |-> 0])
  BY EmptySound
<1>3. NothingTold.tool \notin DraftTools
  BY DEF NothingTold, DraftTools
<1> HIDE DEF t
<1>4. /\ t.state = "asking" /\ t.rounds = << >> /\ t.buffer = [drafts |-> << >>, next |-> 0]
      /\ t.told = NothingTold
      /\ t = [log |-> t.log, state |-> t.state, rounds |-> t.rounds, buffer |-> t.buffer,
              text |-> t.text, told |-> t.told]
  BY <1>1
<1>5. t.buffer.drafts = << >> /\ Sound(t.buffer)
  BY <1>2, <1>4
<1> QED
  BY <1>3, <1>4, <1>5, EmptyList DEF TurnOK, t

\* An answer without changes.
LEMMA NothingChanged ==
  ASSUME NEW turn, TurnOK(turn), turn.state = "asking", NEW rounds, NEW state \in {"asking", "final", "error"},
         NEW text, IsList(rounds), \A i \in 1 .. Len(rounds) : Unchanging(rounds[i].results)
  PROVE  TurnOK([log |-> turn.log, state |-> state, rounds |-> rounds,
                 buffer |-> turn.buffer, text |-> text, told |-> turn.told])
<1> DEFINE t == [log |-> turn.log, state |-> state, rounds |-> rounds,
                 buffer |-> turn.buffer, text |-> text, told |-> turn.told]
<1>1. /\ t.state = state /\ t.rounds = rounds /\ t.buffer = turn.buffer /\ t.told = turn.told
      /\ t = [log |-> t.log, state |-> t.state, rounds |-> t.rounds, buffer |-> t.buffer,
              text |-> t.text, told |-> t.told]
  OBVIOUS
<1> HIDE DEF t
<1>2. turn.told.tool \notin DraftTools /\ turn.buffer.drafts = << >> /\ Sound(turn.buffer)
  BY DEF TurnOK
<1>3. \A i \in 1 .. Len(rounds) - 1 : i \in 1 .. Len(rounds)
  BY ListFacts
<1>4. TurnOK(t)
  BY <1>1, <1>2, <1>3 DEF TurnOK
<1> QED
  BY <1>4 DEF t

\* Every answer keeps to it.
LEMMA TurnStep ==
  ASSUME NEW turn, TurnOK(turn), NEW answer, answer \in {Lost, Garbled} \/ IsList(answer.calls)
  PROVE  TurnOK(Answered(turn, answer))
<1> DEFINE t == Answered(turn, answer)
           AsTurn(state, rounds, text) ==
             [log |-> turn.log, state |-> state, rounds |-> rounds,
              buffer |-> turn.buffer, text |-> text, told |-> turn.told]
<1>0. turn = [log |-> turn.log, state |-> turn.state, rounds |-> turn.rounds,
              buffer |-> turn.buffer, text |-> turn.text, told |-> turn.told]
  BY DEF TurnOK
<1>1. CASE turn.state # "asking"
  <2>1. t = turn
    BY <1>1 DEF Answered
  <2> QED
    BY <2>1
<1>2. ASSUME NEW calls, NEW results
      PROVE  Traced(turn, calls, results) = AsTurn(turn.state, Append(turn.rounds, Round(calls, results)), turn.text)
  <2>1. Traced(turn, calls, results) = [turn EXCEPT !.rounds = Append(turn.rounds, Round(calls, results))]
    BY DEF Traced, Round
  <2> DEFINE more == Append(turn.rounds, Round(calls, results))
  <2> HIDE DEF more
  <2> QED
    BY <1>0, <2>1 DEF more
<1>3. CASE turn.state = "asking"
  <2>1. /\ IsList(turn.rounds) /\ \A i \in 1 .. Len(turn.rounds) : Unchanging(turn.rounds[i].results)
        /\ Sound(turn.buffer) /\ turn.buffer.drafts = << >> /\ turn.told.tool \notin DraftTools
    BY <1>3 DEF TurnOK
  <2>2. ASSUME NEW calls, NEW results, IsList(results)
        PROVE  LET new == Append(turn.rounds, Round(calls, results))
               IN  /\ IsList(new) /\ Len(new) = Len(turn.rounds) + 1
                   /\ new[Len(turn.rounds) + 1].results = results
                   /\ Len(turn.rounds) \in Nat /\ DOMAIN new = 1 .. Len(turn.rounds) + 1
                   /\ \A i \in 1 .. Len(new) - 1 : Unchanging(new[i].results)
                   /\ Unchanging(results) => \A i \in 1 .. Len(new) : Unchanging(new[i].results)
    <3>1. Round(calls, results).results = results
      BY DEF Round
    <3> QED
      BY <2>1, <3>1, RoundsGrow
  <2>3. Unchanging(<< >>) /\ IsList(<< >>)
    BY EmptyList DEF Unchanging, ToSet
  <2>4. CASE answer = Lost
    <3> DEFINE more == Append(turn.rounds, Round(<< >>, << >>))
    <3>1. IsList(more) /\ \A i \in 1 .. Len(more) : Unchanging(more[i].results)
      BY <2>2, <2>3
    <3> HIDE DEF more
    <3>2. t = AsTurn("error", more, turn.text)
      <4>1. t = [Traced(turn, << >>, << >>) EXCEPT !.state = "error"]
        BY <1>3, <2>4, AnsweredIs
      <4>2. Traced(turn, << >>, << >>) = AsTurn(turn.state, more, turn.text)
        BY <1>2 DEF more
      <4> HIDE DEF t
      <4> QED
        BY <4>1, <4>2
    <3>3. TurnOK(AsTurn("error", more, turn.text))
      BY <1>3, <3>1, NothingChanged
    <3> QED
      BY <3>2, <3>3
  <2>5. CASE answer = Garbled
    <3>1. t = [turn EXCEPT !.state = "error"]
      BY <1>3, <2>5, AnsweredIs
    <3>2. t = AsTurn("error", turn.rounds, turn.text)
      BY <1>0, <3>1
    <3>3. TurnOK(AsTurn("error", turn.rounds, turn.text))
      BY <1>3, <2>1, NothingChanged
    <3> QED
      BY <3>2, <3>3
  <2>6. CASE answer \notin {Lost, Garbled} /\ answer.calls = << >>
    <3> DEFINE more == Append(turn.rounds, Round(<< >>, << >>))
    <3>1. IsList(more) /\ \A i \in 1 .. Len(more) : Unchanging(more[i].results)
      BY <2>2, <2>3
    <3> HIDE DEF more
    <3>2. t = AsTurn("final", more, answer.text)
      <4> DEFINE text == answer.text
                 before == AsTurn(turn.state, more, turn.text)
      <4>1. t = [Traced(turn, << >>, << >>) EXCEPT !.state = "final", !.text = text]
        BY <1>3, <2>6, AnsweredIs
      <4>2. Traced(turn, << >>, << >>) = before
        BY <1>2 DEF more
      <4> HIDE DEF t, text
      <4>3. [before EXCEPT !.state = "final"] = AsTurn("final", more, turn.text)
        OBVIOUS
      <4>4. [AsTurn("final", more, turn.text) EXCEPT !.text = text] = AsTurn("final", more, text)
        OBVIOUS
      <4>5. t = [[before EXCEPT !.state = "final"] EXCEPT !.text = text]
        BY <4>1, <4>2
      <4> QED
        BY <4>3, <4>4, <4>5 DEF text
    <3>3. TurnOK(AsTurn("final", more, answer.text))
      BY <1>3, <3>1, NothingChanged
    <3> QED
      BY <3>2, <3>3
  <2>7. CASE answer \notin {Lost, Garbled} /\ answer.calls # << >> /\ Len(turn.rounds) >= MaxToolRounds
    <3> DEFINE more == Append(turn.rounds, Round(answer.calls, << >>))
    <3>1. IsList(more) /\ \A i \in 1 .. Len(more) : Unchanging(more[i].results)
      BY <2>2, <2>3
    <3> HIDE DEF more
    <3>2. t = AsTurn("error", more, turn.text)
      <4>1. t = [Traced(turn, answer.calls, << >>) EXCEPT !.state = "error"]
        BY <1>3, <2>7, AnsweredIs
      <4>2. Traced(turn, answer.calls, << >>) = AsTurn(turn.state, more, turn.text)
        BY <1>2 DEF more
      <4> HIDE DEF t
      <4> QED
        BY <4>1, <4>2
    <3>3. TurnOK(AsTurn("error", more, turn.text))
      BY <1>3, <3>1, NothingChanged
    <3> QED
      BY <3>2, <3>3
  \* The calls are run.
  <2>8. CASE answer \notin {Lost, Garbled} /\ answer.calls # << >> /\ ~(Len(turn.rounds) >= MaxToolRounds)
    <3> DEFINE ran == RanAll(answer.calls, turn.buffer)
               more == Append(turn.rounds, Round(answer.calls, ran.results))
               told == Confirmation(turn.log, ran.buffer, ran.results)
    <3>1. RunOK(ran)
      BY <2>1, <2>8, RoundRuns
    <3> HIDE DEF ran
    <3>2. /\ Sound(ran.buffer) /\ IsList(ran.results) /\ ran.mutated \in BOOLEAN
          /\ (ran.mutated <=> Changes(ran.results) # {})
          /\ ~ran.mutated => ran.buffer.drafts = << >>
          /\ ~RanHidden(ran.results) =>
               \A i \in Changes(ran.results) :
                 (\A j \in Changes(ran.results) : j <= i) => Newest(ran.results[i], ran.buffer)
      BY <3>1 DEF RunOK
    <3>3. /\ IsList(more) /\ Len(more) = Len(turn.rounds) + 1
          /\ more[Len(turn.rounds) + 1].results = ran.results
          /\ Len(turn.rounds) \in Nat /\ DOMAIN more = 1 .. Len(turn.rounds) + 1
          /\ \A i \in 1 .. Len(more) - 1 : Unchanging(more[i].results)
          /\ Unchanging(ran.results) => \A i \in 1 .. Len(more) : Unchanging(more[i].results)
      BY <2>2, <3>2
    <3>4. t = AfterCalls(turn, answer.calls, ran)
      BY <1>3, <2>8, AnsweredIs DEF ran
    <3>5. t = [Traced(turn, answer.calls, ran.results)
                 EXCEPT !.buffer = ran.buffer,
                        !.state = IF ran.mutated THEN "final" ELSE @,
                        !.told = IF ran.mutated THEN told ELSE @]
      BY <3>4 DEF AfterCalls
    <3> HIDE DEF more, told
    <3>6. Traced(turn, answer.calls, ran.results) = AsTurn(turn.state, more, turn.text)
      BY <1>2 DEF more
    <3>7. t = [log |-> turn.log, state |-> IF ran.mutated THEN "final" ELSE "asking",
               rounds |-> more, buffer |-> ran.buffer, text |-> turn.text,
               told |-> IF ran.mutated THEN told ELSE turn.told]
      <4> HIDE DEF t
      <4>1. CASE ran.mutated
        <5>1. t = [AsTurn(turn.state, more, turn.text)
                     EXCEPT !.buffer = ran.buffer, !.state = "final", !.told = told]
          BY <3>5, <3>6, <4>1
        <5> QED
          BY <4>1, <5>1
      <4>2. CASE ~ran.mutated
        <5>1. t = [AsTurn(turn.state, more, turn.text) EXCEPT !.buffer = ran.buffer]
          BY <1>3, <3>5, <3>6, <4>2
        <5> QED
          BY <1>3, <4>2, <5>1
      <4> QED
        BY <3>2, <4>1, <4>2
    <3> HIDE DEF t
    <3>8. /\ t.log = turn.log /\ t.state = (IF ran.mutated THEN "final" ELSE "asking")
          /\ t.rounds = more /\ t.buffer = ran.buffer
          /\ t.told = (IF ran.mutated THEN told ELSE turn.told)
          /\ t = [log |-> t.log, state |-> t.state, rounds |-> t.rounds, buffer |-> t.buffer,
                  text |-> t.text, told |-> t.told]
      BY <3>7
    <3>9. CASE ~ran.mutated
      <4>1. Unchanging(ran.results)
        BY <3>2, <3>9 DEF Changes, Unchanging, ToSet
      <4>2. t.state = "asking" /\ t.told.tool \notin DraftTools /\ t.buffer.drafts = << >>
        BY <2>1, <3>2, <3>8, <3>9
      <4> QED
        BY <3>2, <3>3, <3>8, <4>1, <4>2 DEF TurnOK, t
    <3>10. CASE ran.mutated
      <4>1. /\ Changes(ran.results) \subseteq Nat /\ Changes(ran.results) # {}
              /\ Changes(ran.results) \subseteq 1 .. Len(ran.results)
            /\ Len(ran.results) \in Nat
        BY <3>2, <3>10, ListFacts DEF Changes
      <4>2. PICK i \in Changes(ran.results) : \A j \in Changes(ran.results) : j <= i
        <5> DEFINE n == Len(ran.results)
                   Below == {n - i : i \in Changes(ran.results)}
        <5>1. Below \subseteq Nat /\ Below # {}
          BY <4>1
        <5>2. PICK k \in Below : \A l \in Below : k <= l
          BY <5>1, LeastExists
        <5>3. PICK i \in Changes(ran.results) : k = n - i
          BY <5>2
        <5>4. \A j \in Changes(ran.results) : n - i <= n - j
          BY <5>2, <5>3
        <5>5. i \in Nat /\ n \in Nat
          BY <4>1
        <5>6. ASSUME NEW j \in Changes(ran.results)
              PROVE  j <= i
          <6>1. j \in Nat /\ n - i <= n - j
            BY <4>1, <5>4
          <6> HIDE DEF n
          <6> QED
            BY <5>5, <6>1
        <5> QED
          BY <5>6
      <4>3. /\ told.tool = ran.results[i].name
            /\ told.tool \in DraftTools /\ Newest(ran.results[i], ran.buffer) => TellsNewest(told, turn.log, ran.buffer)
        BY <3>2, <4>1, <4>2, ConfirmationTells DEF told
      <4>4. RanHidden(ran.results) => HiddenRan(t)
        <5>1. Len(turn.rounds) + 1 \in DOMAIN t.rounds /\ t.rounds[Len(turn.rounds) + 1].results = ran.results
          BY <3>3, <3>8
        <5> QED
          BY <5>1 DEF RanHidden, HiddenRan
      <4>5. told.tool \in DraftTools /\ ~HiddenRan(t) => TellsNewest(told, turn.log, ran.buffer)
        BY <3>2, <4>2, <4>3, <4>4
      <4> QED
        BY <3>2, <3>3, <3>8, <3>10, <4>5 DEF TurnOK, t
    <3> QED
      BY <3>2, <3>9, <3>10
  <2> QED
    BY <2>4, <2>5, <2>6, <2>7, <2>8
<1> QED
  BY <1>1, <1>3

\* f has what the first n answers make of a turn.
TurnStates(checkpoint, all, n, f) ==
  f = [k \in 0 .. n |-> IF k = 0 THEN FreshTurn(checkpoint) ELSE Answered(f[k - 1], all[k])]

\* There is such a function.
LEMMA TurnStatesExist ==
  ASSUME NEW checkpoint, NEW all, NEW n \in Nat
  PROVE  \E f : TurnStates(checkpoint, all, n, f)
<1> DEFINE Missing == {k \in Nat : ~ \E f : TurnStates(checkpoint, all, k, f)}
<1>1. SUFFICES ASSUME Missing # {} PROVE FALSE
  OBVIOUS
<1>2. PICK m \in Missing : \A k \in Missing : m <= k
  BY <1>1, LeastExists
<1>3. CASE m = 0
  <2>1. TurnStates(checkpoint, all, 0, [k \in 0 .. 0 |-> FreshTurn(checkpoint)])
    BY DEF TurnStates
  <2> QED  BY <1>2, <1>3, <2>1
<1>4. CASE m # 0
  <2>1. m - 1 \in Nat /\ m - 1 \notin Missing
    BY <1>2, <1>4
  <2>2. PICK f : TurnStates(checkpoint, all, m - 1, f)
    BY <2>1
  <2> DEFINE g == [k \in 0 .. m |-> IF k = m THEN Answered(f[m - 1], all[m]) ELSE f[k]]
  <2>3. /\ \A k \in 0 .. m - 1 : f[k] = IF k = 0 THEN FreshTurn(checkpoint) ELSE Answered(f[k - 1], all[k])
        /\ m \in Nat /\ m > 0
    BY <1>4, <2>2 DEF TurnStates
  <2>4. ASSUME NEW k \in 0 .. m
        PROVE  g[k] = IF k = 0 THEN FreshTurn(checkpoint) ELSE Answered(g[k - 1], all[k])
    <3>1. CASE k = m
      <4>1. m - 1 \in 0 .. m /\ m - 1 # m /\ g[m - 1] = f[m - 1]
        BY <2>3
      <4> QED  BY <2>3, <3>1, <4>1
    <3>2. CASE k = 0
      BY <2>3, <3>2
    <3>3. CASE k # m /\ k # 0
      <4>1. k - 1 \in 0 .. m /\ k - 1 # m /\ k \in 0 .. m - 1
        BY <2>3, <3>3
      <4> QED  BY <2>3, <3>3, <4>1
    <3> QED  BY <3>1, <3>2, <3>3
  <2>5. DOMAIN g = 0 .. m /\ g = [k \in 0 .. m |-> g[k]]
    OBVIOUS
  <2> HIDE DEF g
  <2>6. TurnStates(checkpoint, all, m, g)
    BY <2>4, <2>5 DEF TurnStates
  <2> QED  BY <1>2, <2>6
<1> QED  BY <1>3, <1>4

\* A turn is what its answers, and then none, make of a fresh one.
LEMMA TurnIs ==
  ASSUME NEW checkpoint, NEW answers, Len(Append(answers, Lost)) \in Nat
  PROVE  \E f : /\ TurnStates(checkpoint, Append(answers, Lost), Len(Append(answers, Lost)), f)
                /\ Turn(checkpoint, answers) = f[Len(Append(answers, Lost))]
<1> DEFINE all == Append(answers, Lost)
<1>1. Turn(checkpoint, answers)
        = (CHOOSE f : f = [k \in 0 .. Len(all) |->
             IF k = 0 THEN FreshTurn(checkpoint) ELSE Answered(f[k - 1], all[k])])[Len(all)]
  BY DEF Turn
<1> HIDE DEF all
<1>2. Len(all) \in Nat
  BY DEF all
<1>3. \E f : TurnStates(checkpoint, all, Len(all), f)
  BY <1>2, TurnStatesExist
<1>4. \E f : TurnStates(checkpoint, all, Len(all), f) /\ Turn(checkpoint, answers) = f[Len(all)]
  BY <1>1, <1>3 DEF TurnStates
<1> QED
  BY <1>4 DEF all

\* After all answers of a turn.
LEMMA TurnsAreOK ==
  ASSUME NEW checkpoint, NEW answers \in Answers
  PROVE  TurnOK(Turn(checkpoint, answers))
<1> DEFINE all == Append(answers, Lost)
           n == Len(all)
<1>1. IsList(answers) /\ \A i \in 1 .. Len(answers) : answers[i] \in {Lost, Garbled} \/ IsList(answers[i].calls)
  BY AnswersAssumption, ListFacts
<1>2. /\ IsList(all) /\ n = Len(answers) + 1 /\ all[n] = Lost /\ Len(answers) \in Nat
      /\ \A i \in 1 .. Len(answers) : all[i] = answers[i]
  BY <1>1, ListAppended, ListFacts
<1>3. n \in Nat
  BY <1>2
<1>4. PICK f : TurnStates(checkpoint, all, n, f) /\ Turn(checkpoint, answers) = f[n]
  BY <1>3, TurnIs
<1> HIDE DEF all, n
<1>5. \A k \in 1 .. n : all[k] \in {Lost, Garbled} \/ IsList(all[k].calls)
  BY <1>1, <1>2
<1>6. ASSUME NEW k \in Nat, k <= n
      PROVE  TurnOK(f[k])
  <2> DEFINE Bad == {m \in Nat : m <= n /\ ~TurnOK(f[m])}
  <2>1. SUFFICES ASSUME Bad # {} PROVE FALSE
    BY <1>6
  <2>2. PICK m \in Bad : \A l \in Bad : m <= l
    BY <2>1, LeastExists
  <2>3. m \in 0 .. n
    BY <1>3, <2>2
  <2>4. f[m] = IF m = 0 THEN FreshTurn(checkpoint) ELSE Answered(f[m - 1], all[m])
    BY <1>4, <2>3 DEF TurnStates
  <2>5. m # 0
    BY <2>2, <2>4, TurnBegins
  <2>6. m - 1 \in Nat /\ m - 1 <= n /\ ~(m <= m - 1) /\ m \in 1 .. n
    BY <1>3, <2>3, <2>5
  <2>7. TurnOK(f[m - 1])
    BY <2>2, <2>6
  <2>8. TurnOK(f[m])
    BY <1>5, <2>4, <2>5, <2>6, <2>7, TurnStep
  <2> QED
    BY <2>2, <2>8
<1> QED
  BY <1>3, <1>4, <1>6

\* Whatever the model answers: no call is run after a change, a turn that fails has
\* changed nothing, and the confirmation tells of the newest draft, its references
\* as the claims that submitting it would refer to.
THEOREM ConfirmationsAreTrue == Spec => []ConfirmationTrue
<1>1. ConfirmationTrue
  <2>1. SUFFICES ASSUME NEW turn \in LongestTurns, ~HiddenRan(turn)
                 PROVE  LET newest == Last(turn.buffer.drafts)
                            Referred(ref) == Resolved(ref, PreviewIds)
                            known == DOMAIN Replay(MergedEntries(turn.log, turn.buffer.drafts, Me)).claims
                        IN  /\ turn.state = "error" => turn.buffer.drafts = << >>
                            /\ \A i \in 1 .. Len(turn.rounds) - 1 :
                                 \A r \in ToSet(turn.rounds[i].results) : ~CliMutates(r.name, r)
                            /\ turn.told.tool \in DraftTools =>
                                 /\ turn.buffer.drafts # << >> /\ ToolFor[newest.entry.type] = turn.told.tool
                                 /\ \A f \in DOMAIN turn.told.said \ RefFields :
                                      turn.told.said[f] = IF f = "body" THEN newest.entry.body
                                                          ELSE <<"word", newest.entry[f]>>
                                 /\ \A f \in DOMAIN turn.told.said \intersect RefFields :
                                      turn.told.said[f] = IF Referred(newest.entry[f]) \in known
                                                            THEN Referred(newest.entry[f]) ELSE NoId
    BY Zenon DEF ConfirmationTrue
  <2>2. TurnOK(turn)
    BY TurnsAreOK DEF LongestTurns
  <2>3. turn.state = "error" => turn.buffer.drafts = << >>
    BY <2>2 DEF TurnOK
  <2>4. \A i \in 1 .. Len(turn.rounds) - 1 :
          \A r \in ToSet(turn.rounds[i].results) : ~CliMutates(r.name, r)
    BY <2>2 DEF TurnOK, Unchanging
  <2>5. turn.told.tool \in DraftTools => TellsNewest(turn.told, turn.log, turn.buffer)
    BY <2>1, <2>2 DEF TurnOK
  <2> QED
    BY <2>3, <2>4, <2>5, Zenon DEF TellsNewest, Known
<1> QED
  BY <1>1, PTL

-----------------------------------------------------------------------------
(* Lists of lists *)

\* Two lists of the same elements are the same.
LEMMA ListsEqual ==
  ASSUME NEW s, IsList(s), NEW t, IsList(t), Len(s) = Len(t), \A i \in 1 .. Len(s) : s[i] = t[i]
  PROVE  s = t
<1> DEFINE S == ToSet(s) \union ToSet(t)
<1>1. s \in Seq(S) /\ t \in Seq(S)
  BY DEF IsList
<1> HIDE DEF S
<1> QED
  BY <1>1, SeqEqual

\* One list after the other.
LEMMA ListsJoined ==
  ASSUME NEW s, IsList(s), NEW t, IsList(t)
  PROVE  /\ IsList(s \o t) /\ Len(s \o t) = Len(s) + Len(t)
         /\ \A i \in 1 .. Len(s) + Len(t) :
              (s \o t)[i] = IF i <= Len(s) THEN s[i] ELSE t[i - Len(s)]
<1> DEFINE S == ToSet(s) \union ToSet(t)
<1>1. s \in Seq(S) /\ t \in Seq(S)
  BY DEF IsList
<1> HIDE DEF S
<1>2. /\ s \o t \in Seq(S) /\ Len(s \o t) = Len(s) + Len(t)
      /\ \A i \in 1 .. Len(s) + Len(t) :
           (s \o t)[i] = IF i <= Len(s) THEN s[i] ELSE t[i - Len(s)]
  BY <1>1, ConcatProperties
<1>3. IsList(s \o t)
  BY <1>2, SequenceIsList
<1> QED
  BY <1>2, <1>3

\* The empty list joined to a list.
LEMMA NothingJoined ==
  ASSUME NEW s, IsList(s)
  PROVE  s \o << >> = s /\ << >> \o s = s
BY ConcatEmptySeq DEF IsList

\* An element at the end of the second of two lists is at the end of both.
LEMMA AppendJoined ==
  ASSUME NEW s, IsList(s), NEW t, IsList(t), NEW x
  PROVE  s \o Append(t, x) = Append(s \o t, x)
<1> DEFINE l == s \o Append(t, x)
           r == Append(s \o t, x)
           n == Len(s)
           m == Len(t)
<1>1. /\ IsList(Append(t, x)) /\ Len(Append(t, x)) = m + 1 /\ Append(t, x)[m + 1] = x
      /\ \A i \in 1 .. m : Append(t, x)[i] = t[i]
      /\ n \in Nat /\ m \in Nat
  BY ListAppended, ListFacts
<1>2. /\ IsList(s \o t) /\ Len(s \o t) = n + m
      /\ \A i \in 1 .. n + m : (s \o t)[i] = IF i <= n THEN s[i] ELSE t[i - n]
  BY ListsJoined
<1>3. /\ IsList(r) /\ Len(r) = n + m + 1 /\ r[n + m + 1] = x
      /\ \A i \in 1 .. n + m : r[i] = (s \o t)[i]
  BY <1>2, ListAppended
<1>4. /\ IsList(l) /\ Len(l) = n + (m + 1)
      /\ \A i \in 1 .. n + (m + 1) : l[i] = IF i <= n THEN s[i] ELSE Append(t, x)[i - n]
  BY <1>1, ListsJoined
<1> HIDE DEF l, r, n, m
<1>5. ASSUME NEW i \in 1 .. n + m + 1
      PROVE  l[i] = r[i]
  <2>1. CASE i = n + m + 1
    <3>1. ~(i <= n) /\ i - n = m + 1
      BY <1>1, <2>1
    <3> QED
      BY <1>1, <1>3, <1>4, <2>1, <3>1
  <2>2. CASE i # n + m + 1
    <3>1. i \in 1 .. n + m /\ (~(i <= n) => i - n \in 1 .. m)
      BY <1>1, <2>2
    <3>2. r[i] = IF i <= n THEN s[i] ELSE t[i - n]
      BY <1>2, <1>3, <3>1
    <3>3. l[i] = IF i <= n THEN s[i] ELSE Append(t, x)[i - n]
      BY <1>1, <1>4
    <3>4. ~(i <= n) => Append(t, x)[i - n] = t[i - n]
      BY <1>1, <3>1
    <3>5. CASE i <= n
      BY <3>2, <3>3, <3>5
    <3>6. CASE ~(i <= n)
      BY <3>2, <3>3, <3>4, <3>6, Zenon
    <3> QED
      BY <3>5, <3>6
  <2> QED
    BY <2>1, <2>2
<1>6. Len(l) = n + m + 1 /\ Len(r) = n + m + 1
  BY <1>1, <1>3, <1>4
<1> QED
  BY <1>3, <1>4, <1>5, <1>6, ListsEqual DEF l, r

\* f has the first n lists, one after the other.
Flattened(seqs, n, f) ==
  f = [k \in 1 .. n |-> IF k = 1 THEN seqs[k] ELSE f[k - 1] \o seqs[k]]

\* There is such a function.
LEMMA FlattenedExist ==
  ASSUME NEW seqs, NEW n \in Nat
  PROVE  \E f : Flattened(seqs, n, f)
<1> DEFINE Missing == {k \in Nat : ~ \E f : Flattened(seqs, k, f)}
<1>1. SUFFICES ASSUME Missing # {} PROVE FALSE
  OBVIOUS
<1>2. PICK m \in Missing : \A k \in Missing : m <= k
  BY <1>1, LeastExists
<1>3. CASE m = 0
  <2> DEFINE g == [k \in 1 .. 0 |-> {}]
  <2>1. g = [k \in 1 .. 0 |-> IF k = 1 THEN seqs[k] ELSE g[k - 1] \o seqs[k]]
    <3>1. 1 .. 0 = {}
      OBVIOUS
    <3> QED
      BY <3>1, Zenon
  <2>2. Flattened(seqs, 0, g)
    BY <2>1 DEF Flattened
  <2> QED  BY <1>2, <1>3, <2>2
<1>4. CASE m # 0
  <2>1. m - 1 \in Nat /\ m - 1 \notin Missing
    BY <1>2, <1>4
  <2>2. PICK f : Flattened(seqs, m - 1, f)
    BY <2>1
  <2> DEFINE g == [k \in 1 .. m |-> IF k = m /\ m = 1 THEN seqs[m]
                                    ELSE IF k = m THEN f[m - 1] \o seqs[m] ELSE f[k]]
  <2>3. /\ \A k \in 1 .. m - 1 : f[k] = IF k = 1 THEN seqs[k] ELSE f[k - 1] \o seqs[k]
        /\ m \in Nat /\ m > 0
    <3>1. f = [k \in 1 .. m - 1 |-> IF k = 1 THEN seqs[k] ELSE f[k - 1] \o seqs[k]]
      BY <2>2 DEF Flattened
    <3>2. \A k \in 1 .. m - 1 : f[k] = IF k = 1 THEN seqs[k] ELSE f[k - 1] \o seqs[k]
      BY <3>1, Zenon
    <3> QED
      BY <1>4, <3>2
  <2>4. ASSUME NEW k \in 1 .. m
        PROVE  g[k] = IF k = 1 THEN seqs[k] ELSE g[k - 1] \o seqs[k]
    <3>1. CASE k = m /\ m # 1
      <4>1. m - 1 \in 1 .. m /\ m - 1 # m /\ g[m - 1] = f[m - 1]
        BY <2>3, <3>1
      <4> QED  BY <2>3, <3>1, <4>1
    <3>2. CASE k = m /\ m = 1
      BY <2>3, <3>2
    <3>3. CASE k # m /\ k = 1
      <4>1. k \in 1 .. m - 1
        BY <2>3, <3>3
      <4> QED  BY <2>3, <3>3, <4>1
    <3>4. CASE k # m /\ k # 1
      <4>1. k - 1 \in 1 .. m /\ k - 1 # m /\ k \in 1 .. m - 1
        BY <2>3, <3>4
      <4> QED  BY <2>3, <3>4, <4>1
    <3> QED  BY <3>1, <3>2, <3>3, <3>4
  <2>5. DOMAIN g = 1 .. m /\ g = [k \in 1 .. m |-> g[k]]
    OBVIOUS
  <2> HIDE DEF g
  <2>6. Flattened(seqs, m, g)
    BY <2>4, <2>5 DEF Flattened
  <2> QED  BY <1>2, <2>6
<1> QED  BY <1>3, <1>4

\* Lists flattened, by the function of the lists so far.
LEMMA FlattenSeqIs ==
  ASSUME NEW seqs, Len(seqs) \in Nat
  PROVE  \E f : /\ Flattened(seqs, Len(seqs), f)
                /\ FlattenSeq(seqs) = IF Len(seqs) = 0 THEN seqs ELSE f[Len(seqs)]
<1>1. \E f : Flattened(seqs, Len(seqs), f)
  BY FlattenedExist
<1>2. FlattenSeq(seqs) =
        IF Len(seqs) = 0 THEN seqs
        ELSE (CHOOSE f : f = [k \in 1 .. Len(seqs) |->
                IF k = 1 THEN seqs[k] ELSE f[k - 1] \o seqs[k]])[Len(seqs)]
  BY DEF FlattenSeq
<1>3. \E f : f = [k \in 1 .. Len(seqs) |-> IF k = 1 THEN seqs[k] ELSE f[k - 1] \o seqs[k]]
  BY <1>1 DEF Flattened
<1> QED  BY <1>2, <1>3 DEF Flattened

\* What is flattened of the first n lists, and of all.
LEMMA FlattenedLists ==
  ASSUME NEW seqs, IsList(seqs), \A i \in 1 .. Len(seqs) : IsList(seqs[i])
  PROVE  \E f : /\ f[0] = << >> /\ FlattenSeq(seqs) = f[Len(seqs)]
                /\ \A k \in 0 .. Len(seqs) : IsList(f[k])
                /\ \A k \in 1 .. Len(seqs) : f[k] = f[k - 1] \o seqs[k]
<1> DEFINE n == Len(seqs)
<1>1. n \in Nat
  BY ListFacts
<1>2. PICK g : Flattened(seqs, n, g) /\ FlattenSeq(seqs) = IF n = 0 THEN seqs ELSE g[n]
  BY <1>1, FlattenSeqIs
<1> DEFINE f == [k \in 0 .. n |-> IF k = 0 THEN << >> ELSE g[k]]
<1>3. n = 0 => seqs = << >>
  BY ListsEqual, EmptyList
<1> HIDE DEF n
<1>4. f[0] = << >> /\ FlattenSeq(seqs) = f[n]
  <2>1. f[0] = << >> /\ f[n] = IF n = 0 THEN << >> ELSE g[n]
    BY <1>1
  <2> HIDE DEF f
  <2> QED
    BY <1>2, <1>3, <2>1
<1>5. ASSUME NEW k \in 1 .. n
      PROVE  f[k] = f[k - 1] \o seqs[k]
  <2>1. g[k] = IF k = 1 THEN seqs[k] ELSE g[k - 1] \o seqs[k]
    BY <1>2 DEF Flattened
  <2>2. IsList(seqs[k])
    BY DEF n
  <2>3. CASE k = 1
    <3>1. f[k] = seqs[k] /\ f[k - 1] = << >>
      BY <1>1, <2>1, <2>3
    <3> QED
      BY <2>2, <3>1, NothingJoined
  <2>4. CASE k # 1
    <3>1. f[k] = g[k] /\ f[k - 1] = g[k - 1]
      BY <1>1, <2>4
    <3> QED
      BY <2>1, <2>4, <3>1
  <2> QED
    BY <2>3, <2>4
<1> HIDE DEF f
<1>6. ASSUME NEW k \in 0 .. n
      PROVE  IsList(f[k])
  <2> DEFINE Bad == {m \in Nat : m <= n /\ ~IsList(f[m])}
  <2>1. SUFFICES ASSUME Bad # {} PROVE FALSE
    BY <1>1, <1>6
  <2>2. PICK m \in Bad : \A l \in Bad : m <= l
    BY <2>1, LeastExists
  <2>3. m # 0
    BY <1>4, <2>2, EmptyList
  <2>4. m \in 1 .. n /\ m - 1 \in Nat /\ m - 1 <= n /\ ~(m <= m - 1)
    BY <1>1, <2>2, <2>3
  <2>5. IsList(f[m - 1]) /\ IsList(seqs[m])
    BY <2>2, <2>4 DEF n
  <2>6. IsList(f[m])
    <3>1. f[m] = f[m - 1] \o seqs[m]
      BY <1>5, <2>4
    <3>2. IsList(f[m - 1] \o seqs[m])
      BY <2>5, ListsJoined
    <3> QED
      BY <3>1, <3>2
  <2> QED
    BY <2>2, <2>6
<1> QED
  BY <1>4, <1>5, <1>6 DEF n

\* One more list.
LEMMA FlattenAppended ==
  ASSUME NEW seqs, IsList(seqs), \A i \in 1 .. Len(seqs) : IsList(seqs[i]), NEW s, IsList(s)
  PROVE  /\ IsList(FlattenSeq(seqs))
         /\ FlattenSeq(Append(seqs, s)) = FlattenSeq(seqs) \o s
<1> DEFINE n == Len(seqs)
           more == Append(seqs, s)
<1>1. /\ n \in Nat /\ IsList(more) /\ Len(more) = n + 1 /\ more[n + 1] = s
      /\ \A i \in 1 .. n : more[i] = seqs[i]
  BY ListFacts, ListAppended
<1> HIDE DEF more
<1>2. PICK f : /\ f[0] = << >> /\ FlattenSeq(seqs) = f[n]
               /\ \A k \in 0 .. n : IsList(f[k])
               /\ \A k \in 1 .. n : f[k] = f[k - 1] \o seqs[k]
  BY FlattenedLists
<1> HIDE DEF n
<1>3. \A i \in 1 .. Len(more) : IsList(more[i])
  <2>1. SUFFICES ASSUME NEW i \in 1 .. n + 1 PROVE IsList(more[i])
    BY <1>1
  <2>2. i \in 1 .. n \/ i = n + 1
    BY <1>1
  <2> QED
    BY <1>1, <2>2 DEF n
<1>4. PICK g : /\ g[0] = << >> /\ FlattenSeq(more) = g[Len(more)]
               /\ \A k \in 1 .. Len(more) : g[k] = g[k - 1] \o more[k]
  BY <1>1, <1>3, FlattenedLists
<1>5. ASSUME NEW k \in 0 .. n
      PROVE  f[k] = g[k]
  <2> DEFINE Bad == {m \in Nat : m <= n /\ f[m] # g[m]}
  <2>1. SUFFICES ASSUME Bad # {} PROVE FALSE
    BY <1>1, <1>5
  <2>2. PICK m \in Bad : \A l \in Bad : m <= l
    BY <2>1, LeastExists
  <2>3. m # 0
    BY <1>2, <1>4, <2>2
  <2>4. m \in 1 .. n /\ m \in 1 .. Len(more) /\ m - 1 \in Nat /\ m - 1 <= n /\ ~(m <= m - 1)
    BY <1>1, <2>2, <2>3
  <2>5. f[m - 1] = g[m - 1]
    BY <2>2, <2>4
  <2>6. f[m] = g[m]
    BY <1>1, <1>2, <1>4, <2>4, <2>5
  <2> QED
    BY <2>2, <2>6
<1>6. g[n + 1] = f[n] \o s
  <2>1. n + 1 \in 1 .. Len(more) /\ (n + 1) - 1 = n /\ n \in 0 .. n
    BY <1>1
  <2>2. g[n + 1] = g[n] \o more[n + 1]
    BY <1>4, <2>1
  <2> QED
    BY <1>1, <1>5, <2>1, <2>2
<1>7. IsList(f[n])
  BY <1>1, <1>2
<1> QED
  BY <1>1, <1>2, <1>4, <1>6, <1>7 DEF more

-----------------------------------------------------------------------------
(* Which call has made which draft *)

Drafting(r) == r.name \in DraftTools /\ r.error = "none"
DraftsIn(results, n) == {j \in 1 .. n : results[j].name \in DraftTools /\ results[j].error = "none"}
KnownRefs(call) == \A f \in RefFields : PrefixKnown(Field(call.args, f))

\* The results tell of every draft there is which call has made it, and of what:
\* the drafts are numbered as they come.
Numbered(results, b) ==
  /\ IsList(results) /\ b.next = Cardinality(DraftsIn(results, Len(results)))
  /\ \A i \in DOMAIN results :
       KnownRefs(results[i]) /\ (results[i].error = "none" => CliDecodes(results[i]).error = "none")
  /\ \A k \in DOMAIN b.drafts : \E i \in DOMAIN results :
       /\ Drafting(results[i]) /\ b.drafts[k].id = DraftOf(results, i)
       /\ b.drafts[k].entry = Content(results[i].name, CliDecodes(results[i]).args)

\* How many drafts the first calls have made.
LEMMA DraftsCounted ==
  ASSUME NEW results, NEW n \in Nat
  PROVE  /\ IsFiniteSet(DraftsIn(results, n)) /\ Cardinality(DraftsIn(results, n)) \in Nat
         /\ DraftOf(results, n + 1) = Cardinality(DraftsIn(results, n))
<1>1. IsFiniteSet(1 .. n)
  BY FS_Interval
<1>2. IsFiniteSet(DraftsIn(results, n))
  BY <1>1, FS_Subset DEF DraftsIn
<1>3. (n + 1) - 1 = n
  OBVIOUS
<1> QED
  BY <1>2, <1>3, FS_CardinalityType DEF DraftOf, DraftsIn

\* No two calls have made the same draft.
LEMMA NumbersDiffer ==
  ASSUME NEW results, NEW i \in Nat \ {0}, NEW j \in Nat \ {0}, Drafting(results[i]), Drafting(results[j]),
         DraftOf(results, i) = DraftOf(results, j)
  PROVE  i = j
<1>1. ASSUME NEW p \in Nat \ {0}, NEW q \in Nat \ {0}, Drafting(results[p]), p < q
      PROVE  DraftOf(results, p) < DraftOf(results, q)
  <2> DEFINE A == DraftsIn(results, p - 1)
             B == DraftsIn(results, q - 1)
  <2>1. p - 1 \in Nat /\ q - 1 \in Nat /\ (p - 1) + 1 = p /\ (q - 1) + 1 = q
    OBVIOUS
  <2>2. /\ IsFiniteSet(A) /\ Cardinality(A) \in Nat /\ DraftOf(results, p) = Cardinality(A)
        /\ IsFiniteSet(B) /\ Cardinality(B) \in Nat /\ DraftOf(results, q) = Cardinality(B)
    BY <2>1, DraftsCounted
  <2>3. A \subseteq B /\ p \in B /\ p \notin A
    BY <1>1 DEF DraftsIn, Drafting
  <2> HIDE DEF A, B
  <2>4. A # B /\ Cardinality(A) <= Cardinality(B) /\ (Cardinality(B) = Cardinality(A) => B = A)
    BY <2>2, <2>3, FS_Subset
  <2> QED
    BY <2>2, <2>4
<1>2. /\ i < j => DraftOf(results, i) < DraftOf(results, j)
      /\ j < i => DraftOf(results, j) < DraftOf(results, i)
  BY <1>1
<1>3. DraftOf(results, i) \in Nat
  <2>1. i - 1 \in Nat /\ (i - 1) + 1 = i
    OBVIOUS
  <2> QED
    BY <2>1, DraftsCounted
<1> QED
  BY <1>2, <1>3

\* Before the first answer.
LEMMA NumberedBegins == Numbered(<< >>, [drafts |-> << >>, next |-> 0])
<1>1. DraftsIn(<< >>, 0) = {}
  BY DEF DraftsIn
<1> QED
  BY <1>1, EmptyList, FS_EmptySet DEF Numbered

\* One more result: the numbers of the others stay.
LEMMA NumbersStay ==
  ASSUME NEW results, IsList(results), NEW r
  PROVE  LET new == Append(results, r)
             n == Len(results)
         IN  /\ \A i \in 1 .. n + 1 : DraftOf(new, i) = DraftOf(results, i)
             /\ DraftOf(new, n + 1) = Cardinality(DraftsIn(results, n))
             /\ Cardinality(DraftsIn(new, n + 1))
                  = Cardinality(DraftsIn(results, n)) + (IF Drafting(r) THEN 1 ELSE 0)
<1> DEFINE new == Append(results, r)
           n == Len(results)
<1>1. /\ IsList(new) /\ Len(new) = n + 1 /\ new[n + 1] = r /\ n \in Nat
      /\ \A i \in 1 .. n : new[i] = results[i]
  BY ListAppended, ListFacts
<1> HIDE DEF new, n
<1>2. ASSUME NEW i \in 1 .. n + 1
      PROVE  DraftOf(new, i) = DraftOf(results, i)
  <2>1. \A j \in 1 .. i - 1 : new[j] = results[j]
    BY <1>1
  <2>2. {j \in 1 .. i - 1 : new[j].name \in DraftTools /\ new[j].error = "none"}
          = {j \in 1 .. i - 1 : results[j].name \in DraftTools /\ results[j].error = "none"}
    BY <2>1
  <2> QED
    BY <2>2 DEF DraftOf
<1>3. DraftOf(results, n + 1) = Cardinality(DraftsIn(results, n)) /\ IsFiniteSet(DraftsIn(results, n))
      /\ Cardinality(DraftsIn(results, n)) \in Nat
  BY <1>1, DraftsCounted
<1>4. DraftsIn(new, n + 1) = DraftsIn(results, n) \union (IF Drafting(r) THEN {n + 1} ELSE {})
  BY <1>1 DEF DraftsIn, Drafting
<1>5. n + 1 \notin DraftsIn(results, n)
  BY <1>1 DEF DraftsIn
<1>6. Cardinality(DraftsIn(new, n + 1)) = Cardinality(DraftsIn(results, n)) + (IF Drafting(r) THEN 1 ELSE 0)
  <2>1. CASE Drafting(r)
    BY <1>3, <1>4, <1>5, <2>1, FS_AddElement
  <2>2. CASE ~Drafting(r)
    <3>1. DraftsIn(new, n + 1) = DraftsIn(results, n)
      BY <1>4, <2>2
    <3> DEFINE c == Cardinality(DraftsIn(results, n))
    <3>2. c \in Nat /\ Cardinality(DraftsIn(new, n + 1)) = c
      BY <1>3, <3>1
    <3> HIDE DEF c
    <3>3. Cardinality(DraftsIn(new, n + 1)) = c + 0
      BY <3>2
    <3> QED
      BY <2>2, <3>3 DEF c
  <2> QED
    BY <2>1, <2>2
<1> QED
  BY <1>1, <1>2, <1>3, <1>6 DEF new, n

\* Every call keeps to it.
LEMMA NumberedStep ==
  ASSUME NEW results, NEW b, Numbered(results, b), Sound(b), NEW call, KnownRefs(call)
  PROVE  LET o == Outcome(call.name, CliDecodes(call), b)
         IN  Numbered(Append(results, Result(call, o)), o.buffer)
<1> DEFINE d == CliDecodes(call)
           o == Outcome(call.name, d, b)
           r == Result(call, o)
           n == Len(results)
           new == Append(results, r)
<1>1. r.name = call.name /\ r.args = call.args /\ r.error = o.error
  BY DEF Result
<1>2. CliDecodes(r) = d
  <2> HIDE DEF r
  <2>1. CliDecodes(r) = CliDecodes(call)
    BY <1>1, Zenon DEF CliDecodes
  <2> QED
    BY <2>1
<1>3. KnownRefs(r)
  BY <1>1 DEF KnownRefs
<1>4. IF o.error # "none" THEN o.buffer = b
      ELSE /\ d.error = "none"
           /\ call.name \in DraftTools =>
                /\ ContentError(b.drafts, Content(call.name, d.args)) = "none"
                /\ o.buffer = [drafts |-> Append(b.drafts, [id |-> b.next, entry |-> Content(call.name, d.args)]),
                               next |-> b.next + 1]
           /\ call.name = "remove_draft" =>
                /\ RemovalError(b.drafts, d.args.draft_id) = "none"
                /\ o.buffer = [drafts |-> Dropped(b.drafts, d.args.draft_id), next |-> b.next]
           /\ call.name \in Hidden => o.buffer = [drafts |-> << >>, next |-> b.next]
           /\ call.name \notin DraftTools \union {"remove_draft"} \union Hidden => o.buffer = b
  BY OutcomeIs
<1>5. /\ IsList(results) /\ IsList(new) /\ Len(new) = n + 1 /\ new[n + 1] = r /\ n \in Nat
      /\ DOMAIN results = 1 .. n /\ \A i \in 1 .. n : new[i] = results[i]
  BY ListAppended, ListFacts DEF Numbered
<1>6. DOMAIN new = 1 .. n + 1
  BY <1>5, ListFacts
<1>7. /\ \A i \in 1 .. n + 1 : DraftOf(new, i) = DraftOf(results, i)
      /\ DraftOf(new, n + 1) = b.next
      /\ Cardinality(DraftsIn(new, n + 1)) = b.next + (IF Drafting(r) THEN 1 ELSE 0)
      /\ b.next \in Nat
  BY <1>5, NumbersStay DEF Numbered, Sound
<1>8. Drafting(r) <=> call.name \in DraftTools /\ o.error = "none"
  BY <1>1 DEF Drafting
<1>9. ASSUME NEW i \in 1 .. n + 1
      PROVE  KnownRefs(new[i]) /\ (new[i].error = "none" => CliDecodes(new[i]).error = "none")
  <2>1. CASE i = n + 1
    BY <1>1, <1>2, <1>3, <1>4, <1>5, <2>1
  <2>2. CASE i # n + 1
    <3>1. i \in 1 .. n
      BY <1>5, <2>2
    <3> QED
      BY <1>5, <3>1 DEF Numbered
  <2> QED
    BY <2>1, <2>2
<1> SUFFICES Numbered(new, o.buffer)
  OBVIOUS
<1> HIDE DEF new, r, o, d, n
\* The drafts there were are still accounted for.
<1>10. ASSUME NEW k \in DOMAIN b.drafts
       PROVE  \E i \in DOMAIN new :
                /\ Drafting(new[i]) /\ b.drafts[k].id = DraftOf(new, i)
                /\ b.drafts[k].entry = Content(new[i].name, CliDecodes(new[i]).args)
  <2>1. PICK i \in 1 .. n : /\ Drafting(results[i]) /\ b.drafts[k].id = DraftOf(results, i)
                            /\ b.drafts[k].entry = Content(results[i].name, CliDecodes(results[i]).args)
    BY <1>5 DEF Numbered
  <2>2. i \in 1 .. n + 1 /\ new[i] = results[i]
    BY <1>5
  <2> QED
    BY <1>6, <1>7, <2>1, <2>2
<1>11. ASSUME o.buffer.next = b.next, ~Drafting(r),
              \A k \in DOMAIN o.buffer.drafts : \E p \in DOMAIN b.drafts : o.buffer.drafts[k] = b.drafts[p]
       PROVE  Numbered(new, o.buffer)
  <2>1. o.buffer.next = Cardinality(DraftsIn(new, Len(new)))
    BY <1>5, <1>7, <1>11
  <2>2. ASSUME NEW k \in DOMAIN o.buffer.drafts
        PROVE  \E i \in DOMAIN new :
                 /\ Drafting(new[i]) /\ o.buffer.drafts[k].id = DraftOf(new, i)
                 /\ o.buffer.drafts[k].entry = Content(new[i].name, CliDecodes(new[i]).args)
    <3>1. PICK p \in DOMAIN b.drafts : o.buffer.drafts[k] = b.drafts[p]
      BY <1>11
    <3> QED
      BY <1>10, <3>1
  <2> QED
    BY <1>5, <1>6, <1>9, <2>1, <2>2 DEF Numbered
<1>12. CASE o.error # "none"
  <2>1. o.buffer = b /\ ~Drafting(r)
    BY <1>4, <1>8, <1>12
  <2> QED
    BY <1>11, <2>1
<1>13. CASE o.error = "none" /\ call.name \notin DraftTools \union {"remove_draft"} \union Hidden
  <2>1. o.buffer = b /\ ~Drafting(r)
    BY <1>4, <1>8, <1>13
  <2> QED
    BY <1>11, <2>1
<1>14. CASE o.error = "none" /\ call.name \in Hidden
  <2>1. o.buffer = [drafts |-> << >>, next |-> b.next] /\ ~Drafting(r)
    BY <1>4, <1>8, <1>14 DEF Hidden, DraftTools
  <2> QED
    BY <1>11, <2>1, EmptyList
<1>15. CASE o.error = "none" /\ call.name = "remove_draft"
  <2> DEFINE id == d.args.draft_id
             left == Dropped(b.drafts, id)
  <2>1. /\ o.buffer = [drafts |-> left, next |-> b.next] /\ ~Drafting(r)
        /\ RemovalError(b.drafts, id) = "none"
    BY <1>4, <1>8, <1>15 DEF DraftTools
  <2> HIDE DEF left, id
  <2>2. DraftsWithId(b.drafts, id) # {}
    BY <2>1 DEF RemovalError
  <2>3. PICK k \in DOMAIN b.drafts : left = RemoveAt(b.drafts, k)
    BY <2>2, DroppedIs DEF left
  <2>4. /\ b.drafts \in Seq(ToSet(b.drafts)) /\ DOMAIN b.drafts = 1 .. Len(b.drafts)
        /\ Len(b.drafts) \in Nat
    BY ListFacts DEF Sound, IsList
  <2>5. /\ left \in Seq(ToSet(b.drafts)) /\ Len(left) = Len(b.drafts) - 1
        /\ \A i \in DOMAIN left : left[i] = IF i < k THEN b.drafts[i] ELSE b.drafts[i + 1]
    BY <2>3, <2>4, RemoveAtFacts
  <2>6. DOMAIN left = 1 .. Len(b.drafts) - 1
    BY <2>5
  <2>7. ASSUME NEW i \in DOMAIN left
        PROVE  \E p \in DOMAIN b.drafts : left[i] = b.drafts[p]
    <3>1. i \in DOMAIN b.drafts /\ i + 1 \in DOMAIN b.drafts
      BY <2>4, <2>6
    <3> QED
      BY <2>5, <3>1
  <2> QED
    BY <1>11, <2>1, <2>7
<1>16. CASE o.error = "none" /\ call.name \in DraftTools
  <2> DEFINE made == [id |-> b.next, entry |-> Content(call.name, d.args)]
             now == Append(b.drafts, made)
  <2>1. o.buffer = [drafts |-> now, next |-> b.next + 1] /\ Drafting(r)
    BY <1>4, <1>8, <1>16
  <2>2. made.id = b.next /\ made.entry = Content(call.name, d.args)
    OBVIOUS
  <2> HIDE DEF made
  <2>3. /\ IsList(b.drafts) /\ IsList(now) /\ Len(now) = Len(b.drafts) + 1 /\ now[Len(b.drafts) + 1] = made
        /\ DOMAIN b.drafts = 1 .. Len(b.drafts) /\ Len(b.drafts) \in Nat
        /\ \A i \in 1 .. Len(b.drafts) : now[i] = b.drafts[i]
    BY ListAppended, ListFacts DEF Sound
  <2> HIDE DEF now
  <2>4. DOMAIN now = 1 .. Len(b.drafts) + 1
    BY <2>3, ListFacts
  <2>5. o.buffer.next = Cardinality(DraftsIn(new, Len(new)))
    BY <1>5, <1>7, <2>1
  <2>6. ASSUME NEW k \in DOMAIN now
        PROVE  \E i \in DOMAIN new :
                 /\ Drafting(new[i]) /\ now[k].id = DraftOf(new, i)
                 /\ now[k].entry = Content(new[i].name, CliDecodes(new[i]).args)
    <3>1. CASE k = Len(b.drafts) + 1
      <4>1. n + 1 \in DOMAIN new
        BY <1>5, <1>6
      <4>2. new[n + 1] = r /\ now[k] = made
        BY <1>5, <2>3, <3>1
      <4> QED
        BY <1>1, <1>2, <1>7, <2>1, <2>2, <4>1, <4>2
    <3>2. CASE k # Len(b.drafts) + 1
      <4>1. k \in DOMAIN b.drafts /\ now[k] = b.drafts[k]
        BY <2>3, <2>4, <3>2
      <4> QED
        BY <1>10, <4>1
    <3> QED
      BY <3>1, <3>2
  <2>7. o.buffer.drafts = now
    BY <2>1
  <2> QED
    BY <1>5, <1>6, <1>9, <2>5, <2>6, <2>7 DEF Numbered
<1> QED
  BY <1>12, <1>13, <1>14, <1>15, <1>16

\* The results of a round, after those there were.
LEMMA RoundNumbered ==
  ASSUME NEW calls, IsList(calls), \A i \in 1 .. Len(calls) : KnownRefs(calls[i]),
         NEW b, Sound(b), b.drafts = << >>, NEW before, Numbered(before, b)
  PROVE  Numbered(before \o RanAll(calls, b).results, RanAll(calls, b).buffer)
<1> DEFINE n == Len(calls)
           OK(done) == RunOK(done) /\ Numbered(before \o done.results, done.buffer)
<1>1. n \in Nat /\ IsList(before)
  BY ListFacts DEF Numbered
<1>2. PICK f : Runs(calls, b, n, f) /\ RanAll(calls, b) = f[n]
  BY <1>1, RanAllIs
<1>3. OK(Begun(b))
  <2>1. RunOK(Begun(b))
    BY RunBegins
  <2>2. Begun(b).results = << >> /\ Begun(b).buffer = b
    BY DEF Begun
  <2>3. before \o << >> = before
    BY <1>1, NothingJoined
  <2> QED
    BY <2>1, <2>2, <2>3
<1>4. ASSUME NEW done, OK(done), NEW k \in 1 .. n
      PROVE  OK(Ran(done, calls[k]))
  <2> DEFINE call == calls[k]
             o == Outcome(call.name, CliDecodes(call), done.buffer)
  <2>1. RunOK(Ran(done, call))
    BY <1>4, RunStep
  <2>2. Ran(done, call).results = Append(done.results, Result(call, o)) /\ Ran(done, call).buffer = o.buffer
    BY DEF Ran, Recorded, Result
  <2>3. Sound(done.buffer) /\ IsList(done.results) /\ Numbered(before \o done.results, done.buffer)
    BY <1>4 DEF RunOK
  <2>4. KnownRefs(call)
    OBVIOUS
  <2> HIDE DEF call
  <2>5. Numbered(Append(before \o done.results, Result(call, o)), o.buffer)
    BY <2>3, <2>4, NumberedStep
  <2>6. before \o Append(done.results, Result(call, o)) = Append(before \o done.results, Result(call, o))
    BY <1>1, <2>3, AppendJoined
  <2>7. Numbered(before \o Ran(done, call).results, Ran(done, call).buffer)
    BY <2>2, <2>5, <2>6
  <2> QED
    BY <2>1, <2>7 DEF call
<1> HIDE DEF n, OK
<1>5. ASSUME NEW k \in Nat, k <= n
      PROVE  OK(f[k])
  <2> DEFINE Bad == {m \in Nat : m <= n /\ ~OK(f[m])}
  <2>1. SUFFICES ASSUME Bad # {} PROVE FALSE
    BY <1>5
  <2>2. PICK m \in Bad : \A l \in Bad : m <= l
    BY <2>1, LeastExists
  <2>3. m \in 0 .. n
    BY <1>1, <2>2
  <2>4. f[m] = IF m = 0 THEN Begun(b) ELSE Ran(f[m - 1], calls[m])
    BY <1>2, <2>3 DEF Runs
  <2>5. m # 0
    BY <1>3, <2>2, <2>4
  <2>6. m - 1 \in Nat /\ m - 1 <= n /\ ~(m <= m - 1) /\ m \in 1 .. n
    BY <1>1, <2>3, <2>5
  <2>7. OK(f[m - 1])
    BY <2>2, <2>6
  <2>8. OK(Ran(f[m - 1], calls[m]))
    BY <1>4, <2>6, <2>7
  <2> QED
    BY <2>2, <2>4, <2>5, <2>8
<1>6. OK(f[n])
  BY <1>1, <1>5
<1> QED
  BY <1>2, <1>6 DEF OK

-----------------------------------------------------------------------------
(* The results of a turn *)

ResultsOf(rounds) == FlattenSeq([i \in DOMAIN rounds |-> rounds[i].results])

\* Every draft of a turn is one of its results'.
TurnNumbered(turn) ==
  /\ \A i \in 1 .. Len(turn.rounds) : IsList(turn.rounds[i].results)
  /\ Numbered(ResultsOf(turn.rounds), turn.buffer)

\* One more round.
LEMMA ResultsAppended ==
  ASSUME NEW rounds, IsList(rounds), \A i \in 1 .. Len(rounds) : IsList(rounds[i].results),
         NEW calls, NEW results, IsList(results)
  PROVE  LET new == Append(rounds, Round(calls, results))
         IN  /\ \A i \in 1 .. Len(new) : IsList(new[i].results)
             /\ ResultsOf(new) = ResultsOf(rounds) \o results
             /\ IsList(ResultsOf(rounds))
<1> DEFINE round == Round(calls, results)
           new == Append(rounds, round)
           n == Len(rounds)
           these == [i \in DOMAIN rounds |-> rounds[i].results]
           those == [i \in DOMAIN new |-> new[i].results]
<1>1. round.results = results
  BY DEF Round
<1> HIDE DEF round
<1>2. /\ IsList(new) /\ Len(new) = n + 1 /\ new[n + 1] = round /\ n \in Nat /\ DOMAIN rounds = 1 .. n
      /\ \A i \in 1 .. n : new[i] = rounds[i]
  BY ListAppended, ListFacts
<1> HIDE DEF new, n
<1>3. DOMAIN new = 1 .. n + 1
  BY <1>2, ListFacts
<1>4. ASSUME NEW m \in Nat, NEW s, DOMAIN s = 1 .. m, s = [i \in 1 .. m |-> s[i]]
      PROVE  IsList(s) /\ Len(s) = m
  <2> DEFINE T == ToSet(s)
  <2>1. \A i \in 1 .. m : s[i] \in T
    BY <1>4 DEF ToSet
  <2> HIDE DEF T
  <2>2. s \in [1 .. m -> T]
    BY <1>4, <2>1
  <2>3. s \in Seq(T) /\ Len(s) = m
    BY <2>2
  <2> QED
    BY <2>3 DEF IsList, T
<1>5. IsList(these) /\ Len(these) = n /\ IsList(those) /\ Len(those) = n + 1
  <2>1. DOMAIN these = 1 .. n /\ these = [i \in 1 .. n |-> these[i]]
    BY <1>2
  <2>2. DOMAIN those = 1 .. n + 1 /\ those = [i \in 1 .. n + 1 |-> those[i]]
    BY <1>3
  <2>3. n + 1 \in Nat
    BY <1>2
  <2> HIDE DEF these, those
  <2> QED
    BY <1>2, <1>4, <2>1, <2>2, <2>3
<1>6. \A i \in 1 .. n : these[i] = rounds[i].results /\ IsList(these[i])
  BY <1>2 DEF n
<1>7. ASSUME NEW i \in 1 .. n + 1
      PROVE  those[i] = (IF i = n + 1 THEN results ELSE these[i]) /\ IsList(new[i].results)
  <2>1. those[i] = new[i].results
    BY <1>3
  <2>2. CASE i = n + 1
    BY <1>1, <1>2, <2>1, <2>2
  <2>3. CASE i # n + 1
    <3>1. i \in 1 .. n
      BY <1>2, <2>3
    <3> QED
      BY <1>2, <1>6, <2>1, <2>3, <3>1
  <2> QED
    BY <2>2, <2>3
<1> HIDE DEF these, those
<1>8. those = Append(these, results)
  <2> DEFINE more == Append(these, results)
  <2>1. /\ IsList(more) /\ Len(more) = n + 1 /\ more[n + 1] = results
        /\ \A i \in 1 .. n : more[i] = these[i]
    BY <1>5, ListAppended
  <2> HIDE DEF more
  <2>2. ASSUME NEW i \in 1 .. n + 1
        PROVE  those[i] = more[i]
    <3>1. i # n + 1 => i \in 1 .. n
      BY <1>2
    <3> QED
      BY <1>7, <2>1, <3>1
  <2>3. those = more
    BY <1>5, <2>1, <2>2, ListsEqual
  <2> QED
    BY <2>3 DEF more
<1>9. /\ IsList(FlattenSeq(these))
      /\ FlattenSeq(Append(these, results)) = FlattenSeq(these) \o results
  <2>1. \A i \in 1 .. Len(these) : IsList(these[i])
    BY <1>5, <1>6
  <2> QED
    BY <1>5, <2>1, FlattenAppended
<1>10. ResultsOf(rounds) = FlattenSeq(these) /\ ResultsOf(new) = FlattenSeq(those)
  BY DEF ResultsOf, these, those
<1>11. \A i \in 1 .. Len(new) : IsList(new[i].results)
  BY <1>2, <1>7
<1>12. ResultsOf(new) = ResultsOf(rounds) \o results
  BY <1>8, <1>9, <1>10
<1> QED
  BY <1>9, <1>10, <1>11, <1>12 DEF new, round

\* The rounds and the buffer that an answer leaves.
LEMMA AnsweredLeaves ==
  ASSUME NEW turn, TurnOK(turn), NEW answer
  PROVE  LET t == Answered(turn, answer)
             ran == RanAll(answer.calls, turn.buffer)
         IN  \/ t.rounds = turn.rounds /\ t.buffer = turn.buffer
             \/ \E calls : t.rounds = Append(turn.rounds, Round(calls, << >>)) /\ t.buffer = turn.buffer
             \/ /\ turn.state = "asking" /\ answer \notin {Lost, Garbled}
                /\ t.rounds = Append(turn.rounds, Round(answer.calls, ran.results)) /\ t.buffer = ran.buffer
<1> DEFINE t == Answered(turn, answer)
           ran == RanAll(answer.calls, turn.buffer)
           AsTurn(rounds) ==
             [log |-> turn.log, state |-> turn.state, rounds |-> rounds,
              buffer |-> turn.buffer, text |-> turn.text, told |-> turn.told]
<1>1. turn = AsTurn(turn.rounds)
  BY DEF TurnOK
<1>2. ASSUME NEW calls, NEW results
      PROVE  Traced(turn, calls, results) = AsTurn(Append(turn.rounds, Round(calls, results)))
  <2>1. Traced(turn, calls, results) = [turn EXCEPT !.rounds = Append(turn.rounds, Round(calls, results))]
    BY DEF Traced, Round
  <2> DEFINE more == Append(turn.rounds, Round(calls, results))
  <2> HIDE DEF more
  <2> QED
    BY <1>1, <2>1 DEF more
<1>3. ASSUME NEW rounds, NEW s, NEW e, e = [AsTurn(rounds) EXCEPT !.state = s]
      PROVE  e.rounds = rounds /\ e.buffer = turn.buffer
  BY <1>3
<1>4. ASSUME NEW rounds, NEW s, NEW x, NEW e, e = [AsTurn(rounds) EXCEPT !.state = s, !.text = x]
      PROVE  e.rounds = rounds /\ e.buffer = turn.buffer
  <2>1. e = [log |-> turn.log, state |-> s, rounds |-> rounds,
             buffer |-> turn.buffer, text |-> x, told |-> turn.told]
    <3>1. [AsTurn(rounds) EXCEPT !.state = s]
            = [log |-> turn.log, state |-> s, rounds |-> rounds,
               buffer |-> turn.buffer, text |-> turn.text, told |-> turn.told]
      OBVIOUS
    <3> DEFINE one == [AsTurn(rounds) EXCEPT !.state = s]
    <3>2. e = [one EXCEPT !.text = x]
      BY <1>4
    <3> HIDE DEF one
    <3>3. one = [log |-> turn.log, state |-> s, rounds |-> rounds,
                 buffer |-> turn.buffer, text |-> turn.text, told |-> turn.told]
      BY <3>1 DEF one
    <3> QED
      BY <3>2, <3>3
  <2> QED
    BY <2>1
<1>5. CASE turn.state # "asking"
  <2>1. t = turn
    BY <1>5 DEF Answered
  <2> QED
    BY <2>1
<1>6. CASE turn.state = "asking" /\ answer = Lost
  <2>1. t = [Traced(turn, << >>, << >>) EXCEPT !.state = "error"]
    BY <1>6, AnsweredIs
  <2>2. t = [AsTurn(Append(turn.rounds, Round(<< >>, << >>))) EXCEPT !.state = "error"]
    BY <1>2, <2>1
  <2> HIDE DEF t
  <2>3. t.rounds = Append(turn.rounds, Round(<< >>, << >>)) /\ t.buffer = turn.buffer
    BY <1>3, <2>2
  <2> QED
    BY <2>3 DEF t
<1>7. CASE turn.state = "asking" /\ answer = Garbled
  <2>1. t = [turn EXCEPT !.state = "error"]
    BY <1>7, AnsweredIs
  <2>2. t = [AsTurn(turn.rounds) EXCEPT !.state = "error"]
    BY <1>1, <2>1
  <2> HIDE DEF t
  <2>3. t.rounds = turn.rounds /\ t.buffer = turn.buffer
    BY <1>3, <2>2
  <2> QED
    BY <2>3 DEF t
<1>8. CASE turn.state = "asking" /\ answer \notin {Lost, Garbled} /\ answer.calls = << >>
  <2>1. t = [Traced(turn, << >>, << >>) EXCEPT !.state = "final", !.text = answer.text]
    BY <1>8, AnsweredIs
  <2>2. t = [AsTurn(Append(turn.rounds, Round(<< >>, << >>))) EXCEPT !.state = "final", !.text = answer.text]
    BY <1>2, <2>1
  <2> HIDE DEF t
  <2>3. t.rounds = Append(turn.rounds, Round(<< >>, << >>)) /\ t.buffer = turn.buffer
    BY <1>4, <2>2
  <2> QED
    BY <2>3 DEF t
<1>9. CASE turn.state = "asking" /\ answer \notin {Lost, Garbled} /\ answer.calls # << >>
           /\ Len(turn.rounds) >= MaxToolRounds
  <2>1. t = [Traced(turn, answer.calls, << >>) EXCEPT !.state = "error"]
    BY <1>9, AnsweredIs
  <2>2. t = [AsTurn(Append(turn.rounds, Round(answer.calls, << >>))) EXCEPT !.state = "error"]
    BY <1>2, <2>1
  <2> HIDE DEF t
  <2>3. t.rounds = Append(turn.rounds, Round(answer.calls, << >>)) /\ t.buffer = turn.buffer
    BY <1>3, <2>2
  <2> QED
    BY <2>3 DEF t
<1>10. CASE turn.state = "asking" /\ answer \notin {Lost, Garbled} /\ answer.calls # << >>
            /\ ~(Len(turn.rounds) >= MaxToolRounds)
  <2> DEFINE more == Append(turn.rounds, Round(answer.calls, ran.results))
             told == IF ran.mutated THEN Confirmation(turn.log, ran.buffer, ran.results) ELSE turn.told
             state == IF ran.mutated THEN "final" ELSE turn.state
  <2>1. t = AfterCalls(turn, answer.calls, ran)
    BY <1>10, AnsweredIs
  <2>2. Traced(turn, answer.calls, ran.results) = AsTurn(more)
    BY <1>2
  <2>3. AfterCalls(turn, answer.calls, ran)
          = [Traced(turn, answer.calls, ran.results)
               EXCEPT !.buffer = ran.buffer, !.state = IF ran.mutated THEN "final" ELSE @,
                      !.told = IF ran.mutated THEN Confirmation(turn.log, ran.buffer, ran.results) ELSE @]
    BY DEF AfterCalls
  <2> HIDE DEF ran, more
  <2>4. t = [AsTurn(more) EXCEPT !.buffer = ran.buffer, !.state = IF ran.mutated THEN "final" ELSE @,
                      !.told = IF ran.mutated THEN Confirmation(turn.log, ran.buffer, ran.results) ELSE @]
    BY <2>1, <2>2, <2>3
  <2> HIDE DEF t
  <2>5. t.rounds = more /\ t.buffer = ran.buffer
    BY <2>4
  <2> QED
    BY <1>10, <2>5 DEF t, ran, more
<1> QED
  BY <1>5, <1>6, <1>7, <1>8, <1>9, <1>10

\* A fresh turn.
LEMMA TurnNumberedBegins ==
  ASSUME NEW checkpoint
  PROVE  TurnNumbered(FreshTurn(checkpoint))
<1> DEFINE t == FreshTurn(checkpoint)
<1>1. t.rounds = << >> /\ t.buffer = [drafts |-> << >>, next |-> 0]
  BY DEF FreshTurn
<1> HIDE DEF t
<1>2. [i \in DOMAIN << >> |-> << >>[i].results] = << >>
  OBVIOUS
<1>3. ResultsOf(<< >>) = << >>
  BY <1>2, EmptyList DEF ResultsOf, FlattenSeq
<1> QED
  BY <1>1, <1>3, EmptyList, NumberedBegins DEF TurnNumbered, t

\* Every answer keeps to it.
LEMMA TurnNumberedStep ==
  ASSUME NEW turn, TurnOK(turn), TurnNumbered(turn), NEW answer,
         \/ answer \in {Lost, Garbled}
         \/ IsList(answer.calls) /\ \A i \in 1 .. Len(answer.calls) : KnownRefs(answer.calls[i])
  PROVE  TurnNumbered(Answered(turn, answer))
<1> DEFINE t == Answered(turn, answer)
           ran == RanAll(answer.calls, turn.buffer)
<1>1. /\ IsList(turn.rounds) /\ \A i \in 1 .. Len(turn.rounds) : IsList(turn.rounds[i].results)
      /\ Numbered(ResultsOf(turn.rounds), turn.buffer) /\ Sound(turn.buffer)
  BY DEF TurnOK, TurnNumbered
<1>2. \/ t.rounds = turn.rounds /\ t.buffer = turn.buffer
      \/ \E calls : t.rounds = Append(turn.rounds, Round(calls, << >>)) /\ t.buffer = turn.buffer
      \/ /\ turn.state = "asking" /\ answer \notin {Lost, Garbled}
         /\ t.rounds = Append(turn.rounds, Round(answer.calls, ran.results)) /\ t.buffer = ran.buffer
  BY AnsweredLeaves
<1> HIDE DEF t, ran
<1>3. CASE t.rounds = turn.rounds /\ t.buffer = turn.buffer
  BY <1>1, <1>3 DEF TurnNumbered, t
<1>4. ASSUME NEW calls, t.rounds = Append(turn.rounds, Round(calls, << >>)), t.buffer = turn.buffer
      PROVE  TurnNumbered(t)
  <2> DEFINE new == Append(turn.rounds, Round(calls, << >>))
  <2>0. /\ \A i \in 1 .. Len(new) : IsList(new[i].results)
        /\ ResultsOf(new) = ResultsOf(turn.rounds) \o << >>
        /\ IsList(ResultsOf(turn.rounds))
    BY <1>1, EmptyList, ResultsAppended
  <2> HIDE DEF new
  <2>1. /\ \A i \in 1 .. Len(t.rounds) : IsList(t.rounds[i].results)
        /\ ResultsOf(t.rounds) = ResultsOf(turn.rounds) \o << >>
        /\ IsList(ResultsOf(turn.rounds))
    BY <1>4, <2>0 DEF new
  <2>2. ResultsOf(t.rounds) = ResultsOf(turn.rounds)
    BY <2>1, NothingJoined
  <2> QED
    BY <1>1, <1>4, <2>1, <2>2 DEF TurnNumbered
<1>5. CASE /\ turn.state = "asking" /\ answer \notin {Lost, Garbled}
           /\ t.rounds = Append(turn.rounds, Round(answer.calls, ran.results)) /\ t.buffer = ran.buffer
  <2>1. /\ turn.buffer.drafts = << >> /\ IsList(answer.calls)
        /\ \A i \in 1 .. Len(answer.calls) : KnownRefs(answer.calls[i])
    BY <1>5 DEF TurnOK
  <2>2. RunOK(ran)
    BY <1>1, <2>1, RoundRuns DEF ran
  <2>3. IsList(ran.results)
    BY <2>2 DEF RunOK
  <2>4. Numbered(ResultsOf(turn.rounds) \o ran.results, ran.buffer)
    BY <1>1, <2>1, RoundNumbered DEF ran
  <2> DEFINE new == Append(turn.rounds, Round(answer.calls, ran.results))
  <2>0. /\ \A i \in 1 .. Len(new) : IsList(new[i].results)
        /\ ResultsOf(new) = ResultsOf(turn.rounds) \o ran.results
    BY <1>1, <2>3, ResultsAppended
  <2> HIDE DEF new
  <2>5. /\ \A i \in 1 .. Len(t.rounds) : IsList(t.rounds[i].results)
        /\ ResultsOf(t.rounds) = ResultsOf(turn.rounds) \o ran.results
    BY <1>5, <2>0 DEF new
  <2> QED
    BY <1>5, <2>4, <2>5 DEF TurnNumbered, t
<1> QED
  BY <1>2, <1>3, <1>4, <1>5 DEF t

-----------------------------------------------------------------------------
(* The arguments of a call and the draft it makes *)

\* The kind of a parameter is found by its name.
LEMMA KindIs ==
  ASSUME NEW name \in DOMAIN CliTools, NEW i \in DOMAIN CliTools[name]
  PROVE  KindOf(name, CliTools[name][i].field) = CliTools[name][i].kind
<1> DEFINE params == CliTools[name]
           k == CHOOSE j \in DOMAIN params : params[j].field = params[i].field
<1>1. k \in DOMAIN params /\ params[k].field = params[i].field
  OBVIOUS
<1>2. \A j \in DOMAIN params : params[j].field = params[i].field => j = i
  BY FieldsDiffer
<1>3. KindOf(name, params[i].field) = params[k].kind
  BY DEF KindOf
<1> HIDE DEF k, params
<1> QED
  BY <1>1, <1>2, <1>3 DEF params

\* What a parameter of a tool that drafts can be: a reference, or something that
\* has to be there.
DraftParameter(p) ==
  \/ p.kind = Reference /\ p.field \in RefFields
  \/ p.required /\ (p.kind = Text \/ \E words : p.kind = OneOf(words))

\* A draft has the arguments of its call, under the same names.
LEMMA ContentHas ==
  ASSUME NEW name \in DraftTools, NEW a
  PROVE  /\ name \in DOMAIN CliTools /\ ToolFor[Content(name, a).type] = name
         /\ \A i \in DOMAIN CliTools[name] :
              /\ DraftParameter(CliTools[name][i])
              /\ Content(name, a)[CliTools[name][i].field] = a[CliTools[name][i].field]
<1> DEFINE Has(params, entry) ==
             \A i \in DOMAIN params : DraftParameter(params[i]) /\ entry[params[i].field] = a[params[i].field]
<1>1. name \in DOMAIN CliTools
  BY ToolNames DEF Taking, DraftTools
<1>2. ASSUME NEW f
      PROVE  /\ DraftParameter(Need(f, Text)) /\ \A words : DraftParameter(Need(f, OneOf(words)))
             /\ f \in RefFields => DraftParameter(Need(f, Reference)) /\ DraftParameter(May(f, Reference))
  BY ParameterFields DEF DraftParameter
<1>3. CASE name = "draft_claim"
  <2>1. Content(name, a) = [type |-> "claim", body |-> a.body, kind |-> a.kind, parent |-> a.parent]
    BY <1>3 DEF Content
  <2> DEFINE entry == Content(name, a)
  <2>2. /\ entry.type = "claim" /\ entry["body"] = a["body"] /\ entry["kind"] = a["kind"]
        /\ entry["parent"] = a["parent"]
    BY <2>1
  <2> HIDE DEF entry
  <2>3. Has(<<Need("body", Text), Need("kind", OneOf(ClaimKinds)), May("parent", Reference)>>, entry)
    BY <1>2, <2>2, ParameterFields DEF RefFields
  <2>4. ToolFor[entry.type] = name
    BY <1>3, <2>2 DEF ToolFor
  <2> QED
    BY <1>1, <1>3, <2>3, <2>4, Parameters DEF entry
<1>4. CASE name = "draft_relation"
  <2>1. Content(name, a) = [type |-> "relation", source |-> a.source, target |-> a.target, kind |-> a.kind]
    BY <1>4 DEF Content
  <2> DEFINE entry == Content(name, a)
  <2>2. /\ entry.type = "relation" /\ entry["source"] = a["source"] /\ entry["target"] = a["target"]
        /\ entry["kind"] = a["kind"]
    BY <2>1
  <2> HIDE DEF entry
  <2>3. Has(<<Need("source", Reference), Need("target", Reference), Need("kind", OneOf(RelationKinds))>>, entry)
    BY <1>2, <2>2, ParameterFields DEF RefFields
  <2>4. ToolFor[entry.type] = name
    BY <1>4, <2>2 DEF ToolFor
  <2> QED
    BY <1>1, <1>4, <2>3, <2>4, Parameters DEF entry
<1>5. CASE name = "draft_stance"
  <2>1. Content(name, a) = [type |-> "stance", target |-> a.target, position |-> a.position]
    BY <1>5 DEF Content
  <2> DEFINE entry == Content(name, a)
  <2>2. entry.type = "stance" /\ entry["target"] = a["target"] /\ entry["position"] = a["position"]
    BY <2>1
  <2> HIDE DEF entry
  <2>3. Has(<<Need("target", Reference), Need("position", OneOf(Positions))>>, entry)
    BY <1>2, <2>2, ParameterFields DEF RefFields
  <2>4. ToolFor[entry.type] = name
    BY <1>5, <2>2 DEF ToolFor
  <2> QED
    BY <1>1, <1>5, <2>3, <2>4, Parameters DEF entry
<1>6. CASE name = "draft_resolve"
  <2>1. Content(name, a) = [type |-> "resolve", claim |-> a.claim, outcome |-> a.outcome]
    BY <1>6 DEF Content
  <2> DEFINE entry == Content(name, a)
  <2>2. entry.type = "resolve" /\ entry["claim"] = a["claim"] /\ entry["outcome"] = a["outcome"]
    BY <2>1
  <2> HIDE DEF entry
  <2>3. Has(<<Need("claim", Reference), Need("outcome", OneOf(Outcomes))>>, entry)
    BY <1>2, <2>2, ParameterFields DEF RefFields
  <2>4. ToolFor[entry.type] = name
    BY <1>6, <2>2 DEF ToolFor
  <2> QED
    BY <1>1, <1>6, <2>3, <2>4, Parameters DEF entry
<1>7. CASE name = "draft_comment"
  <2>1. Content(name, a) = [type |-> "comment", body |-> a.body, claim |-> a.claim]
    BY <1>7 DEF Content
  <2> DEFINE entry == Content(name, a)
  <2>2. entry.type = "comment" /\ entry["body"] = a["body"] /\ entry["claim"] = a["claim"]
    BY <2>1
  <2> HIDE DEF entry
  <2>3. Has(<<Need("body", Text), May("claim", Reference)>>, entry)
    BY <1>2, <2>2, ParameterFields DEF RefFields
  <2>4. ToolFor[entry.type] = name
    BY <1>7, <2>2 DEF ToolFor
  <2> QED
    BY <1>1, <1>7, <2>3, <2>4, Parameters DEF entry
<1> QED
  BY <1>3, <1>4, <1>5, <1>6, <1>7 DEF DraftTools

\* An expected reference as an id of the log is spelled.
PlainRef(expected) == expected[1] \notin {"claim:", "draft:", "#", "number"}

\* A reference in JSON is expected if and only if what it is decoded to is.
LEMMA ReferencesCompareAlike ==
  ASSUME NEW v, PrefixKnown(v), NEW expected, PlainRef(expected), ClaimRefOf(v) # NoRef
  PROVE  ClaimRefValueMatches(v, expected) <=> ClaimRefMatches(ClaimRefOf(v), expected)
<1> DEFINE id == Field(v, "claim_id")
           number == Field(v, "draft_id")
<1>1. \A x : /\ ClaimRefMatches(Committed(x), expected) <=> expected \in {x, <<"claim:", x>>}
             /\ ClaimRefMatches(Draft(x), expected)
                  <=> expected \in {<<"draft:", <<"number", x>>>>, <<"#", <<"number", x>>>>}
  BY RefParts DEF ClaimRefMatches
<1>2. \A p \in {"claim:", "draft:", "#", "number"} : expected[1] # p /\ \A x : expected # <<p, x>>
  BY DEF PlainRef
<1>0. v.json = "string" => id = Absent /\ number = Absent /\ id.json # "string" /\ number.json # "number"
  BY DEF Field, Absent
<1>3. CASE v.json = "string" /\ v.prefix \in {"draft:", "#"}
  <2>0. ClaimRefOf(v) = IF v.rest[1] = "number" THEN Draft(v.rest[2]) ELSE NoRef
    <3> DEFINE s == v.json = "string" /\ v.prefix \in {"draft:", "#"}
               t == v.json = "string" /\ v.prefix \notin {"draft:", "#"}
               u == id.json = "string" /\ number.json # "number"
               w == id.json # "string" /\ number.json = "number"
    <3>1. ClaimRefOf(v) = CASE s -> (IF v.rest[1] = "number" THEN Draft(v.rest[2]) ELSE NoRef)
                            [] t -> Committed(v.rest)
                            [] u -> Committed(Literal(id))
                            [] w -> Draft(number.number)
                            [] OTHER -> NoRef
      BY DEF ClaimRefOf
    <3>2. s /\ ~t /\ ~u /\ ~w
      BY <1>0, <1>3
    <3> HIDE DEF s, t, u, w
    <3> QED
      BY <3>1, <3>2, Zenon
  <2>1. v.rest[1] = "number" /\ ClaimRefOf(v) = Draft(v.rest[2])
    BY <2>0
  <2>2. ~ClaimRefMatches(ClaimRefOf(v), expected)
    BY <1>1, <1>2, <2>1
  <2>3. Literal(v) # expected /\ v.rest # expected
    <3>1. Literal(v) = <<v.prefix, v.rest>>
      BY <1>3 DEF Literal
    <3> QED
      BY <1>2, <1>3, <2>1, <3>1
  <2> QED
    BY <1>3, <2>2, <2>3 DEF ClaimRefValueMatches
<1>4. CASE v.json = "string" /\ v.prefix \notin {"draft:", "#"}
  <2>0. v.prefix \in {"", "claim:"}
    BY <1>4 DEF PrefixKnown
  <2>1. ClaimRefOf(v) = Committed(v.rest)
    BY <1>0, <1>4 DEF ClaimRefOf
  <2>2. ClaimRefMatches(ClaimRefOf(v), expected) <=> v.rest = expected
    BY <1>1, <1>2, <2>1
  <2>3. Literal(v) = IF v.prefix = "" THEN v.rest ELSE <<v.prefix, v.rest>>
    BY DEF Literal
  <2>4. ClaimRefValueMatches(v, expected)
          <=> Literal(v) = expected \/ (v.prefix = "claim:" /\ v.rest = expected)
    BY <1>4, <2>0 DEF ClaimRefValueMatches
  <2>5. ClaimRefValueMatches(v, expected) <=> v.rest = expected
    BY <1>2, <2>0, <2>3, <2>4
  <2> QED
    BY <2>2, <2>5
<1>5. CASE v.json # "string"
  <2>1. \/ id.json = "string" /\ number.json # "number" /\ ClaimRefOf(v) = Committed(Literal(id))
        \/ id.json # "string" /\ number.json = "number" /\ ClaimRefOf(v) = Draft(number.number)
    BY <1>5 DEF ClaimRefOf
  <2>2. ClaimRefValueMatches(v, expected)
          <=> \/ id.json = "string" /\ expected \in {Literal(id), <<"claim:", Literal(id)>>}
              \/ number.json = "number" /\ ClaimRefMatches(Draft(number.number), expected)
    BY <1>5 DEF ClaimRefValueMatches
  <2> QED
    BY <1>1, <2>1, <2>2
<1> QED
  BY <1>3, <1>4, <1>5

\* A field in JSON is as expected if and only if the field of the draft is.
LEMMA FieldsCompareAlike ==
  ASSUME NEW p, DraftParameter(p), NEW v, NEW x, ReadAs(p, v, x), p.field \in RefFields => PrefixKnown(v),
         NEW expected, p.kind = Reference => PlainRef(expected)
  PROVE  ArgumentMatches(p.kind, v, expected) <=> ContentMatches(p.kind, x, expected)
<1>1. CASE p.kind = Reference /\ p.field \in RefFields
  <2>1. /\ ArgumentMatches(p.kind, v, expected) <=> ClaimRefValueMatches(v, expected)
        /\ ContentMatches(p.kind, x, expected) <=> x # NoRef /\ ClaimRefMatches(x, expected)
    BY <1>1, KindTypes DEF ArgumentMatches, ContentMatches
  <2>2. CASE v = Absent
    <3>1. x = NoRef
      BY <2>2 DEF ReadAs
    <3>2. Absent.json = "absent"
      BY DEF Absent
    <3>3. Field(Absent, "claim_id") = Absent /\ Field(Absent, "draft_id") = Absent
      BY <3>2 DEF Field
    <3>4. ~ClaimRefValueMatches(v, expected)
      BY <2>2, <3>2, <3>3 DEF ClaimRefValueMatches
    <3> QED
      BY <2>1, <3>1, <3>4
  <2>3. CASE v # Absent
    <3>1. x = ClaimRefOf(v) /\ x # NoRef
      BY <1>1, <2>3, ReadingsAre DEF ReadAs
    <3>2. PlainRef(expected) /\ PrefixKnown(v)
      BY <1>1
    <3> QED
      BY <2>1, <3>1, <3>2, ReferencesCompareAlike
  <2> QED
    BY <2>2, <2>3
<1>2. CASE p.required /\ p.kind = Text
  <2>1. v.json = "string" /\ x = Literal(v)
    BY <1>2, ReadingsAre DEF ReadAs
  <2> QED
    BY <1>2, <2>1, KindTypes DEF ArgumentMatches, ContentMatches
<1>3. ASSUME NEW words, p.required, p.kind = OneOf(words)
      PROVE  ArgumentMatches(p.kind, v, expected) <=> ContentMatches(p.kind, x, expected)
  <2>1. v.json = "string" /\ Literal(v) = <<"word", x>>
    BY <1>3, ReadingsAre DEF ReadAs
  <2>2. <<"word", x>> = <<"word", expected>> <=> x = expected
    OBVIOUS
  <2> QED
    BY <1>3, <2>1, <2>2, KindTypes DEF ArgumentMatches, ContentMatches
<1> QED
  BY <1>1, <1>2, <1>3 DEF DraftParameter

\* A call that has made a draft is the expected call if and only if the draft is
\* the expected draft.
LEMMA CallsCompareAlike ==
  ASSUME NEW e \in Expectations, e.use \in DraftTools, Plain(e),
         NEW r, r.name \in DraftTools, CliDecodes(r).error = "none", KnownRefs(r)
  PROVE  MatchesExpectedToolCall(e, r) <=> MatchesExpectedDraft(e, Content(r.name, CliDecodes(r).args))
<1> DEFINE a == CliDecodes(r).args
           entry == Content(r.name, a)
           params == CliTools[r.name]
<1>1. /\ r.name \in DOMAIN CliTools /\ ToolFor[entry.type] = r.name
      /\ \A i \in DOMAIN params : DraftParameter(params[i]) /\ entry[params[i].field] = a[params[i].field]
  BY ContentHas
<1>2. r.args # Malformed
  BY DecodedIs
<1>3. \A i \in DOMAIN params : ReadAs(params[i], Field(r.args, params[i].field), a[params[i].field])
  BY DecodedIs
<1>4. MatchesExpectedToolCall(e, r)
        <=> /\ r.name = e.use
            /\ \A f \in DOMAIN e.fields : ArgumentMatches(KindOf(e.use, f), Field(r.args, f), e.fields[f])
  <2>1. MatchesExpectedToolName(e, r.name) <=> r.name = e.use
    <3>1. e.use \notin {"plain_text_response", "any_structured_tool", "any_tool"}
      BY DEF DraftTools
    <3> QED
      BY <3>1, Zenon DEF MatchesExpectedToolName
  <2>2. MatchesExpectedToolCall(e, r)
          <=> /\ MatchesExpectedToolName(e, r.name)
              /\ e.use \in DraftTools =>
                   /\ r.args # Malformed
                   /\ \A f \in DOMAIN e.fields : ArgumentMatches(KindOf(e.use, f), Field(r.args, f), e.fields[f])
    BY Zenon DEF MatchesExpectedToolCall
  <2> QED
    BY <1>2, <2>1, <2>2, Zenon
<1>5. MatchesExpectedDraft(e, entry)
        <=> /\ r.name = e.use
            /\ \A f \in DOMAIN e.fields : ContentMatches(KindOf(e.use, f), entry[f], e.fields[f])
  BY <1>1 DEF MatchesExpectedDraft
<1> HIDE DEF entry, params, a
<1>6. ASSUME r.name = e.use, NEW f \in DOMAIN e.fields
      PROVE  ArgumentMatches(KindOf(e.use, f), Field(r.args, f), e.fields[f])
               <=> ContentMatches(KindOf(e.use, f), entry[f], e.fields[f])
  <2>1. PICK i \in DOMAIN params : params[i].field = f
    BY <1>6, ExpectationsAssumption DEF params
  <2>2. KindOf(e.use, f) = params[i].kind
    BY <1>1, <1>6, <2>1, KindIs DEF params
  <2>3. DraftParameter(params[i]) /\ entry[f] = a[f]
    BY <1>1, <2>1
  <2>4. ReadAs(params[i], Field(r.args, f), entry[f])
    BY <1>3, <2>1, <2>3
  <2>5. params[i].field \in RefFields => PrefixKnown(Field(r.args, f))
    BY <2>1 DEF KnownRefs
  <2>6. params[i].kind = Reference => PlainRef(e.fields[f])
    BY <1>6, <2>2, ScenarioAssumption DEF Plain, PlainRef
  <2> QED
    BY <2>2, <2>3, <2>4, <2>5, <2>6, FieldsCompareAlike
<1> QED
  BY <1>4, <1>5, <1>6 DEF entry, a

\* After all answers of a turn, every draft is one of its results'.
LEMMA TurnsAreNumbered ==
  ASSUME NEW checkpoint, NEW answers \in Answers
  PROVE  TurnNumbered(Turn(checkpoint, answers))
<1> DEFINE all == Append(answers, Lost)
           n == Len(all)
           Fine(a) == \/ a \in {Lost, Garbled}
                      \/ IsList(a.calls) /\ \A i \in 1 .. Len(a.calls) : KnownRefs(a.calls[i])
           OK(turn) == TurnOK(turn) /\ TurnNumbered(turn)
<1>1. IsList(answers) /\ \A i \in 1 .. Len(answers) : Fine(answers[i])
  <2>1. IsList(answers)
    BY AnswersAssumption
  <2>2. DOMAIN answers = 1 .. Len(answers)
    BY <2>1, ListFacts
  <2>3. ASSUME NEW i \in 1 .. Len(answers), answers[i] \notin {Lost, Garbled}
        PROVE  Fine(answers[i])
    <3> DEFINE calls == answers[i].calls
    <3>1. IsList(calls) /\ \A j \in DOMAIN calls : KnownRefs(calls[j])
      BY <2>2, <2>3, AnswersAssumption DEF KnownRefs
    <3> HIDE DEF calls
    <3>2. \A j \in 1 .. Len(calls) : KnownRefs(calls[j])
      BY <3>1, ListFacts
    <3> QED
      BY <3>1, <3>2 DEF calls
  <2> QED
    BY <2>1, <2>3
<1> HIDE DEF Fine
<1>2. /\ IsList(all) /\ n = Len(answers) + 1 /\ all[n] = Lost /\ Len(answers) \in Nat
      /\ \A i \in 1 .. Len(answers) : all[i] = answers[i]
  BY <1>1, ListAppended, ListFacts
<1>3. n \in Nat
  BY <1>2
<1>4. PICK f : TurnStates(checkpoint, all, n, f) /\ Turn(checkpoint, answers) = f[n]
  BY <1>3, TurnIs
<1> HIDE DEF all, n
<1>5. ASSUME NEW k \in 1 .. n
      PROVE  Fine(all[k])
  <2>1. CASE k = n
    BY <1>2, <2>1 DEF Fine
  <2>2. CASE k # n
    <3>1. k \in 1 .. Len(answers)
      BY <1>2, <2>2
    <3> QED
      BY <1>1, <1>2, <3>1
  <2> QED
    BY <2>1, <2>2
<1>6. ASSUME NEW turn, OK(turn), NEW a, Fine(a)
      PROVE  OK(Answered(turn, a))
  <2>1. a \in {Lost, Garbled} \/ IsList(a.calls)
    BY <1>6 DEF Fine
  <2>2. TurnOK(Answered(turn, a))
    BY <1>6, <2>1, TurnStep
  <2>3. TurnNumbered(Answered(turn, a))
    BY <1>6, TurnNumberedStep DEF Fine
  <2> QED
    BY <2>2, <2>3
<1>7. OK(FreshTurn(checkpoint))
  BY TurnBegins, TurnNumberedBegins
<1> HIDE DEF OK
<1>8. ASSUME NEW k \in Nat, k <= n
      PROVE  OK(f[k])
  <2> DEFINE Bad == {m \in Nat : m <= n /\ ~OK(f[m])}
  <2>1. SUFFICES ASSUME Bad # {} PROVE FALSE
    BY <1>8
  <2>2. PICK m \in Bad : \A l \in Bad : m <= l
    BY <2>1, LeastExists
  <2>3. m \in 0 .. n
    BY <1>3, <2>2
  <2>4. f[m] = IF m = 0 THEN FreshTurn(checkpoint) ELSE Answered(f[m - 1], all[m])
    BY <1>4, <2>3 DEF TurnStates
  <2>5. m # 0
    BY <1>7, <2>2, <2>4
  <2>6. m - 1 \in Nat /\ m - 1 <= n /\ ~(m <= m - 1) /\ m \in 1 .. n
    BY <1>3, <2>3, <2>5
  <2>7. OK(f[m - 1])
    BY <2>2, <2>6
  <2>8. OK(f[m])
    BY <1>5, <1>6, <2>4, <2>5, <2>6, <2>7
  <2> QED
    BY <2>2, <2>8
<1> QED
  BY <1>3, <1>4, <1>8 DEF OK

-----------------------------------------------------------------------------
(* The scores *)

\* The expected draft is there if and only if a call that was expected has
\* succeeded and its draft is left.
OutcomeByCalls(e, turn) ==
  LET results == Results(turn)
  IN  \E i \in DOMAIN results :
        /\ results[i].error = "none" /\ MatchesExpectedToolCall(e, results[i])
        /\ DraftOf(results, i) \in {d.id : d \in FinalDrafts(turn)}

\* What the judgement of an expected draft is.
LEMMA JudgedDraft ==
  ASSUME NEW e, e.use \in DraftTools, NEW turn
  PROVE  LET results == Range(Results(turn))
         IN  /\ Judged(e, turn).tool <=> \E r \in results : MatchesExpectedToolName(e, r.name)
             /\ Judged(e, turn).argument <=> \E r \in results : MatchesExpectedToolCall(e, r)
             /\ Judged(e, turn).outcome <=> \E d \in FinalDrafts(turn) : MatchesExpectedDraft(e, d.entry)
<1>1. e.use \notin {"plain_text_response", "any_structured_tool", "any_tool"}
  BY DEF DraftTools
<1> DEFINE name == \E r \in Range(Results(turn)) : MatchesExpectedToolName(e, r.name)
           argument == \E r \in Range(Results(turn)) : MatchesExpectedToolCall(e, r)
           found == \E d \in FinalDrafts(turn) : MatchesExpectedDraft(e, d.entry)
           outcome == CASE e.use = "any_structured_tool" -> FinalDrafts(turn) # {}
                        [] e.use = "any_tool" -> argument
                        [] OTHER -> found
<1>2. Judged(e, turn) = [tool |-> name, argument |-> argument, outcome |-> outcome]
  BY <1>1 DEF Judged
<1>3. outcome <=> found
  BY <1>1, Zenon
<1> HIDE DEF name, argument, outcome, found
<1>4. /\ Judged(e, turn).tool = name /\ Judged(e, turn).argument = argument
      /\ Judged(e, turn).outcome = outcome
  BY <1>2
<1> QED
  BY <1>3, <1>4, Zenon DEF name, argument, found

\* The two ways to look for an expected draft.
LEMMA OutcomesByCalls ==
  ASSUME NEW e \in Expectations, e.use \in DraftTools, Plain(e), NEW turn, TurnNumbered(turn)
  PROVE  Judged(e, turn).outcome <=> OutcomeByCalls(e, turn)
<1> DEFINE results == Results(turn)
           b == turn.buffer
<1>1. Numbered(results, b)
  BY DEF TurnNumbered, Results, ResultsOf
<1>2. Judged(e, turn).outcome <=> \E d \in FinalDrafts(turn) : MatchesExpectedDraft(e, d.entry)
  BY JudgedDraft
<1>3. FinalDrafts(turn) = {b.drafts[k] : k \in DOMAIN b.drafts}
  BY DEF FinalDrafts
<1>4. OutcomeByCalls(e, turn)
        <=> \E i \in DOMAIN results :
              /\ results[i].error = "none" /\ MatchesExpectedToolCall(e, results[i])
              /\ DraftOf(results, i) \in {d.id : d \in FinalDrafts(turn)}
  BY DEF OutcomeByCalls
<1> HIDE DEF results, b
<1>5. DOMAIN results \subseteq Nat \ {0}
  BY <1>1, ListFacts DEF Numbered
<1>6. \A i \in DOMAIN results :
        KnownRefs(results[i]) /\ (results[i].error = "none" => CliDecodes(results[i]).error = "none")
  BY <1>1 DEF Numbered
<1>7. \A k \in DOMAIN b.drafts : \E i \in DOMAIN results :
        /\ Drafting(results[i]) /\ b.drafts[k].id = DraftOf(results, i)
        /\ b.drafts[k].entry = Content(results[i].name, CliDecodes(results[i]).args)
  BY <1>1 DEF Numbered
<1>8. ASSUME NEW i \in DOMAIN results, Drafting(results[i])
      PROVE  MatchesExpectedToolCall(e, results[i])
               <=> MatchesExpectedDraft(e, Content(results[i].name, CliDecodes(results[i]).args))
  BY <1>6, <1>8, CallsCompareAlike DEF Drafting
<1>9. ASSUME NEW i \in DOMAIN results, MatchesExpectedToolCall(e, results[i])
      PROVE  results[i].name \in DraftTools
  <2>1. MatchesExpectedToolName(e, results[i].name)
    BY <1>9 DEF MatchesExpectedToolCall
  <2>2. e.use \notin {"plain_text_response", "any_structured_tool", "any_tool"}
    BY DEF DraftTools
  <2>3. results[i].name = e.use
    BY <2>1, <2>2, Zenon DEF MatchesExpectedToolName
  <2> QED
    BY <2>3
<1>10. ASSUME NEW k \in DOMAIN b.drafts, MatchesExpectedDraft(e, b.drafts[k].entry)
       PROVE  OutcomeByCalls(e, turn)
  <2>1. PICK i \in DOMAIN results :
          /\ Drafting(results[i]) /\ b.drafts[k].id = DraftOf(results, i)
          /\ b.drafts[k].entry = Content(results[i].name, CliDecodes(results[i]).args)
    BY <1>7
  <2>2. MatchesExpectedToolCall(e, results[i])
    BY <1>8, <1>10, <2>1
  <2>3. DraftOf(results, i) \in {d.id : d \in FinalDrafts(turn)}
    BY <1>3, <2>1
  <2> QED
    BY <1>4, <2>1, <2>2, <2>3 DEF Drafting
<1>11. ASSUME NEW i \in DOMAIN results, results[i].error = "none", MatchesExpectedToolCall(e, results[i]),
              DraftOf(results, i) \in {d.id : d \in FinalDrafts(turn)}
       PROVE  Judged(e, turn).outcome
  <2>1. PICK k \in DOMAIN b.drafts : b.drafts[k].id = DraftOf(results, i)
    BY <1>3, <1>11
  <2>2. PICK j \in DOMAIN results :
          /\ Drafting(results[j]) /\ b.drafts[k].id = DraftOf(results, j)
          /\ b.drafts[k].entry = Content(results[j].name, CliDecodes(results[j]).args)
    BY <1>7
  <2>3. Drafting(results[i])
    BY <1>9, <1>11 DEF Drafting
  <2>4. i = j
    BY <1>5, <2>1, <2>2, <2>3, NumbersDiffer
  <2>5. MatchesExpectedDraft(e, b.drafts[k].entry)
    BY <1>8, <1>11, <2>2, <2>4
  <2> QED
    BY <1>2, <1>3, <2>5
<1> QED
  BY <1>2, <1>3, <1>4, <1>10, <1>11

\* The expectations whose references are ids of the log.
PlainOnes == {e \in Expectations : e.use \in DraftTools => Plain(e)}

\* Who has the outcome has the arguments, and who has the arguments the tool.
LEMMA JudgedInOrder ==
  ASSUME NEW e \in PlainOnes, NEW turn, TurnNumbered(turn)
  PROVE  /\ Judged(e, turn).outcome => Judged(e, turn).argument
         /\ Judged(e, turn).argument => Judged(e, turn).tool
<1> DEFINE name == \E r \in Range(Results(turn)) : MatchesExpectedToolName(e, r.name)
           argument == \E r \in Range(Results(turn)) : MatchesExpectedToolCall(e, r)
           outcome == CASE e.use = "any_structured_tool" -> FinalDrafts(turn) # {}
                        [] e.use = "any_tool" -> argument
                        [] OTHER -> \E d \in FinalDrafts(turn) : MatchesExpectedDraft(e, d.entry)
           text == ~CallMade(turn) /\ e.words \subseteq turn.text /\ FinalDrafts(turn) = {}
<1>1. e \in Expectations /\ (e.use \in DraftTools => Plain(e))
  BY DEF PlainOnes
<1>2. e.use \in DraftTools \union {"plain_text_response", "any_structured_tool", "any_tool"}
  BY <1>1, ExpectationsAssumption
<1>3. argument => name
  BY DEF MatchesExpectedToolCall
<1>4. e.use # "plain_text_response" =>
        Judged(e, turn) = [tool |-> name, argument |-> argument, outcome |-> outcome]
  BY DEF Judged
<1>5. e.use = "plain_text_response" => Judged(e, turn) = [tool |-> text, argument |-> text, outcome |-> text]
  BY DEF Judged
<1>6. e.use = "any_tool" => outcome = argument
  OBVIOUS
<1>7. CASE e.use = "any_structured_tool"
  <2>1. outcome = (FinalDrafts(turn) # {})
    BY <1>7
  <2>2. ASSUME FinalDrafts(turn) # {}
        PROVE  argument
    <3>1. PICK k \in DOMAIN turn.buffer.drafts : TRUE
      BY <2>2 DEF FinalDrafts
    <3>2. PICK i \in DOMAIN Results(turn) : TRUE
      BY <3>1 DEF TurnNumbered, Numbered, Results, ResultsOf
    <3>3. Results(turn)[i] \in Range(Results(turn))
      BY DEF Range
    <3>4. "any_structured_tool" \notin DraftTools
      BY DEF DraftTools
    <3>5. MatchesExpectedToolName(e, Results(turn)[i].name)
      BY <1>7, <3>4, Zenon DEF MatchesExpectedToolName
    <3>6. MatchesExpectedToolCall(e, Results(turn)[i])
      BY <1>7, <3>4, <3>5 DEF MatchesExpectedToolCall
    <3> QED
      BY <3>3, <3>6
  <2> HIDE DEF name, argument, outcome
  <2>3. outcome => argument
    BY <2>1, <2>2
  <2>4. Judged(e, turn).tool = name /\ Judged(e, turn).argument = argument /\ Judged(e, turn).outcome = outcome
    BY <1>4, <1>7
  <2> QED
    BY <1>3, <2>3, <2>4, Zenon
<1>8. CASE e.use = "any_tool"
  <2> HIDE DEF name, argument, outcome
  <2>4. Judged(e, turn).tool = name /\ Judged(e, turn).argument = argument /\ Judged(e, turn).outcome = outcome
    BY <1>4, <1>8
  <2> QED
    BY <1>3, <1>6, <1>8, <2>4, Zenon
<1>9. CASE e.use = "plain_text_response"
  <2> HIDE DEF text
  <2>4. Judged(e, turn).tool = text /\ Judged(e, turn).argument = text /\ Judged(e, turn).outcome = text
    BY <1>5, <1>9
  <2> QED
    BY <2>4, Zenon
<1>10. CASE e.use \in DraftTools
  <2>1. ASSUME Judged(e, turn).outcome
        PROVE  Judged(e, turn).argument
    <3>1. OutcomeByCalls(e, turn)
      BY <1>1, <1>10, <2>1, OutcomesByCalls
    <3>2. PICK i \in DOMAIN Results(turn) : MatchesExpectedToolCall(e, Results(turn)[i])
      BY <3>1 DEF OutcomeByCalls
    <3>3. Results(turn)[i] \in Range(Results(turn))
      BY DEF Range
    <3> QED
      BY <1>10, <3>2, <3>3, JudgedDraft
  <2>2. Judged(e, turn).argument => Judged(e, turn).tool
    BY <1>3, <1>10, JudgedDraft
  <2> QED
    BY <2>1, <2>2
<1> QED
  BY <1>2, <1>7, <1>8, <1>9, <1>10

\* What is so of every judgement is so of the verdict.
LEMMA VerdictInOrder ==
  ASSUME NEW judged, NEW n \in Nat, DOMAIN judged = 1 .. n,
         \A i \in 1 .. n : /\ judged[i].outcome => judged[i].argument
                           /\ judged[i].argument => judged[i].tool,
         NEW turn
  PROVE  LET verdict == Verdict(judged, turn)
         IN  /\ verdict.outcome => verdict.argument
             /\ verdict.argument => verdict.tool
             /\ verdict.success => verdict.notes \subseteq {"no_call"}
<1> DEFINE met == {i \in DOMAIN judged : judged[i].outcome}
           matched == IF met = {} THEN 0 ELSE CHOOSE i \in met : \A j \in met : i <= j
           seen == IF met = {} THEN DOMAIN judged ELSE 1 .. matched
           tool == \E i \in seen : judged[i].tool
           argument == \E i \in seen : judged[i].argument
           outcome == matched # 0
           called == CallMade(turn)
           notes == Notes(called, tool, argument, outcome)
           success == turn.state = "final" /\ outcome
           verdict == Verdict(judged, turn)
<1>1. verdict = [called |-> called, structured |-> Results(turn) # << >>,
                 tool |-> tool, argument |-> argument, outcome |-> outcome,
                 success |-> success, variant |-> matched, notes |-> notes]
  BY DEF Verdict
<1>2. met # {} => matched \in met
  <2>1. met \subseteq Nat
    OBVIOUS
  <2> HIDE DEF met
  <2> QED
    BY <2>1, LeastExists
<1>3. met = {} => matched = 0
  OBVIOUS
<1>4. met \subseteq 1 .. n /\ \A i \in met : judged[i].outcome
  OBVIOUS
<1>5. seen \subseteq 1 .. n /\ (met # {} => matched \in seen)
  <2> HIDE DEF met, matched
  <2>1. CASE met = {}
    BY <2>1
  <2>2. CASE met # {}
    <3>1. matched \in 1 .. n /\ seen = 1 .. matched
      BY <1>2, <1>4, <2>2
    <3> QED
      BY <3>1
  <2> QED
    BY <2>1, <2>2
<1> HIDE DEF met, matched, seen
<1>6. argument => tool
  BY <1>5
<1>7. ASSUME outcome PROVE argument
  <2>1. matched \in met /\ matched \in seen
    BY <1>2, <1>3, <1>5, <1>7
  <2>2. judged[matched].outcome /\ matched \in 1 .. n
    BY <1>4, <2>1
  <2>3. judged[matched].argument
    BY <2>2
  <2> QED
    BY <2>1, <2>3
<1> HIDE DEF tool, argument, outcome
<1>8. ASSUME success PROVE notes \subseteq {"no_call"}
  <2>1. outcome /\ argument /\ tool
    BY <1>6, <1>7, <1>8
  <2>2. notes = (IF called THEN {} ELSE {"no_call"})
    <3>1. ~(called /\ ~tool) /\ ~(tool /\ ~argument) /\ ~(argument /\ ~outcome)
      BY <2>1
    <3>2. notes = (IF called THEN {} ELSE {"no_call"})
                  \union (IF called /\ ~tool THEN {"no_expected_tool"} ELSE {})
                  \union (IF tool /\ ~argument THEN {"other_arguments"} ELSE {})
                  \union (IF argument /\ ~outcome THEN {"other_outcome"} ELSE {})
      BY DEF Notes
    <3> HIDE DEF notes, called
    <3> QED
      BY <3>1, <3>2
  <2> QED
    BY <2>2
<1> HIDE DEF success, notes, called
<1>9. /\ verdict.tool = tool /\ verdict.argument = argument /\ verdict.outcome = outcome
      /\ verdict.success = success /\ verdict.notes = notes
  <2> HIDE DEF verdict
  <2> QED
    BY <1>1
<1> HIDE DEF verdict
<1>10. /\ verdict.outcome => verdict.argument
       /\ verdict.argument => verdict.tool
       /\ verdict.success => verdict.notes \subseteq {"no_call"}
  BY <1>6, <1>7, <1>8, <1>9, Zenon
<1> QED
  BY <1>10 DEF verdict

\* What is said of the scores of a turn.
TurnScores(turn) ==
  LET results == Results(turn)
      left == {d.id : d \in FinalDrafts(turn)}
      plain == {e \in Expectations : e.use \in DraftTools => Plain(e)}
  IN  /\ \A e \in plain : e.use \in DraftTools =>
           (Judged(e, turn).outcome <=>
              \E i \in DOMAIN results :
                /\ results[i].error = "none" /\ MatchesExpectedToolCall(e, results[i])
                /\ DraftOf(results, i) \in left)
      /\ \A d, e \in plain :
           LET verdict == EvaluateCase(<<d, e>>, turn)
           IN  /\ verdict.outcome => verdict.argument
               /\ verdict.argument => verdict.tool
               /\ verdict.success => verdict.notes \subseteq {"no_call"}

\* Whatever the model answers, the two ways to look at a call agree.
LEMMA ScoresAlwaysAgree ==
  ASSUME NEW turn \in LongestTurns
  PROVE  TurnScores(turn)
<1>1. TurnNumbered(turn)
  BY TurnsAreNumbered DEF LongestTurns
<1>2. ASSUME NEW e \in PlainOnes, e.use \in DraftTools
      PROVE  Judged(e, turn).outcome <=> OutcomeByCalls(e, turn)
  BY <1>1, <1>2, OutcomesByCalls DEF PlainOnes
<1>3. ASSUME NEW d \in PlainOnes, NEW e \in PlainOnes
      PROVE  LET verdict == EvaluateCase(<<d, e>>, turn)
             IN  /\ verdict.outcome => verdict.argument
                 /\ verdict.argument => verdict.tool
                 /\ verdict.success => verdict.notes \subseteq {"no_call"}
  <2> DEFINE expected == <<d, e>>
             judged == [i \in DOMAIN expected |-> Judged(expected[i], turn)]
  <2>1. DOMAIN expected = 1 .. 2 /\ \A i \in 1 .. 2 : expected[i] \in PlainOnes
    OBVIOUS
  <2>2. EvaluateCase(expected, turn) = Verdict(judged, turn)
    BY DEF EvaluateCase
  <2> HIDE DEF expected
  <2>3. DOMAIN judged = 1 .. 2 /\ \A i \in 1 .. 2 : judged[i] = Judged(expected[i], turn)
    BY <2>1
  <2> HIDE DEF judged
  <2>4. \A i \in 1 .. 2 : /\ judged[i].outcome => judged[i].argument
                          /\ judged[i].argument => judged[i].tool
    BY <1>1, <2>1, <2>3, JudgedInOrder
  <2>5. LET verdict == Verdict(judged, turn)
        IN  /\ verdict.outcome => verdict.argument
            /\ verdict.argument => verdict.tool
            /\ verdict.success => verdict.notes \subseteq {"no_call"}
    BY <2>3, <2>4, VerdictInOrder
  <2> QED
    BY <2>2, <2>5 DEF expected
<1>5. \A e \in PlainOnes : e.use \in DraftTools => (Judged(e, turn).outcome <=> OutcomeByCalls(e, turn))
  BY <1>2
<1> QED
  BY <1>3, <1>5, Zenon DEF PlainOnes, OutcomeByCalls, TurnScores

\* Of all turns.
LEMMA ScoresHold == ScoresAgree
<1>1. \A turn \in LongestTurns : TurnScores(turn)
  BY ScoresAlwaysAgree
<1> QED
  BY <1>1, Zenon DEF ScoresAgree, TurnScores

-----------------------------------------------------------------------------
(* The lines of a report *)

\* A function on an initial segment of the numbers is a list.
LEMMA FunctionIsList ==
  ASSUME NEW m \in Nat, NEW s, s = [i \in 1 .. m |-> s[i]]
  PROVE  IsList(s) /\ Len(s) = m /\ DOMAIN s = 1 .. m
<1> DEFINE T == ToSet(s)
<1>1. DOMAIN s = 1 .. m
  OBVIOUS
<1>2. \A i \in 1 .. m : s[i] \in T
  BY <1>1 DEF ToSet
<1> HIDE DEF T
<1>3. s \in [1 .. m -> T]
  BY <1>2
<1>4. s \in Seq(T) /\ Len(s) = m
  BY <1>3
<1> QED
  BY <1>1, <1>4 DEF IsList, T

\* The places of a list of runs to come that are of a key.
CellKey(cell) == <<cell.case.id, cell.history, cell.max>>
Hits(s, key) == {i \in 1 .. Len(s) : CellKey(s[i]) = key}

\* They are finitely many.
LEMMA HitsFinite ==
  ASSUME NEW s, IsList(s), NEW key
  PROVE  /\ IsFiniteSet(Hits(s, key)) /\ Cardinality(Hits(s, key)) \in Nat
         /\ Cardinality(Hits(s, key)) = 0 <=> Hits(s, key) = {}
<1>1. IsFiniteSet(1 .. Len(s))
  BY ListFacts, FS_Interval
<1>2. IsFiniteSet(Hits(s, key))
  BY <1>1, FS_Subset DEF Hits
<1> QED
  BY <1>2, FS_CardinalityType, FS_EmptySet

\* Of two lists joined they are those of each.
LEMMA HitsJoined ==
  ASSUME NEW s, IsList(s), NEW t, IsList(t), NEW key
  PROVE  Cardinality(Hits(s \o t, key)) = Cardinality(Hits(s, key)) + Cardinality(Hits(t, key))
<1> DEFINE n == Len(s)
           m == Len(t)
           both == s \o t
           A == Hits(s, key)
           B == Hits(t, key)
           C == {n + i : i \in B}
<1>1. n \in Nat /\ m \in Nat
  BY ListFacts
<1>2. Len(both) = n + m /\ \A i \in 1 .. n + m : both[i] = IF i <= n THEN s[i] ELSE t[i - n]
  BY ListsJoined
<1>3. A = {i \in 1 .. n : CellKey(s[i]) = key} /\ B = {i \in 1 .. m : CellKey(t[i]) = key}
  BY DEF Hits
<1>4. Hits(both, key) = {i \in 1 .. n + m : CellKey(both[i]) = key}
  BY <1>2 DEF Hits
<1>5. IsFiniteSet(A) /\ IsFiniteSet(B) /\ Cardinality(A) \in Nat /\ Cardinality(B) \in Nat
  BY HitsFinite
<1> HIDE DEF n, m, both, A, B
<1>6. Hits(both, key) = A \union C
  <2>1. ASSUME NEW i \in Hits(both, key) PROVE i \in A \union C
    <3>1. i \in 1 .. n + m /\ CellKey(both[i]) = key
      BY <1>4
    <3>2. CASE i <= n
      BY <1>1, <1>2, <1>3, <3>1, <3>2
    <3>3. CASE ~(i <= n)
      <4>1. i - n \in 1 .. m /\ both[i] = t[i - n] /\ n + (i - n) = i
        BY <1>1, <1>2, <3>1, <3>3
      <4>2. i - n \in B
        BY <1>3, <3>1, <4>1
      <4> QED
        BY <4>1, <4>2
    <3> QED
      BY <3>2, <3>3
  <2>2. ASSUME NEW i \in A PROVE i \in Hits(both, key)
    BY <1>1, <1>2, <1>3, <1>4
  <2>3. ASSUME NEW i \in B PROVE n + i \in Hits(both, key)
    <3>1. i \in 1 .. m /\ CellKey(t[i]) = key
      BY <1>3
    <3>2. n + i \in 1 .. n + m /\ ~(n + i <= n) /\ (n + i) - n = i
      BY <1>1, <3>1
    <3>3. both[n + i] = t[i]
      BY <1>2, <3>2
    <3> QED
      BY <1>4, <3>1, <3>2, <3>3
  <2> QED
    BY <2>1, <2>2, <2>3
<1>7. A \intersect C = {}
  BY <1>1, <1>3
<1>8. IsFiniteSet(C) /\ Cardinality(C) = Cardinality(B)
  <2> DEFINE f == [i \in B |-> n + i]
  <2>1. B \subseteq Nat
    BY <1>1, <1>3
  <2>2. f \in [B -> C] /\ (\A i, j \in B : f[i] = f[j] => i = j) /\ (\A c \in C : \E i \in B : f[i] = c)
    BY <1>1, <2>1
  <2> HIDE DEF f, C
  <2>3. f \in Bijection(B, C)
    BY <2>2 DEF Bijection, Injection, Surjection, IsInjective
  <2>4. ExistsBijection(B, C)
    BY <2>3 DEF ExistsBijection
  <2> QED
    BY <1>5, <2>4, FS_Bijection
<1>9. Cardinality(A \union C) = Cardinality(A) + Cardinality(C) - Cardinality(A \intersect C)
  BY <1>5, <1>8, FS_Union
<1>10. Cardinality(A \intersect C) = 0
  BY <1>7, FS_EmptySet
<1> QED
  BY <1>5, <1>6, <1>8, <1>9, <1>10 DEF both, A, B

\* Of lists one of which, at most, has any, they are as many as its.
LEMMA HitsOfOne ==
  ASSUME NEW seqs, IsList(seqs), \A i \in 1 .. Len(seqs) : IsList(seqs[i]),
         NEW key, NEW k \in Nat, \A i \in 1 .. Len(seqs) : i # k => Hits(seqs[i], key) = {}
  PROVE  Cardinality(Hits(FlattenSeq(seqs), key))
           = IF k \in 1 .. Len(seqs) THEN Cardinality(Hits(seqs[k], key)) ELSE 0
<1> DEFINE n == Len(seqs)
           Count(j) == IF k \in 1 .. j THEN Cardinality(Hits(seqs[k], key)) ELSE 0
<1>1. n \in Nat
  BY ListFacts
<1>2. PICK f : /\ f[0] = << >> /\ FlattenSeq(seqs) = f[n]
               /\ \A j \in 0 .. n : IsList(f[j])
               /\ \A j \in 1 .. n : f[j] = f[j - 1] \o seqs[j]
  BY FlattenedLists
<1> HIDE DEF n
<1>3. ASSUME NEW j \in Nat, j <= n
      PROVE  Cardinality(Hits(f[j], key)) = Count(j)
  <2> DEFINE Bad == {i \in Nat : i <= n /\ Cardinality(Hits(f[i], key)) # Count(i)}
  <2>1. SUFFICES ASSUME Bad # {} PROVE FALSE
    BY <1>3
  <2>2. PICK i \in Bad : \A l \in Bad : i <= l
    BY <2>1, LeastExists
  <2>3. i \in 0 .. n
    BY <1>1, <2>2
  <2>4. i # 0
    <3>1. Hits(<< >>, key) = {}
      BY EmptyList DEF Hits
    <3>2. Cardinality(Hits(f[0], key)) = 0
      BY <1>2, <3>1, FS_EmptySet
    <3>3. Count(0) = 0
      OBVIOUS
    <3> QED
      BY <2>2, <3>2, <3>3
  <2>5. i - 1 \in Nat /\ i - 1 <= n /\ i - 1 \in 0 .. n /\ ~(i <= i - 1) /\ i \in 1 .. n
    BY <1>1, <2>3, <2>4
  <2>6. Cardinality(Hits(f[i - 1], key)) = Count(i - 1)
    BY <2>2, <2>5
  <2>7. IsList(f[i - 1]) /\ IsList(seqs[i]) /\ f[i] = f[i - 1] \o seqs[i]
    BY <1>2, <2>5 DEF n
  <2>8. Cardinality(Hits(f[i], key)) = Cardinality(Hits(f[i - 1], key)) + Cardinality(Hits(seqs[i], key))
    BY <2>7, HitsJoined
  <2>9. Cardinality(Hits(seqs[i], key)) \in Nat
    BY <2>7, HitsFinite
  <2>10. CASE i = k
    <3>1. Count(i) = Cardinality(Hits(seqs[i], key)) /\ Count(i - 1) = 0
      BY <2>5, <2>10
    <3> QED
      BY <2>2, <2>6, <2>8, <2>9, <3>1
  <2>11. CASE i # k
    <3>1. Cardinality(Hits(seqs[i], key)) = 0
      BY <2>5, <2>11, FS_EmptySet DEF n
    <3>2. Count(i) = Count(i - 1)
      BY <2>5, <2>11
    <3>3. Count(i - 1) \in Nat
      <4>1. k \in 1 .. i - 1 => k \in 1 .. n
        BY <1>1, <2>5
      <4>2. k \in 1 .. i - 1 => Cardinality(Hits(seqs[k], key)) \in Nat
        BY <4>1, HitsFinite DEF n
      <4> QED
        BY <4>2
    <3> QED
      BY <2>2, <2>6, <2>8, <3>1, <3>2, <3>3
  <2> QED
    BY <2>10, <2>11
<1> QED
  BY <1>1, <1>2, <1>3 DEF n

\* Lists of lists; a key is found in one of them at most, and there so often.
Lists(seqs) == IsList(seqs) /\ \A i \in 1 .. Len(seqs) : IsList(seqs[i])
FoundOnce(seqs, key) ==
  \A i, j \in 1 .. Len(seqs) : Hits(seqs[i], key) # {} /\ Hits(seqs[j], key) # {} => i = j
FoundTimes(seqs, key, n) ==
  \A i \in 1 .. Len(seqs) : Hits(seqs[i], key) # {} => Cardinality(Hits(seqs[i], key)) = n

\* Joined, they are a list.
LEMMA ListsFlattened ==
  ASSUME NEW seqs, Lists(seqs)
  PROVE  IsList(FlattenSeq(seqs))
BY EmptyList, FlattenAppended DEF Lists

\* If a key is found in one list only, it is as often in all.
LEMMA HitsFlattened ==
  ASSUME NEW seqs, Lists(seqs), NEW key, NEW n \in Nat, FoundOnce(seqs, key), FoundTimes(seqs, key, n),
         Hits(FlattenSeq(seqs), key) # {}
  PROVE  /\ \E i \in 1 .. Len(seqs) : Hits(seqs[i], key) # {}
         /\ Cardinality(Hits(FlattenSeq(seqs), key)) = n
<1>1. IsList(FlattenSeq(seqs)) /\ IsList(seqs) /\ \A i \in 1 .. Len(seqs) : IsList(seqs[i])
  BY ListsFlattened DEF Lists
<1>2. CASE \A i \in 1 .. Len(seqs) : Hits(seqs[i], key) = {}
  <2>1. 0 \in Nat /\ 0 \notin 1 .. Len(seqs)
    BY <1>1, ListFacts
  <2>2. Cardinality(Hits(FlattenSeq(seqs), key)) = 0
    BY <1>1, <1>2, <2>1, HitsOfOne
  <2> QED
    BY <1>1, <2>2, HitsFinite
<1>3. ASSUME NEW k \in 1 .. Len(seqs), Hits(seqs[k], key) # {}
      PROVE  Cardinality(Hits(FlattenSeq(seqs), key)) = n
  <2>1. k \in Nat
    BY <1>1, ListFacts
  <2>2. ASSUME NEW i \in 1 .. Len(seqs), i # k PROVE Hits(seqs[i], key) = {}
    BY <1>3, <2>2 DEF FoundOnce
  <2>3. Cardinality(Hits(FlattenSeq(seqs), key)) = Cardinality(Hits(seqs[k], key))
    BY <1>1, <2>1, <2>2, HitsOfOne
  <2> QED
    BY <1>3, <2>3 DEF FoundTimes
<1> QED
  BY <1>2, <1>3

\* A list made of another one place by place.
LEMMA MadeFromList ==
  ASSUME NEW s, IsList(s), NEW t, t = [i \in DOMAIN s |-> t[i]]
  PROVE  IsList(t) /\ Len(t) = Len(s) /\ DOMAIN t = 1 .. Len(s) /\ DOMAIN s = 1 .. Len(s) /\ Len(s) \in Nat
<1>1. DOMAIN s = 1 .. Len(s) /\ Len(s) \in Nat
  BY ListFacts
<1>2. t = [i \in 1 .. Len(s) |-> t[i]]
  BY <1>1
<1> HIDE DEF IsList
<1>3. IsList(t) /\ Len(t) = Len(s) /\ DOMAIN t = 1 .. Len(s)
  BY <1>1, <1>2, FunctionIsList
<1> QED
  BY <1>1, <1>3

\* The runs of a case under a setting, of a case with a number of turns, and of a case.
OfSetting(repeats, case, h, m) ==
  [r \in 1 .. repeats |-> [case |-> case, history |-> h, max |-> m, repeat |-> r]]
OfLimits(repeats, limits, case, h) ==
  [i \in DOMAIN limits |-> OfSetting(repeats, case, h, limits[i])]
OfHistories(repeats, limits, histories, case) ==
  [i \in DOMAIN histories |-> FlattenSeq(OfLimits(repeats, limits, case, histories[i]))]
OfCases(repeats, limits, histories, cases) ==
  [i \in DOMAIN cases |-> FlattenSeq(OfHistories(repeats, limits, histories, cases[i]))]

\* Under one setting there are as many as asked for, of one key.
LEMMA SettingCounted ==
  ASSUME NEW repeats \in Nat, NEW case, NEW h, NEW m, NEW key, NEW runs, runs = OfSetting(repeats, case, h, m)
  PROVE  /\ IsList(runs)
         /\ Hits(runs, key) # {} => key = <<case.id, h, m>>
         /\ Hits(runs, key) # {} => Cardinality(Hits(runs, key)) = repeats
<1>1. runs = [r \in 1 .. repeats |-> runs[r]] /\ \A r \in 1 .. repeats : CellKey(runs[r]) = <<case.id, h, m>>
  BY DEF OfSetting, CellKey
<1>2. IsList(runs) /\ Len(runs) = repeats
  BY <1>1, FunctionIsList
<1>3. ASSUME Hits(runs, key) # {}
      PROVE  key = <<case.id, h, m>> /\ Hits(runs, key) = 1 .. repeats
  BY <1>1, <1>2, <1>3 DEF Hits
<1>4. Cardinality(1 .. repeats) = repeats
  BY FS_Interval
<1> QED
  BY <1>2, <1>3, <1>4

\* Of one case with one number of turns.
LEMMA HistoryCounted ==
  ASSUME NEW repeats \in Nat, NEW limits, IsList(limits), NEW case, NEW h, NEW key,
         NEW runs, runs = FlattenSeq(OfLimits(repeats, limits, case, h))
  PROVE  /\ IsList(runs)
         /\ IsInjective(limits) /\ Hits(runs, key) # {} => key[1] = case.id
         /\ IsInjective(limits) /\ Hits(runs, key) # {} => key[2] = h
         /\ IsInjective(limits) /\ Hits(runs, key) # {} => Cardinality(Hits(runs, key)) = repeats
<1> DEFINE seqs == OfLimits(repeats, limits, case, h)
<1>1. seqs = [i \in DOMAIN limits |-> seqs[i]]
      /\ \A i \in DOMAIN limits : seqs[i] = OfSetting(repeats, case, h, limits[i])
  BY DEF OfLimits
<1>2. runs = FlattenSeq(seqs)
  OBVIOUS
<1> HIDE DEF seqs
<1>3. IsList(seqs) /\ DOMAIN limits = 1 .. Len(seqs)
  BY <1>1, MadeFromList
<1>4. ASSUME NEW i \in 1 .. Len(seqs)
      PROVE  /\ IsList(seqs[i])
             /\ Hits(seqs[i], key) # {} => key = <<case.id, h, limits[i]>>
             /\ Hits(seqs[i], key) # {} => Cardinality(Hits(seqs[i], key)) = repeats
  <2>1. seqs[i] = OfSetting(repeats, case, h, limits[i])
    BY <1>1, <1>3
  <2> QED
    BY <2>1, SettingCounted
<1>5. Lists(seqs) /\ FoundTimes(seqs, key, repeats)
  BY <1>3, <1>4 DEF Lists, FoundTimes
<1>6. IsList(runs)
  BY <1>2, <1>5, ListsFlattened
<1>7. ASSUME IsInjective(limits), Hits(runs, key) # {}
      PROVE  key[1] = case.id /\ key[2] = h /\ Cardinality(Hits(runs, key)) = repeats
  <2>1. ASSUME NEW i \in 1 .. Len(seqs), NEW j \in 1 .. Len(seqs), Hits(seqs[i], key) # {}, Hits(seqs[j], key) # {}
        PROVE  i = j
    <3>1. <<case.id, h, limits[i]>> = <<case.id, h, limits[j]>>
      BY <1>4, <2>1
    <3>2. limits[i] = limits[j]
      BY <3>1
    <3> QED
      BY <1>3, <1>7, <3>2 DEF IsInjective
  <2>2. FoundOnce(seqs, key)
    BY <2>1 DEF FoundOnce
  <2>3. (\E i \in 1 .. Len(seqs) : Hits(seqs[i], key) # {}) /\ Cardinality(Hits(runs, key)) = repeats
    BY <1>2, <1>5, <1>7, <2>2, HitsFlattened
  <2>4. PICK i \in 1 .. Len(seqs) : Hits(seqs[i], key) # {}
    BY <2>3
  <2>5. key = <<case.id, h, limits[i]>>
    BY <1>4, <2>4
  <2> QED
    BY <2>3, <2>5
<1> QED
  BY <1>6, <1>7

\* Of one case.
LEMMA CaseCounted ==
  ASSUME NEW repeats \in Nat, NEW limits, IsList(limits), NEW histories, IsList(histories), NEW case, NEW key,
         NEW runs, runs = FlattenSeq(OfHistories(repeats, limits, histories, case))
  PROVE  /\ IsList(runs)
         /\ IsInjective(limits) /\ IsInjective(histories) /\ Hits(runs, key) # {} => key[1] = case.id
         /\ IsInjective(limits) /\ IsInjective(histories) /\ Hits(runs, key) # {} =>
              Cardinality(Hits(runs, key)) = repeats
<1> DEFINE seqs == OfHistories(repeats, limits, histories, case)
<1>1. seqs = [i \in DOMAIN histories |-> seqs[i]]
      /\ \A i \in DOMAIN histories : seqs[i] = FlattenSeq(OfLimits(repeats, limits, case, histories[i]))
  BY DEF OfHistories
<1>2. runs = FlattenSeq(seqs)
  OBVIOUS
<1> HIDE DEF seqs
<1>3. IsList(seqs) /\ DOMAIN histories = 1 .. Len(seqs)
  BY <1>1, MadeFromList
<1>4. ASSUME NEW i \in 1 .. Len(seqs)
      PROVE  /\ IsList(seqs[i])
             /\ IsInjective(limits) /\ Hits(seqs[i], key) # {} => key[1] = case.id
             /\ IsInjective(limits) /\ Hits(seqs[i], key) # {} => key[2] = histories[i]
             /\ IsInjective(limits) /\ Hits(seqs[i], key) # {} => Cardinality(Hits(seqs[i], key)) = repeats
  <2>1. seqs[i] = FlattenSeq(OfLimits(repeats, limits, case, histories[i]))
    BY <1>1, <1>3
  <2> QED
    BY <2>1, HistoryCounted
<1>5. Lists(seqs)
  BY <1>3, <1>4 DEF Lists
<1>6. IsList(runs)
  BY <1>2, <1>5, ListsFlattened
<1>7. ASSUME IsInjective(limits), IsInjective(histories), Hits(runs, key) # {}
      PROVE  key[1] = case.id /\ Cardinality(Hits(runs, key)) = repeats
  <2>1. ASSUME NEW i \in 1 .. Len(seqs), NEW j \in 1 .. Len(seqs), Hits(seqs[i], key) # {}, Hits(seqs[j], key) # {}
        PROVE  i = j
    <3>1. histories[i] = histories[j]
      BY <1>4, <1>7, <2>1
    <3> QED
      BY <1>3, <1>7, <3>1 DEF IsInjective
  <2>2. FoundOnce(seqs, key)
    BY <2>1 DEF FoundOnce
  <2>3. FoundTimes(seqs, key, repeats)
    BY <1>4, <1>7 DEF FoundTimes
  <2>4. (\E i \in 1 .. Len(seqs) : Hits(seqs[i], key) # {}) /\ Cardinality(Hits(runs, key)) = repeats
    BY <1>2, <1>5, <1>7, <2>2, <2>3, HitsFlattened
  <2> QED
    BY <1>4, <1>7, <2>4
<1> QED
  BY <1>6, <1>7

\* Of a suite: every key has as many runs as were asked for.
LEMMA CellsCounted ==
  ASSUME NEW suite \in Suites, NEW config \in Configs, NEW key
  PROVE  /\ IsList(Cells(suite, config))
         /\ Different(suite, config) /\ Hits(Cells(suite, config), key) # {} =>
              Cardinality(Hits(Cells(suite, config), key)) = config.repeats
<1> DEFINE histories == Setting(config.history_turns, suite.history_turns)
           limits == Setting(config.max_history_values, suite.max_history_values)
           cases == suite.cases
           repeats == config.repeats
           seqs == OfCases(repeats, limits, histories, cases)
           runs == FlattenSeq(seqs)
<1>1. IsList(histories) /\ IsList(limits) /\ IsList(cases) /\ repeats \in Nat
  BY SuitesAssumption DEF Setting
<1>2. Cells(suite, config) = runs
  BY DEF Cells, OfCases, OfHistories, OfLimits, OfSetting
<1>3. Different(suite, config) =>
        /\ \A i, j \in DOMAIN cases : cases[i].id = cases[j].id => i = j
        /\ IsInjective(histories) /\ IsInjective(limits)
  BY DEF Different, IsInjective
<1> HIDE DEF histories, limits, cases, repeats
<1>4. seqs = [i \in DOMAIN cases |-> seqs[i]]
      /\ \A i \in DOMAIN cases : seqs[i] = FlattenSeq(OfHistories(repeats, limits, histories, cases[i]))
  BY DEF OfCases
<1> HIDE DEF seqs
<1>5. IsList(seqs) /\ DOMAIN cases = 1 .. Len(seqs)
  BY <1>1, <1>4, MadeFromList
<1>6. ASSUME NEW i \in 1 .. Len(seqs)
      PROVE  /\ IsList(seqs[i])
             /\ IsInjective(limits) /\ IsInjective(histories) /\ Hits(seqs[i], key) # {} => key[1] = cases[i].id
             /\ IsInjective(limits) /\ IsInjective(histories) /\ Hits(seqs[i], key) # {} =>
                  Cardinality(Hits(seqs[i], key)) = repeats
  <2>1. seqs[i] = FlattenSeq(OfHistories(repeats, limits, histories, cases[i]))
    BY <1>4, <1>5
  <2> QED
    BY <1>1, <2>1, CaseCounted
<1>7. Lists(seqs)
  BY <1>5, <1>6 DEF Lists
<1>8. IsList(runs)
  BY <1>7, ListsFlattened
<1>9. ASSUME Different(suite, config), Hits(runs, key) # {}
      PROVE  Cardinality(Hits(runs, key)) = repeats
  <2>1. ASSUME NEW i \in 1 .. Len(seqs), NEW j \in 1 .. Len(seqs), Hits(seqs[i], key) # {}, Hits(seqs[j], key) # {}
        PROVE  i = j
    <3>1. cases[i].id = cases[j].id
      BY <1>3, <1>6, <1>9, <2>1
    <3> QED
      BY <1>3, <1>5, <1>9, <3>1
  <2>2. FoundOnce(seqs, key)
    BY <2>1 DEF FoundOnce
  <2>3. FoundTimes(seqs, key, repeats)
    BY <1>3, <1>6, <1>9 DEF FoundTimes
  <2> QED
    BY <1>1, <1>7, <1>9, <2>2, <2>3, HitsFlattened
<1> QED
  BY <1>2, <1>8, <1>9 DEF repeats

-----------------------------------------------------------------------------
(* The totals of a report *)

\* The runs of some lines that have met a metric.
MetIn(runs, metric, rows) ==
  {i \in DOMAIN runs : runs[i].verdict[metric] /\ Row(runs, Key(runs[i])) \in rows}

\* They are finitely many.
LEMMA MetFinite ==
  ASSUME NEW runs, IsList(runs), NEW metric, NEW rows
  PROVE  IsFiniteSet(MetIn(runs, metric, rows)) /\ Cardinality(MetIn(runs, metric, rows)) \in Nat
<1>1. IsFiniteSet(DOMAIN runs)
  BY ListFacts, FS_Interval
<1>2. IsFiniteSet(MetIn(runs, metric, rows))
  BY <1>1, FS_Subset DEF MetIn
<1> QED
  BY <1>2, FS_CardinalityType

\* A line tells how many of its own runs have.
LEMMA MetInLine ==
  ASSUME NEW runs, NEW metric \in Metrics, NEW i \in DOMAIN runs
  PROVE  Cardinality(MetIn(runs, metric, {Row(runs, Key(runs[i]))})) = Row(runs, Key(runs[i])).met[metric]
<1> DEFINE key == Key(runs[i])
<1>1. \A k : Row(runs, k).key = k
  BY DEF Row
<1>2. Row(runs, key).met[metric] = Cardinality({j \in Group(runs, key) : runs[j].verdict[metric]})
  BY DEF Row
<1>3. {j \in Group(runs, key) : runs[j].verdict[metric]} = MetIn(runs, metric, {Row(runs, key)})
  <2>1. ASSUME NEW j \in DOMAIN runs
        PROVE  Key(runs[j]) = key <=> Row(runs, Key(runs[j])) = Row(runs, key)
    BY <1>1
  <2> HIDE DEF key
  <2> QED
    BY <2>1 DEF Group, MetIn
<1> HIDE DEF key
<1>4. Cardinality(MetIn(runs, metric, {Row(runs, key)})) = Row(runs, key).met[metric]
  BY <1>2, <1>3
<1> QED
  BY <1>4 DEF key

\* With one line more.
LEMMA MetInMore ==
  ASSUME NEW runs, IsList(runs), NEW metric \in Metrics, NEW rows, NEW row \in rows,
         NEW i \in DOMAIN runs, row = Row(runs, Key(runs[i]))
  PROVE  Cardinality(MetIn(runs, metric, rows)) = Cardinality(MetIn(runs, metric, rows \ {row})) + row.met[metric]
<1> DEFINE A == MetIn(runs, metric, rows \ {row})
           B == MetIn(runs, metric, {row})
<1>1. IsFiniteSet(A) /\ IsFiniteSet(B) /\ Cardinality(A) \in Nat /\ Cardinality(B) \in Nat
  BY MetFinite
<1>2. MetIn(runs, metric, rows) = A \union B /\ A \intersect B = {}
  BY DEF MetIn
<1>3. Cardinality(B) = row.met[metric]
  BY MetInLine
<1> HIDE DEF A, B
<1>4. Cardinality(A \union B) = Cardinality(A) + Cardinality(B) - Cardinality(A \intersect B)
  BY <1>1, FS_Union
<1>5. Cardinality(A \union B) = Cardinality(A) + Cardinality(B)
  BY <1>1, <1>2, <1>4, FS_EmptySet
<1> QED
  BY <1>2, <1>3, <1>5 DEF A

\* What adding up the lines comes to.
LEMMA LinesAddUp ==
  ASSUME NEW runs, IsList(runs), NEW metric \in Metrics
  PROVE  LET rows == {Row(runs, Key(runs[i])) : i \in DOMAIN runs}
         IN  FoldSet(LAMBDA row, n : n + row.met[metric], 0, rows)
               = Cardinality({i \in DOMAIN runs : runs[i].verdict[metric]})
<1> DEFINE rows == {Row(runs, Key(runs[i])) : i \in DOMAIN runs}
           one(s) == CHOOSE x \in s : TRUE
           Adds(g) == g = [s \in SUBSET rows |-> IF s = {} THEN 0 ELSE g[s \ {one(s)}] + one(s).met[metric]]
           h == [s \in SUBSET rows |-> Cardinality(MetIn(runs, metric, s))]
           iter == CHOOSE g : Adds(g)
<1>1. FoldSet(LAMBDA row, n : n + row.met[metric], 0, rows) = iter[rows]
  BY DEF FoldSet, MapThenFoldSet
<1>2. IsFiniteSet(rows)
  <2>1. IsFiniteSet(DOMAIN runs)
    BY ListFacts, FS_Interval
  <2> DEFINE line == [i \in DOMAIN runs |-> Row(runs, Key(runs[i]))]
  <2>2. /\ rows = {line[i] : i \in DOMAIN runs} /\ line \in [DOMAIN runs -> rows]
        /\ \A row \in rows : \E i \in DOMAIN runs : line[i] = row
    OBVIOUS
  <2> HIDE DEF rows, line
  <2>3. line \in Surjection(DOMAIN runs, rows)
    BY <2>2 DEF Surjection
  <2> QED
    BY <2>1, <2>3, FS_Surjection
<1>3. \A row \in rows : \E i \in DOMAIN runs : row = Row(runs, Key(runs[i]))
  OBVIOUS
<1>4. MetIn(runs, metric, rows) = {i \in DOMAIN runs : runs[i].verdict[metric]}
  BY DEF MetIn
<1> HIDE DEF rows
<1>5. ASSUME NEW s \in SUBSET rows, s # {}
      PROVE  /\ one(s) \in s /\ s \ {one(s)} \in SUBSET rows
             /\ Cardinality(MetIn(runs, metric, s))
                  = Cardinality(MetIn(runs, metric, s \ {one(s)})) + one(s).met[metric]
  <2>1. one(s) \in s
    BY <1>5
  <2> HIDE DEF one
  <2>2. PICK i \in DOMAIN runs : one(s) = Row(runs, Key(runs[i]))
    BY <1>3, <2>1
  <2>3. Cardinality(MetIn(runs, metric, s)) = Cardinality(MetIn(runs, metric, s \ {one(s)})) + one(s).met[metric]
    BY <2>1, <2>2, MetInMore
  <2> QED
    BY <2>1, <2>3
<1>6. Cardinality(MetIn(runs, metric, {})) = 0
  BY FS_EmptySet DEF MetIn
<1> HIDE DEF one
<1>7. Adds(h)
  <2>1. ASSUME NEW s \in SUBSET rows
        PROVE  h[s] = IF s = {} THEN 0 ELSE h[s \ {one(s)}] + one(s).met[metric]
    <3>1. CASE s = {}
      BY <1>6, <3>1
    <3>2. CASE s # {}
      BY <1>5, <3>2
    <3> QED
      BY <3>1, <3>2
  <2>2. h = [s \in SUBSET rows |-> h[s]]
    OBVIOUS
  <2> HIDE DEF h
  <2> QED
    BY <2>1, <2>2
<1>8. Adds(iter)
  <2> HIDE DEF Adds, h
  <2> QED
    BY <1>7
<1> HIDE DEF iter, h
<1>9. \A s \in SUBSET rows : iter[s] = IF s = {} THEN 0 ELSE iter[s \ {one(s)}] + one(s).met[metric]
  BY <1>8
<1> HIDE DEF Adds
<1>10. iter[rows] = Cardinality(MetIn(runs, metric, rows))
  <2> DEFINE Bad == {s \in SUBSET rows : iter[s] # Cardinality(MetIn(runs, metric, s))}
             Sizes == {Cardinality(s) : s \in Bad}
  <2>1. SUFFICES ASSUME Bad # {} PROVE FALSE
    OBVIOUS
  <2>2. \A s \in SUBSET rows : IsFiniteSet(s) /\ Cardinality(s) \in Nat
    BY <1>2, FS_Subset, FS_CardinalityType
  <2>3. Sizes # {} /\ Sizes \subseteq Nat
    BY <2>1, <2>2
  <2>4. PICK size \in Sizes : \A other \in Sizes : size <= other
    BY <2>3, LeastExists
  <2>5. PICK s \in Bad : Cardinality(s) = size
    BY <2>4
  <2>6. s # {}
    BY <1>6, <1>9, <2>5
  <2> DEFINE t == s \ {one(s)}
  <2>7. one(s) \in s /\ t \in SUBSET rows
    BY <1>5, <2>6
  <2>8. Cardinality(t) = Cardinality(s) - 1
    BY <2>2, <2>7, FS_RemoveElement
  <2>9. t \notin Bad
    BY <2>2, <2>4, <2>5, <2>7, <2>8
  <2>10. iter[t] = Cardinality(MetIn(runs, metric, t))
    BY <2>7, <2>9
  <2>11. iter[s] = iter[t] + one(s).met[metric]
    BY <1>9, <2>6
  <2>12. Cardinality(MetIn(runs, metric, s)) = Cardinality(MetIn(runs, metric, t)) + one(s).met[metric]
    BY <1>5, <2>6
  <2> QED
    BY <2>10, <2>11, <2>12
<1> QED
  BY <1>1, <1>4, <1>10 DEF rows

\* A report that there is adds up.
AddsUp(suite, config, report) ==
  /\ Len(report.runs) = Len(Cells(suite, config))
  /\ Different(suite, config) => \A row \in report.rows : row.repeats = config.repeats
  /\ \A metric \in Metrics :
       FoldSet(LAMBDA row, n : n + row.met[metric], 0, report.rows) =
         Cardinality({i \in DOMAIN report.runs : report.runs[i].verdict[metric]})

\* Whatever has been answered in its runs.
LEMMA ReportedAddsUp ==
  ASSUME NEW suite \in Suites, NEW config \in Configs, NEW model
  PROVE  LET cells == Cells(suite, config)
         IN  AddsUp(suite, config, Reported([i \in DOMAIN cells |-> RunOf(cells[i], model[cells[i]])]))
<1> DEFINE cells == Cells(suite, config)
           runs == [i \in DOMAIN cells |-> RunOf(cells[i], model[cells[i]])]
           rows == {Row(runs, Key(runs[i])) : i \in DOMAIN runs}
           report == Reported(runs)
<1>1. IsList(cells)
  BY CellsCounted
<1>2. report.runs = runs /\ report.rows = rows
  BY DEF Reported
<1>3. \A i \in DOMAIN cells : Key(runs[i]) = CellKey(cells[i])
  BY DEF Key, CellKey, RunOf
<1>4. runs = [i \in DOMAIN cells |-> runs[i]]
  OBVIOUS
<1> HIDE DEF cells
<1>5. Len(runs) = Len(cells) /\ IsList(runs) /\ DOMAIN runs = 1 .. Len(cells) /\ DOMAIN cells = 1 .. Len(cells)
  <2> HIDE DEF runs
  <2> QED
    BY <1>1, <1>4, MadeFromList
<1> HIDE DEF runs
<1>6. ASSUME Different(suite, config), NEW row \in rows
      PROVE  row.repeats = config.repeats
  <2>1. PICK i \in DOMAIN runs : row = Row(runs, Key(runs[i]))
    BY <1>6
  <2> DEFINE key == Key(runs[i])
  <2>2. row.repeats = Cardinality(Group(runs, key))
    BY <2>1 DEF Row
  <2>3. Group(runs, key) = Hits(cells, key) /\ i \in Group(runs, key)
    BY <1>3, <1>5 DEF Group, Hits
  <2> HIDE DEF key
  <2>4. Cardinality(Hits(cells, key)) = config.repeats
    BY <1>6, <2>3, CellsCounted DEF cells
  <2> QED
    BY <2>2, <2>3, <2>4
<1>7. ASSUME NEW metric \in Metrics
      PROVE  FoldSet(LAMBDA row, n : n + row.met[metric], 0, rows)
               = Cardinality({i \in DOMAIN runs : runs[i].verdict[metric]})
  BY <1>5, LinesAddUp
<1> HIDE DEF rows, report
<1>8. \A metric \in Metrics :
        FoldSet(LAMBDA row, n : n + row.met[metric], 0, report.rows) =
          Cardinality({i \in DOMAIN report.runs : report.runs[i].verdict[metric]})
  BY <1>2, <1>7
<1>9. Len(report.runs) = Len(Cells(suite, config))
  BY <1>2, <1>5 DEF cells
<1>10. Different(suite, config) => \A row \in report.rows : row.repeats = config.repeats
  BY <1>2, <1>6
<1>11. AddsUp(suite, config, report)
  BY <1>8, <1>9, <1>10, Zenon DEF AddsUp
<1> QED
  BY <1>11 DEF report, runs, cells

\* Every report adds up, but for the suite without one.
LEMMA ReportsAddUp == ReportAddsUp
<1>1. ASSUME NEW suite \in Suites, NEW config \in Configs, NEW model
      PROVE  IF \E i \in DOMAIN suite.cases : suite.cases[i].checkpoint > Len(Scenario)
               THEN RunSuite(suite, config, model) = NoReport
             ELSE AddsUp(suite, config, RunSuite(suite, config, model))
  <2>1. CASE \E i \in DOMAIN suite.cases : suite.cases[i].checkpoint > Len(Scenario)
    BY <2>1 DEF RunSuite
  <2>2. CASE ~ \E i \in DOMAIN suite.cases : suite.cases[i].checkpoint > Len(Scenario)
    <3>1. RunSuite(suite, config, model)
            = Reported([i \in DOMAIN Cells(suite, config) |->
                          RunOf(Cells(suite, config)[i], model[Cells(suite, config)[i]])])
      BY <2>2 DEF RunSuite
    <3> QED
      BY <2>2, <3>1, ReportedAddsUp
  <2> QED
    BY <2>1, <2>2
<1>2. ASSUME NEW suite \in Suites, NEW config \in Configs,
             NEW report \in {RunSuite(suite, config, model) :
                               model \in [ToSet(Cells(suite, config)) -> SuiteAnswers]}
      PROVE  IF \E i \in DOMAIN suite.cases : suite.cases[i].checkpoint > Len(Scenario)
               THEN report = NoReport
             ELSE AddsUp(suite, config, report)
  <2>1. PICK model \in [ToSet(Cells(suite, config)) -> SuiteAnswers] : report = RunSuite(suite, config, model)
    BY <1>2
  <2> QED
    BY <1>1, <2>1
<1>3. \A suite \in Suites, config \in Configs :
        \A report \in {RunSuite(suite, config, model) :
                         model \in [ToSet(Cells(suite, config)) -> SuiteAnswers]} :
          IF \E i \in DOMAIN suite.cases : suite.cases[i].checkpoint > Len(Scenario)
            THEN report = NoReport
          ELSE AddsUp(suite, config, report)
  BY <1>2, Zenon
<1> QED
  BY <1>3, Zenon DEF ReportAddsUp, AddsUp

\* Whatever the model answers: an expected outcome is there if and only if a call
\* that was expected has succeeded and its draft is left, no run has the outcome
\* without the arguments or the arguments without the tool, and the lines of a
\* report have every run once.
THEOREM ReportsAreTrue == Spec => []ReportTrue
<1>1. ReportTrue
  BY ScoresHold, ReportsAddUp DEF ReportTrue
<1> QED
  BY <1>1, PTL

-----------------------------------------------------------------------------
(* The labelling of a graph by passes over its nodes *)

-----------------------------------------------------------------------------
(* The labelling of a graph *)

IsGraph(g) == IsFiniteSet(DOMAIN g) /\ g \in [DOMAIN g -> SUBSET DOMAIN g]
LabelsFor(g) == [DOMAIN g -> Labels]

\* Complete, for any graph.
CompleteFor(g, L) ==
  \A n \in DOMAIN g :
    /\ L[n] = "in" <=> AllAttackersOut(L, g[n])
    /\ L[n] = "out" <=> AnyAttackerIn(L, g[n])

\* Every label has its reason, and is given by every complete labelling.
Reasoned(g, l) ==
  /\ l \in LabelsFor(g)
  /\ \A n \in DOMAIN g :
       /\ l[n] = "in" => AllAttackersOut(l, g[n])
       /\ l[n] = "out" => AnyAttackerIn(l, g[n])
  /\ \A L \in LabelsFor(g) :
       CompleteFor(g, L) => \A n \in DOMAIN g : l[n] # "undec" => L[n] = l[n]

\* No rule applies to the node.
SettledIn(g, l, n) ==
  l[n] = "undec" => ~AllAttackersOut(l, g[n]) /\ ~AnyAttackerIn(l, g[n])
\* Labels that have been given stay.
Keeps(g, l, m) == \A n \in DOMAIN g : l[n] # "undec" => m[n] = l[n]

\* What one visit does to labels.
LEMMA VisitReasoned ==
  ASSUME NEW g, IsGraph(g), NEW l, Reasoned(g, l), NEW n \in DOMAIN g,
         NEW m, m = VisitNode(l, g[n], n)
  PROVE  /\ Reasoned(g, m) /\ Keeps(g, l, m)
         /\ m = l => SettledIn(g, l, n)
         /\ SettledIn(g, l, n) => m = l
<1>1. l \in LabelsFor(g) /\ g[n] \subseteq DOMAIN g /\ \A k \in DOMAIN g : g[k] \subseteq DOMAIN g
  BY DEF Reasoned, IsGraph
<1>2. CASE m = l
  BY <1>1, <1>2 DEF Keeps, SettledIn, VisitNode, LabelsFor, Labels
<1>3. ASSUME NEW v \in {"in", "out"}, l[n] = "undec", m = [l EXCEPT ![n] = v],
             v = "in" => AllAttackersOut(l, g[n]), v = "out" => AnyAttackerIn(l, g[n])
      PROVE  Reasoned(g, m) /\ Keeps(g, l, m) /\ m # l /\ ~SettledIn(g, l, n)
  <2>1. /\ m[n] = v /\ m \in LabelsFor(g) /\ m # l
        /\ \A k \in DOMAIN g : k # n => m[k] = l[k]
        /\ \A k \in DOMAIN g : l[k] # "undec" => m[k] = l[k]
    BY <1>1, <1>3 DEF LabelsFor, Labels
  <2>2. ASSUME NEW k \in DOMAIN g
        PROVE  /\ AllAttackersOut(l, g[k]) => AllAttackersOut(m, g[k])
               /\ AnyAttackerIn(l, g[k]) => AnyAttackerIn(m, g[k])
    BY <1>1, <2>1 DEF AllAttackersOut, AnyAttackerIn
  <2>3. ASSUME NEW k \in DOMAIN g
        PROVE  /\ m[k] = "in" => AllAttackersOut(m, g[k])
               /\ m[k] = "out" => AnyAttackerIn(m, g[k])
    <3>1. CASE k = n
      BY <1>3, <2>1, <2>2, <3>1
    <3>2. CASE k # n
      BY <2>1, <2>2, <3>2 DEF Reasoned
    <3> QED  BY <3>1, <3>2
  <2>4. ASSUME NEW L \in LabelsFor(g), CompleteFor(g, L), NEW k \in DOMAIN g, m[k] # "undec"
        PROVE  L[k] = m[k]
    <3>1. \A j \in DOMAIN g : l[j] # "undec" => L[j] = l[j]
      BY <2>4 DEF Reasoned
    <3>2. CASE k # n
      BY <2>1, <2>4, <3>1, <3>2
    <3>3. CASE k = n /\ v = "in"
      <4>1. AllAttackersOut(L, g[n])
        BY <1>1, <1>3, <3>1, <3>3 DEF AllAttackersOut
      <4> QED  BY <2>1, <2>4, <3>3, <4>1 DEF CompleteFor
    <3>4. CASE k = n /\ v = "out"
      <4>1. AnyAttackerIn(L, g[n])
        BY <1>1, <1>3, <3>1, <3>4 DEF AnyAttackerIn
      <4> QED  BY <2>1, <2>4, <3>4, <4>1 DEF CompleteFor
    <3> QED  BY <3>2, <3>3, <3>4
  <2> QED  BY <1>3, <2>1, <2>3, <2>4 DEF Reasoned, Keeps, SettledIn
<1>4. \/ m = l
      \/ l[n] = "undec" /\ m = [l EXCEPT ![n] = "in"] /\ AllAttackersOut(l, g[n])
      \/ l[n] = "undec" /\ m = [l EXCEPT ![n] = "out"] /\ AnyAttackerIn(l, g[n])
  BY DEF VisitNode
<1>5. m = l => Reasoned(g, m)
  OBVIOUS
<1> QED  BY <1>2, <1>3, <1>4, <1>5

\* f has the labels after the visits of each set of nodes.
Passes(g, l, f) ==
  f = [s \in SUBSET DOMAIN g |->
         IF s = {} THEN l
         ELSE VisitNode(f[s \ {CHOOSE x \in s : TRUE}], g[CHOOSE x \in s : TRUE],
                        CHOOSE x \in s : TRUE)]

Pass(g, l) == FoldSet(LAMBDA n, x : VisitNode(x, g[n], n), l, DOMAIN g)

\* A fold over the nodes has the labels after the visits of all of them.
LEMMA FoldIs ==
  ASSUME NEW g, NEW l, \E f : Passes(g, l, f)
  PROVE  \E f : Passes(g, l, f) /\ Pass(g, l) = f[DOMAIN g]
<1>1. Pass(g, l) = (CHOOSE f : Passes(g, l, f))[DOMAIN g]
  BY DEF Pass, FoldSet, MapThenFoldSet, Passes
<1> QED  BY <1>1

\* There are such labels, if the graph is finite.
LEMMA PassesExist ==
  ASSUME NEW g, IsGraph(g), NEW l
  PROVE  \E f : Passes(g, l, f)
<1> DEFINE N == DOMAIN g
           Pick(s) == CHOOSE x \in s : TRUE
           Body(s, v) == VisitNode(v, g[Pick(s)], Pick(s))
           Upto(k) == {s \in SUBSET N : Cardinality(s) <= k}
           Good(k, f) == /\ f = [s \in Upto(k) |-> f[s]]
                         /\ \A s \in Upto(k) : f[s] = IF s = {} THEN l ELSE Body(s, f[s \ {Pick(s)}])
           Missing == {k \in Nat : ~ \E f : Good(k, f)}
<1> HIDE DEF Body
<1>1. ASSUME NEW s \in SUBSET N
      PROVE  /\ IsFiniteSet(s) /\ Cardinality(s) \in Nat /\ Cardinality(s) <= Cardinality(N)
             /\ Cardinality(s) = 0 <=> s = {}
             /\ s # {} => /\ Pick(s) \in s /\ s \ {Pick(s)} \in SUBSET N
                          /\ Cardinality(s \ {Pick(s)}) = Cardinality(s) - 1
  <2>1. IsFiniteSet(N)
    BY DEF IsGraph
  <2>2. IsFiniteSet(s) /\ Cardinality(s) <= Cardinality(N)
    BY <2>1, FS_Subset
  <2>3. Cardinality(s) \in Nat
    BY <2>2, FS_CardinalityType
  <2>4. Cardinality(s) = 0 <=> s = {}
    BY <2>2, FS_EmptySet
  <2>5. s # {} => Pick(s) \in s
    OBVIOUS
  <2>6. ASSUME s # {} PROVE Cardinality(s \ {Pick(s)}) = Cardinality(s) - 1
    BY <2>2, <2>5, <2>6, FS_RemoveElement
  <2> QED  BY <2>2, <2>3, <2>4, <2>5, <2>6
<1> HIDE DEF Pick
<1>2. Missing = {}
  <2>1. SUFFICES ASSUME Missing # {} PROVE FALSE
    OBVIOUS
  <2>2. PICK k \in Missing : \A j \in Missing : k <= j
    <3> HIDE DEF Good
    <3> QED  BY <2>1, LeastExists
  <2>3. CASE k = 0
    <3> DEFINE h == [s \in Upto(0) |-> l]
    <3>1. \A s \in Upto(0) : s = {}
      <4> SUFFICES ASSUME NEW s \in Upto(0) PROVE s = {}
        OBVIOUS
      <4>1. s \in SUBSET N /\ Cardinality(s) <= 0
        OBVIOUS
      <4>2. Cardinality(s) \in Nat /\ (Cardinality(s) = 0 <=> s = {})
        BY <1>1, <4>1, Zenon
      <4> QED  BY ONLY <4>1, <4>2
    <3>2. Good(0, h)
      BY <3>1
    <3> QED  BY <2>2, <2>3, <3>2
  <2>4. CASE k # 0
    <3>1. k \in Nat /\ k - 1 \in Nat /\ k - 1 \notin Missing
      <4>1. k \in Nat
        OBVIOUS
      <4> HIDE DEF Missing
      <4> QED  BY <2>2, <2>4, <4>1
    <3>2. PICK f : Good(k - 1, f)
      BY <3>1
    <3> DEFINE h == [s \in Upto(k) |-> IF s = {} THEN l ELSE Body(s, f[s \ {Pick(s)}])]
    <3>3. ASSUME NEW s \in Upto(k - 1)
          PROVE  h[s] = f[s]
      <4>1. s \in Upto(k)
        <5>1. s \in SUBSET N /\ Cardinality(s) <= k - 1
          BY <3>3
        <5>2. Cardinality(s) <= k
          <6>1. Cardinality(s) \in Nat
            BY <1>1, <5>1, Zenon
          <6> QED  BY ONLY <3>1, <5>1, <6>1
        <5> QED  BY <5>1, <5>2
      <4> QED  BY <3>2, <4>1
    <3>4. ASSUME NEW s \in Upto(k)
          PROVE  h[s] = IF s = {} THEN l ELSE Body(s, h[s \ {Pick(s)}])
      <4>1. ASSUME s # {} PROVE s \ {Pick(s)} \in Upto(k - 1)
        <5>1. s \in SUBSET N /\ Cardinality(s) <= k
          BY <3>4
        <5>2. s \ {Pick(s)} \in SUBSET N /\ Cardinality(s \ {Pick(s)}) <= k - 1
          <6> HIDE DEF Upto, Missing
          <6> QED  BY <1>1, <3>1, <4>1, <5>1
        <5> QED  BY <5>2
      <4> HIDE DEF Good
      <4> QED  BY <3>3, <4>1
    <3>5. Good(k, h)
      BY <3>4
    <3> QED  BY <2>2, <3>5
  <2> QED  BY <2>3, <2>4
<1>3. PICK f : Good(Cardinality(N), f)
  <2> HIDE DEF Good
  <2>1. Cardinality(N) \in Nat
    BY <1>1
  <2> QED  BY <1>2, <2>1
<1>4. Upto(Cardinality(N)) = SUBSET N
  BY <1>1
<1>5. Passes(g, l, f)
  <2> HIDE DEF Upto
  <2>1. DOMAIN f = SUBSET N
    BY <1>3, <1>4
  <2> QED  BY <1>3, <1>4, <2>1 DEF Passes, Body, Pick
<1> QED  BY <1>5

\* What a pass does to labels.
LEMMA PassReasoned ==
  ASSUME NEW g, IsGraph(g), NEW l, Reasoned(g, l)
  PROVE  /\ Reasoned(g, Pass(g, l)) /\ Keeps(g, l, Pass(g, l))
         /\ Pass(g, l) = l => \A n \in DOMAIN g : SettledIn(g, l, n)
         /\ (\A n \in DOMAIN g : SettledIn(g, l, n)) => Pass(g, l) = l
<1> DEFINE N == DOMAIN g
           Fine(s, m) == /\ Reasoned(g, m) /\ Keeps(g, l, m)
                         /\ m = l => \A n \in s : SettledIn(g, l, n)
                         /\ (\A n \in s : SettledIn(g, l, n)) => m = l
<1>1. PICK f : Passes(g, l, f) /\ Pass(g, l) = f[N]
  BY PassesExist, FoldIs
<1> DEFINE Bad == {s \in SUBSET N : ~ Fine(s, f[s])}
           Sizes == {Cardinality(s) : s \in Bad}
<1>2. SUFFICES Bad = {}
  BY <1>1
<1>3. ASSUME NEW s \in SUBSET N
      PROVE  IsFiniteSet(s) /\ Cardinality(s) \in Nat
  BY FS_Subset, FS_CardinalityType DEF IsGraph
<1>4. SUFFICES ASSUME Bad # {} PROVE FALSE
  OBVIOUS
<1>5. Sizes \subseteq Nat /\ Sizes # {}
  BY <1>3, <1>4
<1>6. PICK s \in Bad : \A t \in Bad : Cardinality(s) <= Cardinality(t)
  <2> HIDE DEF Bad
  <2>1. PICK k \in Sizes : \A j \in Sizes : k <= j
    <3> HIDE DEF Sizes
    <3> QED  BY <1>5, LeastExists
  <2> QED  BY <2>1
<1>7. Keeps(g, l, l)
  BY DEF Keeps
<1>8. CASE s = {}
  <2>1. f[s] = l
    BY <1>1, <1>8 DEF Passes
  <2> QED  BY <1>6, <1>7, <1>8, <2>1
<1>9. CASE s # {}
  <2> DEFINE x == CHOOSE y \in s : TRUE
             t == s \ {x}
  <2>1. x \in s /\ x \in N /\ t \in SUBSET N /\ s = t \union {x}
    BY <1>6, <1>9
  <2>2. f[s] = VisitNode(f[t], g[x], x)
    BY <1>1, <1>6, <1>9 DEF Passes
  <2> HIDE DEF x
  <2>3. Cardinality(t) = Cardinality(s) - 1
    BY <1>3, <1>6, <2>1, FS_RemoveElement
  <2>4. ~(Cardinality(s) <= Cardinality(t))
    BY <1>3, <1>6, <2>1, <2>3
  <2>5. Fine(t, f[t])
    BY <1>6, <2>1, <2>4
  <2> DEFINE a == f[t]  b == f[s]
  <2> HIDE DEF t, a, b
  <2>6. /\ Reasoned(g, b) /\ Keeps(g, a, b)
        /\ b = a => SettledIn(g, a, x)
        /\ SettledIn(g, a, x) => b = a
    BY <2>1, <2>2, <2>5, VisitReasoned DEF a, b
  <2>7. Keeps(g, l, b)
    BY <2>5, <2>6 DEF Keeps, a, b
  <2>8. /\ l \in LabelsFor(g) /\ a \in LabelsFor(g) /\ b \in LabelsFor(g)
    BY <2>5, <2>6 DEF Reasoned, a
  <2>9. b = l => a = l
    <3> SUFFICES ASSUME b = l PROVE a = l
      OBVIOUS
    <3>1. \A n \in N : a[n] = l[n]
      BY <2>5, <2>6 DEF Keeps, a
    <3> QED  BY <2>8, <3>1 DEF LabelsFor
  <2>10. Fine(s, b)
    <3>1. b = l => \A n \in s : SettledIn(g, l, n)
      BY <2>1, <2>5, <2>6, <2>9 DEF a
    <3>2. (\A n \in s : SettledIn(g, l, n)) => b = l
      BY <2>1, <2>5, <2>6 DEF a
    <3> QED  BY <2>6, <2>7, <3>1, <3>2
  <2> QED  BY <1>6, <2>10 DEF b
<1> QED  BY <1>8, <1>9

\* f has the labels after each pass.
Labellings(g, n, f) ==
  f = [i \in 0 .. n |-> IF i = 0 THEN AllUndecided(DOMAIN g) ELSE Pass(g, f[i - 1])]

\* There are such labels, for any number of passes.
LEMMA LabellingsExist ==
  ASSUME NEW g, NEW n \in Nat
  PROVE  \E f : Labellings(g, n, f)
<1> DEFINE Missing == {k \in Nat : ~ \E f : Labellings(g, k, f)}
<1>1. SUFFICES ASSUME Missing # {} PROVE FALSE
  OBVIOUS
<1>2. PICK m \in Missing : \A k \in Missing : m <= k
  BY <1>1, LeastExists
<1>3. CASE m = 0
  <2>1. Labellings(g, 0, [k \in 0 .. 0 |-> AllUndecided(DOMAIN g)])
    BY DEF Labellings
  <2> QED  BY <1>2, <1>3, <2>1
<1>4. CASE m # 0
  <2>1. m - 1 \in Nat /\ m - 1 \notin Missing
    BY <1>2, <1>4
  <2>2. PICK f : Labellings(g, m - 1, f)
    BY <2>1
  <2> DEFINE h == [k \in 0 .. m |-> IF k = m THEN Pass(g, f[m - 1]) ELSE f[k]]
  <2>3. /\ \A k \in 0 .. m - 1 : f[k] = IF k = 0 THEN AllUndecided(DOMAIN g) ELSE Pass(g, f[k - 1])
        /\ m \in Nat /\ m > 0
    BY <1>4, <2>2 DEF Labellings
  <2>4. ASSUME NEW k \in 0 .. m
        PROVE  h[k] = IF k = 0 THEN AllUndecided(DOMAIN g) ELSE Pass(g, h[k - 1])
    <3>1. CASE k = m
      <4>1. m - 1 \in 0 .. m /\ m - 1 # m /\ h[m - 1] = f[m - 1]
        BY <2>3
      <4> QED  BY <2>3, <3>1, <4>1
    <3>2. CASE k = 0
      BY <2>3, <3>2
    <3>3. CASE k # m /\ k # 0
      <4>1. k - 1 \in 0 .. m /\ k - 1 # m /\ k \in 0 .. m - 1
        BY <2>3, <3>3
      <4> QED  BY <2>3, <3>3, <4>1
    <3> QED  BY <3>1, <3>2, <3>3
  <2>5. DOMAIN h = 0 .. m /\ h = [k \in 0 .. m |-> h[k]]
    OBVIOUS
  <2> HIDE DEF h
  <2>6. Labellings(g, m, h)
    BY <2>4, <2>5 DEF Labellings
  <2> QED  BY <1>2, <2>6
<1> QED  BY <1>3, <1>4

\* The labelling is what the last pass leaves.
LEMMA LabellingIs ==
  ASSUME NEW g, Cardinality(DOMAIN g) \in Nat
  PROVE  \E f : /\ Labellings(g, Cardinality(DOMAIN g), f)
                /\ GroundedLabelling(g) = f[Cardinality(DOMAIN g)]
<1>1. \E f : Labellings(g, Cardinality(DOMAIN g), f)
  BY LabellingsExist
<1>2. GroundedLabelling(g)
        = (CHOOSE f : Labellings(g, Cardinality(DOMAIN g), f))[Cardinality(DOMAIN g)]
  BY DEF GroundedLabelling, Labellings, Pass
<1> QED  BY <1>1, <1>2

Labelled(g, l) == {n \in DOMAIN g : l[n] # "undec"}
AllSettled(g, l) == \A n \in DOMAIN g : SettledIn(g, l, n)

\* One pass for each node is enough: the labelling is complete and grounded.
LEMMA LabellingGrounded ==
  ASSUME NEW g, IsGraph(g)
  PROVE  Reasoned(g, GroundedLabelling(g)) /\ CompleteFor(g, GroundedLabelling(g))
<1> DEFINE N == DOMAIN g
           c == Cardinality(N)
<1>1. IsFiniteSet(N) /\ c \in Nat
  BY FS_CardinalityType DEF IsGraph
<1>2. PICK f : Labellings(g, c, f) /\ GroundedLabelling(g) = f[c]
  BY <1>1, LabellingIs
<1>3. ASSUME NEW l
      PROVE  IsFiniteSet(Labelled(g, l)) /\ Cardinality(Labelled(g, l)) \in Nat
  BY <1>1, FS_Subset, FS_CardinalityType DEF Labelled
<1> DEFINE Fine(i) == Reasoned(g, f[i]) /\ (AllSettled(g, f[i]) \/ i <= Cardinality(Labelled(g, f[i])))
           Bad == {i \in 0 .. c : ~ Fine(i)}
<1> HIDE DEF c
<1>4. Bad = {}
  <2>1. SUFFICES ASSUME Bad # {} PROVE FALSE
    OBVIOUS
  <2>2. PICK i \in Bad : \A j \in Bad : i <= j
    <3>1. Bad \subseteq Nat
      BY <1>1
    <3> HIDE DEF Bad
    <3> QED  BY <2>1, <3>1, LeastExists
  <2>3. i \in Nat /\ i \in 0 .. c /\ ~ Fine(i)
    BY <1>1, <2>2
  <2>4. CASE i = 0
    <3>1. f[i] = AllUndecided(N)
      BY <1>2, <2>3, <2>4 DEF Labellings
    <3>2. Reasoned(g, f[i])
      BY <3>1 DEF Reasoned, AllUndecided, LabelsFor, Labels
    <3>3. i <= Cardinality(Labelled(g, f[i]))
      BY <1>3, <2>4
    <3> QED  BY <2>3, <3>2, <3>3
  <2>5. CASE i # 0
    <3> DEFINE a == f[i - 1]
               b == f[i]
    <3>1. i - 1 \in 0 .. c /\ ~(i <= i - 1)
      BY <1>1, <2>3, <2>5
    <3>2. b = Pass(g, a)
      BY <1>2, <2>3, <2>5 DEF Labellings
    <3>3. Fine(i - 1)
      BY <2>2, <3>1
    <3> HIDE DEF a, b
    <3>4. /\ Reasoned(g, b) /\ Keeps(g, a, b)
          /\ b = a => AllSettled(g, a)
          /\ AllSettled(g, a) => b = a
      BY <3>2, <3>3, PassReasoned DEF AllSettled, a
    <3>5. CASE b = a
      <4>1. AllSettled(g, b)
        BY <3>4, <3>5
      <4> QED  BY <2>3, <3>4, <4>1 DEF b
    <3>6. CASE b # a
      <4>1. i - 1 <= Cardinality(Labelled(g, a))
        BY <3>3, <3>4, <3>6 DEF a
      <4>2. /\ a \in LabelsFor(g) /\ b \in LabelsFor(g)
        BY <3>3, <3>4 DEF a, Reasoned
      <4>3. PICK n \in N : b[n] # a[n]
        BY <3>6, <4>2 DEF LabelsFor
      <4>4. /\ Labelled(g, a) \subseteq Labelled(g, b)
            /\ n \in Labelled(g, b) /\ n \notin Labelled(g, a)
        BY <3>4, <4>2, <4>3 DEF Keeps, Labelled, LabelsFor
      <4>5. Cardinality(Labelled(g, a)) < Cardinality(Labelled(g, b))
        BY <1>3, <4>4, FS_Subset
      <4>6. i <= Cardinality(Labelled(g, b))
        BY <1>3, <2>3, <4>1, <4>5
      <4> QED  BY <2>3, <3>4, <4>6 DEF b
    <3> QED  BY <3>5, <3>6
  <2> QED  BY <2>4, <2>5
<1> DEFINE l == f[c]
<1>5. Fine(c)
  BY <1>1, <1>4
<1> HIDE DEF l
<1>6. AllSettled(g, l)
  <2>1. CASE c <= Cardinality(Labelled(g, l))
    <3>1. Labelled(g, l) \subseteq N /\ Cardinality(Labelled(g, l)) <= c
      BY <1>1, FS_Subset DEF Labelled, c
    <3>2. Cardinality(Labelled(g, l)) = Cardinality(N)
      BY <1>1, <1>3, <2>1, <3>1 DEF c
    <3>3. Labelled(g, l) = N
      BY <1>1, <3>1, <3>2, FS_Subset
    <3> QED  BY <3>3 DEF AllSettled, SettledIn, Labelled
  <2> QED  BY <1>5, <2>1 DEF l
<1>7. CompleteFor(g, l)
  <2> SUFFICES ASSUME NEW n \in N
               PROVE  /\ l[n] = "in" <=> AllAttackersOut(l, g[n])
                      /\ l[n] = "out" <=> AnyAttackerIn(l, g[n])
    BY DEF CompleteFor
  <2>1. l[n] \in Labels /\ g[n] \subseteq N
    BY <1>5 DEF Reasoned, LabelsFor, IsGraph, l
  <2>2. ~(AllAttackersOut(l, g[n]) /\ AnyAttackerIn(l, g[n]))
    BY DEF AllAttackersOut, AnyAttackerIn
  <2>3. SettledIn(g, l, n)
    BY <1>6 DEF AllSettled
  <2>4. /\ l[n] = "in" => AllAttackersOut(l, g[n])
        /\ l[n] = "out" => AnyAttackerIn(l, g[n])
    BY <1>5 DEF Reasoned, l
  <2> QED  BY <2>1, <2>2, <2>3, <2>4 DEF SettledIn, Labels
<1> QED  BY <1>2, <1>5, <1>7 DEF l

\* There is only one such labelling.
LEMMA GroundedUnique ==
  ASSUME NEW g, NEW l, NEW m, Reasoned(g, l), CompleteFor(g, l), Reasoned(g, m), CompleteFor(g, m)
  PROVE  l = m
<1>1. l \in LabelsFor(g) /\ m \in LabelsFor(g)
  BY DEF Reasoned
<1>2. ASSUME NEW n \in DOMAIN g PROVE l[n] = m[n]
  BY <1>1 DEF Reasoned
<1> QED  BY <1>1, <1>2 DEF LabelsFor

\* The answer of every query, whatever the order that the nodes are visited in,
\* is the labelling that the statuses of an overview are read off
\* (grounded_labelling).
THEOREM OrderDoesNotMatter == Spec => [](phase = "done" => labels = GroundedLabelling(attackedBy))
<1>1. ASSUME SolverInv, phase = "done" PROVE labels = GroundedLabelling(attackedBy)
  <2>1. IsGraph(attackedBy)
    <3>1. IsFiniteSet(Nodes)
      <4>1. /\ Cardinality(Nodes) \in Nat
            /\ order \in Surjection(1 .. Cardinality(Nodes), Nodes)
        BY <1>1 DEF SolverInv, SolverType, Orders, Surjection
      <4>2. IsFiniteSet(1 .. Cardinality(Nodes))
        BY <4>1, FS_Interval
      <4> QED  BY <4>1, <4>2, FS_Surjection
    <3> QED  BY <1>1, <3>1 DEF SolverInv, SolverType, Nodes, IsGraph
  <2>2. Reasoned(attackedBy, labels) /\ CompleteFor(attackedBy, labels)
    BY <1>1, SettledIsComplete
    DEF SolverInv, SolverType, Justified, Forced, Complete, CompleteFor, Reasoned, LabelsFor, Nodes
  <2> QED  BY <2>1, <2>2, LabellingGrounded, GroundedUnique
<1> QED  BY <1>1, SolverInit, SolverStep, PTL DEF Spec

-----------------------------------------------------------------------------
(* A preview and its submission: entries *)

-----------------------------------------------------------------------------
(* A preview against its submission *)

\* Not an id that a submission makes.
Clean(id) == \A n \in Nat : id # <<"final", n>>

\* Final gives a new id to the claims of drafts, and no two ids become one.
LEMMA FinalIs ==
  ASSUME BufferInv
  PROVE  /\ Final(NoId) = NoId
         /\ \A n \in LiveIds : n \in Nat /\ Final(PreviewId(n)) = FinalId[n] /\ FinalId[n] = <<"final", n>>
         /\ \A id : (\A n \in LiveIds : id # PreviewId(n)) => Final(id) = id
         /\ \A a, b : Clean(a) /\ Clean(b) /\ Final(a) = Final(b) => a = b
<1>1. ASSUME NEW n \in LiveIds PROVE n \in Nat /\ n \in DraftIds
  <2>1. PICK i \in DOMAIN drafts : n = drafts[i].id
    BY DEF LiveIds
  <2>2. n \in Nat
    BY <2>1, IdsAreNat
  <2>3. n < next_draft_id /\ next_draft_id \in Nat
    BY <2>1 DEF BufferInv, IdsOK
  <2> QED  BY <2>2, <2>3 DEF DraftIds
<1>2. \A n : PreviewId(n)[2] = n /\ PreviewId(n) # NoId
  BY DEF PreviewId, NoId
<1>3. ASSUME NEW n \in LiveIds
      PROVE  n \in Nat /\ Final(PreviewId(n)) = FinalId[n] /\ FinalId[n] = <<"final", n>>
  BY <1>1, <1>2 DEF Final, FinalId
<1>4. ASSUME NEW id, \A n \in LiveIds : id # PreviewId(n)
      PROVE  Final(id) = id
  BY <1>4 DEF Final
<1>5. ASSUME NEW a, NEW b, Clean(a), Clean(b), Final(a) = Final(b)
      PROVE  a = b
  <2>1. \A id : Final(id) = id \/ \E n \in LiveIds : id = PreviewId(n) /\ Final(id) = <<"final", n>> /\ n \in Nat
    BY <1>3, <1>4
  <2>2. \A m, n : <<"final", m>> = <<"final", n>> => m = n
    OBVIOUS
  <2> QED  BY <1>5, <2>1, <2>2 DEF Clean
<1> QED  BY <1>2, <1>3, <1>4, <1>5

\* An entry of a preview and the one that a submission makes of it.
Twin(e, x) ==
  /\ e.type \in EntryTypes /\ x.type = e.type
  /\ e.type = "claim" =>
       /\ Clean(e.id) /\ x.id = Final(e.id)
       /\ x.author = e.author /\ x.kind = e.kind /\ x.parent = Final(e.parent)
  /\ e.type = "relation" =>
       /\ Clean(e.source) /\ x.source = Final(e.source)
       /\ Clean(e.target) /\ x.target = Final(e.target) /\ x.kind = e.kind
  /\ e.type = "stance" =>
       /\ Clean(e.target) /\ x.target = Final(e.target)
       /\ x.author = e.author /\ x.position = e.position
  /\ e.type = "resolve" =>
       /\ Clean(e.claim) /\ x.claim = Final(e.claim)
       /\ x.author = e.author /\ x.outcome = e.outcome

\* The fields of each type.
LEMMA FieldsAre ==
  /\ FieldsOf["claim"] = {"kind", "parent"} /\ FieldsOf["relation"] = {"source", "target", "kind"}
  /\ FieldsOf["stance"] = {"target", "position"} /\ FieldsOf["resolve"] = {"claim", "outcome"}
BY DEF FieldsOf

\* An entry of the log stays as it is.
LEMMA LoggedTwin ==
  ASSUME BufferInv, ~Leak, NEW i \in DOMAIN log, log[i] \in OtherEntries
  PROVE  Twin(log[i], log[i])
<1> DEFINE e == log[i]
<1>1. ASSUME NEW f \in RefFields, f \in DOMAIN e
      PROVE  Clean(e[f]) /\ Final(e[f]) = e[f]
  <2>1. CASE e[f] = NoRef
    <3>1. Final(e[f]) = e[f]
      BY <2>1, FinalIs DEF NoRef, NoId
    <3>2. \A n \in Nat : NoRef # <<"final", n>>
      BY DEF NoRef
    <3> QED  BY <2>1, <3>1, <3>2 DEF Clean
  <2>2. CASE e[f] # NoRef
    <3>1. e[f] \in Refs(e)
      BY <1>1, <2>2 DEF Refs
    <3>2. \A n \in LiveIds : e[f] # PreviewId(n)
      BY <3>1 DEF Leak
    <3>3. e[f][1] # "final"
      BY <3>1, EntriesAssumption
    <3>4. \A n \in Nat : <<"final", n>>[1] = "final"
      OBVIOUS
    <3> QED  BY <3>2, <3>3, <3>4, FinalIs DEF Clean
  <2> QED  BY <2>1, <2>2
<1>2. e.type = "claim" => Clean(e.id) /\ Final(e.id) = e.id
  <2> SUFFICES ASSUME e.type = "claim" PROVE Clean(e.id) /\ Final(e.id) = e.id
    OBVIOUS
  <2>1. e.id[1] \notin {"draft", "final"}
    BY EntriesAssumption
  <2>2. \A n : PreviewId(n)[1] = "draft" /\ <<"final", n>>[1] = "final"
    BY DEF PreviewId
  <2> QED  BY <2>1, <2>2, FinalIs DEF Clean
<1>3. e.type \in EntryTypes /\ FieldsOf[e.type] \subseteq DOMAIN e
  BY EntriesAssumption
<1>4. {"parent", "source", "target", "claim"} = RefFields
  BY DEF RefFields
<1>5. e.type = "claim" => Final(e.parent) = e.parent
  BY <1>1, <1>3, <1>4, FieldsAre
<1>6. e.type = "relation" => /\ Clean(e.source) /\ Final(e.source) = e.source
                             /\ Clean(e.target) /\ Final(e.target) = e.target
  BY <1>1, <1>3, <1>4, FieldsAre
<1>7. e.type = "stance" => Clean(e.target) /\ Final(e.target) = e.target
  BY <1>1, <1>3, <1>4, FieldsAre
<1>8. e.type = "resolve" => Clean(e.claim) /\ Final(e.claim) = e.claim
  BY <1>1, <1>3, <1>4, FieldsAre
<1> QED  BY <1>2, <1>3, <1>5, <1>6, <1>7, <1>8 DEF Twin

\* What a draft is materialized to.
LEMMA MaterializeIs ==
  ASSUME NEW d, NEW refIds, NEW ownIds, NEW author,
         FieldsOf[d.entry.type] \union {"type"} \subseteq DOMAIN d.entry, d.entry.type \in EntryTypes
  PROVE  LET e == Materialize(d, refIds, ownIds, author)
         IN  /\ e.type = d.entry.type /\ e.author = author
             /\ e.type = "claim" => /\ e.id = ownIds[d.id] /\ e.kind = d.entry.kind
                                    /\ e.parent = Resolved(d.entry.parent, refIds)
             /\ e.type = "relation" => /\ e.source = Resolved(d.entry.source, refIds)
                                       /\ e.target = Resolved(d.entry.target, refIds)
                                       /\ e.kind = d.entry.kind
             /\ e.type = "stance" => /\ e.target = Resolved(d.entry.target, refIds)
                                     /\ e.position = d.entry.position
             /\ e.type = "resolve" => /\ e.claim = Resolved(d.entry.claim, refIds)
                                      /\ e.outcome = d.entry.outcome
<1> DEFINE content == d.entry
           named == [f \in DOMAIN content |->
                       IF f \in RefFields THEN Resolved(content[f], refIds) ELSE content[f]]
           entry == Put(named, "author", author)
           e == Materialize(d, refIds, ownIds, author)
<1>1. e = IF content.type = "claim" THEN Put(entry, "id", ownIds[d.id]) ELSE entry
  BY DEF Materialize, IsClaimDraft
<1>2. \A f \in DOMAIN content : f \notin {"author", "id"} => e[f] = named[f]
  BY <1>1 DEF Put
<1>3. e["author"] = author
  BY <1>1 DEF Put
<1>4. content.type = "claim" => e["id"] = ownIds[d.id]
  BY <1>1 DEF Put
<1>5. \A f \in DOMAIN content :
        /\ f \in RefFields => named[f] = Resolved(content[f], refIds)
        /\ f \notin RefFields => named[f] = content[f]
  OBVIOUS
<1> HIDE DEF e, named, content
<1>6. "type" \in DOMAIN content /\ FieldsOf[content.type] \subseteq DOMAIN content
  BY DEF content
<1>7. e.type = content.type
  BY <1>2, <1>5, <1>6 DEF RefFields
<1>8. content.type = "claim" => e.kind = content.kind /\ e.parent = Resolved(content.parent, refIds)
  BY <1>2, <1>5, <1>6, FieldsAre DEF RefFields
<1>9. content.type = "relation" => /\ e.source = Resolved(content.source, refIds)
                                   /\ e.target = Resolved(content.target, refIds)
                                   /\ e.kind = content.kind
  BY <1>2, <1>5, <1>6, FieldsAre DEF RefFields
<1>10. content.type = "stance" => /\ e.target = Resolved(content.target, refIds)
                                  /\ e.position = content.position
  BY <1>2, <1>5, <1>6, FieldsAre DEF RefFields
<1>11. content.type = "resolve" => /\ e.claim = Resolved(content.claim, refIds)
                                   /\ e.outcome = content.outcome
  BY <1>2, <1>5, <1>6, FieldsAre DEF RefFields
<1> QED  BY <1>3, <1>4, <1>7, <1>8, <1>9, <1>10, <1>11 DEF e, content

\* The entries that a draft becomes, in a preview and when it is submitted.
LEMMA DraftedTwin ==
  ASSUME BufferInv, ~Leak, NEW i \in DOMAIN drafts
  PROVE  Twin(Materialize(drafts[i], PreviewIds, PreviewIds, Me),
              Materialize(drafts[i], FinalId, FinalId, Me))
<1> DEFINE d == drafts[i]
           content == d.entry
<1>1. content \in DraftContents /\ d.id \in Nat
  <2>1. \A x \in DraftType : x.entry \in DraftContents
    BY DEF DraftType
  <2> QED  BY <2>1, IdsAreNat
<1>2. \A n \in Nat : PreviewIds[n] = PreviewId(n) /\ Clean(PreviewId(n))
  <2>1. \A m, n : PreviewId(m) # <<"final", n>>
    BY DEF PreviewId
  <2> QED  BY <2>1 DEF PreviewIds, Clean
<1>3. ASSUME NEW f \in RefFields, f \in DOMAIN content
      PROVE  /\ Clean(Resolved(content[f], PreviewIds))
             /\ Resolved(content[f], FinalId) = Final(Resolved(content[f], PreviewIds))
  <2>1. CASE content[f] = NoRef
    <3>1. \A n \in Nat : NoId # <<"final", n>>
      BY DEF NoId
    <3> QED  BY <2>1, <3>1, FinalIs DEF Resolved, Clean
  <2>2. ASSUME NEW x, content[f] = Committed(x), x[1] # "final", Committed(x) \in Refs(content)
        PROVE  /\ Clean(Resolved(content[f], PreviewIds))
               /\ Resolved(content[f], FinalId) = Final(Resolved(content[f], PreviewIds))
    <3>1. Resolved(content[f], PreviewIds) = x /\ Resolved(content[f], FinalId) = x
      BY <2>2, RefParts DEF Resolved
    <3>2. \A n \in LiveIds : x # PreviewId(n)
      BY <2>2 DEF Leak
    <3>3. \A n \in Nat : <<"final", n>>[1] = "final"
      OBVIOUS
    <3> QED  BY <2>2, <3>1, <3>2, <3>3, FinalIs DEF Clean
  <2>3. ASSUME NEW n \in Nat, content[f] = Draft(n), Draft(n) \in Refs(content)
        PROVE  /\ Clean(Resolved(content[f], PreviewIds))
               /\ Resolved(content[f], FinalId) = Final(Resolved(content[f], PreviewIds))
    <3>1. n \in LiveIds
      <4>1. PICK j \in DOMAIN drafts : drafts[j].id = n /\ IsClaimDraft(drafts[j])
        BY <2>3 DEF BufferInv, RefsStrong
      <4> QED  BY <4>1 DEF LiveIds
    <3>2. Draft(n)[1] # "committed" /\ Draft(n) # NoRef /\ Draft(n)[2] = n
      BY RefParts
    <3>3. Resolved(content[f], PreviewIds) = PreviewId(n) /\ Resolved(content[f], FinalId) = FinalId[n]
      BY <1>2, <2>3, <3>2 DEF Resolved
    <3> QED  BY <1>2, <3>1, <3>3, FinalIs
  <2>4. content[f] # NoRef => content[f] \in Refs(content)
    BY <1>3 DEF Refs
  <2> DEFINE ref == content[f]
  <2>5. ref = NoRef \/ (ref = Committed(ref[2]) /\ ref[2][1] # "final") \/ (ref = Draft(ref[2]) /\ ref[2] \in Nat)
    BY <1>1, <2>4, ContentsAssumption
  <2> HIDE DEF content
  <2> QED  BY <2>1, <2>2, <2>3, <2>4, <2>5
<1>4. /\ content.type \in EntryTypes
      /\ FieldsOf[content.type] \union {"type"} \subseteq DOMAIN content
  BY <1>1, ContentsAssumption
<1>5. content.type = "claim" => Clean(PreviewIds[d.id]) /\ FinalId[d.id] = Final(PreviewIds[d.id])
  <2> SUFFICES ASSUME content.type = "claim"
               PROVE  Clean(PreviewIds[d.id]) /\ FinalId[d.id] = Final(PreviewIds[d.id])
    OBVIOUS
  <2>1. d.id \in LiveIds
    BY DEF LiveIds, IsClaimDraft
  <2> QED  BY <1>1, <1>2, <2>1, FinalIs
<1> DEFINE e == Materialize(d, PreviewIds, PreviewIds, Me)
           x == Materialize(d, FinalId, FinalId, Me)
           M(y, ids) ==
             /\ y.type = content.type /\ y.author = Me
             /\ y.type = "claim" => /\ y.id = ids[d.id] /\ y.kind = content.kind
                                    /\ y.parent = Resolved(content.parent, ids)
             /\ y.type = "relation" => /\ y.source = Resolved(content.source, ids)
                                       /\ y.target = Resolved(content.target, ids)
                                       /\ y.kind = content.kind
             /\ y.type = "stance" => /\ y.target = Resolved(content.target, ids)
                                     /\ y.position = content.position
             /\ y.type = "resolve" => /\ y.claim = Resolved(content.claim, ids)
                                      /\ y.outcome = content.outcome
<1> SUFFICES Twin(e, x)
  OBVIOUS
<1> HIDE DEF d
<1>6. M(e, PreviewIds) /\ M(x, FinalId)
  BY <1>4, MaterializeIs
<1> HIDE DEF e, x, content
<1>7. {"parent", "source", "target", "claim"} = RefFields
  BY DEF RefFields
<1>8. CASE content.type = "claim"
  BY <1>3, <1>4, <1>5, <1>6, <1>7, <1>8, FieldsAre DEF Twin
<1>9. CASE content.type = "relation"
  BY <1>3, <1>4, <1>6, <1>7, <1>9, FieldsAre DEF Twin
<1>10. CASE content.type = "stance"
  BY <1>3, <1>4, <1>6, <1>7, <1>10, FieldsAre DEF Twin
<1>11. CASE content.type = "resolve"
  BY <1>3, <1>4, <1>6, <1>7, <1>11, FieldsAre DEF Twin
<1>12. CASE content.type = "comment"
  BY <1>6, <1>12 DEF Twin, EntryTypes
<1> QED  BY <1>4, <1>8, <1>9, <1>10, <1>11, <1>12 DEF EntryTypes

\* The entries of a preview and of its submission.
LEMMA EntriesTwin ==
  ASSUME BufferInv, LogOK, ~Leak
  PROVE  LET merged == MergedEntries(log, drafts, Me)
             submitted == log \o MaterializeForSubmission(drafts, FinalId, Me)
         IN  /\ Len(merged) \in Nat /\ Len(submitted) = Len(merged) /\ Len(log) <= Len(merged)
             /\ \A i \in 1 .. Len(merged) : Twin(merged[i], submitted[i])
             /\ \A i \in 1 .. Len(log) : merged[i] = log[i]
<1> DEFINE p == MaterializeForPreview(drafts, Me)
           q == MaterializeForSubmission(drafts, FinalId, Me)
<1>1. /\ Len(drafts) \in Nat /\ DOMAIN drafts = 1 .. Len(drafts)
      /\ Len(log) \in Nat /\ DOMAIN log = 1 .. Len(log)
  BY DEF BufferInv, IdsOK, LogOK
<1>2. /\ p = [i \in 1 .. Len(drafts) |-> Materialize(drafts[i], PreviewIds, PreviewIds, Me)]
      /\ q = [i \in 1 .. Len(drafts) |-> Materialize(drafts[i], FinalId, FinalId, Me)]
  BY <1>1 DEF MaterializeForPreview, MaterializeForSubmission
<1> HIDE DEF p, q
<1>3. /\ IsList(p) /\ Len(p) = Len(drafts) /\ DOMAIN p = 1 .. Len(drafts)
      /\ IsList(q) /\ Len(q) = Len(drafts) /\ DOMAIN q = 1 .. Len(drafts)
  BY <1>1, <1>2, FunctionIsList
<1>4. IsList(log)
  BY SequenceIsList DEF LogOK
<1>5. /\ Len(log \o p) = Len(log) + Len(drafts) /\ Len(log \o q) = Len(log) + Len(drafts)
      /\ \A i \in 1 .. Len(log) + Len(drafts) :
           /\ (log \o p)[i] = IF i <= Len(log) THEN log[i] ELSE p[i - Len(log)]
           /\ (log \o q)[i] = IF i <= Len(log) THEN log[i] ELSE q[i - Len(log)]
  BY <1>3, <1>4, ListsJoined
<1>6. ASSUME NEW i \in 1 .. Len(log) + Len(drafts)
      PROVE  Twin((log \o p)[i], (log \o q)[i])
  <2>1. CASE i <= Len(log)
    <3>1. i \in DOMAIN log /\ log[i] \in OtherEntries
      BY <1>1, <2>1 DEF LogOK
    <3> QED  BY <1>5, <2>1, <3>1, LoggedTwin
  <2>2. CASE ~(i <= Len(log))
    <3> DEFINE j == i - Len(log)
    <3>1. j \in DOMAIN drafts /\ j \in 1 .. Len(drafts)
      BY <1>1, <2>2
    <3>2. (log \o p)[i] = p[j] /\ (log \o q)[i] = q[j]
      BY <1>5, <2>2
    <3> HIDE DEF j
    <3> QED  BY <1>2, <3>1, <3>2, DraftedTwin
  <2> QED  BY <2>1, <2>2
<1>7. \A i \in 1 .. Len(log) : i \in 1 .. Len(log) + Len(drafts) /\ i <= Len(log)
  BY <1>1
<1> QED  BY <1>1, <1>5, <1>6, <1>7 DEF MergedEntries, p, q

-----------------------------------------------------------------------------
(* A preview and its submission: states *)

\* The claims, the relations and the stances of a preview and of its submission.
TwinClaims(A, B) ==
  /\ IsFiniteSet(DOMAIN A) /\ \A c \in DOMAIN A : Clean(c)
  /\ DOMAIN B = {Final(c) : c \in DOMAIN A}
  /\ \A c \in DOMAIN A :
       /\ B[Final(c)].author = A[c].author /\ B[Final(c)].kind = A[c].kind
       /\ B[Final(c)].parent = Final(A[c].parent) /\ B[Final(c)].resolution = A[c].resolution
TwinRelation(r, q) ==
  /\ r = [source |-> r.source, target |-> r.target, kind |-> r.kind]
  /\ q = [source |-> Final(r.source), target |-> Final(r.target), kind |-> r.kind]
  /\ Clean(r.source) /\ Clean(r.target)
TwinRelations(A, B) ==
  /\ IsList(A) /\ IsList(B) /\ Len(B) = Len(A)
  /\ \A i \in 1 .. Len(A) : TwinRelation(A[i], B[i])
TwinStances(A, B) ==
  /\ IsFiniteSet(DOMAIN A) /\ \A k \in DOMAIN A : k = <<k[1], k[2]>> /\ Clean(k[1])
  /\ DOMAIN B = {<<Final(k[1]), k[2]>> : k \in DOMAIN A}
  /\ \A k \in DOMAIN A : B[<<Final(k[1]), k[2]>>] = A[k]
TwinStates(s, t) ==
  /\ Shaped(s) /\ Shaped(t)
  /\ TwinClaims(s.claims, t.claims) /\ TwinRelations(s.relations, t.relations)
  /\ TwinStances(s.stances, t.stances)

\* No claims, relations and stances, in both.
LEMMA TwinsBegin == TwinStates(EmptyState, EmptyState)
<1>1. DOMAIN EmptyMap = {} /\ IsFiniteSet(DOMAIN EmptyMap)
  BY FS_EmptySet DEF EmptyMap
<1>2. TwinClaims(EmptyMap, EmptyMap)
  BY <1>1 DEF TwinClaims
<1>3. TwinStances(EmptyMap, EmptyMap)
  BY <1>1 DEF TwinStances
<1>4. TwinRelations(<< >>, << >>)
  BY EmptyList DEF TwinRelations
<1>5. EmptyState = [claims |-> EmptyMap, relations |-> << >>, stances |-> EmptyMap]
  BY DEF EmptyState
<1> HIDE DEF EmptyState
<1>6. Shaped(EmptyState)
  BY <1>1, <1>5 DEF Shaped
<1> QED  BY <1>2, <1>3, <1>4, <1>5, <1>6 DEF TwinStates

\* An id is among those of the one if what becomes of it is among the other's.
LEMMA TwinMember ==
  ASSUME BufferInv, NEW A, NEW B, TwinClaims(A, B), NEW id, Clean(id)
  PROVE  id \in DOMAIN A <=> Final(id) \in DOMAIN B
BY FinalIs DEF TwinClaims

\* A claim with a new id.
LEMMA TwinClaimPut ==
  ASSUME BufferInv, NEW A, NEW B, TwinClaims(A, B), NEW id, Clean(id), id \notin DOMAIN A,
         NEW v, NEW w, w.author = v.author, w.kind = v.kind, w.parent = Final(v.parent),
         w.resolution = v.resolution
  PROVE  TwinClaims(Put(A, id, v), Put(B, Final(id), w))
<1> DEFINE C == Put(A, id, v)
           D == Put(B, Final(id), w)
<1>1. /\ DOMAIN C = DOMAIN A \union {id} /\ DOMAIN D = DOMAIN B \union {Final(id)}
      /\ C[id] = v /\ \A c \in DOMAIN A : C[c] = A[c]
      /\ D[Final(id)] = w /\ \A c \in DOMAIN B : c # Final(id) => D[c] = B[c]
  BY DEF Put
<1> HIDE DEF C, D
<1>2. IsFiniteSet(DOMAIN C)
  BY <1>1, FS_AddElement DEF TwinClaims
<1>3. DOMAIN D = {Final(c) : c \in DOMAIN C}
  BY <1>1 DEF TwinClaims
<1>4. \A c \in DOMAIN A : Final(c) # Final(id) /\ Final(c) \in DOMAIN B
  BY FinalIs DEF TwinClaims
<1>5. ASSUME NEW c \in DOMAIN C
      PROVE  /\ D[Final(c)].author = C[c].author /\ D[Final(c)].kind = C[c].kind
             /\ D[Final(c)].parent = Final(C[c].parent) /\ D[Final(c)].resolution = C[c].resolution
  <2>1. CASE c = id
    BY <1>1, <2>1
  <2>2. CASE c # id
    BY <1>1, <1>4, <2>2 DEF TwinClaims
  <2> QED  BY <2>1, <2>2
<1>6. \A c \in DOMAIN C : Clean(c)
  BY <1>1 DEF TwinClaims
<1> QED  BY <1>2, <1>3, <1>5, <1>6 DEF TwinClaims, C, D

\* A stance.
LEMMA TwinStancePut ==
  ASSUME BufferInv, NEW A, NEW B, TwinStances(A, B), NEW id, Clean(id), NEW author, NEW v
  PROVE  TwinStances(Put(A, <<id, author>>, v), Put(B, <<Final(id), author>>, v))
<1> DEFINE C == Put(A, <<id, author>>, v)
           D == Put(B, <<Final(id), author>>, v)
           key == <<id, author>>
           lock == <<Final(id), author>>
<1>1. /\ DOMAIN C = DOMAIN A \union {key} /\ DOMAIN D = DOMAIN B \union {lock}
      /\ C[key] = v /\ \A k \in DOMAIN A : k # key => C[k] = A[k]
      /\ D[lock] = v /\ \A k \in DOMAIN B : k # lock => D[k] = B[k]
  BY DEF Put
<1>2. key = <<key[1], key[2]>> /\ key[1] = id /\ key[2] = author
      /\ lock = <<Final(key[1]), key[2]>>
  OBVIOUS
<1> HIDE DEF C, D
<1>3. IsFiniteSet(DOMAIN C)
  <2> HIDE DEF key
  <2> QED  BY <1>1, FS_AddElement DEF TwinStances
<1>4. \A k \in DOMAIN C : k = <<k[1], k[2]>> /\ Clean(k[1])
  BY <1>1, <1>2 DEF TwinStances
<1>5. DOMAIN D = {<<Final(k[1]), k[2]>> : k \in DOMAIN C}
  BY <1>1, <1>2 DEF TwinStances
<1>6. ASSUME NEW k \in DOMAIN C
      PROVE  D[<<Final(k[1]), k[2]>>] = C[k]
  <2>1. CASE k = key
    BY <1>1, <1>2, <2>1
  <2>2. CASE k # key
    <3>1. k \in DOMAIN A /\ C[k] = A[k] /\ k = <<k[1], k[2]>> /\ Clean(k[1])
      BY <1>1, <1>4, <2>2
    <3>2. <<Final(k[1]), k[2]>> # lock
      <4> SUFFICES ASSUME <<Final(k[1]), k[2]>> = lock PROVE FALSE
        OBVIOUS
      <4>1. Final(k[1]) = Final(id) /\ k[2] = author
        OBVIOUS
      <4>2. k[1] = id
        BY <3>1, <4>1, FinalIs
      <4> QED  BY <2>2, <3>1, <4>1, <4>2
    <3>3. <<Final(k[1]), k[2]>> \in DOMAIN B /\ B[<<Final(k[1]), k[2]>>] = A[k]
      BY <3>1 DEF TwinStances
    <3> QED  BY <1>1, <3>1, <3>2, <3>3
  <2> QED  BY <2>1, <2>2
<1> QED  BY <1>3, <1>4, <1>5, <1>6 DEF TwinStances, C, D

\* A relation at the end.
LEMMA TwinRelationAppended ==
  ASSUME NEW A, NEW B, TwinRelations(A, B), NEW r, NEW q, TwinRelation(r, q)
  PROVE  TwinRelations(Append(A, r), Append(B, q))
<1>1. IsList(A) /\ IsList(B) /\ Len(B) = Len(A) /\ Len(A) \in Nat
  BY ListFacts DEF TwinRelations
<1>2. /\ IsList(Append(A, r)) /\ Len(Append(A, r)) = Len(A) + 1 /\ Append(A, r)[Len(A) + 1] = r
      /\ \A i \in 1 .. Len(A) : Append(A, r)[i] = A[i]
  BY <1>1, ListAppended
<1>3. /\ IsList(Append(B, q)) /\ Len(Append(B, q)) = Len(A) + 1 /\ Append(B, q)[Len(A) + 1] = q
      /\ \A i \in 1 .. Len(A) : Append(B, q)[i] = B[i]
  BY <1>1, ListAppended
<1>4. ASSUME NEW i \in 1 .. Len(A) + 1
      PROVE  TwinRelation(Append(A, r)[i], Append(B, q)[i])
  <2>1. CASE i = Len(A) + 1
    BY <1>2, <1>3, <2>1
  <2>2. CASE i # Len(A) + 1
    <3>1. i \in 1 .. Len(A)
      BY <1>1, <2>2
    <3> QED  BY <1>2, <1>3, <3>1 DEF TwinRelations
  <2> QED  BY <2>1, <2>2
<1> QED  BY <1>2, <1>3, <1>4 DEF TwinRelations

\* A new claim is put under its id; the reducer keeps the shape.
LEMMA TwinsReduced ==
  ASSUME BufferInv, NEW s, NEW t, TwinStates(s, t), NEW e, NEW x, Twin(e, x)
  PROVE  TwinStates(Reduce(s, e), Reduce(t, x))
<1>1. /\ Shaped(s) /\ Shaped(t) /\ TwinClaims(s.claims, t.claims)
      /\ TwinRelations(s.relations, t.relations) /\ TwinStances(s.stances, t.stances)
      /\ e.type \in EntryTypes /\ x.type = e.type
  BY DEF TwinStates, Twin
<1>2. CASE e.type = "claim" /\ e.id \in DOMAIN s.claims
  <2>1. x.id \in DOMAIN t.claims
    BY <1>1, <1>2, TwinMember DEF Twin
  <2> QED  BY <1>1, <1>2, <2>1, ReduceCases DEF ReduceClaim
<1>3. CASE e.type = "claim" /\ e.id \notin DOMAIN s.claims
  <2> DEFINE v == [author |-> e.author, kind |-> e.kind, parent |-> e.parent,
                   resolution |-> NoResolution]
             w == [author |-> x.author, kind |-> x.kind, parent |-> x.parent,
                   resolution |-> NoResolution]
             A == Put(s.claims, e.id, v)
             B == Put(t.claims, x.id, w)
  <2>1. Clean(e.id) /\ x.id = Final(e.id) /\ x.id \notin DOMAIN t.claims
    BY <1>1, <1>3, TwinMember DEF Twin
  <2>2. /\ Reduce(s, e) = [claims |-> A, relations |-> s.relations, stances |-> s.stances]
        /\ Reduce(t, x) = [claims |-> B, relations |-> t.relations, stances |-> t.stances]
    BY <1>1, <1>3, <2>1, ClaimReduced
  <2>3. TwinClaims(A, B)
    <3>1. w.author = v.author /\ w.kind = v.kind /\ w.parent = Final(v.parent) /\ w.resolution = v.resolution
      BY <1>3 DEF Twin
    <3> HIDE DEF v, w
    <3> QED  BY <1>1, <1>3, <2>1, <3>1, TwinClaimPut
  <2>4. Shaped(Reduce(s, e)) /\ Shaped(Reduce(t, x))
    <3>1. /\ \A c \in DOMAIN A : A[c] = v \/ (c \in DOMAIN s.claims /\ A[c] = s.claims[c])
          /\ \A c \in DOMAIN B : B[c] = w \/ (c \in DOMAIN t.claims /\ B[c] = t.claims[c])
      BY DEF Put
    <3>2. /\ v = [author |-> v.author, kind |-> v.kind, parent |-> v.parent, resolution |-> v.resolution]
          /\ w = [author |-> w.author, kind |-> w.kind, parent |-> w.parent, resolution |-> w.resolution]
      OBVIOUS
    <3> HIDE DEF v, w, A, B
    <3> QED  BY <1>1, <2>2, <3>1, <3>2 DEF Shaped
  <2> HIDE DEF A, B
  <2> QED  BY <1>1, <2>2, <2>3, <2>4 DEF TwinStates
<1>4. CASE e.type = "relation"
  <2>1. /\ Reduce(s, e) = [claims |-> s.claims, relations |-> Append(s.relations, RelationOf(e)),
                           stances |-> s.stances]
        /\ Reduce(t, x) = [claims |-> t.claims, relations |-> Append(t.relations, RelationOf(x)),
                           stances |-> t.stances]
    BY <1>1, <1>4, RelationReduced
  <2>2. TwinRelation(RelationOf(e), RelationOf(x))
    BY <1>4 DEF Twin, TwinRelation, RelationOf
  <2>3. TwinRelations(Append(s.relations, RelationOf(e)), Append(t.relations, RelationOf(x)))
    BY <1>1, <2>2, TwinRelationAppended
  <2>4. Shaped(Reduce(s, e)) /\ Shaped(Reduce(t, x))
    BY <1>1, <2>1 DEF Shaped
  <2> QED  BY <1>1, <2>1, <2>3, <2>4 DEF TwinStates
<1>5. CASE e.type = "stance"
  <2> DEFINE A == Put(s.stances, <<e.target, e.author>>, e.position)
             B == Put(t.stances, <<x.target, x.author>>, x.position)
  <2>1. /\ Reduce(s, e) = [claims |-> s.claims, relations |-> s.relations, stances |-> A]
        /\ Reduce(t, x) = [claims |-> t.claims, relations |-> t.relations, stances |-> B]
    BY <1>1, <1>5, StanceReduced
  <2>2. TwinStances(A, B)
    BY <1>1, <1>5, TwinStancePut DEF Twin
  <2> HIDE DEF A, B
  <2>3. Shaped(Reduce(s, e)) /\ Shaped(Reduce(t, x))
    BY <1>1, <2>1 DEF Shaped
  <2> QED  BY <1>1, <2>1, <2>2, <2>3 DEF TwinStates
<1>6. CASE e.type = "resolve" /\ e.claim \in DOMAIN s.claims
  <2>1. /\ Clean(e.claim) /\ x.claim = Final(e.claim) /\ x.claim \in DOMAIN t.claims
        /\ x.author = e.author /\ x.outcome = e.outcome
    BY <1>1, <1>6, TwinMember DEF Twin
  <2> DEFINE R(a, b, y) ==
        /\ b.relations = a.relations /\ b.stances = a.stances
        /\ b = [claims |-> b.claims, relations |-> a.relations, stances |-> a.stances]
        /\ DOMAIN b.claims = DOMAIN a.claims
        /\ \A c \in DOMAIN a.claims :
             b.claims[c] = [author |-> a.claims[c].author, kind |-> a.claims[c].kind,
                            parent |-> a.claims[c].parent, resolution |-> b.claims[c].resolution]
        /\ \A c \in DOMAIN a.claims :
             b.claims[c].resolution = IF c = y.claim THEN <<y.outcome, y.author>>
                                      ELSE a.claims[c].resolution
      u == Reduce(s, e)
      z == Reduce(t, x)
  <2>2. R(s, u, e)
    BY <1>1, <1>6, ResolveReduced
  <2>3. R(t, z, x)
    BY <1>1, <1>6, <2>1, ResolveReduced
  <2> HIDE DEF u, z
  <2>4. Shaped(u) /\ Shaped(z)
    <3>1. ASSUME NEW a, NEW b, NEW y, R(a, b, y) PROVE Shaped(b)
      <4>1. ASSUME NEW c \in DOMAIN b.claims
            PROVE  b.claims[c] = [author |-> b.claims[c].author, kind |-> b.claims[c].kind,
                                  parent |-> b.claims[c].parent, resolution |-> b.claims[c].resolution]
        <5>1. PICK author, kind, parent, resolution :
                b.claims[c] = [author |-> author, kind |-> kind, parent |-> parent, resolution |-> resolution]
          BY <3>1
        <5> QED  BY <5>1
      <4> QED  BY <3>1, <4>1 DEF Shaped
    <3> HIDE DEF R
    <3> QED  BY <2>2, <2>3, <3>1
  <2>5. ASSUME NEW a, NEW b, NEW y, R(a, b, y), NEW c \in DOMAIN a.claims
        PROVE  /\ b.claims[c].author = a.claims[c].author /\ b.claims[c].kind = a.claims[c].kind
               /\ b.claims[c].parent = a.claims[c].parent
    <3>1. b.claims[c] = [author |-> a.claims[c].author, kind |-> a.claims[c].kind,
                         parent |-> a.claims[c].parent, resolution |-> b.claims[c].resolution]
      BY <2>5
    <3> DEFINE author == a.claims[c].author
               kind == a.claims[c].kind
               parent == a.claims[c].parent
               resolution == b.claims[c].resolution
               y1 == b.claims[c]
    <3> HIDE DEF R, author, kind, parent, resolution, y1
    <3>2. y1 = [author |-> author, kind |-> kind, parent |-> parent, resolution |-> resolution]
      BY <3>1 DEF author, kind, parent, resolution, y1
    <3>3. y1.author = author /\ y1.kind = kind /\ y1.parent = parent
      BY <3>2
    <3> QED  BY <3>3 DEF author, kind, parent, y1
  <2>6. TwinClaims(u.claims, z.claims)
    <3>1. DOMAIN u.claims = DOMAIN s.claims /\ DOMAIN z.claims = DOMAIN t.claims
      BY <2>2, <2>3
    <3>2. ASSUME NEW c \in DOMAIN s.claims
          PROVE  /\ z.claims[Final(c)].author = u.claims[c].author
                 /\ z.claims[Final(c)].kind = u.claims[c].kind
                 /\ z.claims[Final(c)].parent = Final(u.claims[c].parent)
                 /\ z.claims[Final(c)].resolution = u.claims[c].resolution
      <4>1. Final(c) \in DOMAIN t.claims /\ Clean(c)
        BY <1>1 DEF TwinClaims
      <4>2. Final(c) = x.claim <=> c = e.claim
        BY <2>1, <4>1, FinalIs
      <4>3. z.claims[Final(c)].resolution = u.claims[c].resolution
        BY <1>1, <2>1, <2>2, <2>3, <4>1, <4>2 DEF TwinClaims
      <4>4. /\ u.claims[c].author = s.claims[c].author /\ u.claims[c].kind = s.claims[c].kind
            /\ u.claims[c].parent = s.claims[c].parent
        <5> HIDE DEF R
        <5> QED  BY <2>2, <2>5
      <4>5. /\ z.claims[Final(c)].author = t.claims[Final(c)].author
            /\ z.claims[Final(c)].kind = t.claims[Final(c)].kind
            /\ z.claims[Final(c)].parent = t.claims[Final(c)].parent
        <5> HIDE DEF R
        <5> QED  BY <2>3, <2>5, <4>1
      <4> QED  BY <1>1, <4>3, <4>4, <4>5 DEF TwinClaims
    <3> QED  BY <1>1, <3>1, <3>2 DEF TwinClaims
  <2> QED  BY <1>1, <2>2, <2>3, <2>4, <2>6 DEF TwinStates, u, z
<1>7. CASE e.type = "resolve" /\ e.claim \notin DOMAIN s.claims
  <2>1. x.claim \notin DOMAIN t.claims
    BY <1>1, <1>7, TwinMember DEF Twin
  <2> QED  BY <1>1, <1>7, <2>1, ReduceCases DEF ReduceResolve
<1>8. CASE e.type = "comment"
  BY <1>1, <1>8, ReduceCases
<1> QED  BY <1>1, <1>2, <1>3, <1>4, <1>5, <1>6, <1>7, <1>8 DEF EntryTypes

\* The states that twin entries lead to.
LEMMA TwinsReplayed ==
  ASSUME BufferInv, NEW one, NEW other, Len(one) \in Nat, Len(other) = Len(one),
         \A i \in 1 .. Len(one) : Twin(one[i], other[i])
  PROVE  TwinStates(Replay(one), Replay(other))
<1> DEFINE n == Len(one)
<1>1. PICK f : Replays(one, n, f) /\ Replay(one) = f[n]
  BY ReplayIs
<1>2. PICK g : Replays(other, n, g) /\ Replay(other) = g[n]
  BY ReplayIs
<1> HIDE DEF n
<1>3. n \in Nat /\ \A i \in 1 .. n : Twin(one[i], other[i])
  BY DEF n
<1> DEFINE Bad == {k \in 0 .. n : ~ TwinStates(f[k], g[k])}
<1>4. SUFFICES ASSUME Bad # {} PROVE FALSE
  BY <1>1, <1>2, <1>3
<1>5. PICK k \in Bad : \A j \in Bad : k <= j
  <2>1. Bad \subseteq Nat
    BY <1>3
  <2> HIDE DEF Bad
  <2> QED  BY <1>4, <2>1, LeastExists
<1>6. /\ f[k] = IF k = 0 THEN EmptyState ELSE Reduce(f[k - 1], one[k])
      /\ g[k] = IF k = 0 THEN EmptyState ELSE Reduce(g[k - 1], other[k])
      /\ k \in Nat
  BY <1>1, <1>2, <1>3, <1>5 DEF Replays
<1>7. k # 0
  BY <1>5, <1>6, TwinsBegin
<1>8. k - 1 \in 0 .. n /\ ~(k <= k - 1) /\ k \in 1 .. n
  BY <1>3, <1>5, <1>6, <1>7
<1>9. TwinStates(f[k - 1], g[k - 1])
  BY <1>5, <1>8
<1>10. TwinStates(Reduce(f[k - 1], one[k]), Reduce(g[k - 1], other[k]))
  BY <1>3, <1>8, <1>9, TwinsReduced
<1> QED  BY <1>5, <1>6, <1>7, <1>10

-----------------------------------------------------------------------------
(* A preview and its submission: labels, statuses and summaries *)

\* The labelling of a graph does not depend on the names of its nodes.
LEMMA LabellingRenamed ==
  ASSUME NEW g, IsGraph(g), NEW h, h = [x \in DOMAIN h |-> h[x]], NEW R,
         \A a, b \in DOMAIN g : R[a] = R[b] => a = b,
         DOMAIN h = {R[c] : c \in DOMAIN g},
         \A c \in DOMAIN g : h[R[c]] = {R[a] : a \in g[c]}
  PROVE  \A c \in DOMAIN g : GroundedLabelling(h)[R[c]] = GroundedLabelling(g)[c]
<1> DEFINE N == DOMAIN g
           M == DOMAIN h
           k == GroundedLabelling(h)
           m == [c \in N |-> k[R[c]]]
<1>1. IsGraph(h)
  <2>1. IsFiniteSet(M)
    <3> DEFINE f == [c \in N |-> R[c]]
    <3>1. f \in Surjection(N, M) /\ IsFiniteSet(N)
      BY DEF Surjection, IsGraph
    <3> HIDE DEF f
    <3> QED  BY <3>1, FS_Surjection
  <2>2. \A x \in M : h[x] \subseteq M
    BY DEF IsGraph
  <2> QED  BY <2>1, <2>2 DEF IsGraph
<1>2. Reasoned(h, k) /\ CompleteFor(h, k)
  BY <1>1, LabellingGrounded
<1> HIDE DEF k
<1>3. /\ \A n \in N : m[n] = k[R[n]] /\ R[n] \in M /\ g[n] \subseteq N
      /\ k \in LabelsFor(h)
  BY <1>2 DEF Reasoned, IsGraph
<1>4. m \in LabelsFor(g)
  BY <1>3 DEF LabelsFor
<1>5. ASSUME NEW n \in N, NEW L, NEW K, \A c \in N : L[c] = K[R[c]]
      PROVE  /\ AllAttackersOut(L, g[n]) <=> AllAttackersOut(K, h[R[n]])
             /\ AnyAttackerIn(L, g[n]) <=> AnyAttackerIn(K, h[R[n]])
  BY <1>3, <1>5 DEF AllAttackersOut, AnyAttackerIn
<1>6. ASSUME NEW L \in LabelsFor(g), CompleteFor(g, L), NEW n \in N, m[n] # "undec"
      PROVE  L[n] = m[n]
  <2> DEFINE K == [x \in M |-> L[CHOOSE c \in N : R[c] = x]]
  <2>1. ASSUME NEW c \in N PROVE K[R[c]] = L[c]
    <3>1. (CHOOSE d \in N : R[d] = R[c]) = c
      OBVIOUS
    <3> QED  BY <1>3, <3>1
  <2>2. K \in LabelsFor(h)
    <3>1. \A x \in M : K[x] \in Labels
      BY <1>6, <2>1 DEF LabelsFor
    <3> QED  BY <3>1 DEF LabelsFor
  <2> HIDE DEF K
  <2>3. CompleteFor(h, K)
    <3> SUFFICES ASSUME NEW x \in M
                 PROVE  /\ K[x] = "in" <=> AllAttackersOut(K, h[x])
                        /\ K[x] = "out" <=> AnyAttackerIn(K, h[x])
      BY DEF CompleteFor
    <3>1. PICK c \in N : x = R[c]
      OBVIOUS
    <3>2. /\ AllAttackersOut(L, g[c]) <=> AllAttackersOut(K, h[x])
          /\ AnyAttackerIn(L, g[c]) <=> AnyAttackerIn(K, h[x])
      BY <1>5, <2>1, <3>1
    <3> QED  BY <1>6, <2>1, <3>1, <3>2 DEF CompleteFor
  <2>4. k[R[n]] # "undec" /\ R[n] \in M
    BY <1>3, <1>6
  <2>5. K[R[n]] = k[R[n]]
    BY <1>2, <2>2, <2>3, <2>4 DEF Reasoned
  <2> QED  BY <1>3, <2>1, <2>5
<1> HIDE DEF m
<1>7. ASSUME NEW n \in N
      PROVE  /\ m[n] = "in" <=> AllAttackersOut(m, g[n])
             /\ m[n] = "out" <=> AnyAttackerIn(m, g[n])
  <2>1. /\ AllAttackersOut(m, g[n]) <=> AllAttackersOut(k, h[R[n]])
        /\ AnyAttackerIn(m, g[n]) <=> AnyAttackerIn(k, h[R[n]])
    BY <1>3, <1>5
  <2> QED  BY <1>2, <1>3, <2>1 DEF CompleteFor
<1>8. CompleteFor(g, m) /\ Reasoned(g, m)
  BY <1>4, <1>6, <1>7 DEF CompleteFor, Reasoned
<1>9. GroundedLabelling(g) = m
  BY <1>8, LabellingGrounded, GroundedUnique
<1> QED  BY <1>3, <1>9 DEF k

\* The active claims.
LEMMA TwinActive ==
  ASSUME BufferInv, NEW s, NEW t, TwinStates(s, t)
  PROVE  /\ Active(t) = {Final(c) : c \in Active(s)}
         /\ \A id : Clean(id) => (id \in Active(s) <=> Final(id) \in Active(t))
         /\ IsFiniteSet(Active(s)) /\ Active(s) \subseteq DOMAIN s.claims
         /\ \A c \in DOMAIN s.claims : Clean(c)
<1>1. TwinClaims(s.claims, t.claims)
  BY DEF TwinStates
<1>2. Active(s) \subseteq DOMAIN s.claims /\ IsFiniteSet(Active(s))
  BY <1>1, FS_Subset DEF Active, TwinClaims
<1>3. Active(t) = {Final(c) : c \in Active(s)}
  BY <1>1 DEF Active, TwinClaims
<1>4. \A c \in DOMAIN s.claims : Clean(c)
  BY <1>1 DEF TwinClaims
<1> QED  BY <1>2, <1>3, <1>4, FinalIs

\* The attacks.
LEMMA TwinAttacks ==
  ASSUME BufferInv, NEW s, NEW t, TwinStates(s, t), NEW c \in Active(s)
  PROVE  AttackedBy(t)[Final(c)] = {Final(a) : a \in AttackedBy(s)[c]}
<1> DEFINE P(a, i) == s.relations[i] = [source |-> a, target |-> c, kind |-> "attacks"]
           Q(b, i) == t.relations[i] = [source |-> b, target |-> Final(c), kind |-> "attacks"]
<1>1. /\ Active(t) = {Final(a) : a \in Active(s)} /\ Final(c) \in Active(t)
      /\ \A a \in Active(s) : Clean(a)
  BY TwinActive
<1>2. /\ DOMAIN s.relations = DOMAIN t.relations
      /\ \A i \in DOMAIN s.relations : TwinRelation(s.relations[i], t.relations[i])
  BY ListFacts DEF TwinStates, TwinRelations
<1>3. ASSUME NEW a \in Active(s), NEW i \in DOMAIN s.relations
      PROVE  P(a, i) <=> Q(Final(a), i)
  <2> DEFINE r == s.relations[i]
             q == t.relations[i]
  <2>1. TwinRelation(r, q) /\ Clean(a) /\ Clean(c)
    BY <1>1, <1>2
  <2> HIDE DEF r, q
  <2>2. (r = [source |-> a, target |-> c, kind |-> "attacks"])
          <=> (r.source = a /\ r.target = c /\ r.kind = "attacks")
    BY <2>1 DEF TwinRelation
  <2>3. (q = [source |-> Final(a), target |-> Final(c), kind |-> "attacks"])
          <=> (Final(r.source) = Final(a) /\ Final(r.target) = Final(c) /\ r.kind = "attacks")
    BY <2>1 DEF TwinRelation
  <2>4. /\ (Final(r.source) = Final(a) <=> r.source = a)
        /\ (Final(r.target) = Final(c) <=> r.target = c)
    BY <2>1, FinalIs DEF TwinRelation
  <2> QED  BY <2>2, <2>3, <2>4 DEF r, q
<1>4. /\ AttackedBy(s)[c] = {a \in Active(s) : \E i \in DOMAIN s.relations : P(a, i)}
      /\ AttackedBy(t)[Final(c)] = {b \in Active(t) : \E i \in DOMAIN t.relations : Q(b, i)}
  BY <1>1 DEF AttackedBy
<1> HIDE DEF P, Q
<1> QED  BY <1>1, <1>2, <1>3, <1>4

\* The graph of a state.
LEMMA StateGraph ==
  ASSUME NEW s, IsFiniteSet(Active(s))
  PROVE  IsGraph(AttackedBy(s)) /\ DOMAIN AttackedBy(s) = Active(s)
         /\ AttackedBy(s) = [x \in Active(s) |-> AttackedBy(s)[x]]
BY DEF AttackedBy, IsGraph

\* The labels.
LEMMA TwinLabels ==
  ASSUME BufferInv, NEW s, NEW t, TwinStates(s, t), NEW c \in Active(s)
  PROVE  GroundedLabelling(AttackedBy(t))[Final(c)] = GroundedLabelling(AttackedBy(s))[c]
<1> DEFINE g == AttackedBy(s)
           h == AttackedBy(t)
           R == [a \in Active(s) |-> Final(a)]
<1>1. /\ Active(t) = {Final(a) : a \in Active(s)} /\ IsFiniteSet(Active(s))
      /\ \A a \in Active(s) : Clean(a)
  BY TwinActive
<1>2. IsGraph(g) /\ DOMAIN g = Active(s) /\ \A a \in DOMAIN g : g[a] \subseteq Active(s)
  BY <1>1, StateGraph DEF IsGraph
<1>3. DOMAIN h = Active(t) /\ h = [x \in DOMAIN h |-> h[x]]
  BY DEF AttackedBy
<1>4. \A a \in Active(s) : h[Final(a)] = {Final(b) : b \in g[a]}
  BY TwinAttacks
<1> HIDE DEF g, h
<1>5. \A a, b \in DOMAIN g : R[a] = R[b] => a = b
  BY <1>1, <1>2, FinalIs
<1>6. DOMAIN h = {R[a] : a \in DOMAIN g}
  BY <1>1, <1>2, <1>3
<1>8. R[c] = Final(c) /\ c \in DOMAIN g /\ \A a \in DOMAIN g : R[a] = Final(a)
  BY <1>2
<1> HIDE DEF R
<1>7. ASSUME NEW a \in DOMAIN g PROVE h[R[a]] = {R[b] : b \in g[a]}
  <2>1. g[a] \subseteq DOMAIN g /\ h[R[a]] = {Final(b) : b \in g[a]}
    BY <1>2, <1>4, <1>8
  <2>2. {Final(b) : b \in g[a]} = {R[b] : b \in g[a]}
    BY <1>8, <2>1
  <2> QED  BY <2>1, <2>2
<1>9. GroundedLabelling(h)[R[c]] = GroundedLabelling(g)[c]
  BY <1>2, <1>3, <1>5, <1>6, <1>7, <1>8, LabellingRenamed
<1> QED  BY <1>8, <1>9 DEF g, h

\* The stances on a claim.
LEMMA TwinStancesOn ==
  ASSUME BufferInv, NEW s, NEW t, TwinStates(s, t), NEW c, Clean(c)
  PROVE  StancesOn(t, Final(c)) = StancesOn(s, c)
<1> DEFINE A == s.stances
           B == t.stances
           F(k) == <<Final(k[1]), k[2]>>
<1>1. /\ \A k \in DOMAIN A : Clean(k[1]) /\ F(k) \in DOMAIN B /\ B[F(k)] = A[k]
      /\ \A l \in DOMAIN B : \E k \in DOMAIN A : l = F(k)
  BY DEF TwinStates, TwinStances
<1>2. \A k : F(k)[1] = Final(k[1]) /\ F(k)[2] = k[2]
  OBVIOUS
<1>3. \A k \in DOMAIN A : Final(k[1]) = Final(c) <=> k[1] = c
  BY <1>1, FinalIs
<1> HIDE DEF F
<1>4. ASSUME NEW x \in StancesOn(s, c) PROVE x \in StancesOn(t, Final(c))
  <2>1. PICK k \in DOMAIN A : k[1] = c /\ x = [author |-> k[2], position |-> A[k]]
    BY DEF StancesOn
  <2>2. F(k) \in DOMAIN B /\ F(k)[1] = Final(c) /\ x = [author |-> F(k)[2], position |-> B[F(k)]]
    BY <1>1, <1>2, <2>1
  <2> QED  BY <2>2 DEF StancesOn
<1>5. ASSUME NEW x \in StancesOn(t, Final(c)) PROVE x \in StancesOn(s, c)
  <2>1. PICK l \in DOMAIN B : l[1] = Final(c) /\ x = [author |-> l[2], position |-> B[l]]
    BY DEF StancesOn
  <2>2. PICK k \in DOMAIN A : l = F(k)
    BY <1>1
  <2>3. k[1] = c /\ x = [author |-> k[2], position |-> A[k]]
    BY <1>1, <1>2, <1>3, <2>1, <2>2
  <2> QED  BY <2>3 DEF StancesOn
<1> QED  BY <1>4, <1>5

\* The statuses.
LEMMA TwinStatuses ==
  ASSUME BufferInv, NEW s, NEW t, TwinStates(s, t)
  PROVE  /\ DOMAIN Statuses(s) = Active(s) /\ DOMAIN Statuses(t) = Active(t)
         /\ \A c \in Active(s) : Final(c) \in Active(t) /\ Statuses(t)[Final(c)] = Statuses(s)[c]
         /\ \A id : Clean(id) => StatusOf(Statuses(t), Final(id)) = StatusOf(Statuses(s), id)
<1>1. /\ DOMAIN Statuses(s) = Active(s) /\ DOMAIN Statuses(t) = Active(t)
  BY DEF Statuses, StatusesFrom
<1>2. ASSUME NEW c \in Active(s)
      PROVE  Final(c) \in Active(t) /\ Statuses(t)[Final(c)] = Statuses(s)[c]
  <2>1. Clean(c) /\ Final(c) \in Active(t)
    BY TwinActive
  <2>2. GroundedLabelling(AttackedBy(t))[Final(c)] = GroundedLabelling(AttackedBy(s))[c]
    BY TwinLabels
  <2>3. StancesOn(t, Final(c)) = StancesOn(s, c)
    BY <2>1, TwinStancesOn
  <2>4. /\ Statuses(t)[Final(c)] = EpistemicStatus(GroundedLabelling(AttackedBy(t))[Final(c)],
                                     {x.position : x \in StancesOn(t, Final(c))})
        /\ Statuses(s)[c] = EpistemicStatus(GroundedLabelling(AttackedBy(s))[c],
                              {x.position : x \in StancesOn(s, c)})
    BY <2>1 DEF Statuses, StatusesFrom
  <2> QED  BY <2>1, <2>2, <2>3, <2>4
<1>3. \A id : Clean(id) => (id \in Active(s) <=> Final(id) \in Active(t))
  BY TwinActive
<1> QED  BY <1>1, <1>2, <1>3 DEF StatusOf

\* The summary of a claim.
LEMMA TwinSummary ==
  ASSUME BufferInv, NEW s, NEW t, TwinStates(s, t), NEW c \in DOMAIN s.claims
  PROVE  ClaimSummary(t, Statuses(t), Final(c)) = FinalSummary(ClaimSummary(s, Statuses(s), c))
<1>1. /\ t.claims[Final(c)].author = s.claims[c].author /\ t.claims[Final(c)].kind = s.claims[c].kind
      /\ t.claims[Final(c)].parent = Final(s.claims[c].parent)
      /\ t.claims[Final(c)].resolution = s.claims[c].resolution
      /\ Clean(c)
  BY DEF TwinStates, TwinClaims
<1>2. /\ StancesOn(t, Final(c)) = StancesOn(s, c)
      /\ StatusOf(Statuses(t), Final(c)) = StatusOf(Statuses(s), c)
  BY <1>1, TwinStancesOn, TwinStatuses
<1> DEFINE v == [id |-> c, author |-> s.claims[c].author, kind |-> s.claims[c].kind,
                 parent |-> s.claims[c].parent, resolution |-> s.claims[c].resolution,
                 status |-> StatusOf(Statuses(s), c), stances |-> StancesOn(s, c)]
<1>3. ClaimSummary(s, Statuses(s), c) = v
  BY DEF ClaimSummary
<1>4. FinalSummary(v) = [id |-> Final(c), author |-> s.claims[c].author, kind |-> s.claims[c].kind,
                         parent |-> Final(s.claims[c].parent), resolution |-> s.claims[c].resolution,
                         status |-> StatusOf(Statuses(s), c), stances |-> StancesOn(s, c)]
  <2> DEFINE author == s.claims[c].author
             kind == s.claims[c].kind
             parent == s.claims[c].parent
             resolution == s.claims[c].resolution
             status == StatusOf(Statuses(s), c)
             stances == StancesOn(s, c)
  <2> SUFFICES FinalSummary(v) = [id |-> Final(c), author |-> author, kind |-> kind,
                                  parent |-> Final(parent), resolution |-> resolution,
                                  status |-> status, stances |-> stances]
    OBVIOUS
  <2> HIDE DEF author, kind, parent, resolution, status, stances
  <2>1. v = [id |-> c, author |-> author, kind |-> kind, parent |-> parent,
             resolution |-> resolution, status |-> status, stances |-> stances]
    BY DEF author, kind, parent, resolution, status, stances
  <2> HIDE DEF v
  <2>2. FinalSummary(v) = [[v EXCEPT !.id = Final(v.id)] EXCEPT !.parent = Final(v.parent)]
    BY <2>1 DEF FinalSummary
  <2>3. v.id = c /\ v.parent = parent
    BY <2>1
  <2>4. FinalSummary(v) = [[v EXCEPT !.id = Final(c)] EXCEPT !.parent = Final(parent)]
    BY <2>2, <2>3
  <2> QED  BY <2>1, <2>4
<1>5. ClaimSummary(t, Statuses(t), Final(c))
        = [id |-> Final(c), author |-> s.claims[c].author, kind |-> s.claims[c].kind,
           parent |-> Final(s.claims[c].parent), resolution |-> s.claims[c].resolution,
           status |-> StatusOf(Statuses(s), c), stances |-> StancesOn(s, c)]
  BY <1>1, <1>2 DEF ClaimSummary
<1> QED  BY <1>3, <1>4, <1>5

\* The summaries of some claims.
ListedOf(s, C) == {ClaimSummary(s, Statuses(s), c) : c \in C}
FinalAll(summaries) == {FinalSummary(x) : x \in summaries}

\* A list of summaries becomes the list of what the claims become.
LEMMA TwinListed ==
  ASSUME BufferInv, NEW s, NEW t, TwinStates(s, t), NEW C, C \subseteq DOMAIN s.claims,
         NEW D, D = {Final(c) : c \in C}
  PROVE  ListedOf(t, D) = FinalAll(ListedOf(s, C))
<1>1. \A c \in C : ClaimSummary(t, Statuses(t), Final(c)) = FinalSummary(ClaimSummary(s, Statuses(s), c))
  BY TwinSummary
<1> QED  BY <1>1 DEF ListedOf, FinalAll

\* As many claims and as many stances.
LEMMA TwinCounts ==
  ASSUME BufferInv, NEW s, NEW t, TwinStates(s, t)
  PROVE  /\ Cardinality(DOMAIN t.claims) = Cardinality(DOMAIN s.claims)
         /\ Cardinality(DOMAIN t.stances) = Cardinality(DOMAIN s.stances)
<1>1. Cardinality(DOMAIN t.claims) = Cardinality(DOMAIN s.claims)
  <2> DEFINE A == DOMAIN s.claims
             B == DOMAIN t.claims
             f == [c \in A |-> Final(c)]
  <2>1. IsFiniteSet(A) /\ B = {Final(c) : c \in A} /\ \A c \in A : Clean(c)
    BY DEF TwinStates, TwinClaims
  <2>2. \A c, d \in A : Final(c) = Final(d) => c = d
    BY <2>1, FinalIs
  <2> HIDE DEF A, B
  <2>3. f \in [A -> B] /\ \A b \in B : \E a \in A : f[a] = b
    BY <2>1
  <2>4. f \in Surjection(A, B) /\ f \in Injection(A, B)
    BY <2>2, <2>3 DEF Surjection, Injection, IsInjective
  <2> HIDE DEF f
  <2>5. Cardinality(B) = Cardinality(A)
    BY <2>1, <2>4, FS_Surjection
  <2> QED  BY <2>5 DEF A, B
<1>2. Cardinality(DOMAIN t.stances) = Cardinality(DOMAIN s.stances)
  <2> DEFINE A == DOMAIN s.stances
             B == DOMAIN t.stances
             f == [k \in A |-> <<Final(k[1]), k[2]>>]
  <2>1. /\ IsFiniteSet(A) /\ B = {<<Final(k[1]), k[2]>> : k \in A}
        /\ \A k \in A : Clean(k[1]) /\ k = <<k[1], k[2]>>
    BY DEF TwinStates, TwinStances
  <2>2. ASSUME NEW k \in A, NEW l \in A, <<Final(k[1]), k[2]>> = <<Final(l[1]), l[2]>> PROVE k = l
    <3>1. Final(k[1]) = Final(l[1]) /\ k[2] = l[2]
      BY <2>2
    <3>2. k[1] = l[1]
      BY <2>1, <3>1, FinalIs
    <3> QED  BY <2>1, <3>1, <3>2
  <2> HIDE DEF A, B
  <2>3. f \in [A -> B] /\ \A b \in B : \E a \in A : f[a] = b
    BY <2>1
  <2>4. f \in Surjection(A, B) /\ f \in Injection(A, B)
    BY <2>2, <2>3 DEF Surjection, Injection, IsInjective
  <2> HIDE DEF f
  <2>5. Cardinality(B) = Cardinality(A)
    BY <2>1, <2>4, FS_Surjection
  <2> QED  BY <2>5 DEF A, B
<1> QED  BY <1>1, <1>2

-----------------------------------------------------------------------------
(* A preview and its submission: overviews and details *)

\* What needs attention.
FinalClaims(signals) == {[x EXCEPT !.claim = Final(@)] : x \in signals}

\* The signals become those of the submission.
LEMMA TwinAttention ==
  ASSUME BufferInv, NEW s, NEW t, TwinStates(s, t)
  PROVE  AttentionSignals(t, Statuses(t)) = FinalClaims(AttentionSignals(s, Statuses(s)))
<1> DEFINE A == Statuses(s)
           B == Statuses(t)
           Urgent == {"unexamined", "contested", "unresolved"}
           By(u, c) == {x.author : x \in {y \in StancesOn(u, c) : y.position \in Negative}}
           Of(u, all, c) == [signal |-> all[c], claim |-> c,
                             blockers |-> IF all[c] = "contested" THEN By(u, c) ELSE {}]
<1>1. /\ DOMAIN A = Active(s) /\ DOMAIN B = Active(t)
      /\ \A c \in Active(s) : B[Final(c)] = A[c] /\ Clean(c) /\ StancesOn(t, Final(c)) = StancesOn(s, c)
      /\ Active(t) = {Final(c) : c \in Active(s)}
  <2>1. \A c \in Active(s) : Clean(c)
    BY TwinActive
  <2>2. \A c \in Active(s) : StancesOn(t, Final(c)) = StancesOn(s, c)
    BY <2>1, TwinStancesOn
  <2> QED  BY <2>1, <2>2, TwinStatuses, TwinActive
<1>2. /\ AttentionSignals(s, A) = {Of(s, A, c) : c \in {d \in Active(s) : A[d] \in Urgent}}
      /\ AttentionSignals(t, B) = {Of(t, B, c) : c \in {d \in Active(t) : B[d] \in Urgent}}
  BY <1>1 DEF AttentionSignals
<1>3. ASSUME NEW c \in Active(s)
      PROVE  Of(t, B, Final(c)) = [Of(s, A, c) EXCEPT !.claim = Final(@)]
  <2> DEFINE signal == A[c]
             blockers == IF A[c] = "contested" THEN By(s, c) ELSE {}
  <2>1. Of(t, B, Final(c)) = [signal |-> signal, claim |-> Final(c), blockers |-> blockers]
    BY <1>1
  <2>2. Of(s, A, c) = [signal |-> signal, claim |-> c, blockers |-> blockers]
    OBVIOUS
  <2> HIDE DEF signal, blockers
  <2>3. [[signal |-> signal, claim |-> c, blockers |-> blockers] EXCEPT !.claim = Final(@)]
          = [signal |-> signal, claim |-> Final(c), blockers |-> blockers]
    OBVIOUS
  <2> QED  BY <2>1, <2>2, <2>3
<1>4. {d \in Active(t) : B[d] \in Urgent} = {Final(c) : c \in {d \in Active(s) : A[d] \in Urgent}}
  BY <1>1
<1> HIDE DEF Of, A, B
<1> DEFINE X == {d \in Active(s) : A[d] \in Urgent}
<1>5. X \subseteq Active(s)
  OBVIOUS
<1> HIDE DEF X
<1>6. {Of(t, B, d) : d \in {Final(c) : c \in X}} = {[x EXCEPT !.claim = Final(@)] : x \in {Of(s, A, c) : c \in X}}
  BY <1>3, <1>5
<1> QED  BY <1>2, <1>4, <1>6 DEF X, A, B, FinalClaims

\* An overview by its parts.
OfKind(s, k) == {c \in Active(s) : s.claims[c].kind = k}
ParticipantsOf(s) ==
  {s.claims[c].author : c \in DOMAIN s.claims} \union {k[2] : k \in DOMAIN s.stances}

\* An overview is made of these.
LEMMA OverviewIs ==
  ASSUME NEW entries, NEW s, s = Replay(entries)
  PROVE  Overview(entries) =
           [total_claims |-> Cardinality(DOMAIN s.claims), total_relations |-> Len(s.relations),
            total_stances |-> Cardinality(DOMAIN s.stances), participants |-> ParticipantsOf(s),
            items |-> ListedOf(s, OfKind(s, "item")), proposals |-> ListedOf(s, OfKind(s, "proposal")),
            resolved |-> ListedOf(s, DOMAIN s.claims \ Active(s)),
            attention |-> AttentionSignals(s, Statuses(s))]
BY DEF Overview, OfKind, ListedOf, ParticipantsOf

\* The overview of a preview becomes that of the submission.
LEMMA TwinOverview ==
  ASSUME BufferInv, NEW one, NEW other, TwinStates(Replay(one), Replay(other))
  PROVE  FinalOverview(Overview(one)) = Overview(other)
<1> DEFINE s == Replay(one)
           t == Replay(other)
<1>1. TwinStates(s, t)
  OBVIOUS
<1>2. /\ Overview(one) = [total_claims |-> Cardinality(DOMAIN s.claims),
            total_relations |-> Len(s.relations),
            total_stances |-> Cardinality(DOMAIN s.stances), participants |-> ParticipantsOf(s),
            items |-> ListedOf(s, OfKind(s, "item")), proposals |-> ListedOf(s, OfKind(s, "proposal")),
            resolved |-> ListedOf(s, DOMAIN s.claims \ Active(s)),
            attention |-> AttentionSignals(s, Statuses(s))]
      /\ Overview(other) = [total_claims |-> Cardinality(DOMAIN t.claims),
            total_relations |-> Len(t.relations),
            total_stances |-> Cardinality(DOMAIN t.stances), participants |-> ParticipantsOf(t),
            items |-> ListedOf(t, OfKind(t, "item")), proposals |-> ListedOf(t, OfKind(t, "proposal")),
            resolved |-> ListedOf(t, DOMAIN t.claims \ Active(t)),
            attention |-> AttentionSignals(t, Statuses(t))]
  BY OverviewIs
<1> HIDE DEF s, t
<1>3. /\ Cardinality(DOMAIN t.claims) = Cardinality(DOMAIN s.claims)
      /\ Cardinality(DOMAIN t.stances) = Cardinality(DOMAIN s.stances)
      /\ Len(t.relations) = Len(s.relations)
  BY <1>1, TwinCounts DEF TwinStates, TwinRelations
<1>4. /\ Active(t) = {Final(c) : c \in Active(s)} /\ Active(s) \subseteq DOMAIN s.claims
      /\ \A c \in DOMAIN s.claims : Clean(c)
      /\ \A id : Clean(id) => (id \in Active(s) <=> Final(id) \in Active(t))
      /\ DOMAIN t.claims = {Final(c) : c \in DOMAIN s.claims}
      /\ \A c \in DOMAIN s.claims : t.claims[Final(c)].kind = s.claims[c].kind
      /\ \A c \in DOMAIN s.claims : t.claims[Final(c)].author = s.claims[c].author
  BY <1>1, TwinActive DEF TwinStates, TwinClaims
<1>5. ASSUME NEW k PROVE ListedOf(t, OfKind(t, k)) = FinalAll(ListedOf(s, OfKind(s, k)))
  <2>1. OfKind(t, k) = {Final(c) : c \in OfKind(s, k)} /\ OfKind(s, k) \subseteq DOMAIN s.claims
    BY <1>4 DEF OfKind
  <2> QED  BY <1>1, <2>1, TwinListed
<1>6. ListedOf(t, DOMAIN t.claims \ Active(t)) = FinalAll(ListedOf(s, DOMAIN s.claims \ Active(s)))
  <2>1. DOMAIN t.claims \ Active(t) = {Final(c) : c \in DOMAIN s.claims \ Active(s)}
    BY <1>4
  <2> QED  BY <1>1, <2>1, TwinListed
<1>7. ParticipantsOf(t) = ParticipantsOf(s)
  <2>1. {t.claims[c].author : c \in DOMAIN t.claims} = {s.claims[c].author : c \in DOMAIN s.claims}
    BY <1>4
  <2>2. {k[2] : k \in DOMAIN t.stances} = {k[2] : k \in DOMAIN s.stances}
    <3>1. DOMAIN t.stances = {<<Final(k[1]), k[2]>> : k \in DOMAIN s.stances}
      BY <1>1 DEF TwinStates, TwinStances
    <3>2. \A k : <<Final(k[1]), k[2]>>[2] = k[2]
      OBVIOUS
    <3>3. ASSUME NEW l \in DOMAIN t.stances PROVE \E k \in DOMAIN s.stances : l[2] = k[2]
      BY <3>1, <3>2
    <3>4. ASSUME NEW k \in DOMAIN s.stances PROVE \E l \in DOMAIN t.stances : l[2] = k[2]
      BY <3>1, <3>2
    <3> QED  BY <3>3, <3>4
  <2> QED  BY <2>1, <2>2 DEF ParticipantsOf
<1>8. AttentionSignals(t, Statuses(t)) = FinalClaims(AttentionSignals(s, Statuses(s)))
  BY <1>1, TwinAttention
<1> DEFINE claims == Cardinality(DOMAIN s.claims)
           relations == Len(s.relations)
           stances == Cardinality(DOMAIN s.stances)
           participants == ParticipantsOf(s)
           items == ListedOf(s, OfKind(s, "item"))
           proposals == ListedOf(s, OfKind(s, "proposal"))
           resolved == ListedOf(s, DOMAIN s.claims \ Active(s))
           attention == AttentionSignals(s, Statuses(s))
<1>9. Overview(other) =
        [total_claims |-> claims, total_relations |-> relations, total_stances |-> stances,
         participants |-> participants, items |-> FinalAll(items), proposals |-> FinalAll(proposals),
         resolved |-> FinalAll(resolved), attention |-> FinalClaims(attention)]
  BY <1>2, <1>3, <1>5, <1>6, <1>7, <1>8
<1>10. Overview(one) =
        [total_claims |-> claims, total_relations |-> relations, total_stances |-> stances,
         participants |-> participants, items |-> items, proposals |-> proposals,
         resolved |-> resolved, attention |-> attention]
  BY <1>2
<1> HIDE DEF claims, relations, stances, participants, items, proposals, resolved, attention
<1>11. FinalOverview(Overview(one)) =
         [total_claims |-> claims, total_relations |-> relations, total_stances |-> stances,
          participants |-> participants, items |-> FinalAll(items), proposals |-> FinalAll(proposals),
          resolved |-> FinalAll(resolved), attention |-> FinalClaims(attention)]
  <2> DEFINE o == Overview(one)
  <2>1. FinalOverview(o) = [o EXCEPT !.items = FinalAll(@), !.proposals = FinalAll(@),
                                     !.resolved = FinalAll(@), !.attention = FinalClaims(@)]
    BY DEF FinalOverview, FinalAll, FinalClaims
  <2> HIDE DEF o
  <2>2. o = [total_claims |-> claims, total_relations |-> relations, total_stances |-> stances,
             participants |-> participants, items |-> items, proposals |-> proposals,
             resolved |-> resolved, attention |-> attention]
    BY <1>10 DEF o
  <2>3. [o EXCEPT !.items = FinalAll(@), !.proposals = FinalAll(@),
                  !.resolved = FinalAll(@), !.attention = FinalClaims(@)]
         = [total_claims |-> claims, total_relations |-> relations, total_stances |-> stances,
            participants |-> participants, items |-> FinalAll(items), proposals |-> FinalAll(proposals),
            resolved |-> FinalAll(resolved), attention |-> FinalClaims(attention)]
    <3> DEFINE w == FinalAll(items)
               x == FinalAll(proposals)
               y == FinalAll(resolved)
               z == FinalClaims(attention)
    <3>1. o.items = items /\ o.proposals = proposals /\ o.resolved = resolved /\ o.attention = attention
      BY <2>2
    <3>2. [o EXCEPT !.items = FinalAll(@), !.proposals = FinalAll(@),
                    !.resolved = FinalAll(@), !.attention = FinalClaims(@)]
            = [o EXCEPT !.items = w, !.proposals = x, !.resolved = y, !.attention = z]
      BY <3>1
    <3> HIDE DEF w, x, y, z
    <3>3. [o EXCEPT !.items = w, !.proposals = x, !.resolved = y, !.attention = z]
            = [total_claims |-> claims, total_relations |-> relations, total_stances |-> stances,
               participants |-> participants, items |-> w, proposals |-> x,
               resolved |-> y, attention |-> z]
      <4> DEFINE o1 == [o EXCEPT !.items = w]
                 o2 == [o1 EXCEPT !.proposals = x]
                 o3 == [o2 EXCEPT !.resolved = y]
                 o4 == [o3 EXCEPT !.attention = z]
      <4>1. o1 = [total_claims |-> claims, total_relations |-> relations, total_stances |-> stances,
                participants |-> participants, items |-> w, proposals |-> proposals,
                resolved |-> resolved, attention |-> attention]
        BY <2>2
      <4>2. [o EXCEPT !.items = w, !.proposals = x, !.resolved = y, !.attention = z] = o4
        OBVIOUS
      <4> HIDE DEF o1
      <4>3. o2 = [total_claims |-> claims, total_relations |-> relations, total_stances |-> stances,
                participants |-> participants, items |-> w, proposals |-> x,
                resolved |-> resolved, attention |-> attention]
        BY <4>1
      <4> HIDE DEF o2
      <4>4. o3 = [total_claims |-> claims, total_relations |-> relations, total_stances |-> stances,
                participants |-> participants, items |-> w, proposals |-> x,
                resolved |-> y, attention |-> attention]
        BY <4>3
      <4> HIDE DEF o3
      <4>5. o4 = [total_claims |-> claims, total_relations |-> relations, total_stances |-> stances,
                participants |-> participants, items |-> w, proposals |-> x,
                resolved |-> y, attention |-> z]
        BY <4>4
      <4> QED  BY <4>2, <4>5
    <3> QED  BY <3>2, <3>3 DEF w, x, y, z
  <2> QED  BY <2>1, <2>3 DEF o
<1> QED  BY <1>9, <1>11

\* The other ends of a claim's relations.
EndsOf(s, c, kind, here, there) ==
  [i \in {j \in DOMAIN s.relations :
            /\ {s.relations[j].source, s.relations[j].target} \subseteq DOMAIN s.claims
            /\ s.relations[j].kind = kind /\ s.relations[j][here] = c} |->
     ClaimSummary(s, Statuses(s), s.relations[i][there])]

\* The other ends become those of the submission.
LEMMA TwinEnds ==
  ASSUME BufferInv, NEW s, NEW t, TwinStates(s, t), NEW c \in DOMAIN s.claims, NEW kind,
         NEW here \in {"source", "target"}, NEW there \in {"source", "target"}
  PROVE  EndsOf(t, Final(c), kind, here, there)
           = [j \in DOMAIN EndsOf(s, c, kind, here, there) |->
                FinalSummary(EndsOf(s, c, kind, here, there)[j])]
<1> DEFINE P == {j \in DOMAIN s.relations :
                   /\ {s.relations[j].source, s.relations[j].target} \subseteq DOMAIN s.claims
                   /\ s.relations[j].kind = kind /\ s.relations[j][here] = c}
           Q == {j \in DOMAIN t.relations :
                   /\ {t.relations[j].source, t.relations[j].target} \subseteq DOMAIN t.claims
                   /\ t.relations[j].kind = kind /\ t.relations[j][here] = Final(c)}
<1>1. /\ DOMAIN s.relations = DOMAIN t.relations
      /\ \A i \in DOMAIN s.relations : TwinRelation(s.relations[i], t.relations[i])
      /\ TwinClaims(s.claims, t.claims) /\ Clean(c)
  BY ListFacts DEF TwinStates, TwinRelations, TwinClaims
<1>2. ASSUME NEW i \in DOMAIN s.relations
      PROVE  /\ i \in P <=> i \in Q
             /\ i \in P => s.relations[i][there] \in DOMAIN s.claims
             /\ t.relations[i][there] = Final(s.relations[i][there])
  <2> DEFINE r == s.relations[i]
             q == t.relations[i]
  <2>1. TwinRelation(r, q)
    BY <1>1
  <2> HIDE DEF r, q
  <2>2. /\ q.source = Final(r.source) /\ q.target = Final(r.target) /\ q.kind = r.kind
        /\ Clean(r.source) /\ Clean(r.target)
    BY <2>1 DEF TwinRelation
  <2>3. /\ r[there] \in {r.source, r.target} /\ q[there] = Final(r[there])
        /\ r[here] \in {r.source, r.target} /\ q[here] = Final(r[here])
    BY <2>2
  <2>4. q[here] = Final(c) <=> r[here] = c
    BY <1>1, <2>2, <2>3, FinalIs
  <2>5. /\ q.source \in DOMAIN t.claims <=> r.source \in DOMAIN s.claims
        /\ q.target \in DOMAIN t.claims <=> r.target \in DOMAIN s.claims
    BY <1>1, <2>2, TwinMember
  <2>6. i \in P <=> ({r.source, r.target} \subseteq DOMAIN s.claims /\ r.kind = kind /\ r[here] = c)
    BY DEF r
  <2>7. i \in Q <=> ({q.source, q.target} \subseteq DOMAIN t.claims /\ q.kind = kind /\ q[here] = Final(c))
    BY <1>1 DEF q
  <2> HIDE DEF P, Q
  <2>8. i \in P <=> i \in Q
    BY <2>2, <2>4, <2>5, <2>6, <2>7
  <2>9. i \in P => r[there] \in DOMAIN s.claims
    BY <2>3, <2>6
  <2> QED  BY <2>3, <2>8, <2>9 DEF r, q
<1>3. P \subseteq DOMAIN s.relations /\ Q \subseteq DOMAIN t.relations
  OBVIOUS
<1>4. /\ EndsOf(s, c, kind, here, there) = [i \in P |-> ClaimSummary(s, Statuses(s), s.relations[i][there])]
      /\ EndsOf(t, Final(c), kind, here, there)
           = [i \in Q |-> ClaimSummary(t, Statuses(t), t.relations[i][there])]
  BY DEF EndsOf
<1> HIDE DEF P, Q
<1>5. P = Q
  BY <1>1, <1>2, <1>3
<1>6. \A i \in P : ClaimSummary(t, Statuses(t), t.relations[i][there])
                     = FinalSummary(ClaimSummary(s, Statuses(s), s.relations[i][there]))
  BY <1>2, <1>3, TwinSummary
<1> QED  BY <1>4, <1>5, <1>6

\* A detail by its parts.
LEMMA DetailIs ==
  ASSUME NEW entries, NEW s, s = Replay(entries), NEW c \in DOMAIN s.claims
  PROVE  ClaimDetail(entries, c) =
           <<ClaimSummary(s, Statuses(s), c),
             EndsOf(s, c, "attacks", "target", "source"), EndsOf(s, c, "supports", "target", "source"),
             EndsOf(s, c, "attacks", "source", "target"), EndsOf(s, c, "supports", "source", "target")>>
BY DEF ClaimDetail, EndsOf

\* The detail of a claim becomes that in the submission.
LEMMA TwinDetail ==
  ASSUME BufferInv, NEW one, NEW other, TwinStates(Replay(one), Replay(other)),
         NEW c \in DOMAIN Replay(one).claims
  PROVE  FinalDetail(ClaimDetail(one, c)) = ClaimDetail(other, Final(c))
<1> DEFINE s == Replay(one)
           t == Replay(other)
           a == ClaimSummary(s, Statuses(s), c)
           p == EndsOf(s, c, "attacks", "target", "source")
           q == EndsOf(s, c, "supports", "target", "source")
           u == EndsOf(s, c, "attacks", "source", "target")
           v == EndsOf(s, c, "supports", "source", "target")
           All(d) == [j \in DOMAIN d |-> FinalSummary(d[j])]
<1>1. TwinStates(s, t) /\ c \in DOMAIN s.claims
  OBVIOUS
<1>2. Final(c) \in DOMAIN t.claims
  BY <1>1 DEF TwinStates, TwinClaims
<1>3. ClaimDetail(one, c) = <<a, p, q, u, v>>
  BY DetailIs
<1>4. ClaimDetail(other, Final(c)) =
        <<ClaimSummary(t, Statuses(t), Final(c)),
          EndsOf(t, Final(c), "attacks", "target", "source"),
          EndsOf(t, Final(c), "supports", "target", "source"),
          EndsOf(t, Final(c), "attacks", "source", "target"),
          EndsOf(t, Final(c), "supports", "source", "target")>>
  BY <1>2, DetailIs
<1> HIDE DEF s, t
<1>5. ClaimSummary(t, Statuses(t), Final(c)) = FinalSummary(a)
  BY <1>1, TwinSummary
<1>6. /\ EndsOf(t, Final(c), "attacks", "target", "source") = All(p)
      /\ EndsOf(t, Final(c), "supports", "target", "source") = All(q)
      /\ EndsOf(t, Final(c), "attacks", "source", "target") = All(u)
      /\ EndsOf(t, Final(c), "supports", "source", "target") = All(v)
  BY <1>1, TwinEnds
<1> HIDE DEF a, p, q, u, v
<1>7. FinalDetail(<<a, p, q, u, v>>) = <<FinalSummary(a), All(p), All(q), All(u), All(v)>>
  <2> DEFINE d == <<a, p, q, u, v>>
             w == FinalDetail(d)
  <2>1. DOMAIN d = 1 .. 5 /\ d[1] = a /\ d[2] = p /\ d[3] = q /\ d[4] = u /\ d[5] = v
    OBVIOUS
  <2> HIDE DEF d
  <2>2. w = [i \in 1 .. 5 |-> IF i = 1 THEN FinalSummary(d[i]) ELSE All(d[i])]
    BY <2>1 DEF FinalDetail
  <2> HIDE DEF All
  <2>3. w[1] = FinalSummary(a) /\ w[2] = All(p) /\ w[3] = All(q) /\ w[4] = All(u) /\ w[5] = All(v)
    BY <2>1, <2>2
  <2>4. w = [i \in 1 .. 5 |-> w[i]]
    BY <2>2
  <2> HIDE DEF w
  <2>5. w = <<w[1], w[2], w[3], w[4], w[5]>>
    BY <2>4
  <2> QED  BY <2>3, <2>5 DEF w, d
<1> QED  BY <1>3, <1>4, <1>5, <1>6, <1>7

-----------------------------------------------------------------------------
(* What drafts bring *)

\* A state keeps its claims, and a claim that is resolved stays so.
Grown(s, t) ==
  /\ Shaped(t) /\ DOMAIN s.claims \subseteq DOMAIN t.claims
  /\ IsFiniteSet(DOMAIN s.claims) => IsFiniteSet(DOMAIN t.claims)
  /\ \A c \in DOMAIN s.claims :
       s.claims[c].resolution # NoResolution => t.claims[c].resolution # NoResolution

\* An entry takes nothing away, and only a claim entry brings a claim.
LEMMA ReduceGrows ==
  ASSUME NEW s, Shaped(s), NEW e, e.type \in EntryTypes
  PROVE  /\ Grown(s, Reduce(s, e))
         /\ \A c \in DOMAIN Reduce(s, e).claims \ DOMAIN s.claims : e.type = "claim" /\ c = e.id
<1>1. CASE Reduce(s, e) = s
  BY <1>1 DEF Grown
<1>2. CASE e.type = "claim" /\ e.id \notin DOMAIN s.claims
  <2> DEFINE v == [author |-> e.author, kind |-> e.kind, parent |-> e.parent,
                   resolution |-> NoResolution]
             A == Put(s.claims, e.id, v)
  <2>1. Reduce(s, e) = [claims |-> A, relations |-> s.relations, stances |-> s.stances]
    BY <1>2, ClaimReduced
  <2>2. /\ DOMAIN A = DOMAIN s.claims \union {e.id} /\ A[e.id] = v
        /\ \A c \in DOMAIN s.claims : A[c] = s.claims[c]
    BY <1>2 DEF Put
  <2>3. v = [author |-> v.author, kind |-> v.kind, parent |-> v.parent, resolution |-> v.resolution]
    OBVIOUS
  <2> HIDE DEF v, A
  <2>4. Shaped(Reduce(s, e))
    BY <2>1, <2>2, <2>3 DEF Shaped
  <2>5. IsFiniteSet(DOMAIN s.claims) => IsFiniteSet(DOMAIN A)
    BY <2>2, FS_AddElement
  <2> QED  BY <1>2, <2>1, <2>2, <2>4, <2>5 DEF Grown
<1>3. CASE e.type = "relation"
  <2>1. Reduce(s, e) = [claims |-> s.claims, relations |-> Append(s.relations, RelationOf(e)),
                        stances |-> s.stances]
    BY <1>3, RelationReduced
  <2> QED  BY <2>1 DEF Grown, Shaped
<1>4. CASE e.type = "stance"
  <2> DEFINE A == Put(s.stances, <<e.target, e.author>>, e.position)
  <2>1. Reduce(s, e) = [claims |-> s.claims, relations |-> s.relations, stances |-> A]
    BY <1>4, StanceReduced
  <2> HIDE DEF A
  <2> QED  BY <2>1 DEF Grown, Shaped
<1>5. CASE e.type = "resolve" /\ e.claim \in DOMAIN s.claims
  <2> DEFINE t == Reduce(s, e)
  <2>1. /\ t = [claims |-> t.claims, relations |-> s.relations, stances |-> s.stances]
        /\ DOMAIN t.claims = DOMAIN s.claims
        /\ \A c \in DOMAIN s.claims :
             t.claims[c] = [author |-> s.claims[c].author, kind |-> s.claims[c].kind,
                            parent |-> s.claims[c].parent, resolution |-> t.claims[c].resolution]
        /\ t.relations = s.relations /\ t.stances = s.stances
    BY <1>5, ResolveReduced
  <2>2. \A c \in DOMAIN s.claims :
          t.claims[c].resolution = IF c = e.claim THEN <<e.outcome, e.author>>
                                   ELSE s.claims[c].resolution
    BY <1>5, ResolveReduced
  <2> HIDE DEF t
  <2>3. ASSUME NEW c \in DOMAIN t.claims
        PROVE  t.claims[c] = [author |-> t.claims[c].author, kind |-> t.claims[c].kind,
                              parent |-> t.claims[c].parent, resolution |-> t.claims[c].resolution]
    <3>1. PICK author, kind, parent, resolution :
            t.claims[c] = [author |-> author, kind |-> kind, parent |-> parent, resolution |-> resolution]
      BY <2>1
    <3> QED  BY <3>1
  <2>4. Shaped(t)
    BY <2>1, <2>3 DEF Shaped
  <2> QED  BY <2>1, <2>2, <2>4, Resolutions DEF Grown, t
<1>6. CASE \/ e.type = "claim" /\ e.id \in DOMAIN s.claims
           \/ e.type = "resolve" /\ e.claim \notin DOMAIN s.claims
           \/ e.type = "comment"
  <2>1. Reduce(s, e) = s
    BY <1>6, ReduceCases DEF ReduceClaim, ReduceResolve
  <2> QED  BY <1>1, <2>1
<1> QED  BY <1>2, <1>3, <1>4, <1>5, <1>6 DEF EntryTypes

\* Between two states there are the claims of the entries between them.
LEMMA ReplayGrows ==
  ASSUME NEW entries, NEW n \in Nat, NEW f, Replays(entries, n, f),
         \A i \in 1 .. n : entries[i].type \in EntryTypes,
         NEW j \in 0 .. n, Shaped(f[j]), NEW k \in j .. n
  PROVE  /\ Grown(f[j], f[k])
         /\ \A c \in DOMAIN f[k].claims \ DOMAIN f[j].claims :
              \E i \in j + 1 .. k : entries[i].type = "claim" /\ c = entries[i].id
<1> DEFINE Fine(m) == /\ Grown(f[j], f[m])
                      /\ \A c \in DOMAIN f[m].claims \ DOMAIN f[j].claims :
                           \E i \in j + 1 .. m : entries[i].type = "claim" /\ c = entries[i].id
           Bad == {m \in j .. n : ~Fine(m)}
<1>1. SUFFICES ASSUME Bad # {} PROVE FALSE
  OBVIOUS
<1>2. PICK m \in Bad : \A l \in Bad : m <= l
  <2>1. Bad \subseteq Nat
    OBVIOUS
  <2> HIDE DEF Bad
  <2> QED  BY <1>1, <2>1, LeastExists
<1>3. m \in j .. n /\ ~Fine(m) /\ j \in Nat
  BY <1>2
<1>4. CASE m = j
  <2>1. Fine(j)
    BY DEF Grown
  <2> QED  BY <1>3, <1>4, <2>1
<1>5. CASE m # j
  <2>1. m - 1 \in j .. n /\ ~(m <= m - 1) /\ m \in 1 .. n /\ m \in 0 .. n /\ m # 0
        /\ m \in j + 1 .. m /\ j + 1 .. m - 1 \subseteq j + 1 .. m
    BY <1>3, <1>5
  <2>2. Fine(m - 1)
    BY <1>2, <2>1
  <2>3. f[m] = Reduce(f[m - 1], entries[m])
    BY <2>1 DEF Replays
  <2>4. /\ Grown(f[m - 1], f[m])
        /\ \A c \in DOMAIN f[m].claims \ DOMAIN f[m - 1].claims :
             entries[m].type = "claim" /\ c = entries[m].id
    BY <2>1, <2>2, <2>3, ReduceGrows DEF Grown
  <2>5. Grown(f[j], f[m])
    BY <2>2, <2>4 DEF Grown
  <2>6. ASSUME NEW c \in DOMAIN f[m].claims \ DOMAIN f[j].claims
        PROVE  \E i \in j + 1 .. m : entries[i].type = "claim" /\ c = entries[i].id
    <3>1. CASE c \in DOMAIN f[m - 1].claims
      BY <2>1, <2>2, <3>1
    <3>2. CASE c \notin DOMAIN f[m - 1].claims
      BY <2>1, <2>4, <3>2
    <3> QED  BY <3>1, <3>2
  <2> QED  BY <1>3, <2>5, <2>6
<1> QED  BY <1>4, <1>5

\* What the log and then the drafts bring.
LEMMA MergedGrows ==
  ASSUME BufferInv, LogOK
  PROVE  LET s == Replay(log)
             t == Replay(MergedEntries(log, drafts, Me))
         IN  /\ Shaped(s) /\ Grown(s, t) /\ IsFiniteSet(DOMAIN s.claims)
             /\ \A c \in DOMAIN s.claims :
                  c[1] \notin {"draft", "final"} /\ Clean(c) /\ Final(c) = c
             /\ \A c \in DOMAIN t.claims \ DOMAIN s.claims : \E n \in LiveIds : c = PreviewId(n)
<1> DEFINE p == MaterializeForPreview(drafts, Me)
<1>merged. PICK merged : merged = MergedEntries(log, drafts, Me)
  OBVIOUS
<1>base. PICK base : base = log
  OBVIOUS
<1>m. PICK m : m = Len(log)
  OBVIOUS
<1>n. PICK n : n = Len(log) + Len(drafts)
  OBVIOUS
<1>1. /\ Len(drafts) \in Nat /\ DOMAIN drafts = 1 .. Len(drafts)
      /\ Len(log) \in Nat /\ DOMAIN log = 1 .. Len(log)
  BY DEF BufferInv, IdsOK, LogOK
<1>2. p = [i \in 1 .. Len(drafts) |-> Materialize(drafts[i], PreviewIds, PreviewIds, Me)]
  BY <1>1 DEF MaterializeForPreview
<1> HIDE DEF p
<1>3. IsList(p) /\ Len(p) = Len(drafts) /\ DOMAIN p = 1 .. Len(drafts)
  BY <1>1, <1>2, FunctionIsList
<1>4. IsList(log)
  BY SequenceIsList DEF LogOK
<1>5. /\ Len(merged) = n
      /\ \A i \in 1 .. n : merged[i] = IF i <= m THEN log[i] ELSE p[i - m]
  BY <1>merged, <1>m, <1>n, <1>3, <1>4, ListsJoined DEF MergedEntries, p
<1>6. \A i \in 1 .. m : log[i] \in OtherEntries /\ log[i].type \in EntryTypes
  BY <1>m, <1>1, EntriesAssumption DEF LogOK
<1>7. ASSUME NEW i \in 1 .. Len(drafts)
      PROVE  /\ p[i].type \in EntryTypes
             /\ p[i].type = "claim" => drafts[i].id \in LiveIds /\ p[i].id = PreviewId(drafts[i].id)
  <2>1. drafts[i] \in DraftType /\ drafts[i].id \in Nat
    BY <1>1, IdsAreNat
  <2>2. drafts[i].entry \in DraftContents
    BY <2>1 DEF DraftType
  <2>3. /\ drafts[i].entry.type \in EntryTypes
        /\ FieldsOf[drafts[i].entry.type] \union {"type"} \subseteq DOMAIN drafts[i].entry
    BY <2>2, ContentsAssumption
  <2>4. /\ p[i].type = drafts[i].entry.type
        /\ p[i].type = "claim" => p[i].id = PreviewIds[drafts[i].id]
    BY <1>2, <2>3, MaterializeIs
  <2>5. p[i].type = "claim" => drafts[i].id \in LiveIds
    BY <1>1, <2>4 DEF LiveIds, IsClaimDraft
  <2> QED  BY <2>1, <2>3, <2>4, <2>5 DEF PreviewIds
<1>8. \A i \in 1 .. n : merged[i].type \in EntryTypes
  <2> SUFFICES ASSUME NEW i \in 1 .. n PROVE merged[i].type \in EntryTypes
    OBVIOUS
  <2>1. CASE i <= m
    BY <1>m, <1>n, <1>1, <1>5, <1>6, <2>1
  <2>2. CASE ~(i <= m)
    <3>1. i - m \in 1 .. Len(drafts)
      BY <1>m, <1>n, <1>1, <2>2
    <3> QED  BY <1>5, <1>7, <2>2, <3>1
  <2> QED  BY <2>1, <2>2
<1>9. PICK f : Replays(merged, n, f) /\ Replay(merged) = f[n]
  <2>1. Len(merged) = n /\ n \in Nat
    BY <1>n, <1>1, <1>5
  <2> QED  BY <1>5, <2>1, ReplayIs
<1>10. PICK g : Replays(base, m, g) /\ Replay(log) = g[m]
  BY <1>base, <1>m, <1>1, ReplayIs
<1>11. n \in Nat /\ m \in Nat /\ m <= n /\ m <= m
  BY <1>m, <1>n, <1>1
<1>12. f[m] = g[m]
  <2>1. \A k \in 1 .. m : merged[k] = base[k]
    BY <1>base, <1>1, <1>5, <1>11
  <2>2. m \in 0 .. m /\ m \in 0 .. n
    BY <1>11
  <2>3. /\ m \in Nat /\ n \in Nat /\ m <= m /\ m <= n
        /\ Replays(merged, n, f) /\ Replays(base, m, g)
    BY <1>9, <1>10, <1>11
  <2> QED  BY ONLY <2>1, <2>3, SameStates, SMTT(30)
<1>13. g[0] = EmptyState /\ Shaped(EmptyState) /\ DOMAIN EmptyState.claims = {}
  <2>1. g[0] = EmptyState
    BY <1>10, <1>11 DEF Replays
  <2>2. Shaped(EmptyState)
    BY TwinsBegin DEF TwinStates
  <2>3. DOMAIN EmptyState.claims = {}
    BY DEF EmptyState, EmptyMap
  <2> QED  BY <2>1, <2>2, <2>3
<1>14. /\ Grown(g[0], g[m])
       /\ \A c \in DOMAIN g[m].claims \ DOMAIN g[0].claims :
            \E i \in 1 .. m : base[i].type = "claim" /\ c = base[i].id
  <2>1. PICK z : z = 0
    OBVIOUS
  <2>2. z \in 0 .. m /\ m \in z .. m /\ z + 1 .. m = 1 .. m
    BY <1>11, <2>1
  <2>3. /\ Replays(base, m, g) /\ Shaped(g[z]) /\ m \in Nat
        /\ \A i \in 1 .. m : base[i].type \in EntryTypes
    BY <1>base, <1>6, <1>10, <1>11, <1>13, <2>1
  <2>4. /\ Grown(g[z], g[m])
        /\ \A c \in DOMAIN g[m].claims \ DOMAIN g[z].claims :
             \E i \in z + 1 .. m : base[i].type = "claim" /\ c = base[i].id
    BY ONLY <2>2, <2>3, ReplayGrows
  <2> QED  BY <2>1, <2>2, <2>4
<1>15. ASSUME NEW c \in DOMAIN g[m].claims
       PROVE  c[1] \notin {"draft", "final"} /\ Clean(c) /\ Final(c) = c
  <2>1. PICK i \in 1 .. m : log[i].type = "claim" /\ c = log[i].id
    BY <1>base, <1>13, <1>14
  <2>2. c[1] \notin {"draft", "final"}
    BY <1>6, <2>1, EntriesAssumption
  <2>3. \A k : PreviewId(k)[1] = "draft" /\ <<"final", k>>[1] = "final"
    BY DEF PreviewId
  <2> QED  BY <2>2, <2>3, FinalIs DEF Clean
<1>16. /\ Grown(f[m], f[n])
       /\ \A c \in DOMAIN f[n].claims \ DOMAIN f[m].claims :
            \E i \in m + 1 .. n : merged[i].type = "claim" /\ c = merged[i].id
  <2>1. m \in 0 .. n /\ n \in m .. n /\ Shaped(f[m])
    BY <1>11, <1>12, <1>14 DEF Grown
  <2>2. Replays(merged, n, f) /\ n \in Nat
    BY <1>9, <1>11
  <2> QED  BY ONLY <1>8, <2>1, <2>2, ReplayGrows
<1>17. ASSUME NEW c \in DOMAIN f[n].claims \ DOMAIN f[m].claims
       PROVE  \E k \in LiveIds : c = PreviewId(k)
  <2>1. PICK i \in m + 1 .. n : merged[i].type = "claim" /\ c = merged[i].id
    BY <1>16
  <2>2. i - m \in 1 .. Len(drafts) /\ i \in 1 .. n /\ ~(i <= m)
    BY <1>m, <1>n, <1>1, <2>1
  <2> QED  BY <1>5, <1>7, <2>1, <2>2
<1>18. IsFiniteSet(DOMAIN g[m].claims)
  BY <1>13, <1>14, FS_EmptySet DEF Grown
<1> QED  BY <1>9, <1>10, <1>12, <1>14, <1>15, <1>16, <1>17, <1>18, <1>merged DEF Grown

\* A preview shows what its submission brings.
LEMMA PreviewsAreFaithful ==
  ASSUME BufferInv, LogOK
  PROVE  PreviewFaithful
<1> SUFFICES ASSUME ~Leak PROVE PreviewFaithful
  BY DEF PreviewFaithful
<1> DEFINE merged == MergedEntries(log, drafts, Me)
           submitted == log \o MaterializeForSubmission(drafts, FinalId, Me)
           before == Statuses(Replay(log))
           shown == Statuses(Replay(merged))
           after == Statuses(Replay(submitted))
           impact == ImpactAnalysis(log, drafts, Me)
<1>1. TwinStates(Replay(merged), Replay(submitted))
  <2>1. /\ Len(merged) \in Nat /\ Len(submitted) = Len(merged)
        /\ \A i \in 1 .. Len(merged) : Twin(merged[i], submitted[i])
    BY EntriesTwin
  <2> HIDE DEF merged, submitted
  <2> QED  BY <2>1, TwinsReplayed
<1>2. \A id : Clean(id) => StatusOf(after, Final(id)) = StatusOf(shown, id)
  <2> HIDE DEF merged, submitted
  <2> QED  BY <1>1, TwinStatuses
<1>3. FinalOverview(Overview(merged)) = Overview(submitted)
  <2> HIDE DEF merged, submitted
  <2> QED  BY <1>1, TwinOverview
<1>4. \A c \in DOMAIN Replay(merged).claims :
        FinalDetail(ClaimDetail(merged, c)) = ClaimDetail(submitted, Final(c))
  <2> HIDE DEF merged, submitted
  <2> QED  BY <1>1, TwinDetail
<1>5. /\ impact.new_claims =
           {[draft |-> drafts[i].id, status |-> StatusOf(shown, PreviewId(drafts[i].id))] :
              i \in {j \in DOMAIN drafts : IsClaimDraft(drafts[j])}}
      /\ impact.status_changes =
           {[claim |-> c, before |-> StatusOf(before, c), after |-> StatusOf(shown, c)] :
              c \in {d \in DOMAIN Replay(log).claims : StatusOf(before, d) # StatusOf(shown, d)}}
  BY DEF ImpactAnalysis
<1> HIDE DEF impact, before, shown, after
<1>6. /\ \A x \in impact.new_claims : x.status = StatusOf(after, FinalId[x.draft])
      /\ {x.draft : x \in impact.new_claims} = LiveIds
  <2>1. ASSUME NEW x \in impact.new_claims
        PROVE  x.status = StatusOf(after, FinalId[x.draft]) /\ x.draft \in LiveIds
    <3>1. PICK i \in DOMAIN drafts :
            /\ IsClaimDraft(drafts[i])
            /\ x = [draft |-> drafts[i].id, status |-> StatusOf(shown, PreviewId(drafts[i].id))]
      BY <1>5
    <3> DEFINE n == drafts[i].id
    <3>2. n \in LiveIds
      BY <3>1 DEF LiveIds
    <3> HIDE DEF n
    <3>3. \A k : PreviewId(n) # <<"final", k>>
      BY DEF PreviewId
    <3>4. Clean(PreviewId(n)) /\ Final(PreviewId(n)) = FinalId[n]
      BY <3>2, <3>3, FinalIs DEF Clean
    <3>5. x.draft = n /\ x.status = StatusOf(shown, PreviewId(n))
      BY <3>1 DEF n
    <3> QED  BY <1>2, <3>2, <3>4, <3>5
  <2>2. ASSUME NEW n \in LiveIds PROVE \E x \in impact.new_claims : x.draft = n
    <3>1. PICK i \in DOMAIN drafts : n = drafts[i].id /\ IsClaimDraft(drafts[i])
      BY DEF LiveIds
    <3>2. [draft |-> drafts[i].id, status |-> StatusOf(shown, PreviewId(drafts[i].id))] \in impact.new_claims
      BY <1>5, <3>1
    <3> QED  BY <3>1, <3>2
  <2> QED  BY <2>1, <2>2
<1>7. ASSUME NEW c \in DOMAIN Replay(log).claims
      PROVE  LET told == {x \in impact.status_changes : x.claim = c}
             IN  IF StatusOf(before, c) = StatusOf(after, c) THEN told = {}
                 ELSE \A x \in told : x.after = StatusOf(after, c) /\ told # {}
  <2>1. StatusOf(after, c) = StatusOf(shown, c)
    BY <1>2, MergedGrows
  <2> DEFINE told == {x \in impact.status_changes : x.claim = c}
  <2>2. \A x \in told : x.after = StatusOf(shown, c) /\ StatusOf(before, c) # StatusOf(shown, c)
    BY <1>5
  <2> HIDE DEF told
  <2>3. /\ StatusOf(before, c) = StatusOf(after, c) => told = {}
        /\ \A x \in told : x.after = StatusOf(after, c) /\ told # {}
    BY <2>1, <2>2
  <2> QED  BY <2>3 DEF told
<1> QED  BY <1>3, <1>4, <1>6, <1>7 DEF PreviewFaithful, impact, before, after

-----------------------------------------------------------------------------
(* Names, and how they are read back *)

\* The names in the sections that are written.
LEMMA NamesInSections ==
  ASSUME NEW lines
  PROVE  NamesOf(Sections(lines)) = UNION {line.names : line \in UNION {lines[x] : x \in DOMAIN lines}}
<1> DEFINE S == Sections(lines)
           written == {x \in DOMAIN lines : lines[x] # {}}
<1>1. DOMAIN S = written /\ \A x \in written : S[x] = lines[x]
  BY DEF Sections
<1>2. UNION {S[x] : x \in DOMAIN S} = UNION {lines[x] : x \in DOMAIN lines}
  <2> HIDE DEF S
  <2> QED  BY <1>1
<1> QED  BY <1>2 DEF NamesOf

\* A section is there if something is in it.
LEMMA SectionsAre ==
  ASSUME NEW lines
  PROVE  /\ DOMAIN Sections(lines) = {x \in DOMAIN lines : lines[x] # {}}
         /\ \A x \in DOMAIN Sections(lines) : Sections(lines)[x] = lines[x]
         /\ Sections(lines) = EmptyMap <=> \A x \in DOMAIN lines : lines[x] = {}
<1> DEFINE written == {x \in DOMAIN lines : lines[x] # {}}
<1>1. Sections(lines) = [x \in written |-> lines[x]]
  BY DEF Sections
<1>2. DOMAIN EmptyMap = {}
  BY DEF EmptyMap
<1>3. written = {} => [x \in written |-> lines[x]] = EmptyMap
  BY DEF EmptyMap
<1> QED  BY <1>1, <1>2, <1>3

\* How a value of JSON is read as a reference.
LEMMA StringRead ==
  ASSUME NEW v, v.json = "string"
  PROVE  /\ v.prefix \notin {"draft:", "#"} => ClaimRefOf(v) = Committed(v.rest)
         /\ v.prefix \in {"draft:", "#"} /\ v.rest[1] = "number" => ClaimRefOf(v) = Draft(v.rest[2])
<1>0. Field(v, "claim_id") = Absent /\ Field(v, "draft_id") = Absent /\ Absent.json = "absent"
  BY DEF Field, Absent
<1>1. CASE v.prefix \in {"draft:", "#"}
  BY <1>0, <1>1 DEF ClaimRefOf
<1>2. CASE v.prefix \notin {"draft:", "#"}
  BY <1>0, <1>2 DEF ClaimRefOf
<1> QED  BY <1>1, <1>2

\* How an object with one field is read.
LEMMA ObjectRead ==
  ASSUME NEW v, v.json = "object", NEW f \in {"claim_id", "draft_id"}, NEW x,
         DOMAIN v.fields = {f}, v.fields[f] = x
  PROVE  /\ f = "claim_id" /\ x.json = "string" => ClaimRefOf(v) = Committed(Literal(x))
         /\ f = "draft_id" /\ x.json = "number" => ClaimRefOf(v) = Draft(x.number)
<1>1. Absent.json = "absent"
  BY DEF Absent
<1>2. CASE f = "claim_id"
  <2>1. Field(v, "claim_id") = x /\ Field(v, "draft_id") = Absent
    BY <1>2 DEF Field
  <2> QED  BY <1>1, <1>2, <2>1 DEF ClaimRefOf
<1>3. CASE f = "draft_id"
  <2>1. Field(v, "draft_id") = x /\ Field(v, "claim_id") = Absent
    BY <1>3 DEF Field
  <2> QED  BY <1>1, <1>3, <2>1 DEF ClaimRefOf
<1> QED  BY <1>2, <1>3

\* The spellings of names, and that each is read as what it stands for.
LEMMA SpellingsRead ==
  ASSUME NEW x
  PROVE  /\ ClaimRefOf(InBrackets(x).written) = InBrackets(x).means
         /\ ClaimRefOf(WithHash(x).written) = WithHash(x).means
         /\ ClaimRefOf(FormatClaimRef(Committed(x)).written) = FormatClaimRef(Committed(x)).means
         /\ ClaimRefOf(FormatClaimRef(Draft(x)).written) = FormatClaimRef(Draft(x)).means
         /\ ClaimRefOf(InJson(Committed(x)).written) = InJson(Committed(x)).means
         /\ ClaimRefOf(InJson(Draft(x)).written) = InJson(Draft(x)).means
<1>1. /\ Committed(x)[1] = "committed" /\ Committed(x)[2] = x
      /\ Draft(x)[1] = "draft" /\ Draft(x)[2] = x
  BY RefParts
<1>2. ASSUME NEW prefix, NEW rest
      PROVE  /\ String(prefix, rest).json = "string" /\ String(prefix, rest).prefix = prefix
             /\ String(prefix, rest).rest = rest
  BY DEF String
<1>3. ASSUME NEW written, NEW means
      PROVE  Name(written, means).written = written /\ Name(written, means).means = means
  BY DEF Name
<1>4. ClaimRefOf(InBrackets(x).written) = InBrackets(x).means
  <2>1. PICK v : v = String("", x)
    OBVIOUS
  <2>2. v.json = "string" /\ v.prefix \notin {"draft:", "#"} /\ v.rest = x
    BY <2>1 DEF String
  <2>3. ClaimRefOf(v) = Committed(x)
    BY <2>2, StringRead
  <2> QED  BY <1>3, <2>1, <2>3 DEF InBrackets
<1>5. /\ ClaimRefOf(WithHash(x).written) = WithHash(x).means
      /\ ClaimRefOf(FormatClaimRef(Draft(x)).written) = FormatClaimRef(Draft(x)).means
  <2>1. <<"number", x>>[1] = "number" /\ <<"number", x>>[2] = x
    OBVIOUS
  <2>2. ClaimRefOf(String("#", <<"number", x>>)) = Draft(x)
    BY <1>2, <2>1, StringRead
  <2>3. ClaimRefOf(String("draft:", <<"number", x>>)) = Draft(x)
    BY <1>2, <2>1, StringRead
  <2>4. WithHash(x).written = String("#", <<"number", x>>) /\ WithHash(x).means = Draft(x)
    BY <1>3 DEF WithHash
  <2>5. FormatClaimRef(Draft(x)) = Name(String("draft:", <<"number", x>>), Draft(x))
    BY <1>1 DEF FormatClaimRef
  <2> QED  BY <1>3, <2>2, <2>3, <2>4, <2>5
<1>6. ClaimRefOf(FormatClaimRef(Committed(x)).written) = FormatClaimRef(Committed(x)).means
  <2>1. ClaimRefOf(String("claim:", x)) = Committed(x)
    BY <1>2, StringRead
  <2>2. FormatClaimRef(Committed(x)) = Name(String("claim:", x), Committed(x))
    BY <1>1 DEF FormatClaimRef
  <2> QED  BY <1>3, <2>1, <2>2
<1>7. ClaimRefOf(InJson(Committed(x)).written) = InJson(Committed(x)).means
  <2>1. PICK v : v = Object([claim_id |-> String("", x)])
    OBVIOUS
  <2>2. v.json = "object" /\ DOMAIN v.fields = {"claim_id"} /\ v.fields["claim_id"] = String("", x)
    BY <2>1 DEF Object
  <2>3. PICK w : w = String("", x)
    OBVIOUS
  <2>6. w.json = "string" /\ Literal(w) = x
    BY <2>3 DEF Literal, String
  <2>4. ClaimRefOf(v) = Committed(x)
    BY <2>2, <2>3, <2>6, ObjectRead
  <2>5. InJson(Committed(x)) = Name(v, Committed(x))
    BY <1>1, <2>1 DEF InJson
  <2> QED  BY <1>3, <2>4, <2>5
<1>8. ClaimRefOf(InJson(Draft(x)).written) = InJson(Draft(x)).means
  <2>1. PICK v : v = Object([draft_id |-> Number(x)])
    OBVIOUS
  <2>2. v.json = "object" /\ DOMAIN v.fields = {"draft_id"} /\ v.fields["draft_id"] = Number(x)
    BY <2>1 DEF Object
  <2>3. Number(x).json = "number" /\ Number(x).number = x
    BY DEF Number
  <2>4. ClaimRefOf(v) = Draft(x)
    BY <2>2, <2>3, ObjectRead
  <2>5. InJson(Draft(x)) = Name(v, Draft(x))
    BY <1>1, <2>1 DEF InJson
  <2> QED  BY <1>3, <2>4, <2>5
<1> QED  BY <1>4, <1>5, <1>6, <1>7, <1>8

\* What a name in brackets is.
LEMMA BracketsMean ==
  ASSUME NEW id
  PROVE  InBrackets(id).means[2] = id /\ Literal(InBrackets(id).written) = id
BY RefParts DEF InBrackets, Name, Literal, String

\* The references of the drafts.
LEMMA DraftRefs ==
  ASSUME BufferInv, NEW i \in DOMAIN drafts, NEW ref \in Refs(drafts[i].entry)
  PROVE  (\E x : ref = Committed(x)) \/ (\E n \in Nat : ref = Draft(n))
<1>1. drafts[i].entry \in DraftContents
  BY IdsAreNat DEF DraftType
<1> QED  BY <1>1, ContentsAssumption

\* The drafts can always be shown.
LEMMA DraftsMaterialize ==
  ASSUME BufferInv
  PROVE  Materializes(drafts)
<1> SUFFICES ASSUME NEW i \in DOMAIN drafts, NEW ref \in Refs(drafts[i].entry)
             PROVE  RefError(drafts, ref) = "none"
  BY NoError DEF Materializes
<1>1. CASE \E x : ref = Committed(x)
  BY <1>1, CommittedFound
<1>2. CASE \E n \in Nat : ref = Draft(n)
  <2>1. PICK n \in Nat : ref = Draft(n)
    BY <1>2
  <2>2. \E j \in DOMAIN drafts : drafts[j].id = n /\ IsClaimDraft(drafts[j])
    BY <2>1 DEF BufferInv, RefsStrong
  <2> QED  BY <2>1, <2>2, ReferenceFound
<1> QED  BY <1>1, <1>2, DraftRefs

-----------------------------------------------------------------------------
(* The claims that an overview names *)

\* The statuses of active claims.
KnownStatuses == {"defeated", "unresolved", "unexamined", "contested", "established"}
NeedAttention == {"unexamined", "contested", "unresolved"}

\* Every active claim has a status, and no other claim has.
LEMMA StatusesKnown ==
  ASSUME NEW s, IsFiniteSet(DOMAIN s.claims)
  PROVE  /\ Active(s) \subseteq DOMAIN s.claims /\ DOMAIN Statuses(s) = Active(s)
         /\ Statuses(s) = [c \in Active(s) |-> Statuses(s)[c]]
         /\ \A c \in Active(s) : Statuses(s)[c] \in KnownStatuses
         /\ \A c : /\ c \in Active(s) => StatusOf(Statuses(s), c) = Statuses(s)[c]
                   /\ c \notin Active(s) => StatusOf(Statuses(s), c) = "none"
<1> DEFINE g == AttackedBy(s)
           l == GroundedLabelling(g)
<1>1. Active(s) \subseteq DOMAIN s.claims /\ IsFiniteSet(Active(s))
  <2>1. Active(s) \subseteq DOMAIN s.claims
    BY DEF Active
  <2> QED  BY <2>1, FS_Subset
<1>2. IsGraph(g) /\ DOMAIN g = Active(s)
  BY <1>1, StateGraph
<1> HIDE DEF g
<1>3. \A c \in Active(s) : l[c] \in Labels
  BY <1>2, LabellingGrounded DEF Reasoned, LabelsFor
<1>4. Statuses(s) = [c \in Active(s) |-> EpistemicStatus(l[c], {x.position : x \in StancesOn(s, c)})]
  BY DEF Statuses, StatusesFrom, g
<1> HIDE DEF l
<1>5. ASSUME NEW c \in Active(s) PROVE Statuses(s)[c] \in KnownStatuses
  <2>1. \A label \in Labels : \A positions : EpistemicStatus(label, positions) \in KnownStatuses
    BY DEF EpistemicStatus, Labels, KnownStatuses
  <2> QED  BY <1>3, <1>4, <2>1
<1> QED  BY <1>1, <1>4, <1>5 DEF StatusOf

\* The claims that an overview names.
NamedIn(s) ==
  OfKind(s, "proposal") \union OfKind(s, "item") \union (DOMAIN s.claims \ Active(s))
  \union {c \in Active(s) : Statuses(s)[c] \in NeedAttention}

\* The ids of a list of summaries, and of what needs attention.
LEMMA ListedIds ==
  ASSUME NEW s, IsFiniteSet(DOMAIN s.claims)
  PROVE  /\ \A C : {x.id : x \in ListedOf(s, C)} = C
         /\ {x.claim : x \in AttentionSignals(s, Statuses(s))} =
              {c \in Active(s) : Statuses(s)[c] \in NeedAttention}
<1>1. \A c : ClaimSummary(s, Statuses(s), c).id = c
  BY DEF ClaimSummary
<1>2. ASSUME NEW C PROVE {x.id : x \in ListedOf(s, C)} = C
  <2>1. ASSUME NEW c \in C PROVE \E x \in ListedOf(s, C) : x.id = c
    BY <1>1 DEF ListedOf
  <2>2. \A x \in ListedOf(s, C) : x.id \in C
    BY <1>1 DEF ListedOf
  <2> QED  BY <2>1, <2>2
<1> DEFINE signals == AttentionSignals(s, Statuses(s))
           need == {c \in Active(s) : Statuses(s)[c] \in NeedAttention}
           B(c) == IF Statuses(s)[c] = "contested"
                     THEN {x.author : x \in {y \in StancesOn(s, c) : y.position \in Negative}} ELSE {}
           Signal(c) == [signal |-> Statuses(s)[c], claim |-> c, blockers |-> B(c)]
<1>3. DOMAIN Statuses(s) = Active(s)
  BY StatusesKnown
<1>4. signals = {Signal(c) : c \in need}
  BY <1>3 DEF AttentionSignals, NeedAttention
<1>5. \A c : Signal(c).claim = c
  OBVIOUS
<1> HIDE DEF signals, need, Signal
<1>6. {x.claim : x \in signals} = need
  <2>1. ASSUME NEW c \in need PROVE \E x \in signals : x.claim = c
    BY <1>4, <1>5
  <2>2. \A x \in signals : x.claim \in need
    BY <1>4, <1>5
  <2> QED  BY <2>1, <2>2
<1> QED  BY <1>2, <1>6 DEF signals, need

\* The lines of lists of claims, and the names in them.
ResolvedLine(c) == [names |-> {InBrackets(c.id)}, author |-> c.author, outcome |-> c.resolution[1]]

\* The names in such lines.
LEMMA NamesOfLines ==
  ASSUME NEW X, NEW n
  PROVE  /\ (\E line \in {FormatClaimOneliner(c) : c \in X} : n \in line.names) <=>
              \E c \in X : n = InBrackets(c.id)
         /\ (\E line \in {ResolvedLine(c) : c \in X} : n \in line.names) <=>
              \E c \in X : n = InBrackets(c.id)
         /\ (\E line \in {FormatAttentionSignal(x) : x \in X} : n \in line.names) <=>
              \E x \in X : n = InBrackets(x.claim)
<1>1. /\ \A x : FormatClaimOneliner(x).names = {InBrackets(x.id)}
      /\ \A x : ResolvedLine(x).names = {InBrackets(x.id)}
      /\ \A x : FormatAttentionSignal(x).names = {InBrackets(x.claim)}
  BY DEF FormatClaimOneliner, FormatAttentionSignal, ResolvedLine
<1>2. (\E line \in {FormatClaimOneliner(c) : c \in X} : n \in line.names) <=>
        \E c \in X : n \in FormatClaimOneliner(c).names
  OBVIOUS
<1>3. (\E line \in {ResolvedLine(c) : c \in X} : n \in line.names) <=>
        \E c \in X : n \in ResolvedLine(c).names
  OBVIOUS
<1>4. (\E line \in {FormatAttentionSignal(x) : x \in X} : n \in line.names) <=>
        \E x \in X : n \in FormatAttentionSignal(x).names
  OBVIOUS
<1> QED  BY <1>1, <1>2, <1>3, <1>4

\* The names in an overview.
LEMMA OverviewNamesAre ==
  ASSUME NEW entries, NEW s, s = Replay(entries), IsFiniteSet(DOMAIN s.claims)
  PROVE  NamesOf(FormatOverview(Overview(entries)).sections) = {InBrackets(c) : c \in NamedIn(s)}
<1> DEFINE o == Overview(entries)
           lines == [proposals |-> {FormatClaimOneliner(c) : c \in o.proposals},
                     items |-> {FormatClaimOneliner(c) : c \in o.items},
                     resolved |-> {ResolvedLine(c) : c \in o.resolved},
                     attention |-> {FormatAttentionSignal(x) : x \in o.attention}]
           names == UNION {line.names : line \in UNION {lines[x] : x \in DOMAIN lines}}
<1>1. FormatOverview(o).sections = Sections(lines)
  BY DEF FormatOverview, ResolvedLine
<1>2. /\ o.proposals = ListedOf(s, OfKind(s, "proposal")) /\ o.items = ListedOf(s, OfKind(s, "item"))
      /\ o.resolved = ListedOf(s, DOMAIN s.claims \ Active(s))
      /\ o.attention = AttentionSignals(s, Statuses(s))
  BY OverviewIs
<1> HIDE DEF o
<1>4. /\ DOMAIN lines = {"proposals", "items", "resolved", "attention"}
      /\ lines["proposals"] = {FormatClaimOneliner(c) : c \in o.proposals}
      /\ lines["items"] = {FormatClaimOneliner(c) : c \in o.items}
      /\ lines["resolved"] = {ResolvedLine(c) : c \in o.resolved}
      /\ lines["attention"] = {FormatAttentionSignal(x) : x \in o.attention}
  OBVIOUS
<1> HIDE DEF lines
<1>5. \A n : n \in names <=> \E x \in DOMAIN lines : \E line \in lines[x] : n \in line.names
  OBVIOUS
<1> HIDE DEF names
<1>6. ASSUME NEW n
      PROVE  n \in names <=>
               \/ \E c \in o.proposals : n = InBrackets(c.id)
               \/ \E c \in o.items : n = InBrackets(c.id)
               \/ \E c \in o.resolved : n = InBrackets(c.id)
               \/ \E x \in o.attention : n = InBrackets(x.claim)
  <2>1. (\E line \in lines["proposals"] : n \in line.names) <=>
          \E c \in o.proposals : n = InBrackets(c.id)
    BY <1>4, NamesOfLines
  <2>2. (\E line \in lines["items"] : n \in line.names) <=> \E c \in o.items : n = InBrackets(c.id)
    BY <1>4, NamesOfLines
  <2>3. (\E line \in lines["resolved"] : n \in line.names) <=> \E c \in o.resolved : n = InBrackets(c.id)
    BY <1>4, NamesOfLines
  <2>4. (\E line \in lines["attention"] : n \in line.names) <=>
          \E x \in o.attention : n = InBrackets(x.claim)
    <3>1. PICK signals : signals = o.attention
      OBVIOUS
    <3>2. lines["attention"] = {FormatAttentionSignal(x) : x \in signals}
      BY <1>4, <3>1
    <3>3. (\E line \in {FormatAttentionSignal(x) : x \in signals} : n \in line.names) <=>
            \E x \in signals : n = InBrackets(x.claim)
      BY ONLY NamesOfLines
    <3> QED  BY ONLY <3>1, <3>2, <3>3
  <2>5. n \in names <=> \E x \in {"proposals", "items", "resolved", "attention"} :
                          \E line \in lines[x] : n \in line.names
    BY <1>4, <1>5
  <2> QED  BY <2>1, <2>2, <2>3, <2>4, <2>5
<1>7. ASSUME NEW some, NEW m
      PROVE  (\E x \in ListedOf(s, some) : m = InBrackets(x.id)) <=> \E c \in some : m = InBrackets(c)
  <2>1. {x.id : x \in ListedOf(s, some)} = some
    BY ListedIds
  <2> QED  BY <2>1
<1>8. ASSUME NEW n
      PROVE  (\E x \in AttentionSignals(s, Statuses(s)) : n = InBrackets(x.claim)) <=>
               \E c \in {d \in Active(s) : Statuses(s)[d] \in NeedAttention} : n = InBrackets(c)
  <2> DEFINE need == {d \in Active(s) : Statuses(s)[d] \in NeedAttention}
  <2>1. {x.claim : x \in AttentionSignals(s, Statuses(s))} = need
    BY ListedIds
  <2> HIDE DEF need
  <2>2. (\E x \in AttentionSignals(s, Statuses(s)) : n = InBrackets(x.claim)) <=>
          \E c \in need : n = InBrackets(c)
    BY <2>1
  <2> QED  BY <2>2 DEF need
<1>9. ASSUME NEW n PROVE n \in names <=> \E c \in NamedIn(s) : n = InBrackets(c)
  <2>1. (\E c \in o.proposals : n = InBrackets(c.id)) <=> \E c \in OfKind(s, "proposal") : n = InBrackets(c)
    BY <1>2, <1>7
  <2>2. (\E c \in o.items : n = InBrackets(c.id)) <=> \E c \in OfKind(s, "item") : n = InBrackets(c)
    BY <1>2, <1>7
  <2>3. (\E c \in o.resolved : n = InBrackets(c.id)) <=>
          \E c \in DOMAIN s.claims \ Active(s) : n = InBrackets(c)
    <3>1. PICK gone : gone = DOMAIN s.claims \ Active(s)
      OBVIOUS
    <3>2. o.resolved = ListedOf(s, gone) /\ {x.id : x \in ListedOf(s, gone)} = gone
      BY <1>2, <3>1, ListedIds
    <3>3. (\E x \in ListedOf(s, gone) : n = InBrackets(x.id)) <=> \E c \in gone : n = InBrackets(c)
      BY <3>2
    <3> QED  BY ONLY <3>1, <3>2, <3>3
  <2>4. (\E x \in o.attention : n = InBrackets(x.claim)) <=>
          \E c \in {d \in Active(s) : Statuses(s)[d] \in NeedAttention} : n = InBrackets(c)
    BY <1>2, <1>8
  <2> QED  BY <1>6, <2>1, <2>2, <2>3, <2>4 DEF NamedIn
<1>10. NamesOf(Sections(lines)) = names
  BY NamesInSections DEF names
<1>11. names = {InBrackets(c) : c \in NamedIn(s)}
  BY <1>9
<1> QED  BY <1>1, <1>10, <1>11 DEF o

-----------------------------------------------------------------------------
(* The claims and the changes that the prompt tells of *)

\* What the detail of a claim says.
LEMMA DetailSays ==
  ASSUME NEW entries, NEW s, s = Replay(entries), IsFiniteSet(DOMAIN s.claims), NEW c \in DOMAIN s.claims
  PROVE  LET d == ClaimDetail(entries, c)
             line == FormatClaimDetail(d)
         IN  /\ d # << >>
             /\ line.claim.status = "unknown" <=> line.resolution # NoResolution
<1> DEFINE e1 == EndsOf(s, c, "attacks", "target", "source")
           e2 == EndsOf(s, c, "supports", "target", "source")
           e3 == EndsOf(s, c, "attacks", "source", "target")
           e4 == EndsOf(s, c, "supports", "source", "target")
           x == ClaimSummary(s, Statuses(s), c)
<1>1. PICK d : d = ClaimDetail(entries, c)
  OBVIOUS
<1>2. d = <<x, e1, e2, e3, e4>>
  BY <1>1, DetailIs
<1> HIDE DEF e1, e2, e3, e4
<1>3. d # << >> /\ d[1] = x
  BY <1>2
<1>4. x.status = StatusOf(Statuses(s), c) /\ x.resolution = s.claims[c].resolution
  BY DEF ClaimSummary
<1> HIDE DEF x
<1>5. /\ FormatClaimDetail(d).claim.status = OrElse(x.status, "unknown")
      /\ FormatClaimDetail(d).resolution = x.resolution
  BY <1>3 DEF FormatClaimDetail, FormatClaimOneliner
<1>6. CASE c \in Active(s)
  <2>2. StatusOf(Statuses(s), c) = Statuses(s)[c] /\ Statuses(s)[c] \in KnownStatuses
    BY <1>6, StatusesKnown
  <2>3. s.claims[c].resolution = NoResolution
    BY <1>6 DEF Active
  <2>1. x.status \in KnownStatuses /\ x.resolution = NoResolution
    BY <1>4, <2>2, <2>3
  <2> QED  BY <1>1, <1>3, <1>5, <2>1 DEF OrElse, KnownStatuses
<1>7. CASE c \notin Active(s)
  <2>1. x.status = "none" /\ x.resolution # NoResolution
    BY <1>4, <1>7, StatusesKnown DEF Active
  <2> QED  BY <1>1, <1>3, <1>5, <2>1 DEF OrElse
<1> QED  BY <1>6, <1>7

\* The claims that the prompt names, and those that it does not.
LEMMA ClaimsTold ==
  ASSUME BufferInv, LogOK, NEW prompt, prompt.overview = FormatOverview(Overview(log))
  PROVE  ClaimsFound(prompt) /\ NothingHidden(prompt)
<1>base. PICK base : base = log
  OBVIOUS
<1>s. PICK s : s = Replay(base)
  OBVIOUS
<1>1. IsFiniteSet(DOMAIN s.claims)
  BY <1>base, <1>s, MergedGrows
<1>2. PICK names : names = NamesOf(prompt.overview.sections)
  OBVIOUS
<1>3. names = {InBrackets(c) : c \in NamedIn(s)}
  BY <1>base, <1>s, <1>1, <1>2, OverviewNamesAre
<1>4. /\ Active(s) \subseteq DOMAIN s.claims /\ DOMAIN Statuses(s) = Active(s)
      /\ \A c \in Active(s) : Statuses(s)[c] \in KnownStatuses
  BY <1>1, StatusesKnown
<1>5. NamedIn(s) \subseteq DOMAIN s.claims
  BY <1>4 DEF NamedIn, OfKind
<1>6. ASSUME NEW name \in names
      PROVE  LET d == ClaimDetail(base, Literal(name.written))
             IN  /\ d # << >>
                 /\ FormatClaimDetail(d).claim.status = "unknown" <=>
                      FormatClaimDetail(d).resolution # NoResolution
  <2>1. PICK c \in NamedIn(s) : name = InBrackets(c)
    BY <1>3
  <2>2. Literal(name.written) = c /\ c \in DOMAIN s.claims
    BY <1>5, <2>1, BracketsMean
  <2> QED  BY <1>s, <1>1, <2>2, DetailSays
<1>7. ClaimsFound(prompt)
  BY <1>base, <1>2, <1>6 DEF ClaimsFound
<1>8. {name.means[2] : name \in names} = NamedIn(s)
  <2>1. \A name \in names : name.means[2] \in NamedIn(s)
    BY <1>3, BracketsMean
  <2>2. ASSUME NEW c \in NamedIn(s) PROVE \E name \in names : name.means[2] = c
    BY <1>3, BracketsMean
  <2> QED  BY <2>1, <2>2
<1>9. ASSUME NEW c \in DOMAIN s.claims \ NamedIn(s)
      PROVE  /\ s.claims[c].resolution = NoResolution
             /\ s.claims[c].kind \notin {"item", "proposal"}
             /\ Statuses(s)[c] \in {"established", "defeated"}
  <2>1. c \in Active(s)
    BY DEF NamedIn
  <2>2. s.claims[c].resolution = NoResolution
    BY <2>1 DEF Active
  <2>3. s.claims[c].kind \notin {"item", "proposal"}
    BY <2>1 DEF NamedIn, OfKind
  <2>4. Statuses(s)[c] \in {"established", "defeated"}
    BY <1>4, <2>1 DEF NamedIn, KnownStatuses, NeedAttention
  <2> QED  BY <2>2, <2>3, <2>4
<1>10. NothingHidden(prompt)
  BY <1>base, <1>s, <1>2, <1>8, <1>9 DEF NothingHidden
<1> QED  BY <1>7, <1>10

\* The lines of an impact.
NewLine(x) == [names |-> {WithHash(x.draft)}, status |-> OrElse(x.status, "unknown")]
ChangeLine(x) == [names |-> {InBrackets(x.claim)}, before |-> OrElse(x.before, "none"),
                  after |-> OrElse(x.after, "resolved")]
LinesOf(impact) == [new_claims |-> {NewLine(x) : x \in impact.new_claims},
                    status_changes |-> {ChangeLine(x) : x \in impact.status_changes}]

\* What is told of an impact.
LEMMA ImpactLines ==
  ASSUME NEW impact
  PROVE  LET told == FormatImpactAnalysis(impact)
         IN  /\ told # Unavailable
             /\ told = EmptyMap <=> impact.new_claims = {} /\ impact.status_changes = {}
             /\ "status_changes" \in DOMAIN told =>
                  told.status_changes = {ChangeLine(x) : x \in impact.status_changes}
             /\ \A name \in NamesOf(told) :
                  \/ \E x \in impact.new_claims : name = WithHash(x.draft)
                  \/ \E x \in impact.status_changes : name = InBrackets(x.claim)
<1> DEFINE lines == LinesOf(impact)
<1>1. FormatImpactAnalysis(impact) = Sections(lines)
  BY DEF FormatImpactAnalysis, LinesOf, NewLine, ChangeLine
<1>2. /\ DOMAIN lines = {"new_claims", "status_changes"}
      /\ lines["new_claims"] = {NewLine(x) : x \in impact.new_claims}
      /\ lines["status_changes"] = {ChangeLine(x) : x \in impact.status_changes}
  BY DEF LinesOf
<1> HIDE DEF lines
<1>3. PICK told : told = Sections(lines)
  OBVIOUS
<1>4. /\ DOMAIN told = {x \in DOMAIN lines : lines[x] # {}}
      /\ \A x \in DOMAIN told : told[x] = lines[x]
      /\ told = EmptyMap <=> \A x \in DOMAIN lines : lines[x] = {}
  BY <1>3, SectionsAre
<1>5. told # Unavailable
  <2>1. DOMAIN Unavailable = {"error"}
    BY DEF Unavailable
  <2> QED  BY <1>2, <1>4, <2>1
<1>6. told = EmptyMap <=> impact.new_claims = {} /\ impact.status_changes = {}
  BY <1>2, <1>4
<1>7. ASSUME NEW name \in NamesOf(told)
      PROVE  \/ \E x \in impact.new_claims : name = WithHash(x.draft)
             \/ \E x \in impact.status_changes : name = InBrackets(x.claim)
  <2>1. \E x \in DOMAIN lines : \E line \in lines[x] : name \in line.names
    BY <1>3, NamesInSections
  <2>2. \A x : NewLine(x).names = {WithHash(x.draft)} /\ ChangeLine(x).names = {InBrackets(x.claim)}
    BY DEF NewLine, ChangeLine
  <2> QED  BY <1>2, <2>1, <2>2
<1>8. "status_changes" \in DOMAIN told =>
        told.status_changes = {ChangeLine(x) : x \in impact.status_changes}
  BY <1>2, <1>4
<1> QED  BY <1>1, <1>3, <1>5, <1>6, <1>7, <1>8

\* What is new and what changes, between the states before and after the drafts.
NewOf(t) == {[draft |-> n, status |-> StatusOf(Statuses(t), PreviewId(n))] : n \in LiveIds}
ChangesOf(s, t) ==
  {[claim |-> c, before |-> StatusOf(Statuses(s), c), after |-> StatusOf(Statuses(t), c)] :
     c \in {d \in DOMAIN s.claims : StatusOf(Statuses(s), d) # StatusOf(Statuses(t), d)}}

\* An impact tells of these.
LEMMA ImpactIs ==
  ASSUME NEW s, s = Replay(log), NEW t, t = Replay(MergedEntries(log, drafts, Me))
  PROVE  /\ ImpactAnalysis(log, drafts, Me).new_claims = NewOf(t)
         /\ ImpactAnalysis(log, drafts, Me).status_changes = ChangesOf(s, t)
<1> DEFINE after == Statuses(t)
           New(n) == [draft |-> n, status |-> StatusOf(after, PreviewId(n))]
           live == {j \in DOMAIN drafts : IsClaimDraft(drafts[j])}
<1>1. ImpactAnalysis(log, drafts, Me).new_claims = {New(drafts[i].id) : i \in live}
  BY DEF ImpactAnalysis
<1>2. LiveIds = {drafts[i].id : i \in live} /\ NewOf(t) = {New(n) : n \in LiveIds}
  BY DEF LiveIds, NewOf
<1> HIDE DEF New, live
<1>3. ImpactAnalysis(log, drafts, Me).new_claims = NewOf(t)
  BY <1>1, <1>2
<1>4. ImpactAnalysis(log, drafts, Me).status_changes = ChangesOf(s, t)
  BY DEF ImpactAnalysis, ChangesOf
<1> QED  BY <1>3, <1>4

\* How a status changes.
LEMMA ChangeSays ==
  ASSUME NEW s, NEW t, Shaped(s), Grown(s, t), IsFiniteSet(DOMAIN s.claims), NEW x \in ChangesOf(s, t)
  PROVE  LET line == ChangeLine(x)
         IN  /\ x.claim \in DOMAIN s.claims
             /\ line.names = {InBrackets(x.claim)}
             /\ line.before \notin {"none", line.after}
             /\ line.after = "resolved" <=> t.claims[x.claim].resolution # NoResolution
<1>1. IsFiniteSet(DOMAIN t.claims) /\ DOMAIN s.claims \subseteq DOMAIN t.claims
  BY DEF Grown
<1>2. PICK c \in DOMAIN s.claims :
        /\ StatusOf(Statuses(s), c) # StatusOf(Statuses(t), c)
        /\ x = [claim |-> c, before |-> StatusOf(Statuses(s), c), after |-> StatusOf(Statuses(t), c)]
  BY DEF ChangesOf
<1>3. x.claim = c /\ x.before = StatusOf(Statuses(s), c) /\ x.after = StatusOf(Statuses(t), c)
  BY <1>2
<1>4. /\ ChangeLine(x).names = {InBrackets(c)} /\ ChangeLine(x).before = OrElse(x.before, "none")
      /\ ChangeLine(x).after = OrElse(x.after, "resolved")
  BY <1>3 DEF ChangeLine
<1>5. /\ c \in Active(s) => StatusOf(Statuses(s), c) = Statuses(s)[c] /\ Statuses(s)[c] \in KnownStatuses
      /\ c \notin Active(s) => StatusOf(Statuses(s), c) = "none"
  BY StatusesKnown
<1>6. /\ c \in Active(t) => StatusOf(Statuses(t), c) = Statuses(t)[c] /\ Statuses(t)[c] \in KnownStatuses
      /\ c \notin Active(t) => StatusOf(Statuses(t), c) = "none"
  BY <1>1, StatusesKnown
<1>7. c \in Active(t) <=> t.claims[c].resolution = NoResolution
  BY <1>1 DEF Active
<1>8. c \notin Active(s) => c \notin Active(t)
  BY <1>7 DEF Active, Grown
<1>9. x.before \in KnownStatuses /\ x.before # x.after
  BY <1>2, <1>3, <1>5, <1>6, <1>8
<1>10. /\ c \in Active(t) => x.after \in KnownStatuses
       /\ c \notin Active(t) => x.after = "none"
  BY <1>3, <1>6
<1> QED  BY <1>3, <1>4, <1>7, <1>9, <1>10 DEF OrElse, KnownStatuses

\* When nothing changes.
LEMMA NothingChanges ==
  ASSUME NEW s, NEW t, Shaped(s), Grown(s, t), IsFiniteSet(DOMAIN s.claims),
         DOMAIN t.claims \subseteq DOMAIN s.claims
  PROVE  ChangesOf(s, t) = {} <=> Statuses(t) = Statuses(s)
<1> DEFINE differ == {d \in DOMAIN s.claims : StatusOf(Statuses(s), d) # StatusOf(Statuses(t), d)}
<1>1. IsFiniteSet(DOMAIN t.claims) /\ DOMAIN s.claims = DOMAIN t.claims
  BY DEF Grown
<1>2. ChangesOf(s, t) = {} <=> differ = {}
  BY DEF ChangesOf
<1>3. Statuses(t) = Statuses(s) => differ = {}
  OBVIOUS
<1>4. ASSUME differ = {} PROVE Statuses(t) = Statuses(s)
  <2>1. /\ Active(s) \subseteq DOMAIN s.claims
        /\ Statuses(s) = [c \in Active(s) |-> Statuses(s)[c]]
        /\ \A c \in Active(s) : Statuses(s)[c] \in KnownStatuses
        /\ \A c : /\ c \in Active(s) => StatusOf(Statuses(s), c) = Statuses(s)[c]
                  /\ c \notin Active(s) => StatusOf(Statuses(s), c) = "none"
    BY StatusesKnown
  <2>2. /\ Active(t) \subseteq DOMAIN s.claims
        /\ Statuses(t) = [c \in Active(t) |-> Statuses(t)[c]]
        /\ \A c \in Active(t) : Statuses(t)[c] \in KnownStatuses
        /\ \A c : /\ c \in Active(t) => StatusOf(Statuses(t), c) = Statuses(t)[c]
                  /\ c \notin Active(t) => StatusOf(Statuses(t), c) = "none"
    BY <1>1, StatusesKnown
  <2>3. \A c \in DOMAIN s.claims : StatusOf(Statuses(s), c) = StatusOf(Statuses(t), c)
    BY <1>4
  <2>4. "none" \notin KnownStatuses
    BY DEF KnownStatuses
  <2>5. \A c : c \in Active(s) <=> c \in Active(t)
    BY <2>1, <2>2, <2>3, <2>4
  <2>6. Active(s) = Active(t) /\ \A c \in Active(s) : Statuses(s)[c] = Statuses(t)[c]
    BY <2>1, <2>2, <2>3, <2>5
  <2> QED  BY <2>1, <2>2, <2>6
<1> QED  BY <1>2, <1>3, <1>4

\* What the prompt says of the changes.
LEMMA ChangesAreTold ==
  ASSUME BufferInv, LogOK, NEW prompt,
         prompt.impact = FormatImpactAnalysis(ImpactAnalysis(log, drafts, Me))
  PROVE  ChangesTold(prompt)
<1>1. PICK s, t, impact : /\ s = Replay(log) /\ t = Replay(MergedEntries(log, drafts, Me))
                          /\ impact = ImpactAnalysis(log, drafts, Me)
  OBVIOUS
<1>2. /\ Shaped(s) /\ Grown(s, t) /\ IsFiniteSet(DOMAIN s.claims)
      /\ \A c \in DOMAIN t.claims \ DOMAIN s.claims : \E n \in LiveIds : c = PreviewId(n)
  BY <1>1, MergedGrows
<1>3. impact.new_claims = NewOf(t) /\ impact.status_changes = ChangesOf(s, t)
  BY <1>1, ImpactIs
<1>4. PICK told : told = FormatImpactAnalysis(impact)
  OBVIOUS
<1>5. /\ told # Unavailable
      /\ told = EmptyMap <=> NewOf(t) = {} /\ ChangesOf(s, t) = {}
      /\ "status_changes" \in DOMAIN told =>
           told.status_changes = {ChangeLine(x) : x \in ChangesOf(s, t)}
  BY <1>3, <1>4, ImpactLines
<1>6. NewOf(t) = {} <=> LiveIds = {}
  BY DEF NewOf
<1>7. LiveIds = {} => (ChangesOf(s, t) = {} <=> Statuses(t) = Statuses(s))
  BY <1>2, NothingChanges
<1>8. told = EmptyMap <=> LiveIds = {} /\ Statuses(t) = Statuses(s)
  BY <1>5, <1>6, <1>7
<1>9. ASSUME "status_changes" \in DOMAIN told, NEW line \in told.status_changes
      PROVE  /\ line.before \notin {"none", line.after}
             /\ \A name \in line.names :
                  line.after = "resolved" <=> t.claims[name.means[2]].resolution # NoResolution
  <2>1. PICK x \in ChangesOf(s, t) : line = ChangeLine(x)
    BY <1>5, <1>9
  <2>2. /\ line.names = {InBrackets(x.claim)}
        /\ line.before \notin {"none", line.after}
        /\ line.after = "resolved" <=> t.claims[x.claim].resolution # NoResolution
    BY <1>2, <2>1, ChangeSays
  <2> QED  BY <2>2, BracketsMean
<1> QED  BY <1>1, <1>4, <1>5, <1>8, <1>9 DEF ChangesTold

-----------------------------------------------------------------------------
(* What is shown *)

\* What the name of a claim in a preview is read as.
LEMMA PreviewedRead ==
  ASSUME NEW id, NEW ds
  PROVE  LET name == Previewed(id, ds)
         IN  ClaimRefOf(name.written) = name.means <=> name.means[1] # "draft"
<1>1. PICK v : v = String("", id)
  OBVIOUS
<1>2. v.json = "string" /\ v.prefix \notin {"draft:", "#"} /\ v.rest = id
  BY <1>1 DEF String
<1>3. ClaimRefOf(v) = Committed(id)
  BY <1>2, StringRead
<1>4. PICK name : name = Previewed(id, ds)
  OBVIOUS
<1>5. name.written = v /\ name.means \in {Draft(id[2]), Committed(id)}
  BY <1>1, <1>4 DEF Previewed, Name
<1>6. Committed(id)[1] = "committed" /\ Draft(id[2])[1] = "draft"
  BY RefParts
<1> QED  BY <1>3, <1>4, <1>5, <1>6

\* A name that is read as what it stands for.
Understood(name) == ClaimRefOf(name.written) = name.means

\* The names in the answers of tools.
LEMMA OutputUnderstood ==
  ASSUME BufferInv, NEW data, data.drafts = drafts, NEW tool, NEW name \in OutputNames(tool, data)
  PROVE  /\ tool = "preview_overview" => (Understood(name) <=> name.means[1] # "draft")
         /\ tool # "preview_overview" => Understood(name)
<1>1. CASE tool = "overview"
  <2>1. OutputNames(tool, data) = {InBrackets(id) : id \in OverviewIds(data.overview)}
    BY <1>1 DEF OutputNames
  <2> QED  BY <1>1, <2>1, SpellingsRead DEF Understood
<1>2. CASE tool = "show_drafts"
  <2>1. OutputNames(tool, data) =
          {InJson(ref) : ref \in UNION {Refs(data.drafts[i].entry) : i \in DOMAIN data.drafts}}
    BY <1>2 DEF OutputNames
  <2>2. PICK i \in DOMAIN drafts : \E ref \in Refs(drafts[i].entry) : name = InJson(ref)
    BY <2>1
  <2> QED  BY <1>2, <2>2, DraftRefs, SpellingsRead DEF Understood
<1>3. CASE tool = "preview_overview" /\ data.materializes
  <2>1. OutputNames(tool, data) = {Previewed(id, data.drafts) : id \in OverviewIds(data.preview)}
    BY <1>3 DEF OutputNames
  <2> QED  BY <1>3, <2>1, PreviewedRead DEF Understood
<1>4. CASE tool = "impact_analysis" /\ data.materializes
  <2>1. OutputNames(tool, data) =
          {InJson(Draft(x.draft)) : x \in data.impact.new_claims}
          \union {InJson(Committed(x.claim)) : x \in data.impact.status_changes}
    BY <1>4 DEF OutputNames
  <2> QED  BY <1>4, <2>1, SpellingsRead DEF Understood
<1>5. CASE /\ tool \notin {"overview", "show_drafts"}
           /\ ~(tool = "preview_overview" /\ data.materializes)
           /\ ~(tool = "impact_analysis" /\ data.materializes)
  <2>1. OutputNames(tool, data) = {}
    BY <1>5 DEF OutputNames
  <2> QED  BY <2>1
<1> QED  BY <1>1, <1>2, <1>3, <1>4, <1>5

\* The names in the prompt.
LEMMA PromptUnderstood ==
  ASSUME BufferInv, LogOK, NEW prompt, NEW impact,
         prompt.overview = FormatOverview(Overview(log)), prompt.drafts = FormatDrafts(drafts),
         prompt.impact = FormatImpactAnalysis(impact), NEW name \in PromptNames(prompt)
  PROVE  Understood(name)
<1>base. PICK base : base = log
  OBVIOUS
<1>1. PICK s : s = Replay(base)
  OBVIOUS
<1>2. IsFiniteSet(DOMAIN s.claims)
  BY <1>base, <1>1, MergedGrows
<1>3. CASE name \in NamesOf(prompt.overview.sections)
  <2>1. name \in {InBrackets(c) : c \in NamedIn(s)}
    BY <1>base, <1>1, <1>2, <1>3, OverviewNamesAre
  <2> QED  BY <2>1, SpellingsRead DEF Understood
<1>4. CASE name \in NamesOf(prompt.impact)
  <2>1. \/ \E x \in impact.new_claims : name = WithHash(x.draft)
        \/ \E x \in impact.status_changes : name = InBrackets(x.claim)
    BY <1>4, ImpactLines
  <2> QED  BY <2>1, SpellingsRead DEF Understood
<1>5. CASE name \in UNION {prompt.drafts[i].names : i \in DOMAIN prompt.drafts}
  <2>1. prompt.drafts = [i \in DOMAIN drafts |-> FormatDraftEntry(drafts[i])]
    BY DEF FormatDrafts
  <2>2. PICK i \in DOMAIN drafts : name \in FormatDraftEntry(drafts[i]).names
    BY <1>5, <2>1
  <2>3. \A d : FormatDraftEntry(d).names = {WithHash(d.id)} \union {FormatClaimRef(ref) : ref \in Refs(d.entry)}
    BY DEF FormatDraftEntry
  <2>4. name = WithHash(drafts[i].id) \/ \E ref \in Refs(drafts[i].entry) : name = FormatClaimRef(ref)
    BY <2>2, <2>3
  <2> QED  BY <2>4, DraftRefs, SpellingsRead DEF Understood
<1> QED  BY <1>3, <1>4, <1>5 DEF PromptNames

\* What the model and the user are shown, in any state.
LEMMA ShownIsFaithful ==
  ASSUME BufferInv, LogOK
  PROVE  ShownFaithful
<1> SUFFICES ASSUME NEW data, data = Data(log, drafts),
                    NEW prompt, prompt = BuildSystemPrompt(data, CliSchemas)
             PROVE  /\ NamesUnderstood(data, prompt) /\ ClaimsFound(prompt)
                    /\ NothingHidden(prompt) /\ ChangesTold(prompt)
                    /\ prompt.tools = DOMAIN CliTools \ Hidden
  BY PreviewsAreFaithful DEF ShownFaithful
<1>1. /\ data.overview = Overview(log) /\ data.drafts = drafts /\ data.materializes
      /\ data.impact = ImpactAnalysis(log, drafts, Me)
  BY DraftsMaterialize DEF Data
<1>2. /\ prompt.overview = FormatOverview(Overview(log)) /\ prompt.drafts = FormatDrafts(drafts)
      /\ prompt.impact = FormatImpactAnalysis(ImpactAnalysis(log, drafts, Me))
      /\ prompt.tools = DOMAIN CliSchemas
  BY <1>1 DEF BuildSystemPrompt
<1>3. ClaimsFound(prompt) /\ NothingHidden(prompt)
  BY <1>2, ClaimsTold
<1>4. ChangesTold(prompt)
  BY <1>2, ChangesAreTold
<1>5. \A name \in PromptNames(prompt) : Understood(name)
  BY <1>1, <1>2, PromptUnderstood
<1>6. \A tool : \A name \in OutputNames(tool, data) :
        /\ tool = "preview_overview" => (Understood(name) <=> name.means[1] # "draft")
        /\ tool # "preview_overview" => Understood(name)
  BY <1>1, OutputUnderstood
<1>7. NamesUnderstood(data, prompt)
  BY <1>5, <1>6 DEF NamesUnderstood, Understood
<1> QED  BY <1>2, <1>3, <1>4, <1>7, SchemasDeclare

\* What the model and the user are shown is so, whatever the session has
\* committed and whatever drafts there are: a preview is what submitting its
\* drafts brings, a name that is told is understood, every claim that is named is
\* found, and none that needs attention is left out (format.rs, preview.rs).
THEOREM ShownAlwaysFaithful == Spec => []ShownFaithful
<1>1. Init => LogOK
  BY DEF Init, LogOK
<1>2. BufferInv /\ LogOK => ShownFaithful
  BY ShownIsFaithful
<1>3. LogOK /\ [Next]_vars => LogOK'
  BY LogStep
<1> QED  BY <1>1, <1>2, <1>3, BufferInit, BufferStep, PTL DEF Spec
=============================================================================
