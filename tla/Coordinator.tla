----------------------------- MODULE Coordinator -----------------------------
(***************************************************************************)
(* The pure coordinator of a session participant (coordinator.rs): one     *)
(* slot per known position of the log, requested or received, and the      *)
(* fetches planned for what is missing.  Positions count from 1, one more  *)
(* than the indices of the code; a latest entry index of None is 0.        *)
(***************************************************************************)
EXTENDS Integers, Sequences

CONSTANTS
  Payload,      \* the entries of a log
  Requested,    \* the content of a slot that waits for its entry
  PageLimit     \* State::page_limit, the most entries one fetch may ask for

ASSUME RequestedAssumption == Requested \notin Payload
\* init returns InvalidPageLimit for 0, State::empty asserts against it.
ASSUME PageLimitAssumption == PageLimit \in Nat \ {0}

Slot == Payload \union {Requested}
Missing(slots) == {i \in DOMAIN slots : slots[i] = Requested}

\* Mutant: growing forgets what was received.
ExtendAnew(slots, position) ==
  IF position <= Len(slots) THEN slots ELSE [i \in 1 .. position |-> Requested]

\* apply_latest_index: slots up to the position are known, none is forgotten.
Extend(slots, position) ==
  IF position <= Len(slots) THEN slots
  ELSE [i \in 1 .. position |->
          IF i <= Len(slots) THEN slots[i] ELSE Requested]

\* plan_missing_fetches: every run of missing slots is cut into pages from its
\* start, each as long as the limit and the run allow.
StartsPage(slots, i) ==
  \E start \in 1 .. i :
    /\ start .. i \subseteq Missing(slots)
    /\ start - 1 \notin Missing(slots)
    /\ (i - start) % PageLimit = 0

\* Mutant: the pages of a run are counted by integer division.
WholePages(slots) ==
  {f \in [from : Missing(slots), limit : {PageLimit}] :
     /\ StartsPage(slots, f.from)
     /\ f.from .. (f.from + f.limit - 1) \subseteq Missing(slots)}

Fetches(slots) ==
  {f \in [from : Missing(slots), limit : 1 .. PageLimit] :
     /\ StartsPage(slots, f.from)
     /\ f.from .. (f.from + f.limit - 1) \subseteq Missing(slots)
     /\ f.limit = PageLimit \/ f.from + f.limit \notin Missing(slots)}

\* reduce, Received: the first entry of a slot stays.
Received(slots, i, entry) ==
  LET known == Extend(slots, i)
  IN  IF known[i] = Requested THEN [known EXCEPT ![i] = entry] ELSE known

\* Mutant: only the gap the entry opens is planned, not those left before.
FetchesOfNewGap(slots, i, entry) ==
  {f \in Fetches(Received(slots, i, entry)) : f.from > Len(slots)}

\* Only an entry beyond the known slots plans fetches.
FetchesOnReceived(slots, i, entry) ==
  IF i <= Len(slots) THEN {} ELSE Fetches(Received(slots, i, entry))

\* committed_prefix: what precedes the first missing slot.
Committed(slots) ==
  {i \in DOMAIN slots : \A j \in 1 .. i : slots[j] # Requested}
CommittedPrefix(slots) == [i \in Committed(slots) |-> slots[i]]
=============================================================================
