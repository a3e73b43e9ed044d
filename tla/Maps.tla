-------------------------------- MODULE Maps --------------------------------
(***************************************************************************)
(* Finite maps as the code uses them (im::HashMap, im::OrdMap): a map is a *)
(* function whose domain is the set of keys present.  Only membership and  *)
(* lookup are observable; iteration order never is.                        *)
(***************************************************************************)

EmptyMap == [k \in {} |-> {}]

\* f is a map with keys in K and values in V.
IsMap(f, K, V) == DOMAIN f \subseteq K /\ f \in [DOMAIN f -> V]

\* HashMap::update: insert, or overwrite the value of a key already present.
Put(f, key, value) ==
  [k \in DOMAIN f \union {key} |-> IF k = key THEN value ELSE f[k]]

\* HashMap::without, for a set of keys at once.
Without(f, Keys) == [k \in DOMAIN f \ Keys |-> f[k]]
=============================================================================
