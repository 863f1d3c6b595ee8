------------------------------ MODULE JsonMap ------------------------------
(***************************************************************************)
(* What an object of parson promises: a map from names to values.  Calls   *)
(* that fail change nothing.                                               *)
(***************************************************************************)
CONSTANTS Keys, Values, NULL

VARIABLE map   \* the value of each name, or NULL

Init == map = [k \in Keys |-> NULL]

\* k gets a value that no name had; the other names keep theirs.
Put(k) ==
  /\ map'[k] \in Values \ {map[other] : other \in Keys}
  /\ map' = [map EXCEPT ![k] = map'[k]]

Remove(k) == map[k] # NULL /\ map' = [map EXCEPT ![k] = NULL]

Clear == map' = [k \in Keys |-> NULL]

Next ==
  \/ \E k \in Keys : Put(k) \/ Remove(k)
  \/ Clear

Spec == Init /\ [][Next]_map
=============================================================================
