---------------------------- MODULE MCJsonObject ----------------------------
(* The objects that TLC checks: two values to each key, of which one may   *)
(* take the other's place, in tables of 4 and then 8 cells.                *)
EXTENDS JsonObject, TLC

CONSTANTS k1, k2, k3, k4

MCValues == {<<k, i>> : k \in {k1, k2, k3, k4}, i \in {1, 2}}
MCOffered == [k \in Keys |-> {v \in Values : v[1] = k}]
MCSymmetry == Permutations(Keys)
=============================================================================
