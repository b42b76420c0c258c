------------------------------- MODULE KeyMap -------------------------------
(***************************************************************************)
(* What map.h promises to its users: a partial function on keys.           *)
(***************************************************************************)
CONSTANTS Keys, Vals

VARIABLE map     \* value of every key: {} or {value}

Init == map = [k \in Keys |-> {}]

Put(k, v) == map' = [map EXCEPT ![k] = {v}]
Remove(k) == map' = [map EXCEPT ![k] = {}]

Next == \E k \in Keys : Remove(k) \/ \E v \in Vals : Put(k, v)

Spec == Init /\ [][Next]_map
=============================================================================
