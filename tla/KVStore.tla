-------------------------------- MODULE KVStore --------------------------------
(***************************************************************************)
(* What an FPTree promises to its callers: a map from keys to values that  *)
(* insert, remove, update and find work on and that reopening the tree     *)
(* keeps.  call is the last call, the operation with its arguments as the  *)
(* caller gave them, and ret is what it returned.                          *)
(***************************************************************************)
CONSTANTS Key, Value, MAX_VALUE

VARIABLES map, call, ret

Absent == MAX_VALUE

Bool(b) == IF b THEN "true" ELSE "false"

Init ==
    /\ map = [k \in Key |-> Absent]
    /\ call = <<"reopen">>
    /\ ret = "void"

\* Callers insert keys that are not in the tree.
insert(k, v) ==
    /\ call' = <<"insert", k, v>>
    /\ ret' = "void"
    /\ map[k] = Absent
    /\ map' = [map EXCEPT ![k] = v]

remove(k) ==
    /\ call' = <<"remove", k>>
    /\ ret' = Bool(map[k] # Absent)
    /\ map' = [map EXCEPT ![k] = Absent]

update(k, v) ==
    /\ call' = <<"update", k, v>>
    /\ ret' = Bool(map[k] # Absent)
    /\ map' = IF map[k] = Absent THEN map ELSE [map EXCEPT ![k] = v]

find(k) ==
    /\ call' = <<"find", k>>
    /\ ret' = map[k]
    /\ map' = map

reopen ==
    /\ call' = <<"reopen">>
    /\ ret' = "void"
    /\ map' = map

Next ==
    \/ \E k \in Key, v \in Value : insert(k, v)
    \/ \E k \in Key : remove(k)
    \/ \E k \in Key, v \in Value : update(k, v)
    \/ \E k \in Key : find(k)
    \/ reopen

Spec == Init /\ [][Next]_<<map, call, ret>>
================================================================================
