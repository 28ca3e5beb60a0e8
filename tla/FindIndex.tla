------------------------------- MODULE FindIndex -------------------------------
(***************************************************************************)
(* The loop of InnerNode::findIndex (src/fptree.cpp), one iteration per    *)
(* step, on any sorted array of keys.  Every descent of the tree, and the  *)
(* place of every new separator, is the index it returns.                  *)
(***************************************************************************)
EXTENDS Integers

CONSTANTS MAX_KEYS,  \* keys in the largest node
          Key

ASSUME SearchAssumption == MAX_KEYS \in Nat /\ Key \subseteq Int

VARIABLES nKeys, keys,  \* the node's keys[0 .. nKeys-1]
          k,            \* the argument
          left, right,
          pc            \* "loop" or "return"

input == <<nKeys, keys, k>>
vars == <<input, left, right, pc>>

Sorted(a, n) == \A i, j \in 0 .. n - 1 : i < j => a[i] <= a[j]

TypeOK ==
    /\ nKeys \in 0 .. MAX_KEYS
    /\ keys \in [0 .. nKeys - 1 -> Key]
    /\ k \in Key
    /\ left \in 0 .. nKeys
    /\ right \in -1 .. nKeys - 1
    /\ pc \in {"loop", "return"}

Init ==
    /\ nKeys \in 0 .. MAX_KEYS
    /\ keys \in [0 .. nKeys - 1 -> Key]
    /\ Sorted(keys, nKeys)
    /\ k \in Key
    /\ left = 0
    /\ right = nKeys - 1
    /\ pc = "loop"

mid == (left + right) \div 2

\* Mutant: right keeps the middle position that is known to be too large.
searchLeftKeepsMid ==
    /\ pc = "loop" /\ left <= right /\ keys[mid] > k
    /\ right' = mid
    /\ UNCHANGED <<input, left, pc>>

searchLeft ==
    /\ pc = "loop" /\ left <= right /\ keys[mid] > k
    /\ right' = mid - 1
    /\ UNCHANGED <<input, left, pc>>

\* Mutant: a key equal to the argument sends the search to the left.
searchRightStrict ==
    /\ pc = "loop" /\ left <= right /\ ~(keys[mid] > k)
    /\ IF keys[mid] = k THEN right' = mid - 1 /\ UNCHANGED left
                        ELSE left' = mid + 1 /\ UNCHANGED right
    /\ UNCHANGED <<input, pc>>

\* Mutant: the lower bound skips a position.
searchRightSkips ==
    /\ pc = "loop" /\ left <= right /\ ~(keys[mid] > k)
    /\ left' = mid + 2
    /\ UNCHANGED <<input, right, pc>>

searchRight ==
    /\ pc = "loop" /\ left <= right /\ ~(keys[mid] > k)
    /\ left' = mid + 1
    /\ UNCHANGED <<input, right, pc>>

return ==
    /\ pc = "loop" /\ left > right
    /\ pc' = "return"
    /\ UNCHANGED <<input, left, right>>

Next == searchLeft \/ searchRight \/ return

Spec == Init /\ [][Next]_vars

\* The loop runs in the calling thread and never waits.
FairSpec == Spec /\ WF_vars(Next)
-------------------------------------------------------------------------------
\* findIndex returns the position of the first key larger than k, nKeys if there
\* is none: equal keys are on the left, so a leaf holds the keys from its
\* separator on.
ReturnsFirstLarger ==
    pc = "return" =>
        /\ \A i \in 0 .. nKeys - 1 : i < left => keys[i] <= k
        /\ \A i \in 0 .. nKeys - 1 : i >= left => keys[i] > k

\* The loop ends for every array, the empty one included.
Terminates == <>(pc = "return")
================================================================================
