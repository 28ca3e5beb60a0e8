---------------------------- MODULE FindIndex_proofs ----------------------------
(***************************************************************************)
(* findIndex is correct for every sorted array of integer keys.            *)
(***************************************************************************)
EXTENDS FindIndex, TLAPS

\* The keys before left are not larger than k, the keys after right are, and the
\* two positions never cross by more than one.
LoopInv ==
    /\ TypeOK
    /\ Sorted(keys, nKeys)
    /\ left <= right + 1
    /\ \A i \in 0 .. nKeys - 1 : i < left => keys[i] <= k
    /\ \A i \in 0 .. nKeys - 1 : i > right => keys[i] > k
    /\ pc = "return" => left > right

\* The position the loop reads is inside the part still to search.
LEMMA MidInside ==
    ASSUME LoopInv, left <= right
    PROVE  /\ left \in Int /\ right \in Int /\ nKeys \in Int
           /\ mid \in 0 .. nKeys - 1 /\ left <= mid /\ mid <= right
<1>1. left \in 0 .. nKeys /\ right \in -1 .. nKeys - 1 /\ nKeys \in Nat
  BY SearchAssumption DEF LoopInv, TypeOK
<1>2. (left + right) \div 2 \in Int /\ left <= (left + right) \div 2
      /\ (left + right) \div 2 <= right
  BY <1>1
<1> QED
  BY <1>1, <1>2 DEF mid

\* All keys are integers, and the array is ordered by position.
LEMMA KeyFacts ==
    ASSUME LoopInv
    PROVE  /\ k \in Int
           /\ \A i \in 0 .. nKeys - 1 : keys[i] \in Int
           /\ \A i, j \in 0 .. nKeys - 1 : i < j => keys[i] <= keys[j]
BY SearchAssumption, ZenonT(60) DEF LoopInv, TypeOK, Sorted

\* LoopInv is kept by both branches of the loop and by the return.
THEOREM LoopInvariance == Spec => []LoopInv
<1>1. Init => LoopInv
  BY SearchAssumption DEF Init, LoopInv, TypeOK
<1>2. LoopInv /\ [Next]_vars => LoopInv'
  <2> SUFFICES ASSUME LoopInv, [Next]_vars PROVE LoopInv'
    OBVIOUS
  <2>1. CASE searchLeft
    <3>1. /\ nKeys' = nKeys /\ keys' = keys /\ k' = k /\ left' = left /\ pc' = pc
          /\ right' = mid - 1 /\ left <= right /\ keys[mid] > k /\ pc = "loop"
      BY <2>1 DEF searchLeft, input
    <3>2. /\ left \in Int /\ right \in Int /\ nKeys \in Int
          /\ mid \in 0 .. nKeys - 1 /\ left <= mid /\ mid <= right
      BY <3>1, MidInside
    <3>3. TypeOK' /\ Sorted(keys, nKeys)'
      BY <3>1, <3>2 DEF LoopInv, TypeOK, Sorted
    <3>4. \A i \in 0 .. nKeys - 1 : i > mid - 1 => keys[i] > k
      BY <3>1, <3>2, KeyFacts
    <3> QED
      BY <3>1, <3>2, <3>3, <3>4 DEF LoopInv
  <2>2. CASE searchRight
    <3>1. /\ nKeys' = nKeys /\ keys' = keys /\ k' = k /\ right' = right /\ pc' = pc
          /\ left' = mid + 1 /\ left <= right /\ ~(keys[mid] > k) /\ pc = "loop"
      BY <2>2 DEF searchRight, input
    <3>2. /\ left \in Int /\ right \in Int /\ nKeys \in Int
          /\ mid \in 0 .. nKeys - 1 /\ left <= mid /\ mid <= right
      BY <3>1, MidInside
    <3>3. TypeOK' /\ Sorted(keys, nKeys)'
      BY <3>1, <3>2 DEF LoopInv, TypeOK, Sorted
    <3>4. \A i \in 0 .. nKeys - 1 : i < mid + 1 => keys[i] <= k
      BY <3>1, <3>2, KeyFacts
    <3> QED
      BY <3>1, <3>2, <3>3, <3>4 DEF LoopInv
  <2>3. CASE return
    BY <2>3 DEF return, input, LoopInv, TypeOK, Sorted
  <2>4. CASE UNCHANGED vars
    BY <2>4 DEF vars, input, LoopInv, TypeOK, Sorted
  <2> QED
    BY <2>1, <2>2, <2>3, <2>4 DEF Next
<1> QED
  BY <1>1, <1>2, PTL DEF Spec

\* The bounds stay inside the array, whatever the keys.
THEOREM SearchTypeCorrect == Spec => []TypeOK
<1>1. LoopInv => TypeOK
  BY DEF LoopInv
<1> QED
  BY <1>1, LoopInvariance, PTL

\* findIndex returns the position of the first key larger than its argument.
THEOREM SearchCorrect == Spec => []ReturnsFirstLarger
<1>1. LoopInv => ReturnsFirstLarger
  BY SearchAssumption DEF LoopInv, TypeOK, ReturnsFirstLarger
<1> QED
  BY <1>1, LoopInvariance, PTL
================================================================================
