---------------------------- MODULE LeafChain_proofs ----------------------------
(***************************************************************************)
(* Proofs about LeafChain for every LEAF_GROUP_AMOUNT and MAX_FILES.       *)
(***************************************************************************)
EXTENDS LeafChain, TLAPS

(***************************************************************************)
(* Facts about sequences.  SequenceTheorems has them too, with many others *)
(* that every proof of this module, and of one that instantiates it, would *)
(* carry along.                                                            *)
(***************************************************************************)
\* A function on 1 .. n is a sequence.
LEMMA SeqDef == ASSUME NEW S, NEW n \in Nat, NEW f \in [1 .. n -> S]
                PROVE  f \in Seq(S) /\ Len(f) = n
  OBVIOUS

\* A sequence over a set is one over any larger set.
LEMMA SeqMonotonic ==
    ASSUME NEW S, NEW T, S \subseteq T, NEW s \in Seq(S)
    PROVE  s \in Seq(T)
  OBVIOUS

\* What a sequence has at its positions.
LEMMA ElementOfSeq ==
    ASSUME NEW S, NEW s \in Seq(S)
    PROVE  \A i \in 1 .. Len(s) : s[i] \in S
  OBVIOUS

\* The empty sequence is the one without positions.
LEMMA EmptySeq ==
    ASSUME NEW S
    PROVE  << >> \in Seq(S) /\ Len(<< >>) = 0 /\ \A s \in Seq(S) : s # << >> => Len(s) \in Nat \ {0}
  OBVIOUS

\* A sequence is a function on its positions.
LEMMA LenProperties ==
    ASSUME NEW S, NEW s \in Seq(S)
    PROVE  Len(s) \in Nat /\ DOMAIN s = 1 .. Len(s) /\ s \in [1 .. Len(s) -> S]
  OBVIOUS

\* Sequences of one length with the same elements are equal.
LEMMA SeqEqual ==
    ASSUME NEW S, NEW s \in Seq(S), NEW t \in Seq(S),
           Len(s) = Len(t), \A i \in 1 .. Len(s) : s[i] = t[i]
    PROVE  s = t
  OBVIOUS

\* What a concatenation has at its positions.
LEMMA ConcatProperties ==
    ASSUME NEW S, NEW s \in Seq(S), NEW t \in Seq(S)
    PROVE  /\ s \o t \in Seq(S) /\ Len(s \o t) = Len(s) + Len(t)
           /\ \A i \in 1 .. Len(s) + Len(t) :
                (s \o t)[i] = IF i <= Len(s) THEN s[i] ELSE t[i - Len(s)]
  OBVIOUS

\* The empty sequence changes nothing.
LEMMA ConcatEmptySeq ==
    ASSUME NEW S, NEW s \in Seq(S)
    PROVE  s \o << >> = s /\ << >> \o s = s
  OBVIOUS

\* What a part of a sequence has at its positions.
LEMMA SubSeqProperties ==
    ASSUME NEW S, NEW s, NEW m \in Int, NEW n \in Int, \A i \in m .. n : s[i] \in S
    PROVE  /\ SubSeq(s, m, n) \in Seq(S)
           /\ Len(SubSeq(s, m, n)) = IF m <= n THEN n - m + 1 ELSE 0
           /\ \A i \in 1 .. n - m + 1 : SubSeq(s, m, n)[i] = s[m + i - 1]
  OBVIOUS

\* What a sequence with one more element has at its positions.
LEMMA AppendProperties ==
    ASSUME NEW S, NEW s \in Seq(S), NEW e \in S
    PROVE  /\ Append(s, e) \in Seq(S) /\ Append(s, e) # << >> /\ Len(Append(s, e)) = Len(s) + 1
           /\ \A i \in 1 .. Len(s) : Append(s, e)[i] = s[i]
           /\ Append(s, e)[Len(s) + 1] = e
  OBVIOUS

-------------------------------------------------------------------------------

\* freeNum is the length of freeList, and each of the first freeNum entries of
\* free_list is either a hole or the same leaf as in freeList.
FileBacksList ==
    /\ freeNum = Len(freeList)
    /\ freeNum <= Len(freeListFile)
    /\ \A i \in 1 .. Len(freeList) : freeListFile[i] \in {NullPPointer, freeList[i]}

ListIsFree ==
    \A i \in 1 .. Len(freeList) :
        freeList[i] = NullPPointer \/ ifLeafFree(freeList[i])

ListIsDistinct ==
    \A i, j \in 1 .. Len(freeList) :
        freeList[i] = freeList[j] /\ freeList[i] # NullPPointer => i = j

InChain(p) == \E i \in 1 .. Len(leaves) : leaves[i] = p

UsedIsChain == \A p \in Leaves : ifLeafUsed(p) <=> InChain(p)

ChainIsDistinct ==
    \A i, j \in 1 .. Len(leaves) : leaves[i] = leaves[j] => i = j

\* A destroyed allocator left in the catalog what its fields still hold.
CatalogIsCurrent ==
    pAllocator = "NULL" =>
        IF catalog = NoFile
        THEN maxFileId = 1 /\ freeNum = 0 /\ startLeaf = NullPPointer
        ELSE catalog = persistCatalog(startLeaf)

\* While bulkLoading runs, list is a prefix of leaves and ppt the next leaf.
LoadedPrefix ==
    /\ tree = "none" => list = << >>
    /\ tree = "loading" =>
        /\ Len(list) <= Len(leaves)
        /\ \A i \in 1 .. Len(list) : list[i] = leaves[i]
        /\ ppt = IF Len(list) < Len(leaves) THEN leaves[Len(list) + 1]
                                            ELSE NullPPointer
    /\ tree = "open" => list = leaves

FreeInv == FileBacksList /\ ListIsFree /\ ListIsDistinct

ChainInv == UsedIsChain /\ ChainIsDistinct /\ PersistentChain

\* The inductive invariant.
IInv == TypeOK /\ FreeInv /\ ChainInv /\ CatalogIsCurrent /\ LoadedPrefix
-------------------------------------------------------------------------------
\* InsertAt puts one element in and shifts the rest.
InsertedAt(s, k, e, i) == IF i < k THEN s[i] ELSE IF i = k THEN e ELSE s[i - 1]

\* InsertAt puts one element in and keeps the order of the others.
LEMMA InsertAtFacts ==
    ASSUME NEW S, NEW s \in Seq(S), NEW k \in 1 .. Len(s) + 1, NEW e \in S
    PROVE  /\ InsertAt(s, k, e) \in Seq(S)
           /\ Len(InsertAt(s, k, e)) = Len(s) + 1
           /\ \A i \in 1 .. Len(s) + 1 :
                InsertAt(s, k, e)[i] = InsertedAt(s, k, e, i)
<1>0. Len(s) \in Nat /\ k \in Int
  BY LenProperties
<1> DEFINE a == SubSeq(s, 1, k - 1)
           b == SubSeq(s, k, Len(s))
           m == a \o << e >>
           r == m \o b
<1>1. /\ a \in Seq(S) /\ Len(a) = k - 1
      /\ \A i \in 1 .. k - 1 : a[i] = s[i]
  BY SubSeqProperties, ElementOfSeq
<1>2. /\ b \in Seq(S) /\ Len(b) = Len(s) - k + 1
      /\ \A i \in 1 .. Len(s) - k + 1 : b[i] = s[k + i - 1]
  BY SubSeqProperties, ElementOfSeq
<1>3. << e >> \in Seq(S) /\ Len(<< e >>) = 1 /\ << e >>[1] = e
  OBVIOUS
<1> HIDE DEF a, b
<1>4. /\ m \in Seq(S) /\ Len(m) = k
      /\ \A i \in 1 .. k : m[i] = IF i < k THEN s[i] ELSE e
  BY <1>1, <1>3, ConcatProperties
<1> HIDE DEF m
<1>5. /\ r \in Seq(S) /\ Len(r) = Len(m) + Len(b)
      /\ \A i \in 1 .. Len(m) + Len(b) :
            r[i] = IF i <= Len(m) THEN m[i] ELSE b[i - Len(m)]
  BY <1>2, <1>4, ConcatProperties, ZenonT(60)
<1> HIDE DEF r
<1>6. InsertAt(s, k, e) = r
  BY DEF InsertAt, a, b, m, r
<1>7. Len(m) + Len(b) = Len(s) + 1
  BY <1>2, <1>4
<1>8. ASSUME NEW i \in 1 .. Len(s) + 1
      PROVE  r[i] = InsertedAt(s, k, e, i)
  <2>1. CASE i <= k
    BY <2>1, <1>4, <1>5, <1>7 DEF InsertedAt
  <2>2. CASE i > k
    <3>1. i - k \in 1 .. Len(s) - k + 1 /\ k + (i - k) - 1 = i - 1
      BY <2>2
    <3>2. r[i] = b[i - k]
      BY <2>2, <1>4, <1>5, <1>7
    <3> QED
      BY <2>2, <3>1, <3>2, <1>0, <1>2 DEF InsertedAt
  <2> QED
    BY <2>1, <2>2, <1>0
<1> QED
  BY <1>5, <1>6, <1>7, <1>8

\* RemoveAt takes one element out and closes the gap.
LEMMA RemoveAtFacts ==
    ASSUME NEW S, NEW s \in Seq(S), NEW k \in 1 .. Len(s)
    PROVE  /\ RemoveAt(s, k) \in Seq(S)
           /\ Len(RemoveAt(s, k)) = Len(s) - 1
           /\ \A i \in 1 .. Len(s) - 1 :
                RemoveAt(s, k)[i] = IF i < k THEN s[i] ELSE s[i + 1]
<1>0. Len(s) \in Nat /\ k \in Int
  BY LenProperties
<1> DEFINE a == SubSeq(s, 1, k - 1)
           b == SubSeq(s, k + 1, Len(s))
           r == a \o b
<1>1. /\ a \in Seq(S) /\ Len(a) = k - 1
      /\ \A i \in 1 .. k - 1 : a[i] = s[i]
  BY SubSeqProperties, ElementOfSeq
<1>2. /\ b \in Seq(S) /\ Len(b) = Len(s) - k
      /\ \A i \in 1 .. Len(s) - k : b[i] = s[k + i]
  BY SubSeqProperties, ElementOfSeq
<1> HIDE DEF a, b
<1>3. /\ r \in Seq(S) /\ Len(r) = Len(a) + Len(b)
      /\ \A i \in 1 .. Len(a) + Len(b) :
            r[i] = IF i <= Len(a) THEN a[i] ELSE b[i - Len(a)]
  BY <1>1, <1>2, ConcatProperties, Zenon
<1> HIDE DEF r
<1>4. RemoveAt(s, k) = r
  BY DEF RemoveAt, a, b, r
<1>5. Len(a) + Len(b) = Len(s) - 1
  BY <1>1, <1>2
<1>6. ASSUME NEW i \in 1 .. Len(s) - 1
      PROVE  r[i] = IF i < k THEN s[i] ELSE s[i + 1]
  <2>1. CASE i < k
    BY <2>1, <1>1, <1>3, <1>5
  <2>2. CASE i >= k
    <3>1. /\ i \in 1 .. Len(a) + Len(b) /\ ~(i <= Len(a))
          /\ i - Len(a) \in 1 .. Len(s) - k
          /\ k + (i - Len(a)) = i + 1
      BY <2>2, <1>0, <1>1, <1>5
    <3>2. r[i] = b[i - Len(a)]
      BY <3>1, <1>3
    <3>3. b[i - Len(a)] = s[k + (i - Len(a))]
      BY <3>1, <1>2, SMTT(60)
    <3> QED
      BY <2>2, <3>1, <3>2, <3>3, <1>0, SMTT(60)
  <2> QED
    BY <2>1, <2>2, <1>0
<1> QED
  BY <1>3, <1>4, <1>5, <1>6, SMTT(60)
-------------------------------------------------------------------------------
\* A leaf is not the null pointer, and both are PPointers.
LEMMA PointerFacts ==
    /\ NullPPointer \notin Leaves
    /\ NullPPointer \in PPointer
    /\ \A p \in Leaves : p \in PPointer /\ p.fileId \in FileIds /\ p.offset \in Offsets
    /\ \A p \in PPointer : p = NullPPointer \/ p \in Leaves
    /\ \A max \in Int : ~existsBelow(NullPPointer, max)
    /\ \A p \in Leaves, max \in Int : existsBelow(p, max) <=> p.fileId < max
BY AllocatorAssumption
   DEF NullPPointer, Leaves, PPointer, FileIds, Offsets, existsBelow, ILLEGAL_FILE_ID

\* The leaves of one group file, in the order newLeafGroup lists them.
LEMMA GroupFacts ==
    ASSUME NEW f \in FileIds
    PROVE  /\ groupLeaves(f) \in Seq(Leaves)
           /\ Len(groupLeaves(f)) = LEAF_GROUP_AMOUNT
           /\ \A i \in 1 .. LEAF_GROUP_AMOUNT :
                groupLeaves(f)[i] = [fileId |-> f, offset |-> i - 1]
<1> DEFINE g == groupLeaves(f)
<1>1. \A i \in 1 .. LEAF_GROUP_AMOUNT : [fileId |-> f, offset |-> i - 1] \in Leaves
  BY AllocatorAssumption DEF Leaves, Offsets
<1>2. g \in [1 .. LEAF_GROUP_AMOUNT -> Leaves]
  BY <1>1 DEF groupLeaves
<1>3. g \in Seq(Leaves)
  BY <1>2, AllocatorAssumption, SeqDef
<1>4. Len(g) = LEAF_GROUP_AMOUNT
  BY <1>2, <1>3, LenProperties, AllocatorAssumption
<1> QED
  BY <1>3, <1>4, ZenonT(60) DEF groupLeaves

\* The hole that truncation and seekp leave in free_list.
LEMMA HoleFacts ==
    ASSUME NEW n \in Nat
    PROVE  /\ truncatedTo(n) \in Seq(PPointer)
           /\ Len(truncatedTo(n)) = n
           /\ \A i \in 1 .. n : truncatedTo(n)[i] = NullPPointer
<1>1. truncatedTo(n) \in [1 .. n -> PPointer]
  BY PointerFacts DEF truncatedTo
<1>2. truncatedTo(n) \in Seq(PPointer)
  BY <1>1, SeqDef
<1>3. Len(truncatedTo(n)) = n
  BY <1>1, <1>2, LenProperties
<1> QED
  BY <1>2, <1>3 DEF truncatedTo

\* What getLeaf works on, after newLeafGroup if it was needed: the free list is
\* not empty and still sound, and no leaf in use has changed.
SupplyOK(s) ==
    /\ s.num \in Nat \ {0}
    /\ s.list \in Seq(PPointer) /\ Len(s.list) = s.num
    /\ s.file \in Seq(PPointer) /\ s.num <= Len(s.file)
    /\ \A i \in 1 .. s.num : s.file[i] \in {NullPPointer, s.list[i]}
    /\ s.max \in 1 .. MAX_FILES + 1 /\ maxFileId <= s.max
    /\ s.used \in [FileIds -> Int]
    /\ s.bits \in [Leaves -> {0, 1}]
    /\ s.next \in [Leaves -> PPointer]
    /\ \A i \in 1 .. s.num : s.list[i] = NullPPointer \/
            (s.list[i] \in Leaves /\ s.list[i].fileId < s.max /\ s.bits[s.list[i]] = 0)
    /\ \A i, j \in 1 .. s.num :
            s.list[i] = s.list[j] /\ s.list[i] # NullPPointer => i = j
    /\ \A q \in Leaves : (q.fileId < s.max /\ s.bits[q] = 1) <=> ifLeafUsed(q)
    /\ \A q \in Leaves : q.fileId < maxFileId => s.next[q] = pNext[q]

\* The free leaves getLeaf chooses from, after newLeafGroup if none was left.
LEMMA SupplyFacts ==
    ASSUME TypeOK, FreeInv, freeNum # 0 \/ canMapFile
    PROVE  SupplyOK(supply)
<1> USE DEF TypeOK, AllocTypeOK
<1>0. freeNum \in Nat /\ maxFileId \in Int
  OBVIOUS
<1>1. CASE freeNum # 0
  <2>1. /\ supply.list = freeList /\ supply.file = freeListFile
        /\ supply.num = freeNum /\ supply.max = maxFileId
        /\ supply.used = usedNum /\ supply.bits = bitmap /\ supply.next = pNext
    BY <1>1 DEF supply
  <2>2. \A i \in 1 .. freeNum : freeList[i] \in PPointer
    BY ElementOfSeq DEF FreeInv, FileBacksList
  <2>3. \A i \in 1 .. freeNum : freeList[i] = NullPPointer \/
            (freeList[i] \in Leaves /\ freeList[i].fileId < maxFileId
                                   /\ bitmap[freeList[i]] = 0)
    BY <2>2, PointerFacts
       DEF FreeInv, FileBacksList, ListIsFree, ifLeafFree, ifLeafExist
  <2>4. \A q \in Leaves : (q.fileId < maxFileId /\ bitmap[q] = 1) <=> ifLeafUsed(q)
    BY PointerFacts DEF ifLeafUsed, ifLeafFree, ifLeafExist
  <2>5. freeNum = Len(freeList) /\ freeNum <= Len(freeListFile)
    BY DEF FreeInv, FileBacksList
  <2> QED
    BY <1>1, <2>1, <2>3, <2>4, <2>5
       DEF SupplyOK, FreeInv, FileBacksList, ListIsDistinct
<1>2. CASE freeNum = 0
  <2> DEFINE g == groupLeaves(maxFileId)
  <2>1. maxFileId \in FileIds
    BY <1>2, AllocatorAssumption DEF canMapFile, FileIds
  <2>2. /\ g \in Seq(Leaves) /\ Len(g) = LEAF_GROUP_AMOUNT
        /\ \A i \in 1 .. LEAF_GROUP_AMOUNT : g[i] = [fileId |-> maxFileId, offset |-> i - 1]
    BY <2>1, GroupFacts
  <2>3. freeList = << >> /\ truncatedTo(freeNum) = << >>
    BY <1>2, HoleFacts, EmptySeq, ZenonT(60) DEF FreeInv, FileBacksList
  <2> HIDE DEF g
  <2>4. /\ g \in Seq(PPointer) /\ freeList \o g = g
        /\ truncatedTo(freeNum) \o g = g
    BY <2>2, <2>3, ConcatEmptySeq, SeqMonotonic, PointerFacts
  <2>5. /\ supply.list = g /\ supply.file = g
        /\ supply.num = LEAF_GROUP_AMOUNT /\ supply.max = maxFileId + 1
        /\ supply.used = [usedNum EXCEPT ![maxFileId] = 0]
        /\ supply.bits = [p \in Leaves |-> IF p.fileId = maxFileId THEN 0 ELSE bitmap[p]]
        /\ supply.next = [p \in Leaves |-> IF p.fileId = maxFileId THEN NullPPointer
                                                                  ELSE pNext[p]]
    <3>1. supply = newLeafGroup
      BY <1>2, Zenon DEF supply
    <3>2. /\ newLeafGroup.list = freeList \o g /\ newLeafGroup.file = truncatedTo(freeNum) \o g
          /\ newLeafGroup.num = freeNum + LEAF_GROUP_AMOUNT /\ newLeafGroup.max = maxFileId + 1
          /\ newLeafGroup.used = [usedNum EXCEPT ![maxFileId] = 0]
          /\ newLeafGroup.bits = [p \in Leaves |-> IF p.fileId = maxFileId THEN 0 ELSE bitmap[p]]
          /\ newLeafGroup.next = [p \in Leaves |-> IF p.fileId = maxFileId THEN NullPPointer
                                                                      ELSE pNext[p]]
      BY DEF newLeafGroup, g
    <3>3. freeNum + LEAF_GROUP_AMOUNT = LEAF_GROUP_AMOUNT
      BY <1>2, AllocatorAssumption
    <3> QED
      BY <2>4, <3>1, <3>2, <3>3, Zenon
  <2>6. LEAF_GROUP_AMOUNT \in Nat \ {0} /\ MAX_FILES \in Nat
    BY AllocatorAssumption
  <2>7. \A i \in 1 .. LEAF_GROUP_AMOUNT : g[i] \in Leaves
    BY <2>2, ElementOfSeq
  <2>8. supply.bits \in [Leaves -> {0, 1}] /\ supply.next \in [Leaves -> PPointer]
    BY <2>5, PointerFacts
  <2>9. \A q \in Leaves : q.fileId \in Int
    BY PointerFacts DEF FileIds
  <2>10. \A q \in Leaves :
            (q.fileId < supply.max /\ supply.bits[q] = 1) <=> ifLeafUsed(q)
    BY <1>0, <2>5, <2>9, PointerFacts DEF ifLeafUsed, ifLeafFree, ifLeafExist
  <2>11. \A q \in Leaves : q.fileId < maxFileId => supply.next[q] = pNext[q]
    BY <1>0, <2>5, <2>9
  <2>12. \A i, j \in 1 .. LEAF_GROUP_AMOUNT : g[i] = g[j] => i = j
    BY <2>2
  <2>13. \A i \in 1 .. LEAF_GROUP_AMOUNT :
            g[i].fileId < maxFileId + 1 /\ supply.bits[g[i]] = 0
    BY <1>0, <2>2, <2>5, <2>7
  <2>14. supply.max \in 1 .. MAX_FILES + 1 /\ maxFileId <= supply.max
    BY <2>1, <2>5, <2>6, SMTT(60) DEF FileIds
  <2>15. supply.used \in [FileIds -> Int]
    <3>1. usedNum \in [FileIds -> Int]
      OBVIOUS
    <3> QED
      BY <2>1, <2>5, <3>1
  <2>16. \A i \in 1 .. supply.num : supply.file[i] \in {NullPPointer, supply.list[i]}
    BY <2>5
  <2>17. /\ supply.num \in Nat \ {0} /\ supply.list \in Seq(PPointer)
         /\ Len(supply.list) = supply.num /\ supply.file \in Seq(PPointer)
         /\ supply.num <= Len(supply.file)
    BY <2>2, <2>4, <2>5, <2>6
  <2>18. \A i \in 1 .. supply.num :
            supply.list[i] \in Leaves /\ supply.list[i].fileId < supply.max
                                     /\ supply.bits[supply.list[i]] = 0
    BY <2>5, <2>7, <2>13
  <2>19. \A i, j \in 1 .. supply.num : supply.list[i] = supply.list[j] => i = j
    BY <2>5, <2>12
  <2> QED
    BY <2>8, <2>10, <2>11, <2>14, <2>15, <2>16, <2>17, <2>18, <2>19 DEF SupplyOK
<1> QED
  BY <1>1, <1>2

\* getLeaf hands out a leaf outside the chain, marks it used and touches no
\* other leaf in use; the free list stays sound.
LEMMA GetLeafFacts ==
    ASSUME IInv, NEW p \in Leaves, getLeaf(p)
    PROVE  /\ ~InChain(p)
           /\ pAllocator' = pAllocator /\ pAllocator = "live" /\ catalog' = catalog
           /\ maxFileId' \in 1 .. MAX_FILES + 1
           /\ freeNum' \in Nat /\ freeList' \in Seq(PPointer)
           /\ freeListFile' \in Seq(PPointer)
           /\ usedNum' \in [FileIds -> Int] /\ bitmap' \in [Leaves -> {0, 1}]
           /\ startLeaf' = IF leaves = << >> THEN p ELSE startLeaf
           /\ FreeInv'
           /\ \A q \in Leaves : ifLeafUsed(q)' <=> ifLeafUsed(q) \/ q = p
           /\ clearedLinks(p) \in [Leaves -> PPointer]
           /\ clearedLinks(p)[p] = NullPPointer
           /\ \A q \in Leaves : InChain(q) => clearedLinks(p)[q] = pNext[q]
<1> DEFINE s == supply
<1>1. SupplyOK(s)
  BY SupplyFacts, SMTT(60) DEF IInv, getLeaf
<1>2. p = s.list[s.num]
  BY <1>1, SMTT(60) DEF getLeaf, SupplyOK
<1>3. /\ startLeaf' = IF existsBelow(startLeaf, s.max) /\ s.bits[startLeaf] = 1
                      THEN startLeaf ELSE p
      /\ freeList' = SubSeq(s.list, 1, s.num - 1)
      /\ freeNum' = s.num - 1 /\ maxFileId' = s.max /\ freeListFile' = s.file
      /\ usedNum' = [s.used EXCEPT ![p.fileId] = @ + 1]
      /\ bitmap' = [s.bits EXCEPT ![p] = 1]
      /\ pAllocator' = pAllocator /\ pAllocator = "live" /\ catalog' = catalog
  BY <1>1 DEF getLeaf, SupplyOK
<1>4. clearedLinks(p) = [s.next EXCEPT ![p] = NullPPointer]
  BY DEF clearedLinks
<1> HIDE DEF s
<1>2a. p.fileId < s.max /\ s.bits[p] = 0
  <2>1. s.num \in 1 .. s.num
    BY <1>1 DEF SupplyOK
  <2> QED
    BY <1>1, <1>2, <2>1, PointerFacts DEF SupplyOK
<1>5. ~InChain(p)
  BY <1>1, <1>2a DEF SupplyOK, IInv, ChainInv, UsedIsChain
<1>6. /\ freeList' \in Seq(PPointer) /\ Len(freeList') = s.num - 1
      /\ \A i \in 1 .. s.num - 1 : freeList'[i] = s.list[i]
  <2>1. \A i \in 1 .. s.num - 1 : s.list[i] \in PPointer
    BY <1>1, ElementOfSeq DEF SupplyOK
  <2> QED
    BY <1>1, <1>3, <2>1, SubSeqProperties DEF SupplyOK
<1>7. s.num \in Nat \ {0} /\ s.max \in Int
  BY <1>1 DEF SupplyOK
<1>8. FreeInv'
  <2>1. FileBacksList'
    <3>1. Len(s.file) \in Nat /\ s.num <= Len(s.file)
      BY <1>1, LenProperties DEF SupplyOK
    <3>2. freeNum' = Len(freeList') /\ freeNum' <= Len(freeListFile')
      BY <1>3, <1>6, <1>7, <3>1, SMTT(60)
    <3>3. ASSUME NEW i \in 1 .. Len(freeList')
          PROVE  freeListFile'[i] \in {NullPPointer, freeList'[i]}
      <4>1. i \in 1 .. s.num /\ i \in 1 .. s.num - 1
        BY <1>6, <1>7
      <4> QED
        BY <1>1, <1>3, <1>6, <4>1, SMTT(60) DEF SupplyOK
    <3> QED
      BY <3>2, <3>3 DEF FileBacksList
  <2>2. ListIsFree'
    <3> SUFFICES ASSUME NEW i \in 1 .. s.num - 1, s.list[i] # NullPPointer
                 PROVE  /\ existsBelow(s.list[i], s.max)
                        /\ bitmap'[s.list[i]] = 0
      BY <1>3, <1>6 DEF ListIsFree, ifLeafFree, ifLeafExist
    <3>1. /\ s.list[i] \in Leaves /\ s.list[i].fileId < s.max
          /\ s.bits[s.list[i]] = 0 /\ s.list[i] # p
      BY <1>1, <1>2, <1>7, SMTT(60) DEF SupplyOK
    <3> QED
      BY <1>1, <1>3, <1>7, <3>1, PointerFacts, SMTT(60) DEF SupplyOK
  <2>3. ListIsDistinct'
    <3>1. \A i, j \in 1 .. s.num : s.list[i] = s.list[j] /\ s.list[i] # NullPPointer => i = j
      BY <1>1, Zenon DEF SupplyOK
    <3>2. \A i \in 1 .. Len(freeList') : i \in 1 .. s.num /\ freeList'[i] = s.list[i]
      BY <1>6, <1>7
    <3> QED
      BY <3>1, <3>2, Zenon DEF ListIsDistinct
  <2> QED
    BY <2>1, <2>2, <2>3 DEF FreeInv
<1>9. \A q \in Leaves : ifLeafUsed(q)' <=> ifLeafUsed(q) \/ q = p
  <2> SUFFICES ASSUME NEW q \in Leaves
               PROVE  ifLeafUsed(q)' <=> ifLeafUsed(q) \/ q = p
    OBVIOUS
  <2>1. bitmap'[q] = IF q = p THEN 1 ELSE s.bits[q]
    BY <1>1, <1>3 DEF SupplyOK
  <2>2. ifLeafUsed(q)' <=> q.fileId < s.max /\ bitmap'[q] # 0
    BY <1>3, <1>7, PointerFacts DEF ifLeafUsed, ifLeafFree, ifLeafExist
  <2>3. s.bits[q] \in {0, 1}
    BY <1>1 DEF SupplyOK
  <2> QED
    BY <1>1, <1>2a, <2>1, <2>2, <2>3 DEF SupplyOK
<1>10. startLeaf' = IF leaves = << >> THEN p ELSE startLeaf
  <2>1. CASE leaves = << >>
    BY <1>3, <1>7, <2>1, PointerFacts DEF IInv, ChainInv, PersistentChain
  <2>2. CASE leaves # << >>
    <3>1. 1 \in 1 .. Len(leaves) /\ leaves[1] \in Leaves
      BY <2>2, EmptySeq, ElementOfSeq DEF IInv, TypeOK
    <3>2. startLeaf = leaves[1] /\ InChain(startLeaf)
      BY <2>2, <3>1 DEF IInv, ChainInv, PersistentChain, InChain
    <3>3. startLeaf.fileId < s.max /\ s.bits[startLeaf] = 1
      BY <1>1, <3>1, <3>2 DEF SupplyOK, IInv, ChainInv, UsedIsChain
    <3> QED
      BY <1>3, <1>7, <2>2, <3>1, <3>2, <3>3, PointerFacts
  <2> QED
    BY <2>1, <2>2
<1>11. /\ clearedLinks(p) \in [Leaves -> PPointer]
       /\ clearedLinks(p)[p] = NullPPointer
  BY <1>1, <1>4, PointerFacts, SMTT(60) DEF SupplyOK
<1>12. \A q \in Leaves : InChain(q) => clearedLinks(p)[q] = pNext[q]
  <2> SUFFICES ASSUME NEW q \in Leaves, InChain(q)
               PROVE  clearedLinks(p)[q] = pNext[q]
    OBVIOUS
  <2>1. q.fileId < maxFileId
    BY PointerFacts DEF IInv, TypeOK, AllocTypeOK, ChainInv, UsedIsChain,
                        ifLeafUsed, ifLeafExist
  <2>2. q # p
    BY <1>5
  <2> QED
    BY <1>1, <1>4, <2>1, <2>2 DEF SupplyOK
<1>13. usedNum' \in [FileIds -> Int] /\ bitmap' \in [Leaves -> {0, 1}]
  <2>1. s.used \in [FileIds -> Int] /\ s.bits \in [Leaves -> {0, 1}]
    BY <1>1, Zenon DEF SupplyOK
  <2>2. p.fileId \in FileIds
    BY PointerFacts
  <2>3. usedNum' \in [FileIds -> Int]
    BY <1>3, <2>1, <2>2
  <2>4. bitmap' \in [Leaves -> {0, 1}]
    BY <1>3, <2>1
  <2> QED
    BY <2>3, <2>4
<1>14. /\ s.max \in 1 .. MAX_FILES + 1 /\ maxFileId <= s.max /\ s.file \in Seq(PPointer)
       /\ s.num - 1 \in Nat
  <2>1. s.max \in 1 .. MAX_FILES + 1 /\ maxFileId <= s.max /\ s.file \in Seq(PPointer)
    BY <1>1, Zenon DEF SupplyOK
  <2>2. s.num - 1 \in Nat
    BY <1>7
  <2> QED
    BY <2>1, <2>2
<1> QED
  BY <1>3, <1>5, <1>6, <1>8, <1>9, <1>10, <1>11, <1>12, <1>13, <1>14, ZenonT(60)

\* freeLeaf on the k-th leaf of the chain unmarks it, and only it; the free list
\* stays sound; startLeaf moves to the second leaf if k is the first.
LEMMA FreeLeafFacts ==
    ASSUME IInv, NEW k \in 1 .. Len(leaves), NEW p, p = leaves[k], freeLeaf(p)
    PROVE  /\ p \in Leaves
           /\ pAllocator' = pAllocator /\ pAllocator = "live"
           /\ maxFileId' = maxFileId
           /\ freeNum' \in Nat /\ freeList' \in Seq(PPointer)
           /\ freeListFile' \in Seq(PPointer)
           /\ usedNum' \in [FileIds -> Int] /\ bitmap' \in [Leaves -> {0, 1}]
           /\ catalog' \in Catalog \cup {NoFile}
           /\ startLeaf' = IF k = 1 THEN pNext[p] ELSE startLeaf
           /\ FreeInv'
           /\ \A q \in Leaves : ifLeafUsed(q)' <=> ifLeafUsed(q) /\ q # p
<1> USE DEF IInv, TypeOK, AllocTypeOK
<1>1. p \in Leaves
  BY ElementOfSeq
<1>1a. p \in PPointer /\ p # NullPPointer
  BY <1>1, PointerFacts
<1>2. /\ freeList' = Append(freeList, p) /\ freeNum' = freeNum + 1
      /\ freeListFile' = Append(truncatedTo(freeNum), p)
      /\ usedNum' = [usedNum EXCEPT ![p.fileId] = @ - 1]
      /\ bitmap' = [bitmap EXCEPT ![p] = 0]
      /\ pAllocator' = pAllocator /\ pAllocator = "live" /\ maxFileId' = maxFileId
  BY DEF freeLeaf
<1>3. bitmap[p] = 1 /\ p.fileId < maxFileId
  <2>1. ifLeafUsed(p)
    BY Zenon DEF freeLeaf
  <2>2. bitmap \in [Leaves -> {0, 1}]
    BY Zenon
  <2>3. ifLeafExist(p) /\ bitmap[p] # 0
    BY <2>1, Zenon DEF ifLeafUsed, ifLeafFree
  <2>4. p.fileId < maxFileId
    <3>1. maxFileId \in Int
      OBVIOUS
    <3> QED
      BY <1>1, <2>3, <3>1, PointerFacts, ZenonT(60) DEF ifLeafExist
  <2> QED
    BY <1>1, <2>2, <2>3, <2>4
<1>4. /\ freeList' \in Seq(PPointer) /\ Len(freeList') = Len(freeList) + 1
      /\ \A i \in 1 .. Len(freeList) : freeList'[i] = freeList[i]
      /\ freeList'[Len(freeList) + 1] = p
  <2> DEFINE r == Append(freeList, p)
  <2>1. /\ r \in Seq(PPointer) /\ Len(r) = Len(freeList) + 1
        /\ \A i \in 1 .. Len(freeList) : r[i] = freeList[i]
        /\ r[Len(freeList) + 1] = p
    BY <1>1a
  <2>2. freeList' = r
    BY <1>2, Zenon
  <2> HIDE DEF r
  <2> QED
    BY <2>1, <2>2, Zenon
<1>5. freeNum = Len(freeList) /\ freeNum \in Nat
  BY SMTT(20) DEF FreeInv, FileBacksList
<1>6. /\ freeListFile' \in Seq(PPointer) /\ Len(freeListFile') = freeNum + 1
      /\ \A i \in 1 .. freeNum : freeListFile'[i] = NullPPointer
      /\ freeListFile'[freeNum + 1] = p
  <2> DEFINE h == truncatedTo(freeNum)
  <2>1. /\ h \in Seq(PPointer) /\ Len(h) = freeNum
        /\ \A i \in 1 .. freeNum : h[i] = NullPPointer
    BY <1>5, HoleFacts
  <2> HIDE DEF h
  <2>2. freeListFile' = Append(h, p)
    BY <1>2 DEF h
  <2>3. /\ Append(h, p) \in Seq(PPointer) /\ Len(Append(h, p)) = Len(h) + 1
        /\ \A i \in 1 .. Len(h) : Append(h, p)[i] = h[i]
        /\ Append(h, p)[Len(h) + 1] = p
    BY <1>1a, <2>1, AppendProperties
  <2> QED
    BY <2>1, <2>2, <2>3, SMTT(60)
<1>7. \A q \in Leaves : bitmap'[q] = IF q = p THEN 0 ELSE bitmap[q]
  BY <1>2
<1>8. FreeInv'
  <2>1. FileBacksList'
    <3>1. freeNum' = Len(freeList') /\ freeNum' <= Len(freeListFile')
      BY <1>2, <1>4, <1>5, <1>6
    <3>2. ASSUME NEW i \in 1 .. Len(freeList')
          PROVE  freeListFile'[i] \in {NullPPointer, freeList'[i]}
      <4>1. i \in 1 .. freeNum \/ i = freeNum + 1
        BY <1>4, <1>5, SMTT(60)
      <4> QED
        BY <1>4, <1>5, <1>6, <4>1
    <3> QED
      BY <3>1, <3>2 DEF FileBacksList
  <2>2. \A i \in 1 .. Len(freeList) : freeList[i] # NullPPointer =>
          /\ freeList[i] \in Leaves /\ freeList[i].fileId < maxFileId
          /\ bitmap[freeList[i]] = 0
    <3>1. \A i \in 1 .. Len(freeList) : freeList[i] \in PPointer
      BY ElementOfSeq
    <3> QED
      BY <3>1, PointerFacts, SMTT(60) DEF FreeInv, ListIsFree, ifLeafFree, ifLeafExist
  <2>3. ListIsFree'
    <3> SUFFICES ASSUME NEW i \in 1 .. Len(freeList'), freeList'[i] # NullPPointer
                 PROVE  /\ existsBelow(freeList'[i], maxFileId)
                        /\ bitmap'[freeList'[i]] = 0
      BY <1>2, ZenonT(30) DEF ListIsFree, ifLeafFree, ifLeafExist
    <3>1. i \in 1 .. Len(freeList) \/ i = Len(freeList) + 1
      BY <1>4, <1>5
    <3>2. CASE i \in 1 .. Len(freeList)
      <4>1. /\ freeList'[i] \in Leaves /\ freeList'[i].fileId < maxFileId
            /\ bitmap[freeList'[i]] = 0
        BY <1>4, <2>2, <3>2, ZenonT(60)
      <4> QED
        BY <1>7, <4>1, PointerFacts
    <3>3. CASE i = Len(freeList) + 1
      <4>1. freeList'[i] = p
        BY <1>4, <3>3
      <4> QED
        BY <1>1, <1>3, <1>7, <4>1, PointerFacts
    <3> QED
      BY <3>1, <3>2, <3>3
  <2>4. ListIsDistinct'
    <3> SUFFICES ASSUME NEW i \in 1 .. Len(freeList'), NEW j \in 1 .. Len(freeList'),
                        freeList'[i] = freeList'[j], freeList'[i] # NullPPointer
                 PROVE  i = j
      BY DEF ListIsDistinct
    <3>1. /\ i \in 1 .. Len(freeList) \/ i = Len(freeList) + 1
          /\ j \in 1 .. Len(freeList) \/ j = Len(freeList) + 1
      BY <1>4, <1>5, SMTT(60)
    <3>2. \A m \in 1 .. Len(freeList) : freeList[m] # p
      <4> SUFFICES ASSUME NEW m \in 1 .. Len(freeList), freeList[m] = p
                   PROVE  FALSE
        OBVIOUS
      <4> QED
        BY <1>1a, <1>3, <2>2, SMTT(60)
    <3> QED
      BY <1>4, <3>1, <3>2, SMTT(60) DEF FreeInv, ListIsDistinct
  <2> QED
    BY <2>1, <2>3, <2>4 DEF FreeInv
<1>9. \A q \in Leaves : ifLeafUsed(q)' <=> ifLeafUsed(q) /\ q # p
  BY <1>2, <1>7, PointerFacts DEF ifLeafUsed, ifLeafFree, ifLeafExist
<1>10. startLeaf' = IF k = 1 THEN pNext[p] ELSE startLeaf
  <2>1. startLeaf = leaves[1] /\ 1 \in 1 .. Len(leaves)
    BY EmptySeq DEF ChainInv, PersistentChain
  <2>2. startLeaf = p <=> k = 1
    BY <2>1 DEF ChainInv, ChainIsDistinct
  <2> QED
    BY <2>2 DEF freeLeaf
<1>11. catalog' \in Catalog \cup {NoFile}
  <2>1. persistCatalog(pNext[p]) \in Catalog
    BY <1>1, <1>5 DEF persistCatalog, Catalog
  <2> QED
    BY <2>1, SMTT(60) DEF freeLeaf
<1>12. usedNum' \in [FileIds -> Int] /\ bitmap' \in [Leaves -> {0, 1}]
  BY <1>1, <1>2, PointerFacts
<1>13. freeNum' \in Nat
  BY <1>2, <1>5
<1> QED
  BY <1>1, <1>2, <1>4, <1>6, <1>8, <1>9, <1>10, <1>11, <1>12, <1>13, Zenon
-------------------------------------------------------------------------------
\* Before the first start no file exists and no leaf is in use.
LEMMA InitIInv == Init => IInv
<1> SUFFICES ASSUME Init PROVE IInv
  OBVIOUS
<1> USE DEF Init, AllocInit
<1>1. TypeOK
  BY AllocatorAssumption, PointerFacts, EmptySeq
     DEF TypeOK, AllocTypeOK, Catalog
<1>2. \A p \in Leaves : ~ifLeafUsed(p)
  BY DEF ifLeafUsed, ifLeafFree
<1>3. Len(freeList) = 0 /\ Len(leaves) = 0 /\ Len(freeListFile) = 0
  BY EmptySeq
<1>4. FreeInv
  BY <1>3 DEF FreeInv, FileBacksList, ListIsFree, ListIsDistinct
<1>5. ChainInv
  BY <1>2, <1>3
     DEF ChainInv, UsedIsChain, InChain, ChainIsDistinct, PersistentChain
<1>6. CatalogIsCurrent /\ LoadedPrefix
  BY DEF CatalogIsCurrent, LoadedPrefix
<1> QED
  BY <1>1, <1>4, <1>5, <1>6 DEF IInv

\* Steps that leave the allocator and the chain alone keep what is said of them.
LEMMA FrameFacts ==
    ASSUME IInv, UNCHANGED <<allocVars, leaves>>
    PROVE  /\ AllocTypeOK' /\ leaves' \in Seq(Leaves)
           /\ FreeInv' /\ ChainInv' /\ CatalogIsCurrent'
<1> USE DEF allocVars, dramVars, nvmVars
<1>1. AllocTypeOK' /\ leaves' \in Seq(Leaves)
  BY DEF IInv, TypeOK, AllocTypeOK
<1>2. FreeInv'
  BY DEF IInv, FreeInv, FileBacksList, ListIsFree, ListIsDistinct,
         ifLeafFree, ifLeafExist
<1>3. ChainInv'
  BY DEF IInv, ChainInv, UsedIsChain, InChain, ChainIsDistinct, PersistentChain,
         ifLeafUsed, ifLeafFree, ifLeafExist
<1>4. CatalogIsCurrent'
  BY DEF IInv, CatalogIsCurrent, persistCatalog
<1> QED
  BY <1>1, <1>2, <1>3, <1>4

\* new FPTree sets bulkLoading's cursor to the first leaf.
LEMMA NewTreeIInv == IInv /\ NewTree => IInv'
<1> SUFFICES ASSUME IInv, NewTree PROVE IInv'
  OBVIOUS
<1>1. /\ AllocTypeOK' /\ leaves' \in Seq(Leaves)
      /\ FreeInv' /\ ChainInv' /\ CatalogIsCurrent'
  BY FrameFacts DEF NewTree
<1>2. /\ tree' = "loading" /\ ppt' = startLeaf /\ list' = << >> /\ leaves' = leaves
  BY DEF NewTree, IInv, LoadedPrefix
<1>3. TypeOK'
  BY <1>1, <1>2, EmptySeq DEF TypeOK, AllocTypeOK, IInv
<1>4. Len(list') = 0
  BY <1>2, EmptySeq
<1>5. Len(leaves) \in Nat /\ (Len(leaves) = 0 <=> leaves = << >>)
  BY EmptySeq, LenProperties DEF IInv, TypeOK
<1>6. ppt' = IF 0 < Len(leaves) THEN leaves[1] ELSE NullPPointer
  BY <1>2, <1>5 DEF IInv, ChainInv, PersistentChain
<1>7. LoadedPrefix'
  BY <1>2, <1>4, <1>5, <1>6 DEF LoadedPrefix
<1> QED
  BY <1>1, <1>3, <1>7 DEF IInv

\* One iteration of bulkLoading adds the next leaf of the chain.
LEMMA LoadLeafIInv == IInv /\ LoadLeaf => IInv'
<1> SUFFICES ASSUME IInv, LoadLeaf PROVE IInv'
  OBVIOUS
<1>1. /\ AllocTypeOK' /\ leaves' \in Seq(Leaves)
      /\ FreeInv' /\ ChainInv' /\ CatalogIsCurrent'
  BY FrameFacts DEF LoadLeaf
<1>2. /\ tree = "loading" /\ tree' = "loading" /\ ifLeafUsed(ppt)
      /\ list' = Append(list, ppt) /\ ppt' = pNext[ppt] /\ leaves' = leaves
  BY DEF LoadLeaf, allocVars, nvmVars
<1>3. /\ Len(list) \in Nat /\ Len(leaves) \in Nat /\ Len(list) <= Len(leaves)
      /\ \A i \in 1 .. Len(list) : list[i] = leaves[i]
      /\ ppt = IF Len(list) < Len(leaves) THEN leaves[Len(list) + 1] ELSE NullPPointer
  BY <1>2, LenProperties DEF IInv, TypeOK, LoadedPrefix
<1>4. ppt # NullPPointer
  BY <1>2, PointerFacts DEF IInv, TypeOK, AllocTypeOK, ifLeafUsed, ifLeafExist
<1>5. Len(list) < Len(leaves) /\ ppt = leaves[Len(list) + 1]
  BY <1>3, <1>4
<1>6. ppt \in Leaves
  BY <1>4, PointerFacts DEF IInv, TypeOK
<1>7. /\ list' \in Seq(Leaves) /\ Len(list') = Len(list) + 1
      /\ \A i \in 1 .. Len(list) : list'[i] = list[i]
      /\ list'[Len(list) + 1] = ppt
  BY <1>2, <1>6, AppendProperties DEF IInv, TypeOK
<1>8. TypeOK'
  BY <1>1, <1>2, <1>6, <1>7, SMTT(60) DEF TypeOK, IInv, AllocTypeOK
<1>9. ppt' = IF Len(list) + 1 < Len(leaves) THEN leaves[Len(list) + 2] ELSE NullPPointer
  <2>1. Len(list) + 1 \in 1 .. Len(leaves) /\ Len(list) + 1 + 1 = Len(list) + 2
    BY <1>3, <1>5
  <2> QED
    BY <1>2, <1>3, <1>5, <2>1 DEF IInv, ChainInv, PersistentChain
<1>10. \A i \in 1 .. Len(list') : list'[i] = leaves[i]
  <2> SUFFICES ASSUME NEW i \in 1 .. Len(list') PROVE list'[i] = leaves[i]
    OBVIOUS
  <2>1. i \in 1 .. Len(list) \/ i = Len(list) + 1
    BY <1>3, <1>7
  <2> QED
    BY <1>3, <1>5, <1>7, <2>1
<1>11. LoadedPrefix'
  <2>1. Len(list') <= Len(leaves') /\ Len(list') + 1 = Len(list) + 2
    BY <1>2, <1>3, <1>5, <1>7
  <2>2. ppt' = IF Len(list') < Len(leaves') THEN leaves'[Len(list') + 1] ELSE NullPPointer
    BY <1>2, <1>7, <1>9, <2>1
  <2> QED
    BY <1>2, <1>10, <2>1, <2>2 DEF LoadedPrefix
<1> QED
  BY <1>1, <1>8, <1>11 DEF IInv

\* bulkLoading ends only when every leaf of the chain is in the list.
LEMMA LoadDoneIInv == IInv /\ LoadDone => IInv'
<1> SUFFICES ASSUME IInv, LoadDone PROVE IInv'
  OBVIOUS
<1>1. /\ AllocTypeOK' /\ leaves' \in Seq(Leaves)
      /\ FreeInv' /\ ChainInv' /\ CatalogIsCurrent'
  BY FrameFacts DEF LoadDone
<1>2. /\ tree = "loading" /\ tree' = "open" /\ ~ifLeafUsed(ppt)
      /\ list' = list /\ ppt' = NullPPointer /\ leaves' = leaves
  BY DEF LoadDone
<1>3. /\ Len(list) \in Nat /\ Len(leaves) \in Nat /\ Len(list) <= Len(leaves)
      /\ \A i \in 1 .. Len(list) : list[i] = leaves[i]
      /\ ppt = IF Len(list) < Len(leaves) THEN leaves[Len(list) + 1] ELSE NullPPointer
  BY <1>2, LenProperties DEF IInv, TypeOK, LoadedPrefix
<1>4. ~(Len(list) < Len(leaves))
  <2> SUFFICES ASSUME Len(list) < Len(leaves) PROVE FALSE
    OBVIOUS
  <2>1. Len(list) + 1 \in 1 .. Len(leaves)
    BY <1>3
  <2>2. ppt = leaves[Len(list) + 1] /\ ppt \in Leaves
    BY <1>3, <2>1, ElementOfSeq DEF IInv, TypeOK
  <2> QED
    BY <1>2, <2>1, <2>2 DEF IInv, ChainInv, UsedIsChain, InChain
<1>5. list = leaves
  BY <1>3, <1>4, SeqEqual DEF IInv, TypeOK
<1>6. TypeOK'
  BY <1>1, <1>2, PointerFacts DEF TypeOK, IInv
<1>7. LoadedPrefix'
  BY <1>2, <1>5 DEF LoadedPrefix
<1> QED
  BY <1>1, <1>6, <1>7 DEF IInv

\* The first leaf of an empty tree becomes startLeaf.
LEMMA FirstLeafIInv == IInv /\ FirstLeaf => IInv'
<1> SUFFICES ASSUME IInv, FirstLeaf PROVE IInv'
  OBVIOUS
<1>1. PICK p \in Leaves : /\ getLeaf(p) /\ pNext' = clearedLinks(p)
                          /\ list' = << p >> /\ leaves' = << p >>
  BY DEF FirstLeaf
<1>2. /\ tree = "open" /\ tree' = "open" /\ ppt' = ppt /\ list = << >>
      /\ leaves = << >>
  BY DEF FirstLeaf, IInv, LoadedPrefix
<1>3. /\ pAllocator' = pAllocator /\ pAllocator = "live" /\ catalog' = catalog
      /\ maxFileId' \in 1 .. MAX_FILES + 1
      /\ freeNum' \in Nat /\ freeList' \in Seq(PPointer)
      /\ freeListFile' \in Seq(PPointer)
      /\ usedNum' \in [FileIds -> Int] /\ bitmap' \in [Leaves -> {0, 1}]
      /\ startLeaf' = p
      /\ FreeInv'
      /\ \A q \in Leaves : ifLeafUsed(q)' <=> ifLeafUsed(q) \/ q = p
      /\ pNext' \in [Leaves -> PPointer] /\ pNext'[p] = NullPPointer
  BY <1>1, <1>2, GetLeafFacts
<1>4. leaves' \in Seq(Leaves) /\ list' = leaves' /\ Len(leaves') = 1 /\ leaves'[1] = p
  BY <1>1
<1>5. TypeOK'
  <2>1. p \in PPointer
    BY PointerFacts
  <2> QED
    BY <1>2, <1>3, <1>4, <2>1 DEF IInv, TypeOK, AllocTypeOK
<1>6. Len(leaves) = 0
  BY <1>2, EmptySeq
<1>7. UsedIsChain'
  BY <1>3, <1>4, <1>6 DEF IInv, ChainInv, UsedIsChain, InChain
<1>8. ChainIsDistinct'
  BY <1>4 DEF ChainIsDistinct
<1>9. PersistentChain'
  <2>1. leaves' # << >>
    <3>1. Len(<< >>) = 0
      BY EmptySeq
    <3>2. Len(leaves') = 1
      BY <1>4, Zenon
    <3> QED
      BY <3>1, <3>2
  <2> QED
    BY <1>3, <1>4, <2>1 DEF PersistentChain
<1>10. CatalogIsCurrent' /\ LoadedPrefix'
  BY <1>2, <1>3, <1>4 DEF CatalogIsCurrent, LoadedPrefix
<1> QED
  BY <1>3, <1>5, <1>7, <1>8, <1>9, <1>10 DEF IInv, ChainInv

\* LeafNode::split links a free leaf behind the i-th one.
LEMMA SplitLeafIInv ==
    ASSUME IInv, NEW k \in 1 .. Len(list), SplitLeaf(k) PROVE IInv'
<1>1. PICK p \in Leaves : /\ getLeaf(p)
                          /\ pNext' = linkAfter(clearedLinks(p), list[k], p)
                          /\ list' = InsertAt(list, k + 1, p) /\ leaves' = list'
  BY DEF SplitLeaf
<1>2. tree = "open" /\ tree' = "open" /\ ppt' = ppt /\ list = leaves
  BY DEF SplitLeaf, IInv, LoadedPrefix
<1> DEFINE c == clearedLinks(p)
           old == leaves[k]
           n == Len(leaves)
<1>3. n \in Nat /\ k \in 1 .. n /\ k \in Int /\ leaves \in Seq(Leaves) /\ leaves # << >>
  BY <1>2, LenProperties, EmptySeq DEF IInv, TypeOK
<1>4. /\ ~InChain(p)
      /\ pAllocator' = pAllocator /\ pAllocator = "live" /\ catalog' = catalog
      /\ maxFileId' \in 1 .. MAX_FILES + 1
      /\ freeNum' \in Nat /\ freeList' \in Seq(PPointer)
      /\ freeListFile' \in Seq(PPointer)
      /\ usedNum' \in [FileIds -> Int] /\ bitmap' \in [Leaves -> {0, 1}]
      /\ startLeaf' = startLeaf
      /\ FreeInv'
      /\ \A q \in Leaves : ifLeafUsed(q)' <=> ifLeafUsed(q) \/ q = p
      /\ c \in [Leaves -> PPointer]
      /\ \A q \in Leaves : InChain(q) => c[q] = pNext[q]
  BY <1>1, <1>3, GetLeafFacts
<1>5. /\ leaves' \in Seq(Leaves) /\ Len(leaves') = n + 1
      /\ \A i \in 1 .. n + 1 : leaves'[i] = IF i < k + 1 THEN leaves[i]
                               ELSE IF i = k + 1 THEN p ELSE leaves[i - 1]
  <2> DEFINE m == k + 1
             r == InsertAt(leaves, m, p)
  <2>1. m \in 1 .. Len(leaves) + 1
    BY <1>3
  <2> HIDE DEF m, c, n, old
  <2>2. /\ r \in Seq(Leaves)
        /\ Len(r) = Len(leaves) + 1
        /\ \A i \in 1 .. Len(leaves) + 1 : r[i] = InsertedAt(leaves, m, p, i)
    BY <1>3, <2>1, InsertAtFacts, ZenonT(60)
  <2>3. leaves' = r
    BY <1>1, <1>2 DEF m
  <2> HIDE DEF r
  <2> QED
    BY <2>2, <2>3 DEF m, n, InsertedAt
<1>6. \A i \in 1 .. n : leaves[i] \in Leaves /\ InChain(leaves[i]) /\ leaves[i] # p
  BY <1>3, <1>4, ElementOfSeq DEF InChain
<1>7. pNext' = [c EXCEPT ![p] = c[old], ![old] = p]
  BY <1>1, <1>2, SMTT(20) DEF linkAfter
<1> HIDE DEF c
<1>8. /\ pNext' \in [Leaves -> PPointer]
      /\ pNext'[old] = p /\ pNext'[p] = pNext[old]
      /\ \A i \in 1 .. n : leaves[i] # old => pNext'[leaves[i]] = pNext[leaves[i]]
  <2>1. old \in Leaves /\ old # p /\ p \in PPointer /\ c[old] \in PPointer
    BY <1>3, <1>4, <1>6, PointerFacts
  <2>2. c[old] = pNext[old]
    BY <1>3, <1>4, <1>6
  <2> QED
    BY <1>4, <1>6, <1>7, <2>1, <2>2, SMTT(60)
<1>9. TypeOK'
  BY <1>1, <1>2, <1>4, <1>5, <1>8, ZenonT(60) DEF IInv, TypeOK, AllocTypeOK
<1>10. UsedIsChain'
  <2> SUFFICES ASSUME NEW q \in Leaves PROVE InChain(q)' <=> InChain(q) \/ q = p
    BY <1>4 DEF IInv, ChainInv, UsedIsChain
  <2>1. ASSUME InChain(q) PROVE InChain(q)'
    <3>1. PICK i \in 1 .. n : leaves[i] = q
      BY <2>1 DEF InChain
    <3>2. CASE i < k + 1
      BY <1>3, <1>5, <3>1, <3>2, SMTT(60) DEF InChain
    <3>3. CASE ~(i < k + 1)
      <4>1. i + 1 \in 1 .. n + 1 /\ ~(i + 1 < k + 1) /\ i + 1 # k + 1 /\ (i + 1) - 1 = i
        BY <1>3, <3>3
      <4>2. leaves'[i + 1] = q
        BY <1>5, <3>1, <4>1, SMTT(60)
      <4> QED
        BY <1>5, <4>1, <4>2 DEF InChain
    <3> QED
      BY <3>2, <3>3
  <2>2. InChain(p)'
    <3>1. k + 1 \in 1 .. n + 1 /\ ~(k + 1 < k + 1)
      BY <1>3
    <3> QED
      BY <1>5, <3>1 DEF InChain
  <2>3. ASSUME InChain(q)' PROVE InChain(q) \/ q = p
    <3>1. PICK i \in 1 .. n + 1 : leaves'[i] = q
      BY <1>5, <2>3 DEF InChain
    <3>2. CASE i < k + 1
      <4>1. i \in 1 .. n /\ leaves[i] = q
        BY <1>3, <1>5, <3>1, <3>2
      <4> QED
        BY <4>1 DEF InChain
    <3>3. CASE i = k + 1
      BY <1>3, <1>5, <3>1, <3>3
    <3>4. CASE i > k + 1
      <4>1. i - 1 \in 1 .. n /\ leaves[i - 1] = q
        BY <1>3, <1>5, <3>1, <3>4
      <4> QED
        BY <4>1 DEF InChain
    <3> QED
      BY <1>3, <3>2, <3>3, <3>4
  <2> QED
    BY <2>1, <2>2, <2>3
<1>11. ChainIsDistinct'
  <2> SUFFICES ASSUME NEW i \in 1 .. n + 1, NEW j \in 1 .. n + 1,
                      leaves'[i] = leaves'[j]
               PROVE  i = j
    BY <1>5 DEF ChainIsDistinct
  <2> DEFINE src(x) == IF x < k + 1 THEN x ELSE x - 1
  <2>1. \A x \in 1 .. n + 1 : x # k + 1 => src(x) \in 1 .. n /\ leaves'[x] = leaves[src(x)]
    BY <1>3, <1>5
  <2>2. leaves'[k + 1] = p
    BY <1>3, <1>5
  <2>3. CASE i = k + 1 \/ j = k + 1
    BY <1>6, <2>1, <2>2, <2>3, SMTT(60)
  <2>4. CASE i # k + 1 /\ j # k + 1
    <3>1. src(i) = src(j)
      BY <2>1, <2>4, SMTT(60) DEF IInv, ChainInv, ChainIsDistinct
    <3> QED
      BY <1>3, <2>4, <3>1
  <2> QED
    BY <2>3, <2>4
<1>12. PersistentChain'
  <2>1. leaves' # << >> /\ leaves'[1] = leaves[1]
    <3>1. 1 \in 1 .. n + 1 /\ 1 < k + 1 /\ n + 1 # 0
      BY <1>3
    <3> QED
      BY <1>5, <3>1, EmptySeq
  <2>2. startLeaf' = leaves'[1]
    BY <1>3, <1>4, <2>1, SMTT(60) DEF IInv, ChainInv, PersistentChain
  <2>3. ASSUME NEW i \in 1 .. n + 1
        PROVE  pNext'[leaves'[i]] = IF i = n + 1 THEN NullPPointer ELSE leaves'[i + 1]
    <3>0. /\ \A x \in 1 .. n : pNext[leaves[x]] = IF x = n THEN NullPPointer
                                                  ELSE leaves[x + 1]
          /\ \A x, y \in 1 .. n : leaves[x] = leaves[y] => x = y
      BY SMTT(60) DEF IInv, ChainInv, PersistentChain, ChainIsDistinct
    <3>1. CASE i < k
      <4>1. i \in 1 .. n /\ i + 1 \in 1 .. n + 1 /\ i < k + 1 /\ i + 1 < k + 1 /\ i # n
            /\ i # n + 1 /\ i # k
        BY <1>3, <3>1, SMTT(60)
      <4>2. leaves'[i] = leaves[i] /\ leaves'[i + 1] = leaves[i + 1]
        BY <1>5, <4>1
      <4>3. leaves[i] # old
        BY <1>3, <3>0, <4>1
      <4> QED
        BY <1>8, <3>0, <4>1, <4>2, <4>3
    <3>2. CASE i = k
      <4>1. k + 1 \in 1 .. n + 1 /\ k < k + 1 /\ ~(k + 1 < k + 1) /\ k # n + 1
        BY <1>3
      <4>2. leaves'[k] = old /\ leaves'[k + 1] = p
        BY <1>3, <1>5, <4>1
      <4> QED
        BY <1>8, <3>2, <4>1, <4>2
    <3>3. CASE i = k + 1
      <4>1. leaves'[i] = p
        BY <1>3, <1>5, <3>3
      <4>2. pNext'[leaves'[i]] = IF k = n THEN NullPPointer ELSE leaves[k + 1]
        BY <1>3, <1>8, <3>0, <4>1
      <4>3. i # n + 1 => leaves'[i + 1] = leaves[k + 1]
        <5> HAVE i # n + 1
        <5>1. i + 1 \in 1 .. n + 1 /\ ~(i + 1 < k + 1) /\ i + 1 # k + 1
              /\ (i + 1) - 1 = k + 1
          BY <1>3, <3>3
        <5> QED
          BY <1>5, <5>1
      <4>4. i = n + 1 <=> k = n
        BY <1>3, <3>3
      <4> QED
        BY <4>2, <4>3, <4>4
    <3>4. CASE i > k + 1
      <4>1. i - 1 \in 1 .. n /\ ~(i < k + 1) /\ i # k + 1 /\ i - 1 # k /\ (i - 1) + 1 = i
        BY <1>3, <3>4
      <4>2. leaves'[i] = leaves[i - 1]
        BY <1>5, <4>1
      <4>3. leaves[i - 1] # old
        BY <1>3, <3>0, <4>1
      <4>4. pNext'[leaves'[i]] = IF i - 1 = n THEN NullPPointer ELSE leaves[i]
        <5>1. pNext'[leaves'[i]] = pNext[leaves[i - 1]]
          BY <1>8, <4>1, <4>2, <4>3, SMTT(60)
        <5>2. pNext[leaves[i - 1]] = IF i - 1 = n THEN NullPPointer
                                     ELSE leaves[(i - 1) + 1]
          BY <3>0, <4>1, ZenonT(60)
        <5> QED
          BY <4>1, <5>1, <5>2, ZenonT(60)
      <4>5. i # n + 1 => leaves'[i + 1] = leaves[i]
        <5> HAVE i # n + 1
        <5>1. i + 1 \in 1 .. n + 1 /\ ~(i + 1 < k + 1) /\ i + 1 # k + 1
              /\ (i + 1) - 1 = i
          BY <1>3, <3>4
        <5> QED
          BY <1>5, <5>1
      <4>6. i = n + 1 <=> i - 1 = n
        BY <1>3
      <4> QED
        BY <4>4, <4>5, <4>6, ZenonT(60)
    <3> QED
      BY <1>3, <3>1, <3>2, <3>3, <3>4
  <2> QED
    BY <1>5, <2>1, <2>2, <2>3 DEF PersistentChain
<1>13. CatalogIsCurrent' /\ LoadedPrefix'
  BY <1>1, <1>2, <1>4 DEF CatalogIsCurrent, LoadedPrefix
<1> QED
  BY <1>4, <1>9, <1>10, <1>11, <1>12, <1>13 DEF IInv, ChainInv

\* LeafNode::remove frees the i-th leaf and closes the chain over it.
LEMMA RemoveLeafIInv ==
    ASSUME IInv, NEW k \in 1 .. Len(list), RemoveLeaf(k) PROVE IInv'
<1> DEFINE n == Len(leaves)
           p == leaves[k]
<1>1. /\ tree = "open" /\ tree' = "open" /\ ppt' = ppt /\ list = leaves
      /\ freeLeaf(p) /\ pNext' = unlink(k)
      /\ leaves' = RemoveAt(leaves, k) /\ list' = leaves'
  BY DEF RemoveLeaf, IInv, LoadedPrefix
<1>2. /\ n \in Nat /\ k \in 1 .. n /\ k \in Int /\ leaves \in Seq(Leaves)
      /\ leaves # << >>
  BY <1>1, LenProperties, EmptySeq DEF IInv, TypeOK
<1>3. /\ p \in Leaves
      /\ pAllocator' = pAllocator /\ pAllocator = "live"
      /\ maxFileId' = maxFileId
      /\ freeNum' \in Nat /\ freeList' \in Seq(PPointer)
      /\ freeListFile' \in Seq(PPointer)
      /\ usedNum' \in [FileIds -> Int] /\ bitmap' \in [Leaves -> {0, 1}]
      /\ catalog' \in Catalog \cup {NoFile}
      /\ startLeaf' = IF k = 1 THEN pNext[p] ELSE startLeaf
      /\ FreeInv'
      /\ \A q \in Leaves : ifLeafUsed(q)' <=> ifLeafUsed(q) /\ q # p
  BY <1>1, <1>2, FreeLeafFacts
<1>4. /\ leaves' \in Seq(Leaves) /\ Len(leaves') = n - 1
      /\ \A i \in 1 .. n - 1 : leaves'[i] = IF i < k THEN leaves[i] ELSE leaves[i + 1]
  <2> DEFINE r == RemoveAt(leaves, k)
  <2>1. /\ r \in Seq(Leaves) /\ Len(r) = Len(leaves) - 1
        /\ \A i \in 1 .. Len(leaves) - 1 :
             r[i] = IF i < k THEN leaves[i] ELSE leaves[i + 1]
    BY <1>2, RemoveAtFacts, Zenon
  <2>2. leaves' = r
    BY <1>1, SMTT(60)
  <2> HIDE DEF r
  <2> QED
    BY <2>1, <2>2
<1>5. /\ \A i \in 1 .. n : leaves[i] \in Leaves
      /\ \A i, j \in 1 .. n : leaves[i] = leaves[j] => i = j
      /\ \A i \in 1 .. n : pNext[leaves[i]] = IF i = n THEN NullPPointer ELSE leaves[i + 1]
      /\ startLeaf = leaves[1]
      /\ pNext \in [Leaves -> PPointer] /\ startLeaf \in PPointer
  <2>1. \A i \in 1 .. n : leaves[i] \in Leaves
    BY <1>2, ElementOfSeq, SMTT(60)
  <2> QED
    BY <1>2, <2>1
       DEF IInv, ChainInv, ChainIsDistinct, PersistentChain, TypeOK, AllocTypeOK
<1>6. /\ pNext' \in [Leaves -> PPointer]
      /\ \A i \in 1 .. n : i # k - 1 => pNext'[leaves[i]] = pNext[leaves[i]]
      /\ k # 1 => pNext'[leaves[k - 1]] = pNext[p]
  <2>1. CASE k = 1
    BY <1>1, <1>2, <1>5, <2>1 DEF unlink
  <2>2. CASE k # 1
    <3>1. k - 1 \in 1 .. n
      BY <1>2, <2>2
    <3>2. pNext' = [pNext EXCEPT ![leaves[k - 1]] = pNext[p]] /\ pNext[p] \in PPointer
      BY <1>1, <1>2, <1>5, <2>2 DEF unlink
    <3>3. \A i \in 1 .. n : i # k - 1 => leaves[i] # leaves[k - 1]
      BY <1>5, <3>1, SMTT(60)
    <3> QED
      BY <1>2, <1>5, <3>1, <3>2, <3>3, SMTT(60)
  <2> QED
    BY <2>1, <2>2
<1>7. TypeOK'
  <2>1. startLeaf' \in PPointer
    BY <1>3, <1>5
  <2> QED
    BY <1>1, <1>3, <1>4, <1>6, <2>1, SMTT(60) DEF IInv, TypeOK, AllocTypeOK
<1>8. UsedIsChain'
  <2> SUFFICES ASSUME NEW q \in Leaves PROVE InChain(q)' <=> InChain(q) /\ q # p
    BY <1>3 DEF IInv, ChainInv, UsedIsChain
  <2>1. ASSUME InChain(q), q # p PROVE InChain(q)'
    <3>1. PICK i \in 1 .. n : leaves[i] = q
      BY <2>1 DEF InChain
    <3>2. CASE i < k
      <4>1. i \in 1 .. n - 1 /\ leaves'[i] = q
        BY <1>2, <1>4, <3>1, <3>2
      <4> QED
        BY <1>4, <4>1 DEF InChain
    <3>3. CASE i > k
      <4>1. i - 1 \in 1 .. n - 1 /\ ~(i - 1 < k) /\ (i - 1) + 1 = i
        BY <1>2, <3>3
      <4>2. leaves'[i - 1] = q
        BY <1>4, <3>1, <4>1
      <4> QED
        BY <1>4, <4>1, <4>2 DEF InChain
    <3>4. i # k
      BY <2>1, <3>1
    <3> QED
      BY <1>2, <3>2, <3>3, <3>4
  <2>2. ASSUME InChain(q)' PROVE InChain(q) /\ q # p
    <3>1. PICK i \in 1 .. n - 1 : leaves'[i] = q
      BY <1>4, <2>2 DEF InChain
    <3>2. CASE i < k
      <4>1. i \in 1 .. n /\ leaves[i] = q /\ i # k
        BY <1>2, <1>4, <3>1, <3>2, SMTT(60)
      <4> QED
        BY <1>2, <1>5, <4>1 DEF InChain
    <3>3. CASE ~(i < k)
      <4>1. i + 1 \in 1 .. n /\ leaves[i + 1] = q /\ i + 1 # k
        BY <1>2, <1>4, <3>1, <3>3
      <4> QED
        BY <1>2, <1>5, <4>1 DEF InChain
    <3> QED
      BY <3>2, <3>3
  <2> QED
    BY <2>1, <2>2, SMTT(60)
<1>9. ChainIsDistinct'
  <2> SUFFICES ASSUME NEW i \in 1 .. n - 1, NEW j \in 1 .. n - 1,
                      leaves'[i] = leaves'[j]
               PROVE  i = j
    BY <1>4, SMTT(60) DEF ChainIsDistinct
  <2> DEFINE src(x) == IF x < k THEN x ELSE x + 1
  <2>1. \A x \in 1 .. n - 1 : src(x) \in 1 .. n /\ leaves'[x] = leaves[src(x)]
    BY <1>2, <1>4, SMTT(60)
  <2>2. src(i) = src(j)
    BY <1>5, <2>1, SMTT(60)
  <2> QED
    BY <1>2, <2>2
<1>10. PersistentChain'
  <2>1. leaves' = << >> <=> n = 1
    BY <1>2, <1>4, EmptySeq
  <2>2. startLeaf' = IF leaves' = << >> THEN NullPPointer ELSE leaves'[1]
    <3>1. CASE k = 1
      <4>1. startLeaf' = IF n = 1 THEN NullPPointer ELSE leaves[1 + 1]
        BY <1>2, <1>3, <1>5, <3>1, ZenonT(60)
      <4>2. n # 1 => leaves'[1] = leaves[1 + 1]
        BY <1>2, <1>4, <3>1
      <4> QED
        BY <2>1, <4>1, <4>2
    <3>2. CASE k # 1
      <4>1. n # 1 /\ 1 \in 1 .. n - 1 /\ 1 < k
        BY <1>2, <3>2
      <4> QED
        BY <1>3, <1>4, <1>5, <2>1, <3>2, <4>1
    <3> QED
      BY <3>1, <3>2
  <2>3. ASSUME NEW i \in 1 .. n - 1
        PROVE  pNext'[leaves'[i]] = IF i = n - 1 THEN NullPPointer ELSE leaves'[i + 1]
    <3>1. CASE i < k - 1
      <4>1. i \in 1 .. n /\ i # n /\ i # n - 1 /\ i + 1 \in 1 .. n - 1
            /\ i < k /\ i + 1 < k /\ i # k - 1
        BY <1>2, <3>1
      <4>2. leaves'[i] = leaves[i] /\ leaves'[i + 1] = leaves[i + 1]
        BY <1>4, <4>1
      <4> QED
        BY <1>5, <1>6, <4>1, <4>2
    <3>2. CASE i = k - 1
      <4>1. i < k /\ k # 1 /\ (i = n - 1 <=> k = n)
        BY <1>2, <3>2, SMTT(60)
      <4>2. pNext'[leaves'[i]] = IF k = n THEN NullPPointer ELSE leaves[k + 1]
        BY <1>2, <1>4, <1>5, <1>6, <3>2, <4>1
      <4>3. i # n - 1 => leaves'[i + 1] = leaves[k + 1]
        <5> HAVE i # n - 1
        <5>1. i + 1 \in 1 .. n - 1 /\ ~(i + 1 < k) /\ (i + 1) + 1 = k + 1
          BY <1>2, <3>2
        <5> QED
          BY <1>4, <5>1
      <4> QED
        BY <4>1, <4>2, <4>3
    <3>3. CASE i > k - 1
      <4>1. i + 1 \in 1 .. n /\ ~(i < k) /\ i + 1 # k - 1
            /\ (i = n - 1 <=> i + 1 = n)
        BY <1>2, <3>3
      <4>2. leaves'[i] = leaves[i + 1]
        BY <1>4, <4>1
      <4>3. pNext'[leaves'[i]] = IF i + 1 = n THEN NullPPointer ELSE leaves[(i + 1) + 1]
        <5>1. pNext'[leaves[i + 1]] = pNext[leaves[i + 1]]
          BY <1>6, <4>1, SMTT(60)
        <5>2. pNext[leaves[i + 1]] = IF i + 1 = n THEN NullPPointer
                                     ELSE leaves[(i + 1) + 1]
          BY <1>5, <4>1
        <5> QED
          BY <4>2, <5>1, <5>2, ZenonT(60)
      <4>4. i # n - 1 => leaves'[i + 1] = leaves[(i + 1) + 1]
        <5> HAVE i # n - 1
        <5>1. i + 1 \in 1 .. n - 1 /\ ~(i + 1 < k)
          BY <1>2, <3>3, SMTT(60)
        <5> QED
          BY <1>4, <5>1
      <4> QED
        BY <4>1, <4>3, <4>4
    <3> QED
      BY <1>2, <3>1, <3>2, <3>3, SMTT(60)
  <2> QED
    BY <1>4, <2>2, <2>3 DEF PersistentChain
<1>11. CatalogIsCurrent' /\ LoadedPrefix'
  BY <1>1, <1>3, SMTT(60) DEF CatalogIsCurrent, LoadedPrefix
<1> QED
  BY <1>3, <1>7, <1>8, <1>9, <1>10, <1>11 DEF IInv, ChainInv

\* The constructor: after ~PAllocator the catalog holds the same fields, and
\* free_list holds at least freeNum entries, so the reload stays inside it.
LEMMA ConstructFacts ==
    ASSUME IInv, constructAllocator
    PROVE  /\ maxFileId' = maxFileId /\ freeNum' = freeNum /\ startLeaf' = startLeaf
           /\ Len(freeList') = Len(freeList)
           /\ \A i \in 1 .. Len(freeList) : freeList'[i] \in {NullPPointer, freeList[i]}
           /\ freeList' \in Seq(PPointer) /\ freeListFile' \in Seq(PPointer)
           /\ catalog' \in Catalog \cup {NoFile}
           /\ FileBacksList'
<1>1. /\ freeNum \in Nat /\ freeList \in Seq(PPointer) /\ freeListFile \in Seq(PPointer)
      /\ Len(freeList) = freeNum /\ Len(freeListFile) \in Nat
      /\ freeNum <= Len(freeListFile)
      /\ \A i \in 1 .. freeNum : freeListFile[i] \in {NullPPointer, freeList[i]}
      /\ catalog \in Catalog \cup {NoFile}
  BY LenProperties DEF IInv, TypeOK, AllocTypeOK, FreeInv, FileBacksList
<1>2. CASE catalog = NoFile
  <2>1. /\ maxFileId' = maxFileId /\ freeNum' = freeNum /\ startLeaf' = startLeaf
        /\ freeNum = 0 /\ freeList' = << >> /\ freeListFile' = << >>
    <3>1. /\ maxFileId' = 1 /\ freeNum' = 0 /\ startLeaf' = NullPPointer
          /\ freeList' = << >> /\ freeListFile' = << >> /\ pAllocator = "NULL"
      BY <1>2, Zenon DEF constructAllocator
    <3>2. maxFileId = 1 /\ freeNum = 0 /\ startLeaf = NullPPointer
      BY <1>2, <3>1 DEF IInv, CatalogIsCurrent
    <3> QED
      BY <3>1, <3>2, Zenon
  <2>2. catalog' \in Catalog
    <3>1. catalog' = [maxFileId |-> 1, freeNum |-> 0, startLeaf |-> NullPPointer]
      BY <1>2, Zenon DEF constructAllocator
    <3> QED
      BY <3>1, AllocatorAssumption, PointerFacts DEF Catalog
  <2>3. Len(freeList') = 0 /\ Len(freeListFile') = 0
        /\ freeList' \in Seq(PPointer) /\ freeListFile' \in Seq(PPointer)
    BY <2>1, EmptySeq, SMTT(60)
  <2> QED
    BY <1>1, <2>1, <2>2, <2>3 DEF FileBacksList
<1>3. CASE catalog # NoFile
  <2>1. catalog = [maxFileId |-> maxFileId, freeNum |-> freeNum, startLeaf |-> startLeaf]
    BY <1>3 DEF IInv, CatalogIsCurrent, persistCatalog, constructAllocator
  <2>2. /\ maxFileId' = maxFileId /\ freeNum' = freeNum /\ startLeaf' = startLeaf
        /\ catalog' = catalog /\ freeListFile' = freeListFile
    BY <1>3, <2>1 DEF constructAllocator
  <2>3. PICK pt0 \in PPointer : freeList' = reloadedList(freeNum, pt0)
    BY <1>3, <2>1 DEF constructAllocator
  <2>4. \A i \in 1 .. freeNum : i <= Len(freeListFile)
    BY <1>1
  <2>5. freeList' = [i \in 1 .. freeNum |-> freeListFile[i]]
    BY <2>3, <2>4 DEF reloadedList
  <2>6. \A i \in 1 .. freeNum : freeListFile[i] \in PPointer
    BY <1>1, <2>4, ElementOfSeq
  <2>7. freeList' \in [1 .. freeNum -> PPointer]
    BY <2>5, <2>6
  <2>8. freeList' \in Seq(PPointer) /\ Len(freeList') = freeNum
    <3>1. freeList' \in Seq(PPointer)
      BY <1>1, <2>7, SeqDef
    <3> QED
      BY <1>1, <2>7, <3>1, LenProperties
  <2>9. \A i \in 1 .. freeNum : freeList'[i] = freeListFile[i]
    BY <2>5
  <2> HIDE DEF constructAllocator
  <2>10. FileBacksList'
    BY <1>1, <2>2, <2>8, <2>9 DEF FileBacksList
  <2> QED
    BY <1>1, <2>2, <2>8, <2>9, <2>10, SMTT(60)
<1> QED
  BY <1>2, <1>3

\* The constructor of PAllocator restores what the files hold.
LEMMA ConstructKeeps ==
    ASSUME IInv, constructAllocator, leaves' = leaves, ppt' = ppt, list' \in Seq(Leaves),
           tree' \in {"none", "loading", "open", "undefined"}
    PROVE  TypeOK' /\ FreeInv' /\ ChainInv' /\ CatalogIsCurrent'
<1>1. /\ maxFileId' = maxFileId /\ freeNum' = freeNum /\ startLeaf' = startLeaf
      /\ Len(freeList') = Len(freeList)
      /\ \A i \in 1 .. Len(freeList) : freeList'[i] \in {NullPPointer, freeList[i]}
      /\ freeList' \in Seq(PPointer) /\ freeListFile' \in Seq(PPointer)
      /\ catalog' \in Catalog \cup {NoFile}
      /\ FileBacksList'
  BY ConstructFacts
<1>2. /\ pAllocator' = "live"
      /\ usedNum' = usedNum /\ bitmap' = bitmap /\ pNext' = pNext
  BY SMTT(60) DEF constructAllocator
<1>3. TypeOK'
  BY <1>1, <1>2 DEF IInv, TypeOK, AllocTypeOK
<1>4. FreeInv'
  <2>1. ListIsFree'
    BY <1>1, <1>2 DEF IInv, FreeInv, ListIsFree, ifLeafFree, ifLeafExist
  <2>2. ListIsDistinct'
    <3> SUFFICES ASSUME NEW i \in 1 .. Len(freeList), NEW j \in 1 .. Len(freeList),
                        freeList'[i] = freeList'[j], freeList'[i] # NullPPointer
                 PROVE  i = j
      BY <1>1 DEF ListIsDistinct
    <3>1. freeList[i] = freeList[j] /\ freeList[i] # NullPPointer
      BY <1>1
    <3> QED
      BY <3>1 DEF IInv, FreeInv, ListIsDistinct
  <2> QED
    BY <1>1, <2>1, <2>2, SMTT(60) DEF FreeInv
<1>5. ChainInv'
  BY <1>1, <1>2 DEF IInv, ChainInv, UsedIsChain, InChain, ChainIsDistinct,
                    PersistentChain, ifLeafUsed, ifLeafFree, ifLeafExist
<1>6. CatalogIsCurrent'
  BY <1>2 DEF CatalogIsCurrent
<1> QED
  BY <1>3, <1>4, <1>5, <1>6, SMTT(60)

\* getAllocator builds the allocator for a new tree.
LEMMA ConstructIInv == IInv /\ Construct => IInv'
<1> SUFFICES ASSUME IInv, Construct PROVE IInv'
  OBVIOUS
<1>1. /\ constructAllocator
      /\ tree' = tree /\ ppt' = ppt /\ list' = list /\ leaves' = leaves
  BY DEF Construct, treeVars
<1>2. list' \in Seq(Leaves) /\ tree' \in {"none", "loading", "open", "undefined"}
  BY <1>1 DEF IInv, TypeOK
<1>3. TypeOK' /\ FreeInv' /\ ChainInv' /\ CatalogIsCurrent'
  BY <1>1, <1>2, ConstructKeeps
<1>4. LoadedPrefix'
  BY <1>1 DEF IInv, LoadedPrefix
<1> QED
  BY <1>3, <1>4 DEF IInv

\* delete tree on a destroyed allocator builds a new one, unless no leaf is left.
LEMMA DeleteOrphanIInv == IInv /\ DeleteOrphan => IInv'
<1> SUFFICES ASSUME IInv, DeleteOrphan PROVE IInv'
  OBVIOUS
<1>1. /\ tree' = "none" /\ list' = << >> /\ ppt' = ppt /\ leaves' = leaves
      /\ UNCHANGED allocVars \/ constructAllocator
  BY DEF DeleteOrphan
<1>2. list' \in Seq(Leaves)
  BY <1>1, EmptySeq
<1>3. TypeOK' /\ FreeInv' /\ ChainInv' /\ CatalogIsCurrent'
  <2>1. CASE UNCHANGED allocVars
    <3>1. /\ AllocTypeOK' /\ leaves' \in Seq(Leaves)
          /\ FreeInv' /\ ChainInv' /\ CatalogIsCurrent'
      BY <1>1, <2>1, FrameFacts
    <3> QED
      BY <1>1, <1>2, <3>1 DEF IInv, TypeOK
  <2>2. CASE constructAllocator
    BY <1>1, <1>2, <2>2, ConstructKeeps
  <2> QED
    BY <1>1, <2>1, <2>2
<1>4. LoadedPrefix'
  BY <1>1 DEF LoadedPrefix
<1> QED
  BY <1>3, <1>4 DEF IInv

\* ~PAllocator leaves a catalog that agrees with the DRAM fields, whether the
\* tree is gone or still open.
LEMMA DestroyIInv == IInv /\ (Destroy \/ DestroyFirst) => IInv'
<1> SUFFICES ASSUME IInv, Destroy \/ DestroyFirst PROVE IInv'
  OBVIOUS
<1>1. /\ maxFileId' = maxFileId /\ freeNum' = freeNum /\ startLeaf' = startLeaf
      /\ freeList' = freeList /\ freeListFile' = freeListFile
      /\ pAllocator' = "NULL" /\ catalog' = persistCatalog(startLeaf)
      /\ usedNum' = usedNum /\ bitmap' = bitmap /\ pNext' = pNext
      /\ tree' = tree /\ ppt' = ppt /\ list' = list /\ leaves' = leaves
  BY DEF Destroy, DestroyFirst, destroyAllocator, treeVars
<1>2. TypeOK'
  <2>1. maxFileId \in Nat
    BY SMTT(60) DEF IInv, TypeOK, AllocTypeOK
  <2>2. catalog' \in Catalog
    BY <1>1, <2>1, SMTT(60) DEF IInv, TypeOK, AllocTypeOK, Catalog, persistCatalog
  <2> QED
    BY <1>1, <2>2 DEF IInv, TypeOK, AllocTypeOK
<1>3. FreeInv'
  BY <1>1, SMTT(60) DEF IInv, FreeInv, FileBacksList, ListIsFree, ListIsDistinct,
              ifLeafFree, ifLeafExist
<1>4. ChainInv'
  BY <1>1 DEF IInv, ChainInv, UsedIsChain, InChain, ChainIsDistinct,
              PersistentChain, ifLeafUsed, ifLeafFree, ifLeafExist
<1>5. catalog' # NoFile
  <2>1. maxFileId \in Nat
    BY DEF IInv, TypeOK, AllocTypeOK
  <2>2. catalog' \in Catalog
    BY <1>1, <2>1 DEF IInv, TypeOK, AllocTypeOK, Catalog, persistCatalog
  <2> QED
    BY <2>2, AllocatorAssumption, SMTT(60)
<1>6. CatalogIsCurrent' /\ LoadedPrefix'
  BY <1>1, <1>5 DEF IInv, CatalogIsCurrent, LoadedPrefix, persistCatalog
<1> QED
  BY <1>2, <1>3, <1>4, <1>6 DEF IInv

\* Steps that touch neither the allocator nor the chain.
LEMMA QuietIInv ==
    IInv /\ (AllocFailure \/ DeleteTree \/ UNCHANGED vars) => IInv'
<1> SUFFICES ASSUME IInv, AllocFailure \/ DeleteTree \/ UNCHANGED vars PROVE IInv'
  OBVIOUS
<1>1. UNCHANGED <<allocVars, leaves, ppt>>
  BY DEF AllocFailure, DeleteTree, vars, treeVars
<1>2. /\ AllocTypeOK' /\ leaves' \in Seq(Leaves)
      /\ FreeInv' /\ ChainInv' /\ CatalogIsCurrent'
  BY <1>1, FrameFacts
<1>3. pAllocator' = pAllocator
  BY <1>1, SMTT(60) DEF allocVars, dramVars
<1>4. CASE AllocFailure
  BY <1>1, <1>2, <1>3, <1>4, SMTT(60) DEF AllocFailure, IInv, TypeOK, LoadedPrefix
<1>5. CASE DeleteTree
  BY <1>1, <1>2, <1>3, <1>5, EmptySeq, SMTT(60) DEF DeleteTree, IInv, TypeOK, LoadedPrefix
<1>6. CASE UNCHANGED vars
  BY <1>1, <1>2, <1>3, <1>6 DEF vars, treeVars, IInv, TypeOK, LoadedPrefix
<1> QED
  BY <1>4, <1>5, <1>6
-------------------------------------------------------------------------------
\* A step in either order of ~PAllocator and delete tree.
AnyNext == Next \/ DestroyFirst \/ DeleteOrphan

\* Every step keeps IInv: one case per action.
LEMMA StepIInv == IInv /\ [AnyNext]_vars => IInv'
<1> SUFFICES ASSUME IInv, [AnyNext]_vars PROVE IInv'
  OBVIOUS
<1>1. CASE Construct
  BY <1>1, ConstructIInv
<1>2. CASE NewTree
  BY <1>2, NewTreeIInv
<1>3. CASE LoadLeaf
  BY <1>3, LoadLeafIInv
<1>4. CASE LoadDone
  BY <1>4, LoadDoneIInv
<1>5. CASE FirstLeaf
  BY <1>5, FirstLeafIInv
<1>6. ASSUME NEW i \in 1 .. Len(list), SplitLeaf(i) PROVE IInv'
  BY <1>6, SplitLeafIInv
<1>7. ASSUME NEW i \in 1 .. Len(list), RemoveLeaf(i) PROVE IInv'
  BY <1>7, RemoveLeafIInv
<1>8. CASE AllocFailure \/ DeleteTree \/ UNCHANGED vars
  BY <1>8, QuietIInv
<1>9. CASE Destroy \/ DestroyFirst
  BY <1>9, DestroyIInv
<1>10. CASE DeleteOrphan
  BY <1>10, DeleteOrphanIInv
<1> QED
  BY <1>1, <1>2, <1>3, <1>4, <1>5, <1>6, <1>7, <1>8, <1>9, <1>10 DEF AnyNext, Next

\* IInv holds in every reachable state, whichever of tree and allocator is
\* destroyed first.
THEOREM Invariance == Spec \/ TestOrderSpec => []IInv
<1>1. [Next]_vars => [AnyNext]_vars
  BY DEF AnyNext
<1>2. [TestOrderNext]_vars => [AnyNext]_vars
  BY DEF AnyNext, TestOrderNext
<1> QED
  BY <1>1, <1>2, StepIInv, InitIInv, PTL DEF Spec, TestOrderSpec

\* Every field keeps its type, whatever operations and restarts happen.
THEOREM TypeCorrect == Spec \/ TestOrderSpec => []TypeOK
<1>1. IInv => TypeOK
  BY DEF IInv
<1> QED
  BY <1>1, Invariance, PTL

\* The leaves of the chain are the range of the sequence.
LEMMA ChainRange ==
    ASSUME IInv
    PROVE  \A p : p \in Range(leaves) <=> InChain(p)
<1>1. leaves \in Seq(Leaves)
  BY Zenon DEF IInv, TypeOK
<1>2. DOMAIN leaves = 1 .. Len(leaves)
  BY <1>1, LenProperties, Zenon
<1>3. ASSUME NEW p, p \in Range(leaves) PROVE InChain(p)
  BY <1>2, <1>3, Zenon DEF Range, InChain
<1>4. ASSUME NEW p, InChain(p) PROVE p \in Range(leaves)
  BY <1>2, <1>4, Zenon DEF Range, InChain
<1> QED
  BY <1>3, <1>4, Zenon

\* getLeaf never hands out a leaf that holds data, nor one leaf twice.
THEOREM FreeLeavesHoldNoData == Spec \/ TestOrderSpec => []NoLiveLeafIsFree
<1>1. IInv => NoLiveLeafIsFree
  <2> SUFFICES ASSUME IInv, NEW i \in 1 .. Len(freeList), freeList[i] # NullPPointer
               PROVE  /\ ifLeafFree(freeList[i])
                      /\ freeList[i] \notin Range(leaves)
                      /\ \A j \in 1 .. Len(freeList) : freeList[j] = freeList[i] => j = i
    BY DEF NoLiveLeafIsFree
  <2>1. ifLeafFree(freeList[i])
    BY SMTT(60) DEF IInv, FreeInv, ListIsFree
  <2>2. freeList[i] \in Leaves
    BY PointerFacts, ElementOfSeq DEF IInv, TypeOK, AllocTypeOK
  <2>3. ~InChain(freeList[i])
    BY <2>1, <2>2, SMTT(20) DEF IInv, ChainInv, UsedIsChain, ifLeafUsed
  <2>4. freeList[i] \notin Range(leaves)
    BY <2>3, ChainRange, Zenon
  <2> QED
    BY <2>1, <2>4, Zenon DEF IInv, FreeInv, ListIsDistinct
<1> QED
  BY <1>1, Invariance, PTL

\* The leaf-group bitmaps mark exactly the leaves of the tree.
THEOREM BitmapsMarkTheTree == Spec \/ TestOrderSpec => []UsedLeavesAreTheTree
<1>1. IInv => UsedLeavesAreTheTree
  BY ChainRange, Zenon DEF IInv, ChainInv, UsedIsChain, UsedLeavesAreTheTree
<1> QED
  BY <1>1, Invariance, PTL

\* startLeaf and the pNext fields spell out the chain at every moment.
THEOREM ChainIsOnNvm == Spec \/ TestOrderSpec => []PersistentChain
<1>1. IInv => PersistentChain
  BY DEF IInv, ChainInv
<1> QED
  BY <1>1, Invariance, PTL

\* bulkLoading restores exactly the leaves of the last tree, in order.
THEOREM ReloadIsComplete == Spec \/ TestOrderSpec => []ReloadRestoresLeaves
<1>1. IInv => ReloadRestoresLeaves
  BY DEF IInv, LoadedPrefix, ReloadRestoresLeaves
<1> QED
  BY <1>1, Invariance, PTL

\* An orderly restart brings back the allocator's fields, and no entry of
\* freeList but holes.
THEOREM RestartIsFaithful == Spec \/ TestOrderSpec => RestartKeepsAllocator
<1>1. IInv =>
        [constructAllocator /\ catalog # NoFile =>
            /\ maxFileId' = maxFileId
            /\ freeNum' = freeNum
            /\ startLeaf' = startLeaf
            /\ Len(freeList') = Len(freeList)
            /\ \A i \in 1 .. Len(freeList) :
                 freeList'[i] \in {NullPPointer, freeList[i]}]_vars
  BY ConstructFacts
<1> QED
  BY <1>1, Invariance, PTL DEF RestartKeepsAllocator
===============================================================================
