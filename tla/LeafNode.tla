-------------------------------- MODULE LeafNode --------------------------------
(***************************************************************************)
(* One LeafNode (src/fptree.cpp) slot by slot: bitmap, fingerprints, kv    *)
(* array and the DRAM counter n, through insert, split, remove, update and *)
(* the constructor that reloads a leaf from NVM.                           *)
(*                                                                         *)
(* The bitmap is a whole number of bytes: bits beyond the last slot are    *)
(* padding.  A byte has BYTE bits.  After a split the model holds both     *)
(* leaves for one step and then goes on with either of them.               *)
(***************************************************************************)
EXTENDS Integers, FiniteSets

CONSTANTS LEAF_DEGREE,   \* a leaf has 2 * LEAF_DEGREE slots
          BYTE,          \* bits in a byte
          Key,           \* the keys in use, a finite set of integers
          Value,         \* the values in use
          MAX_VALUE,     \* what find returns for a missing key
          Fingerprint,   \* the values of a fingerprint byte, with 0
          keyHash(_)     \* external: the hash of a key, any function

ASSUME LeafAssumption ==
    /\ LEAF_DEGREE \in Nat \ {0}
    /\ BYTE \in Nat \ {0}
    /\ Key \subseteq Int
    /\ 0 \in Fingerprint
    /\ \A k \in Key : keyHash(k) \in Fingerprint
    /\ MAX_VALUE \notin Value

VARIABLES
    leaf,     \* the leaf under observation
    sibling,  \* << >>, or the leaf split off in the last step
    map       \* history: the entries the two leaves are to hold

vars == <<leaf, sibling, map>>

Slots == 0 .. 2 * LEAF_DEGREE - 1

bitmapSize == (2 * LEAF_DEGREE + BYTE - 1) \div BYTE

Bits == 0 .. bitmapSize * BYTE - 1

\* A slot of zeroed NVM.
ZeroKV == [k |-> 0, v |-> 0]

KeyValue == [k : Key, v : Value] \cup {ZeroKV}

\* LeafNode(tree): a leaf getLeaf has zeroed.
EmptyLeaf ==
    [bitmap       |-> {},
     fingerprints |-> [i \in Slots |-> 0],
     kv           |-> [i \in Slots |-> ZeroKV],
     n            |-> 0]

LeafType ==
    [bitmap       : SUBSET Bits,
     fingerprints : [Slots -> Fingerprint],
     kv           : [Slots -> KeyValue],
     n            : Int]

\* The slots whose bit is set; getBit never looks at the padding.
used(l) == {i \in Slots : i \in l.bitmap}
-------------------------------------------------------------------------------
\* The slots that remove, update and find accept for k.
matches(l, k) ==
    {i \in used(l) : l.fingerprints[i] = keyHash(k) /\ l.kv[i].k = k}

first(S) == CHOOSE i \in S : \A j \in S : i <= j

find(l, k) == IF matches(l, k) = {} THEN MAX_VALUE ELSE l.kv[first(matches(l, k))].v

\* Mutant: the key itself is stored as the fingerprint.
insertUnhashed(l, k, v) ==
    LET pos == first(Slots \ l.bitmap) IN
    IF Slots \subseteq l.bitmap THEN l
    ELSE [bitmap       |-> l.bitmap \cup {pos},
          fingerprints |-> [l.fingerprints EXCEPT ![pos] = k],
          kv           |-> [l.kv EXCEPT ![pos] = [k |-> k, v |-> v]],
          n            |-> l.n + 1]

\* The first slot without its bit set is filled; nothing happens if there is none.
insertNonFull(l, k, v) ==
    LET pos == first(Slots \ l.bitmap) IN
    IF Slots \subseteq l.bitmap THEN l
    ELSE [bitmap       |-> l.bitmap \cup {pos},
          fingerprints |-> [l.fingerprints EXCEPT ![pos] = keyHash(k)],
          kv           |-> [l.kv EXCEPT ![pos] = [k |-> k, v |-> v]],
          n            |-> l.n + 1]

\* Mutant: one position too low.
findSplitKeyLow(l) ==
    LET keys == {l.kv[i].k : i \in Slots} IN
    CHOOSE x \in keys :
        /\ Cardinality({i \in Slots : l.kv[i].k < x}) < LEAF_DEGREE
        /\ Cardinality({i \in Slots : l.kv[i].k <= x}) >= LEAF_DEGREE

\* The key at position LEAF_DEGREE of the sorted keys of all slots, used or not.
findSplitKey(l) ==
    LET keys == {l.kv[i].k : i \in Slots} IN
    CHOOSE x \in keys :
        /\ Cardinality({i \in Slots : l.kv[i].k < x}) <= LEAF_DEGREE
        /\ Cardinality({i \in Slots : l.kv[i].k <= x}) > LEAF_DEGREE

\* The slots split copies.
upper(l) == {i \in Slots : l.kv[i].k >= findSplitKey(l)}

\* Mutant: the counter of the old leaf is not reset.
splitOldKeepsN(l) == [l EXCEPT !.bitmap = Bits \ upper(l)]

\* The old leaf gets the complement of the new bitmap, padding included.
splitOld(l) == [l EXCEPT !.bitmap = Bits \ upper(l), !.n = LEAF_DEGREE]

\* Mutant: the fingerprints stay behind.
splitNewUnmarked(l) ==
    [bitmap       |-> upper(l),
     fingerprints |-> [i \in Slots |-> 0],
     kv           |-> [i \in Slots |-> IF i \in upper(l) THEN l.kv[i] ELSE ZeroKV],
     n            |-> LEAF_DEGREE]

splitNew(l) ==
    [bitmap       |-> upper(l),
     fingerprints |-> [i \in Slots |-> IF i \in upper(l) THEN l.fingerprints[i] ELSE 0],
     kv           |-> [i \in Slots |-> IF i \in upper(l) THEN l.kv[i] ELSE ZeroKV],
     n            |-> LEAF_DEGREE]

\* LeafNode(p, tree): n is the number of bits set in the bytes of the bitmap.
reloaded(l) == [l EXCEPT !.n = Cardinality(l.bitmap)]
-------------------------------------------------------------------------------
Init ==
    /\ leaf = EmptyLeaf
    /\ sibling = << >>
    /\ map = [k \in Key |-> MAX_VALUE]

\* Mutant: the leaf splits one entry too late.
insertLate(k, v) ==
    /\ sibling = << >>
    /\ LET l == insertNonFull(leaf, k, v) IN
       IF l.n > 2 * LEAF_DEGREE
       THEN leaf' = splitOld(l) /\ sibling' = << splitNew(l), findSplitKey(l) >>
       ELSE leaf' = l /\ UNCHANGED sibling
    /\ map' = [map EXCEPT ![k] = v]

insert(k, v) ==
    /\ sibling = << >>
    /\ LET l == insertNonFull(leaf, k, v) IN
       IF l.n >= 2 * LEAF_DEGREE
       THEN leaf' = splitOld(l) /\ sibling' = << splitNew(l), findSplitKey(l) >>
       ELSE leaf' = l /\ UNCHANGED sibling
    /\ map' = [map EXCEPT ![k] = v]

\* A leaf whose counter reaches 0 is freed; the next one is a new leaf.
remove(k) ==
    /\ sibling = << >> /\ matches(leaf, k) # {}
    /\ leaf' = IF leaf.n = 1 THEN EmptyLeaf
               ELSE [leaf EXCEPT !.bitmap = @ \ {first(matches(leaf, k))}, !.n = @ - 1]
    /\ map' = [map EXCEPT ![k] = MAX_VALUE]
    /\ UNCHANGED sibling

update(k, v) ==
    /\ sibling = << >> /\ matches(leaf, k) # {}
    /\ leaf' = [leaf EXCEPT !.kv[first(matches(leaf, k))].v = v]
    /\ map' = [map EXCEPT ![k] = v]
    /\ UNCHANGED sibling

\* The leaf is deleted from DRAM and built again by bulkLoading.
reload ==
    /\ sibling = << >> /\ leaf # EmptyLeaf
    /\ leaf' = reloaded(leaf)
    /\ UNCHANGED <<sibling, map>>

\* After a split: observe the old or the new leaf, which take the keys below and
\* from the split key on.
observe(new) ==
    /\ sibling # << >>
    /\ leaf' = IF new THEN sibling[1] ELSE leaf
    /\ map' = [k \in Key |-> IF (k >= sibling[2]) = new THEN map[k] ELSE MAX_VALUE]
    /\ sibling' = << >>

\* Callers insert keys that are not in the tree.
Next ==
    \/ \E k \in Key, v \in Value : map[k] = MAX_VALUE /\ insert(k, v)
    \/ \E k \in Key : remove(k)
    \/ \E k \in Key, v \in Value : update(k, v)
    \/ reload
    \/ \E new \in BOOLEAN : observe(new)

Spec == Init /\ [][Next]_vars

\* Callers that also insert keys the tree already has.
DuplicateSpec ==
    Init /\ [][Next \/ \E k \in Key, v \in Value : insert(k, v)]_vars
-------------------------------------------------------------------------------
both == {leaf} \cup (IF sibling = << >> THEN {} ELSE {sibling[1]})

TypeOK ==
    /\ leaf \in LeafType
    /\ sibling # << >> => sibling[1] \in LeafType /\ sibling[2] \in Key
    /\ map \in [Key -> Value \cup {MAX_VALUE}]

\* fptree.h:131: n is the "amount of entries" of its leaf, the slots whose bit is
\* set, after every insert, split, remove and reload; remove frees the leaf
\* and insert splits it by this counter alone.
NCountsEntries == \A l \in both : l.n = Cardinality(used(l))

\* The slots hold exactly the entries written and not removed, each once: what
\* find returns through bitmap and fingerprints is the last value written,
\* and stale slots never come back.
SlotsHoldTheMap ==
    /\ \A k \in Key :
        {find(l, k) : l \in both} \ {MAX_VALUE} = {map[k]} \ {MAX_VALUE}
    /\ \A l \in both : \A i, j \in used(l) : l.kv[i].k = l.kv[j].k => i = j

\* split leaves LEAF_DEGREE entries on each side and every key of the old leaf
\* below every key of the new one.
SplitIsEven ==
    sibling # << >> =>
        /\ \A l \in both : Cardinality(used(l)) = LEAF_DEGREE
        /\ \A i \in used(leaf), j \in used(sibling[1]) :
             leaf.kv[i].k < sibling[2] /\ sibling[2] <= sibling[1].kv[j].k

\* README.md:192: 0 < m < 2d between calls.
Occupancy ==
    \A l \in both : l = EmptyLeaf \/ Cardinality(used(l)) \in 1 .. 2 * LEAF_DEGREE - 1
================================================================================
