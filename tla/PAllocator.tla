------------------------------ MODULE PAllocator ------------------------------
(***************************************************************************)
(* The persistent allocator of leaves (src/p_allocator.cpp).               *)
(*                                                                         *)
(* Leaves live in leaf-group files; each file starts with a header         *)
(* (usedNum, one bitmap byte per leaf).  Two ordinary files, the catalog   *)
(* and free_list, carry the allocator's DRAM fields from one life of the   *)
(* singleton to the next.  This module holds the state of the allocator    *)
(* and one action per operation; the tree that calls them is in LeafChain. *)
(*                                                                         *)
(* A PPointer's byte offset is abstracted to the index of the leaf in its  *)
(* group: offset = LEAF_GROUP_HEAD + index * calLeafSize().                *)
(***************************************************************************)
EXTENDS Integers, Sequences, FiniteSets

CONSTANTS LEAF_GROUP_AMOUNT,  \* leaves in one leaf-group file
          MAX_FILES,          \* capacity of DATA_DIR: pmem_map_file fails beyond it
          NoFile              \* the catalog before it is first written

ILLEGAL_FILE_ID == 0

Offsets == 0 .. LEAF_GROUP_AMOUNT - 1

FileIds == 1 .. MAX_FILES

Leaves == [fileId : FileIds, offset : Offsets]

\* A PPointer of zero bytes: pNext of the last leaf, a hole in free_list.
NullPPointer == [fileId |-> ILLEGAL_FILE_ID, offset |-> 0]

PPointer == Leaves \cup {NullPPointer}

Catalog == [maxFileId : Nat, freeNum : Nat, startLeaf : PPointer]

ASSUME AllocatorAssumption ==
    /\ LEAF_GROUP_AMOUNT \in Nat \ {0}
    /\ MAX_FILES \in Nat
    /\ NoFile \notin Catalog

VARIABLES
    pAllocator,    \* DRAM: the singleton pointer, "NULL" or "live"
    maxFileId,     \* DRAM: the next file id to use
    freeNum,       \* DRAM: number of free leaves
    freeList,      \* DRAM: the vector of free leaves; getLeaf takes the last
    startLeaf,     \* DRAM: head of the chain of leaves
    catalog,       \* file p_allocator_catalog
    freeListFile,  \* file free_list, a sequence of PPointers
    usedNum,       \* NVM: the usedNum field of every leaf-group header
    bitmap,        \* NVM: the bitmap byte of every leaf in its group header
    pNext          \* NVM: the pNext field of every leaf

dramVars == <<pAllocator, maxFileId, freeNum, freeList, startLeaf>>
nvmVars == <<catalog, freeListFile, usedNum, bitmap, pNext>>
allocVars == <<dramVars, nvmVars>>

AllocTypeOK ==
    /\ pAllocator \in {"NULL", "live"}
    /\ maxFileId \in 1 .. MAX_FILES + 1
    /\ freeNum \in Nat
    /\ freeList \in Seq(PPointer)
    /\ startLeaf \in PPointer
    /\ catalog \in Catalog \cup {NoFile}
    /\ freeListFile \in Seq(PPointer)
    /\ usedNum \in [FileIds -> Int]
    /\ bitmap \in [Leaves -> {0, 1}]
    /\ pNext \in [Leaves -> PPointer]

\* No file exists yet and the singleton has not been built.
AllocInit ==
    /\ pAllocator = "NULL"
    /\ maxFileId = 1
    /\ freeNum = 0
    /\ freeList = << >>
    /\ startLeaf = NullPPointer
    /\ catalog = NoFile
    /\ freeListFile = << >>
    /\ usedNum = [f \in FileIds |-> 0]
    /\ bitmap = [p \in Leaves |-> 0]
    /\ pNext = [p \in Leaves |-> NullPPointer]
-------------------------------------------------------------------------------
\* The third illegal case, an offset inside a leaf, is excluded by the index.
existsBelow(p, max) ==
    /\ p.fileId # ILLEGAL_FILE_ID
    /\ p.fileId < max
    /\ p.offset < LEAF_GROUP_AMOUNT

ifLeafExist(p) == existsBelow(p, maxFileId)

ifLeafFree(p) == ifLeafExist(p) /\ bitmap[p] = 0

ifLeafUsed(p) == ifLeafExist(p) /\ ~ifLeafFree(p)

\* What the catalog file holds after persistCatalog with the given startLeaf.
persistCatalog(start) ==
    [maxFileId |-> maxFileId, freeNum |-> freeNum, startLeaf |-> start]

\* Mutant: seekp is missing, so the entries land at the start of the file.
truncatedToStart(num) == << >>

\* The bytes before position num of a free_list file that was opened with
\* ios::out (which empties it) and then positioned with seekp: a hole.
truncatedTo(num) == [i \in 1 .. num |-> NullPPointer]

groupLeaves(f) ==
    [i \in 1 .. LEAF_GROUP_AMOUNT |-> [fileId |-> f, offset |-> i - 1]]

\* Mutant: freeNum is not advanced with the leaves pushed.
newLeafGroupUncounted ==
    [list |-> freeList \o groupLeaves(maxFileId),
     file |-> truncatedTo(freeNum) \o groupLeaves(maxFileId),
     num  |-> freeNum,
     max  |-> maxFileId + 1,
     used |-> [usedNum EXCEPT ![maxFileId] = 0],
     bits |-> bitmap,
     next |-> pNext]

\* The allocator after a successful newLeafGroup: file maxFileId is mapped and
\* zeroed, its leaves go to freeList and to free_list.  The catalog is not
\* written.
newLeafGroup ==
    [list |-> freeList \o groupLeaves(maxFileId),
     file |-> truncatedTo(freeNum) \o groupLeaves(maxFileId),
     num  |-> freeNum + LEAF_GROUP_AMOUNT,
     max  |-> maxFileId + 1,
     used |-> [usedNum EXCEPT ![maxFileId] = 0],
     bits |-> [p \in Leaves |-> IF p.fileId = maxFileId THEN 0 ELSE bitmap[p]],
     next |-> [p \in Leaves |-> IF p.fileId = maxFileId THEN NullPPointer
                                                       ELSE pNext[p]]]

\* The state getLeaf takes the leaf from: a new group only if none is free.
supply ==
    IF freeNum = 0
    THEN newLeafGroup
    ELSE [list |-> freeList, file |-> freeListFile, num |-> freeNum,
          max |-> maxFileId, used |-> usedNum, bits |-> bitmap, next |-> pNext]

canMapFile == maxFileId <= MAX_FILES

\* getLeaf returns true and leaf p.  Of the leaf's own bytes only pNext is
\* modelled; the caller combines clearedLinks(p) with what it writes there.
getLeaf(p) ==
    /\ pAllocator = "live"
    /\ freeNum # 0 \/ canMapFile
    /\ LET s == supply IN
       /\ p = s.list[Len(s.list)]
       /\ existsBelow(p, s.max)
       /\ startLeaf' = IF existsBelow(startLeaf, s.max) /\ s.bits[startLeaf] = 1
                       THEN startLeaf ELSE p
       /\ freeList' = SubSeq(s.list, 1, Len(s.list) - 1)
       /\ freeNum' = s.num - 1
       /\ maxFileId' = s.max
       /\ freeListFile' = s.file
       /\ usedNum' = [s.used EXCEPT ![p.fileId] = @ + 1]
       /\ bitmap' = [s.bits EXCEPT ![p] = 1]
    /\ UNCHANGED <<pAllocator, catalog>>

\* The link fields after getLeaf's memset of leaf p.
clearedLinks(p) == [supply.next EXCEPT ![p] = NullPPointer]

\* getLeaf returns false: no group can be mapped, or the last entry of freeList
\* is not the address of a leaf.  It changes nothing, the entry included.
getLeafFails ==
    /\ pAllocator = "live"
    /\ IF freeNum = 0 THEN ~canMapFile
                      ELSE ~ifLeafExist(freeList[Len(freeList)])

\* Mutant: usedNum is not decremented.
freeLeafUncounted(p) ==
    /\ pAllocator = "live"
    /\ ifLeafUsed(p)
    /\ IF startLeaf = p
       THEN /\ startLeaf' = pNext[p]
            /\ catalog' = persistCatalog(pNext[p])
       ELSE UNCHANGED <<startLeaf, catalog>>
    /\ freeListFile' = Append(truncatedTo(freeNum), p)
    /\ freeList' = Append(freeList, p)
    /\ freeNum' = freeNum + 1
    /\ bitmap' = [bitmap EXCEPT ![p] = 0]
    /\ UNCHANGED <<pAllocator, maxFileId, usedNum>>

\* freeLeaf returns true.  The caller updates the links.
freeLeaf(p) ==
    /\ pAllocator = "live"
    /\ ifLeafUsed(p)
    /\ IF startLeaf = p
       THEN /\ startLeaf' = pNext[p]
            /\ catalog' = persistCatalog(pNext[p])
       ELSE UNCHANGED <<startLeaf, catalog>>
    /\ freeListFile' = Append(truncatedTo(freeNum), p)
    /\ freeList' = Append(freeList, p)
    /\ freeNum' = freeNum + 1
    /\ usedNum' = [usedNum EXCEPT ![p.fileId] = @ - 1]
    /\ bitmap' = [bitmap EXCEPT ![p] = 0]
    /\ UNCHANGED <<pAllocator, maxFileId>>
-------------------------------------------------------------------------------
\* Mutant: the loop stops one entry early.
reloadedShort(num, pt0) == SubSeq(freeListFile, 1, num - 1)

\* What the reload loop pushes: a read past the end of free_list fails and
\* leaves pt as it was, pt0 being its uninitialised value.
reloadedList(num, pt0) ==
    [i \in 1 .. num |->
        IF i <= Len(freeListFile) THEN freeListFile[i]
        ELSE IF freeListFile # << >> THEN freeListFile[Len(freeListFile)]
        ELSE pt0]

\* getAllocator() with a NULL singleton: the constructor.
constructAllocator ==
    /\ pAllocator = "NULL"
    /\ pAllocator' = "live"
    /\ IF catalog # NoFile
       THEN /\ maxFileId' = catalog.maxFileId
            /\ freeNum' = catalog.freeNum
            /\ startLeaf' = catalog.startLeaf
            /\ \E pt0 \in PPointer : freeList' = reloadedList(catalog.freeNum, pt0)
            /\ UNCHANGED <<catalog, freeListFile>>
       ELSE /\ maxFileId' = 1
            /\ freeNum' = 0
            /\ startLeaf' = NullPPointer
            /\ freeList' = << >>
            /\ freeListFile' = << >>
            /\ catalog' = [maxFileId |-> 1, freeNum |-> 0,
                           startLeaf |-> NullPPointer]
    /\ UNCHANGED <<usedNum, bitmap, pNext>>

\* Mutant: the destructor does not call persistCatalog.
destroyUnsaved ==
    /\ pAllocator = "live"
    /\ pAllocator' = "NULL"
    /\ UNCHANGED <<maxFileId, freeNum, freeList, startLeaf, nvmVars>>

\* ~PAllocator: the fields keep their values, the singleton becomes NULL.
destroyAllocator ==
    /\ pAllocator = "live"
    /\ catalog' = persistCatalog(startLeaf)
    /\ pAllocator' = "NULL"
    /\ UNCHANGED <<maxFileId, freeNum, freeList, startLeaf>>
    /\ UNCHANGED <<freeListFile, usedNum, bitmap, pNext>>
===============================================================================
