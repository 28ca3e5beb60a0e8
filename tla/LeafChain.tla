------------------------------- MODULE LeafChain -------------------------------
(***************************************************************************)
(* The chain of leaves of one FPTree and the allocator that supplies them: *)
(* LeafNode's constructor, split and remove and FPTree::bulkLoading        *)
(* (src/fptree.cpp) composed with PAllocator.                              *)
(*                                                                         *)
(* Which leaf an operation reaches, and whether it splits or empties it,   *)
(* depends on the keys; here every leaf may split and every leaf may       *)
(* become empty at any time.                                               *)
(*                                                                         *)
(* Spec keeps the order main.cpp shows, the tree is deleted before the     *)
(* allocator is destroyed; TestOrderSpec adds the other one, of a test.    *)
(***************************************************************************)
EXTENDS PAllocator, Functions

VARIABLES
    tree,    \* "none", "loading" (in bulkLoading), "open", or "undefined"
    ppt,     \* bulkLoading's cursor
    list,    \* DRAM: the LeafNode objects in next/prev order
    leaves   \* history: the leaves, in order, that hold the tree's data

\* A pointer linked into a list as its i-th element, and the i-th one unlinked.
InsertAt(s, i, p) == SubSeq(s, 1, i - 1) \o <<p>> \o SubSeq(s, i, Len(s))
RemoveAt(s, i) == SubSeq(s, 1, i - 1) \o SubSeq(s, i + 1, Len(s))

treeVars == <<tree, ppt, list, leaves>>
vars == <<allocVars, treeVars>>

TypeOK ==
    /\ AllocTypeOK
    /\ tree \in {"none", "loading", "open", "undefined"}
    /\ ppt \in PPointer
    /\ list \in Seq(Leaves)
    /\ leaves \in Seq(Leaves)

Init ==
    /\ AllocInit
    /\ tree = "none"
    /\ ppt = NullPPointer
    /\ list = << >>
    /\ leaves = << >>
-------------------------------------------------------------------------------
\* new FPTree: an empty root, then bulkLoading starts at getStartPointer().
NewTree ==
    /\ pAllocator = "live" /\ tree = "none"
    /\ tree' = "loading"
    /\ ppt' = startLeaf
    /\ UNCHANGED <<allocVars, list, leaves>>

\* Bound: a walk that has met as many leaves as there are and stands at one more
\* goes round in a cycle.  The loop would never leave it, and the model stops there.
MaxLoaded == Cardinality(Leaves)

\* One iteration of bulkLoading's loop.
LoadLeaf ==
    /\ tree = "loading" /\ ifLeafUsed(ppt)
    /\ Len(list) < MaxLoaded
    /\ list' = Append(list, ppt)
    /\ ppt' = pNext[ppt]
    /\ UNCHANGED <<allocVars, tree, leaves>>

\* The loop's exit; also the early return for an empty tree.
LoadDone ==
    /\ tree = "loading" /\ ~ifLeafUsed(ppt)
    /\ tree' = "open"
    /\ ppt' = NullPPointer
    /\ UNCHANGED <<allocVars, list, leaves>>

\* InnerNode::insert into an empty tree: new LeafNode(tree).
FirstLeaf ==
    /\ tree = "open" /\ list = << >>
    /\ \E p \in Leaves :
        /\ getLeaf(p)
        /\ pNext' = clearedLinks(p)
        /\ list' = << p >>
        /\ leaves' = << p >>
    /\ UNCHANGED <<tree, ppt>>

\* Mutant: the new leaf does not take over the old leaf's link.
linkForgets(links, old, new) == [links EXCEPT ![old] = new]

\* Mutant: the two stores in the other order, so that the new leaf copies a link
\* that already leads to itself.
linkSwapped(links, old, new) == [links EXCEPT ![old] = new, ![new] = new]

\* split copies the old leaf's pNext to the new leaf and then points to it.
linkAfter(links, old, new) ==
    [links EXCEPT ![new] = links[old], ![old] = new]

\* LeafNode::split of the i-th leaf.
SplitLeaf(i) ==
    /\ tree = "open"
    /\ \E p \in Leaves :
        /\ getLeaf(p)
        /\ pNext' = linkAfter(clearedLinks(p), list[i], p)
        /\ list' = InsertAt(list, i + 1, p)
        /\ leaves' = list'
    /\ UNCHANGED <<tree, ppt>>

\* new LeafNode returns without initialising the object when getLeaf fails; the
\* caller goes on to write through its pointers.
AllocFailure ==
    /\ tree = "open" /\ getLeafFails
    /\ tree' = "undefined"
    /\ UNCHANGED <<allocVars, ppt, list, leaves>>

\* Mutant: only the DRAM list is unlinked.
unlinkDramOnly(i) == pNext

\* prev->pNext takes over the pNext of the removed i-th leaf.
unlink(i) ==
    IF i = 1 THEN pNext ELSE [pNext EXCEPT ![list[i - 1]] = pNext[list[i]]]

\* LeafNode::remove of the last entry of the i-th leaf.
RemoveLeaf(i) ==
    /\ tree = "open"
    /\ freeLeaf(list[i])
    /\ pNext' = unlink(i)
    /\ list' = RemoveAt(list, i)
    /\ leaves' = list'
    /\ UNCHANGED <<tree, ppt>>

\* delete tree: every LeafNode is persisted and deleted.
DeleteTree ==
    /\ tree = "open"
    /\ tree' = "none"
    /\ list' = << >>
    /\ UNCHANGED <<allocVars, ppt, leaves>>

Construct ==
    /\ constructAllocator
    /\ UNCHANGED treeVars

Destroy ==
    /\ tree = "none"
    /\ destroyAllocator
    /\ UNCHANGED treeVars

orphaned == pAllocator = "NULL" /\ tree = "open"

\* The other order, as in test/fptree_test.cpp: ~PAllocator under an open tree,
DestroyFirst ==
    /\ tree = "open"
    /\ destroyAllocator
    /\ UNCHANGED treeVars

\* and then delete tree, where the first ~LeafNode calls persist() and with it
\* getAllocator(), which builds a new allocator.
DeleteOrphan ==
    /\ orphaned
    /\ IF list = << >> THEN UNCHANGED allocVars ELSE constructAllocator
    /\ tree' = "none"
    /\ list' = << >>
    /\ UNCHANGED <<ppt, leaves>>

\* The process ends without calling ~PAllocator, as ycsb.cpp does: the files
\* stay as they are.
Exit ==
    /\ pAllocator = "live" /\ tree \in {"none", "open"}
    /\ pAllocator' = "NULL"
    /\ tree' = "none"
    /\ list' = << >>
    /\ UNCHANGED <<maxFileId, freeNum, freeList, startLeaf, nvmVars>>
    /\ UNCHANGED <<ppt, leaves>>
-------------------------------------------------------------------------------
Next ==
    \/ Construct
    \/ NewTree
    \/ LoadLeaf
    \/ LoadDone
    \/ FirstLeaf
    \/ \E i \in 1 .. Len(list) : SplitLeaf(i)
    \/ \E i \in 1 .. Len(list) : RemoveLeaf(i)
    \/ AllocFailure
    \/ DeleteTree
    \/ Destroy

Spec == Init /\ [][Next]_vars

\* Lives that may also end in the order of the tests.
TestOrderNext == DestroyFirst \/ DeleteOrphan \/ (~orphaned /\ Next)

\* The loop of bulkLoading runs in the calling thread and never waits.
TestOrderSpec == Init /\ [][TestOrderNext]_vars /\ WF_vars(LoadLeaf \/ LoadDone)

\* Lives of the process that may end without ~PAllocator.
ExitSpec == Init /\ [][Next \/ Exit]_vars
-------------------------------------------------------------------------------
\* getLeaf can only ever hand out a leaf that holds no data of the tree, and
\* never the same leaf twice: an entry of freeList that is an address is the
\* address of a free leaf and stands there once.
NoLiveLeafIsFree ==
    \A i \in 1 .. Len(freeList) :
        freeList[i] # NullPPointer =>
            /\ ifLeafFree(freeList[i])
            /\ freeList[i] \notin Range(leaves)
            /\ \A j \in 1 .. Len(freeList) : freeList[j] = freeList[i] => j = i

\* The leaf-group bitmaps mark exactly the leaves of the tree: split and
\* remove neither leak a leaf nor free one that is still linked, and a restart
\* keeps it so.
UsedLeavesAreTheTree ==
    \A p \in Leaves : ifLeafUsed(p) <=> p \in Range(leaves)

\* The usedNum field of every mapped leaf group counts its used leaves.
UsedNumCounts ==
    \A f \in FileIds : f < maxFileId =>
        usedNum[f] = Cardinality({p \in Leaves : p.fileId = f /\ bitmap[p] = 1})

\* The chain on NVM that bulkLoading will walk, startLeaf and the pNext fields,
\* is between operations the list of leaves in order, ended by a null pointer.
PersistentChain ==
    /\ startLeaf = IF leaves = << >> THEN NullPPointer ELSE leaves[1]
    /\ \A i \in 1 .. Len(leaves) :
        pNext[leaves[i]] = IF i = Len(leaves) THEN NullPPointer ELSE leaves[i + 1]

\* bulkLoading finds every leaf that held data, in order, and nothing else.
ReloadRestoresLeaves == tree = "open" => list = leaves

\* An orderly restart, ~PAllocator and then the constructor, brings back
\* maxFileId, freeNum and startLeaf, and puts no other leaf in freeList.
RestartKeepsAllocator ==
    [][constructAllocator /\ catalog # NoFile =>
        /\ maxFileId' = maxFileId
        /\ freeNum' = freeNum
        /\ startLeaf' = startLeaf
        /\ Len(freeList') = Len(freeList)
        /\ \A i \in 1 .. Len(freeList) :
             freeList'[i] \in {NullPPointer, freeList[i]}]_vars

\* bulkLoading terminates: whatever splits, removals and restarts came before, the
\* walk from startLeaf along pNext never comes back to a used leaf it has passed.
LoadTerminates == tree = "loading" ~> tree = "open"

\* p_allocator.cpp:129-132: getLeaf fails only when newLeafGroup failed "and
\* there is no usable free leaf".
FailsOnlyWhenFull ==
    tree = "undefined" => ~canMapFile /\ \A p \in Leaves : ~ifLeafFree(p)
===============================================================================
