# A verification of FPTree

TLA+ models of the single-threaded FPTree in `src/Programming-FPTree`, the runs
that model-check them and the theorems TLAPS proves about them. An FPTree is a
key-value store: a B+ tree whose inner nodes live in DRAM and whose leaves live
in non-volatile memory (NVM), so that the index can be rebuilt from the leaves
after a restart.

## 1. The system

| part | source | state | operations |
|---|---|---|---|
| persistent allocator | `src/p_allocator.cpp` | DRAM: `maxFileId`, `freeNum`, `freeList`, `startLeaf`, the singleton pointer; files: catalog, free_list; NVM: header of each leaf group (`usedNum`, one bitmap byte per leaf) | constructor, destructor, `getLeaf`, `freeLeaf`, `newLeafGroup`, `persistCatalog`, `ifLeafExist/Free/Used` |
| leaf nodes | `src/fptree.cpp` (LeafNode) | NVM: bitmap, `pNext`, fingerprints, `kv`; DRAM: `n`, `prev`, `next` | `insert`, `split`, `remove`, `update`, `find`, the constructors for a new and for an existing leaf |
| inner nodes | `src/fptree.cpp` (InnerNode) | DRAM: `keys`, `childrens` | `findIndex`, `insert`, `insertNonFull`, `split`, `remove`, two redistributions, four merges, `insertLeaf` |
| the tree | `src/fptree.cpp` (FPTree) | `root`, `degree` | `insert`, `remove`, `update`, `find`, constructor with `bulkLoading`, destructor |
| utilities | `src/utility.cpp`, `clhash.c` | none | sizes, bit count, fingerprint hash |
| drivers and tests | `main.cpp`, `check.cpp`, `ycsb.cpp`, `lycsb.cpp`, `test/` | | |

How they interact. A call on the tree descends by `findIndex` to a leaf. A leaf
that reaches `2 * LEAF_DEGREE` entries splits: it asks the allocator for a leaf,
moves the upper half there and links it behind itself, and the inner nodes above
take the new separator and may split in turn. A leaf that loses its last entry is
given back to the allocator and unlinked, and the inner nodes above redistribute
or merge. A new tree starts empty, walks the chain from the allocator's
`startLeaf` along `pNext` and appends every used leaf to the index. The
allocator's fields survive in the catalog, which the destructor writes, and in
free_list, which `freeLeaf` and `newLeafGroup` write.

What is hard here: the same facts are kept twice and updated separately (`n` and
the bitmap, the DRAM list and the `pNext` chain, the index and the chain,
`freeList` and the free_list file, the header bitmaps and all of those); they
must agree after any sequence of calls and restarts, since a restart rebuilds one
from the other. Nothing runs concurrently. The micro-log and the concurrent
CFPTree that the root README names are on other branches and not in this source.

The correctness properties, informally: the tree is a map; a restart loses and
invents nothing; the allocator never hands out a leaf in use; the index is a
balanced search tree over an ordered chain; loading ends.

`PROJECT.json` lists every component, the hazards at their source lines, and the
source lines each definition models.

## 2. The modules

* **PAllocator** - the allocator's DRAM fields, files and NVM headers, one
  operator or action per function. A PPointer is a file and the index of a leaf
  in it; the byte offset is `LEAF_GROUP_HEAD + index * calLeafSize()`. Opening
  free_list for output empties it and `seekp` leaves a hole of zero bytes
  (`truncatedTo`), a read beyond its end repeats the last entry (`reloadedList`).
  `pmem_map_file` fails when `MAX_FILES` files exist.
* **LeafChain** - PAllocator composed with the life of the leaves: first leaf,
  split, removal, deletion of the tree, restart of the allocator, and
  `bulkLoading`, one leaf per step. Keys are abstracted: any leaf may split or
  become empty at any time, which covers every tree. `leaves` is a history
  variable: the leaves that hold the data, which a restart must bring back.
  `AllocFailure` ends the model: a LeafNode built without a leaf has
  uninitialised pointers. `Spec` keeps the order of `main.cpp`, the tree is deleted
  before the allocator. `TestOrderSpec` adds that of `test/fptree_test.cpp:141-142`: the
  allocator goes first, and deleting a leaf then builds a new one (`DeleteOrphan`).
* **LeafChain_proofs** - the theorems about it.
* **InnerNode** - the operations on one inner node, or a parent and two children,
  on sequences of keys and children. Position p in the code is index p + 1.
* **FindIndex** - the loop of `findIndex` step by step. **FindIndex_proofs**,
  **InnerNode_proofs** - theorems for any length and any degree.
* **FPTree** - the whole index as a nested value, the chain of leaves beside it,
  and the five calls. A leaf is the map its used slots hold. Undefined behaviour
  sets `status` and ends the model: `redistributeLeft`, and reading `childrens[0]`
  of a root without children, which may also happen to read NULL.
* **KVStore** - the abstract map that FPTree is to implement. Both record `call`, the
  operation and its arguments as the caller gave them, and `ret`, what it returned,
  so that a step of the tree can only be the step of the map for the same call:
  a lost insert is no reload, and a remove of another key no remove of this one.
* **LeafNode** - one leaf slot by slot. `keyHash` is any function, the bytes of
  the bitmap have `BYTE` bits, so that padding can be had in a small leaf. After a
  split both leaves are visible for one step, then the model goes on with either.
  **MCLeafNode** gives it a hash with collisions.

Modules compose as LeafChain over PAllocator (leaf allocation), FPTree over
InnerNode (index), FPTree against KVStore (refinement). Operators named in a
comment as "Mutant" are wrong versions of the definition after them; they are not
part of a specification, and each passing property is shown to fail with one.

## 3. What the runs show

| run | instance | states | result |
|---|---|---|---|
| LeafChain | 2 files of 2 leaves | 110,852 | holds |
| FPTree | keys 1..9, LEAF_DEGREE 1, degrees 1 and 2 | 7,656 | holds |
| FPTree_map | keys 1..6, two values (symmetric), LEAF_DEGREE 2, degree 1 | 4,355 | holds |
| LeafNode | LEAF_DEGREE 2, 5 keys, 2 values, 2 fingerprints | 75,587 | holds |
| FindIndex | up to 5 keys out of 6 | 12,475 | holds |
| LeafChain_free_list, LeafChain_exit, FPTree_redistribute, FPTree_empty, LeafNode_padding, LeafNode_duplicate | | | violated: section 4 |

**LeafChain.** `NoLiveLeafIsFree`: what `getLeaf` may hand out (and zero) holds no
data and stands in freeList once. `UsedLeavesAreTheTree`: header bitmaps and tree
agree. `UsedNumCounts`: so do the counters. `PersistentChain`: the chain on NVM is
complete between any two operations. `ReloadRestoresLeaves`: `bulkLoading` brings
back every leaf in order. `RestartKeepsAllocator`: an orderly restart restores the
allocator, but for holes. `LoadTerminates`: `bulkLoading` ends, since its walk never
comes back to a leaf.

**FPTree.** `Balanced`: d to 2d keys in every inner node but the root, all leaves
at one depth. `SearchTree`: every separator bounds what is below it.
`ChainIsInOrder`: links, index and keys have one order, which `insertLeaf` needs.
`ImplementsKVStore`: every call changes and returns what the map would for the same
operation, key and value. **FPTree_map** asks the last again of leaves with several
entries and of two values.

**LeafNode.** `NCountsEntries`: the hand-kept counter is right. `SlotsHoldTheMap`:
find through bitmap and fingerprints gives the last value written. `SplitIsEven`
and `Occupancy`: what split leaves.

**FindIndex.** `ReturnsFirstLarger`, `Terminates`.

Bounds. Two groups of two leaves let a leaf be freed in one group and reused in
another, the directory become full, and holes appear before and behind real
entries. With LEAF_DEGREE 1 a leaf holds one entry, so nine keys make nine leaves:
three levels of inner nodes of degree 1 and two of degree 2. Root splits, merges
to either side, both redistributions and the merge into the root happen above the
leaves, and one level higher the merge into the root happens again. With LEAF_DEGREE 2
(FPTree_map) a leaf holds one to three entries, so that most inserts do not split and
most removals do not empty their leaf; six keys make four leaves under two levels. The
two configurations identify states that differ only in `call` and `ret` (`TreeView`):
no operation reads them, and TLC checks the refinement on every step, also on one that
leads to a state it has seen. `LoadLeaf` has a bound, `MaxLoaded`: a walk longer than the
number of leaves goes round in a cycle and is not followed; no state of the run gets
there, and with a cycle `LoadTerminates` fails there. Four slots are two
more than a leaf keeps after a split, so removed slots are refilled in any order;
two fingerprints for five keys collide. States after undefined behaviour have no
successor, so those configurations do not check deadlock.

Fairness. `LoadTerminates` assumes weak fairness of the loop of `bulkLoading`, and
`Terminates` of the loop of `findIndex`: both run in the calling thread and never
wait. No call of a user is assumed to happen.

Callers insert keys that are not in the tree and never the value MAX_VALUE, which
`find` uses for "not found"; LeafNode_duplicate drops the first assumption.

## 4. Disagreements between code and documentation

Each is a run that TLC ends with a counterexample; `PROJECT.json` quotes both sides.

1. **free_list is emptied on every write** (LeafChain_free_list). After a free and
   an orderly restart, `getLeaf` meets a zero PPointer and fails with free leaves
   left. No data is lost: the theorems of section 5 hold with the holes.
2. **The catalog is only written on an orderly end** (LeafChain_exit). A program
   that returns from `main` without `~PAllocator`, as `ycsb.cpp`, reopens an empty or shorter tree.
3. **redistributeLeft moves a negative number of keys** (FPTree_redistribute;
   proved for every degree as `LeftMoveIsNegative`).
4. **find and update in an empty tree** read an unset or dangling `childrens[0]` (FPTree_empty).
5. **Padding bits are counted** after a split and a reload when `2 * LEAF_DEGREE`
   is not a multiple of 8, as with the recommended 21 (LeafNode_padding).
6. **Equal keys** can leave a leaf without entries after a split (LeafNode_duplicate).

## 5. What is proved

For every group size and number of files (`AllocatorAssumption`), and for both orders of
ending a life (`Spec` and `TestOrderSpec`):
`TypeCorrect`, `FreeLeavesHoldNoData`, `BitmapsMarkTheTree`, `ChainIsOnNvm`,
`ReloadIsComplete` and `RestartIsFaithful`, all from one inductive invariant
`IInv` in LeafChain_proofs:

* `FreeInv` - freeList has `freeNum` entries, each a hole or a free leaf that
  occurs once, and free_list holds at least as many, position by position a hole or the entry of freeList;
* `ChainInv` - `leaves` has no repetition, is what the header bitmaps mark, and
  `startLeaf` and `pNext` spell it out;
* `CatalogIsCurrent` - while the singleton is NULL the catalog equals the DRAM
  fields it will restore;
* `LoadedPrefix` - during loading `list` is a prefix of `leaves` and the cursor is at the next leaf.

The properties are not inductive alone: that a restart hands out no live leaf
needs free_list to agree with freeList position by position, that loading is
complete needs the cursor and the prefix, and that a restart changes nothing needs
the catalog to be current. There is one lemma per action; `GetLeafFacts` and
`FreeLeafFacts` say once what the allocator does to the free list.

FindIndex_proofs proves the loop invariant of the binary search (everything before
`left` is at most k, everything after `right` is larger) for any array of integers
sorted in ascending order (`SearchAssumption`), and from it `SearchTypeCorrect` and `SearchCorrect`.

InnerNode_proofs proves, for any degree and any keys and children,
`SplitIsLossless` (joining the halves gives the node back, both have degree keys),
`RedistributeRightIsLossless` (the order of keys and children is kept, both nodes
have at least degree keys) and `LeftMoveIsNegative`.

Only model-checked: the two liveness properties (the prover has no reasoning about
fairness), everything about FPTree, whose tree walks are recursive operators,
`UsedNumCounts`, and the slot-level properties of LeafNode.

## 6. What is not modelled, and the plan

Not modelled: the hash function, printing, the drivers but for how they end, I/O
errors of the two ordinary files, the `exit(1)` of `initFilePmemAddr` when an existing
leaf group cannot be mapped (it ends the process before any file changed), the stores of
`redistributeLeft` behind its first line (`moveKeys` is negative, so they are outside
the arrays: `LeftMoveIsNegative`), and NVM persistence inside one operation: every
operation's stores are durable when it returns, and a process ends only between
operations. When a tree is deleted after the allocator, `persist` flushes an address that
`~PAllocator` unmapped; that flush is left out.

Next, in this order:

1. a module of crashes inside insert, split and remove, with the order of
   persisted stores, recovery by `bulkLoading`, and what is lost;
2. a module that composes FPTree with leaf slots and with LeafChain, so that the
   splits and removals LeafChain allows are those the keys cause, and refinement
   of both LeafChain and KVStore;
3. proofs of `UsedNumCounts` and of `NCountsEntries` and `SlotsHoldTheMap` for
   every LEAF_DEGREE that fills its bytes, and of the step refinement for the leaf operations;
4. errors of catalog and free_list, and the restart from a catalog older than the
   data files.
