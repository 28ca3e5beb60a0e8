SPECIFICATION TestOrderSpec
CONSTANTS
    LEAF_GROUP_AMOUNT = 2
    MAX_FILES = 2
    NoFile = NoFile
INVARIANTS
    TypeOK
    NoLiveLeafIsFree
    UsedLeavesAreTheTree
    UsedNumCounts
    PersistentChain
    ReloadRestoresLeaves
PROPERTIES
    RestartKeepsAllocator
    LoadTerminates
\* The program has no defined behaviour once a LeafNode was built without a leaf.
CHECK_DEADLOCK FALSE
