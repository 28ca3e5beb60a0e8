SPECIFICATION Spec
CONSTANTS
    LEAF_DEGREE = 1
    Degrees = {1, 2}
    Key = {1, 2, 3, 4, 5, 6, 7, 8, 9}
    Value = {v1}
    MAX_VALUE = MAX_VALUE
VIEW TreeView
INVARIANTS
    TypeOK
    Balanced
    SearchTree
    ChainIsInOrder
PROPERTIES
    ImplementsKVStore
\* After undefined behaviour the model takes no further step.
CHECK_DEADLOCK FALSE
