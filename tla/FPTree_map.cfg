SPECIFICATION Spec
CONSTANTS
    LEAF_DEGREE = 2
    Degrees = {1}
    Key = {1, 2, 3, 4, 5, 6}
    Value = {v1, v2}
    MAX_VALUE = MAX_VALUE
SYMMETRY ValueSymmetry
VIEW TreeView
PROPERTIES
    ImplementsKVStore
\* After undefined behaviour the model takes no further step.
CHECK_DEADLOCK FALSE
