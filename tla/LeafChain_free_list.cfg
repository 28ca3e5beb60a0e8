SPECIFICATION Spec
CONSTANTS
    LEAF_GROUP_AMOUNT = 2
    MAX_FILES = 2
    NoFile = NoFile
INVARIANT FailsOnlyWhenFull
CHECK_DEADLOCK FALSE
