SPECIFICATION ExitSpec
CONSTANTS
    LEAF_GROUP_AMOUNT = 2
    MAX_FILES = 2
    NoFile = NoFile
INVARIANT ReloadRestoresLeaves
CHECK_DEADLOCK FALSE
