SPECIFICATION FairSpec
CONSTANTS
    MAX_KEYS = 5
    Key = {1, 2, 3, 4, 5, 6}
INVARIANTS
    TypeOK
    ReturnsFirstLarger
PROPERTIES
    Terminates
\* The function has returned.
CHECK_DEADLOCK FALSE
