SPECIFICATION DuplicateSpec
CONSTANTS
    LEAF_DEGREE = 2
    BYTE = 4
    Key = {0, 1, 2, 3, 4}
    Value = {v1}
    MAX_VALUE = MAX_VALUE
    Fingerprint = {0, 1}
    keyHash <- Parity
INVARIANT Occupancy
