SPECIFICATION Spec
CONSTANTS
    LEAF_DEGREE = 1
    Degrees = {1}
    Key = {1, 2, 3, 4, 5, 6}
    Value = {v1}
    MAX_VALUE = MAX_VALUE
INVARIANT EmptyTreeAnswers
\* After undefined behaviour the model takes no further step.
CHECK_DEADLOCK FALSE
