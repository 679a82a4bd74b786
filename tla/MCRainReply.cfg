SPECIFICATION Spec
CONSTANTS
    Contents = {0, 1}
    MaxLen = 3
INVARIANTS
    ErrorsFailTheCall
    RepliesAgree
CHECK_DEADLOCK FALSE
