SPECIFICATION Spec
CONSTANTS
    Cells = {0, 1, 2}
    HashLen = 2
    MaxLen = 2
INVARIANTS SelfDelimiting
CHECK_DEADLOCK FALSE
