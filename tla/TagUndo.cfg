CONSTANTS
    Messages = {m1, m2}
    Tags = {a, b}
    MaxHistory = 2
    MaxOperations = 3
SPECIFICATION Spec
INVARIANTS UndoAllRestores
PROPERTIES UndoNotLost
SYMMETRY Symmetry
CHECK_DEADLOCK FALSE
