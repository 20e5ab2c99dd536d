SPECIFICATION Spec
CONSTANTS
    Sizes = {1, 2, 3}
    Leftover = {0, 2}
    MaxFiles = 3
CHECK_DEADLOCK FALSE
INVARIANTS StoredWhole
PROPERTIES TransferEnds
