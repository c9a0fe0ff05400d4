SPECIFICATION Spec
CONSTANTS
    Ids = {0, 1, 2, 3, 4}
    MaxLen = 4
INVARIANTS
    KeepsUnseen
    PrunesExactly
