SPECIFICATION Spec
CONSTANTS
    Patches = {p1, p2, p3}
    NoPatch = NoPatch
    BlkSize = 3
    CfSizes = {1, 6, 7}
INVARIANTS
    SameMix
PROPERTIES
    GainGrows
    ImplementsPlayer
