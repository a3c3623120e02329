SPECIFICATION Spec
CONSTANTS
    Patches = {p1, p2, p3}
    NoPatch = NoPatch
    BlkSize = 2
    CfSizes = {1, 3}
    Waits = {"hsout", "hsswp"}
PROPERTIES
    DisableOnlyFromStandby
