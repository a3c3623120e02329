SPECIFICATION GlSpec
CONSTANTS
    Patches = {p1, p2}
    NoPatch = NoPatch
    BlkSize = 1
    CfSizes = {2}
    Waits = {"hsout", "hsswp", "hscf"}
INVARIANTS
    ProgramInPlace
    WriterOnDeck
PROPERTIES
    ImplementsDoubleBuffer
    GestureSwapped
