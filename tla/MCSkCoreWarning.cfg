SPECIFICATION Spec
CONSTANTS
    PoolSize = 2
    StackSize = 3
    SkSize = 3
    RegSize = 1
    MaxNodes = 3
INVARIANTS
    NoFalseWarning
