CONSTANTS
    Address = {a1, a2, a3, a4, a5}
SPECIFICATION ListSpec
INVARIANT NoDuplicates
PROPERTY ImplementsSet
