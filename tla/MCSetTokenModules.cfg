CONSTANTS
    c1 = c1
    PreciseUnit = 3
    Tokens = {c1}
    Modules = {m1, m2}
    ZeroAddress = ZeroAddress
    Managers = {manager, ZeroAddress}
    InitialUnits <- MCInitialUnits
    RealUnits = {0, 1, 2}
    ExternalUnits <- MCExternalUnits
    NewMultipliers <- MCNewMultipliers
    Quantities = {1}
    MaxSupply = 1
SPECIFICATION Spec
INVARIANTS TypeOK PositionsTracked LockerInitialized
PROPERTY FrozenWhileLockerDisabled
