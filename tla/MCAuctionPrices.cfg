CONSTANTS
    PreciseUnit = 2
    UintBits = 7
    MaxExpArg = 6
    expWad <- MCexpWad
    lnWad <- MClnWad
    Configs <- MCConfigs
    MaxElapsed = 127
SPECIFICATION Spec
INVARIANTS PriceWithinBounds PriceQuoted
PROPERTY PriceMovesOneWay
CHECK_DEADLOCK FALSE
