CONSTANTS
    usdc = usdc
    wbtc = wbtc
    vETH = vETH
    vBTC = vBTC
    feeRecipient = feeRecipient
    PreciseUnit = 1000
    Tokens <- MCTokens
    ZeroAddress = ZeroAddress
    PerpModule = PerpModule
    IssuanceModule = IssuanceModule
    Modules <- MCModules
    Managers = {manager}
    CollateralToken = usdc
    BaseTokens = {vETH, vBTC}
    CollateralScale = 10
    OneDay = 24
    Spread = 11
    ImRatio = 100
    MmRatio = 62
    TradeFee = 3
    MaxPerpPositionsPerSet = 2
    ProtocolFeeSplit = 300
    InitialUnits <- MCInitialUnits
    IssueQuantities = {1000}
    RedeemQuantities = {377}
    Limits <- MCLimits
    DepositUnits = {1499}
    WithdrawUnits = {101}
    LeverageRatios = {2}
    BaseUnits <- MCBaseUnits
    Prices <- MCPrices
    Premiums <- MCPremiums
    ManagerFees <- MCManagerFees
    NewFees = {29}
    Recipients = {newRecipient}
    MaxFlows = 3
    MaxTrades = 3
    MaxMoves = 1
SPECIFICATION Spec
CHECK_DEADLOCK FALSE
INVARIANTS PreviewMatchesTransfer ViewMatchesReference PositionsListed
PROPERTIES PerpValueNotDiluted TransfersMatchReference
