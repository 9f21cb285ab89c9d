CONSTANTS
    comp = comp
    usdc = usdc
    PreciseUnit = 10
    Tokens <- MCTokens
    ZeroAddress = ZeroAddress
    IssuanceModule = IssuanceModule
    StreamingModule = StreamingModule
    AuctionModule = AuctionModule
    Modules <- MCModules
    Managers = {manager}
    UintBits = 10
    MaxExpArg = 4
    expWad <- MCNoCurve
    lnWad <- MCNoCurve
    OneYear = 1
    Recipients = {recipient}
    Bidders = {bidder}
    AuctionFee = 0
    NoConfig = NoConfig
    InitialUnits <- MCFiveEach
    IssueQuantities = {10}
    RedeemQuantities = {4}
    Airdropped = {}
    BidderGroups = {}
    AnyoneChoices = {TRUE}
    FeeSettings <- MCYearlyFee
    NewFees = {2}
    QuoteAssets = {usdc}
    TargetUnits = {3, 7}
    PriceConfigs <- MCParPrice
    Durations = {2}
    RaisePercentages = {}
    BidQuantities = {2}
    StaleMultipliers = {}
    LockChoices = {FALSE}
    LifecycleActs = FALSE
    OwnerActs = FALSE
    MaxSupply = 14
    MaxHeld = 12
    MaxIssued = 10
    MaxTime = 4
SPECIFICATION Spec
INVARIANT FullyCollateralised
CHECK_DEADLOCK FALSE
