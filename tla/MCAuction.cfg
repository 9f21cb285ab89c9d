CONSTANTS
    comp = comp
    usdc = usdc
    PreciseUnit = 4
    Tokens <- MCTokens
    ZeroAddress = ZeroAddress
    IssuanceModule = IssuanceModule
    StreamingModule = StreamingModule
    AuctionModule = AuctionModule
    Modules <- MCModules
    Managers = {manager}
    UintBits = 8
    MaxExpArg = 4
    expWad <- MCNoCurve
    lnWad <- MCNoCurve
    OneYear = 1
    Recipients = {recipient}
    Bidders = {bidder}
    AuctionFee = 1
    NoConfig = NoConfig
    InitialUnits <- MCThreeAndTwo
    IssueQuantities = {5}
    RedeemQuantities = {2}
    Airdropped = {comp}
    BidderGroups = {}
    AnyoneChoices = {TRUE}
    FeeSettings = {}
    NewFees = {}
    QuoteAssets = {usdc}
    TargetUnits = {0, 2, 5}
    PriceConfigs <- MCFallingPrice
    Durations = {2}
    RaisePercentages = {2}
    BidQuantities = {0, 1, 2}
    StaleMultipliers = {}
    LockChoices = {TRUE, FALSE}
    LifecycleActs = FALSE
    OwnerActs = FALSE
    MaxSupply = 5
    MaxHeld = 6
    MaxIssued = 5
    MaxTime = 3
SPECIFICATION Spec
INVARIANTS TypeOK FullyCollateralised LockedRebalanceEndsWithUnlock
PROPERTIES SupplyFrozenWhileLocked PositionsMoveOnlyInRebalance BidStaysNearTarget BidPaysAuctionPrice
CHECK_DEADLOCK FALSE
