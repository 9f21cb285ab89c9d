CONSTANTS
    comp = comp
    usdc = usdc
    PreciseUnit = 2
    Tokens <- MCTokens
    ZeroAddress = ZeroAddress
    IssuanceModule = IssuanceModule
    StreamingModule = StreamingModule
    AuctionModule = AuctionModule
    Modules <- MCModules
    Managers = {manager, ZeroAddress}
    UintBits = 8
    MaxExpArg = 4
    expWad <- MCNoCurve
    lnWad <- MCNoCurve
    OneYear = 1
    Recipients = {recipient}
    Bidders = {bidder}
    AuctionFee = 0
    NoConfig = NoConfig
    InitialUnits <- MCOneUnitEach
    IssueQuantities = {2}
    RedeemQuantities = {2}
    Airdropped = {}
    BidderGroups = {{bidder}}
    AnyoneChoices = {TRUE, FALSE}
    FeeSettings <- MCNoFee
    NewFees = {}
    QuoteAssets = {usdc}
    TargetUnits = {0, 3}
    PriceConfigs <- MCUnitPrice
    Durations = {1}
    RaisePercentages = {}
    BidQuantities = {1}
    StaleMultipliers = {0}
    LockChoices = {TRUE, FALSE}
    LifecycleActs = TRUE
    OwnerActs = TRUE
    MaxSupply = 2
    MaxHeld = 6
    MaxIssued = 2
    MaxTime = 3
SPECIFICATION FairSpec
INVARIANT PermissionsAccounted
PROPERTY LockedLeadsToUnlocked
CHECK_DEADLOCK FALSE
