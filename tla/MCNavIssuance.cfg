CONSTANTS
    weth = weth
    usdc = usdc
    recipient = recipient
    PreciseUnit = 1000
    Tokens <- MCTokens
    ZeroAddress = ZeroAddress
    IssuanceModule = IssuanceModule
    NavModule = NavModule
    Modules <- MCModules
    Managers = {manager}
    BaseUnit <- MCBaseUnit
    MasterQuoteAsset = weth
    FeeShare <- MCFeeShare
    DirectFee <- MCDirectFee
    NavRecipients = {recipient}
    InitialUnits <- MCInitialUnits
    IssueQuantities = {1000}
    RedeemQuantities = {373}
    ReserveQuantities = {307}
    SetQuantities = {214}
    MinReceives = {0}
    Prices <- MCPrices
    NavSettings <- MCNavSettings
    NewPremiums = {0}
    NewFees = {97}
    MaxIssued = 1000
    MaxFlows = 2
SPECIFICATION Spec
INVARIANTS TypeOK ShortfallBounded ReserveAssetsIndexed FlowsMatchReference
PROPERTY NavNotDiluted
