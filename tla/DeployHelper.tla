---------------------------- MODULE DeployHelper ----------------------------
(***************************************************************************)
(* utils/deploys: every helper deployX(...) makes an X__factory for the    *)
(* deployer and deploys X with its parameters, in the order listed here;   *)
(* getX(address) attaches to an X that is already on the chain.  A         *)
(* parameter is named for its role: the roles of repositoryRoles are       *)
(* contracts of this repository, which a test passes by the address of its *)
(* handle; every other role is a token, a protocol or a plain value.       *)
(***************************************************************************)
EXTENDS Sequences

\* The helpers of both tables.
f ++ g == [kind \in DOMAIN f \cup DOMAIN g |-> IF kind \in DOMAIN f THEN f[kind] ELSE g[kind]]
-----------------------------------------------------------------------------
(* deployMocks.ts and deployExternal.ts: the helpers for test doubles and   *)
(* for the contracts of other protocols, each with the arguments it hands  *)
(* to the constructor, in their order.  That is not always the order of    *)
(* the helper's own parameters: deployTokenMock takes decimals before the  *)
(* name and passes them last.                                              *)

noArguments(kinds) == [kind \in kinds |-> <<>>]

\* Mocks that know nothing but the controller.
deployModuleMocks ==
    [kind \in {"ModuleBaseMock", "ModuleBaseV2Mock", "GodModeMock", "DebtModuleMock",
               "SetTokenAccessibleMock"} |-> <<"controller">>]

\* Mocks of the repository's own parts.
deployProtocolMocks ==
    noArguments({"ExplicitERC20Mock", "InvokeMock", "ManagerIssuanceHookMock",
                 "ModuleIssuanceHookMock", "NAVIssuanceHookMock", "AddressArrayUtilsMock",
                 "Uint256ArrayUtilsMock", "PositionMock", "PositionV2Mock", "PreciseUnitMathMock",
                 "ResourceIdentifierMock"})
    ++ [NAVIssuanceCaller |-> <<"navIssuanceModule">>,
        KyberNetworkProxyMock |-> <<"mockWethAddress">>,
        GovernanceAdapterMock |-> <<"initialProposalId">>,
        CurveStableswapMock |-> <<"coins">>,
        OneInchExchangeMock |-> <<"sendToken", "receiveToken", "sendQuantity", "receiveQuantity">>,
        ZeroExMock |-> <<"sendToken", "receiveToken", "sendQuantity", "receiveQuantity">>,
        OracleMock |-> <<"initialValue">>,
        YearnVaultMock |-> <<"pricePerShare">>,
        OracleAdapterMock |-> <<"asset", "dummyPrice">>,
        StakingAdapterMock |-> <<"stakingAsset">>]

\* Tokens, adapters and libraries.
deployOtherMocks ==
    noArguments({"TradeAdapterMock", "WrapAdapterMock", "AaveLendingPoolCoreMock", "AaveV2Mock",
                 "PerpV2Mock", "PerpV2LibraryV2Mock", "PerpV2PositionsMock", "UniswapV3MathMock",
                 "UnitConversionUtilsMock", "ClaimAdapterMock", "GaugeControllerMock",
                 "ContractCallerMock"})
    ++ [StandardTokenMock |-> <<"initialAccount", "initialBalance", "name", "symbol", "decimals">>,
        StandardTokenWithFeeMock |-> <<"initialAccount", "initialBalance", "name", "symbol",
                                       "fee">>,
        StandardTokenWithRoundingErrorMock |-> <<"initialAccount", "initialBalance", "error",
                                                 "name", "symbol", "decimals">>,
        AmmAdapterMock |-> <<"underlyingTokens">>,
        AaveLendingPoolMock |-> <<"aaveLendingPoolCore">>]

deployProtocolDoubles ==
    noArguments({"DebtIssuanceMock", "CompoundMock", "CustomSetValuerMock", "ForceFunderMock",
                 "WrapV2AdapterMock", "StringArrayUtilsMock", "BytesArrayUtilsMock",
                 "WrappedfCashFactoryMock", "NotionalV2Mock"})
    ++ [ComptrollerMock |-> <<"comp", "compAmount", "cToken">>,
        SynthMock |-> <<"initialAccount", "initialBalance", "name", "symbol", "decimals",
                        "currencyKey">>,
        SynthetixExchangerMock |-> <<"sUsd", "sEth", "sBtc", "sUsdKey", "sEthKey", "sBtcKey",
                                     "usdEth", "ethUsd", "usdBtc", "btcUsd">>,
        ERC4626Mock |-> <<"name", "symbol", "asset">>,
        YearnStrategyMock |-> <<"vault">>,
        ChainlinkAggregatorMock |-> <<"decimals">>,
        TribePegExchangerMock |-> <<"rgt", "tribe">>,
        WrappedfCashMock |-> <<"assetToken", "underlyingToken", "weth", "isEth">>]

deployMocks == deployModuleMocks ++ deployProtocolMocks ++ deployOtherMocks ++ deployProtocolDoubles
-----------------------------------------------------------------------------
deployCompound ==
    noArguments({"CompoundGovernorBravoDelegate", "CompoundPriceOracleMock", "Comptroller",
                 "Unitroller", "WETH9"})
    ++ [Comp |-> <<"account">>,
        CompoundTimelock |-> <<"admin", "delay">>,
        CompoundGovernorAlpha |-> <<"timelock", "comp", "guardian">>,
        CompoundGovernorBravoDelegator |-> <<"timelock", "comp", "admin", "implementation",
                                             "votingPeriod", "votingDelay", "proposalThreshold">>,
        CERc20 |-> <<"underlying", "comptroller", "interestRateModel",
                     "initialExchangeRateMantissa", "name", "symbol", "decimals">>,
        CEther |-> <<"comptroller", "interestRateModel", "initialExchangeRateMantissa", "name",
                     "symbol", "decimals">>,
        PriceOracleProxy |-> <<"guardian", "v1PriceOracle", "cEth", "cUsdc", "cSai", "cDai",
                               "cUsdt">>,
        WhitePaperInterestRateModel |-> <<"baseRate", "multiplier">>]

deployAaveV2 ==
    noArguments({"AaveV2LendingPool", "AaveV2LendingPoolConfigurator",
                 "AaveV2LendingPoolCollateralManager", "AaveV2LendingRateOracle",
                 "AaveV2PriceOracle", "AaveV2AToken", "AaveV2StableDebtToken",
                 "AaveV2VariableDebtToken", "GenericLogic", "ValidationLogic", "ReserveLogic",
                 "AaveTokenV2Mintable"})
    ++ [AaveV2LendingPoolAddressesProvider |-> <<"marketId">>,
        AaveV2Oracle |-> <<"assets", "sources", "fallBackOracle", "weth">>,
        AaveV2DefaultReserveInterestRateStrategy |->
            <<"addressesProvider", "optimalUtilizationRate", "baseVariableBorrowRate",
              "variableRateSlope1", "variableRateSlope2", "stableRateSlope1", "stableRateSlope2">>,
        AaveV2ProtocolDataProvider |-> <<"addressesProvider">>,
        AaveV2StakedTokenIncentivesController |-> <<"stakeToken", "emissionManager">>,
        AaveGovernanceV2 |-> <<"governanceStrategy", "votingDelay", "guardian", "executors">>,
        Executor |-> <<"admin", "delay", "gracePeriod", "minimumDelay", "maximumDelay",
                       "propositionThreshold", "voteDuration", "voteDifferential",
                       "minimumQuorum">>,
        GovernanceStrategy |-> <<"aave", "stkaave">>]

deployCurve ==
    [CurveDeposit |-> <<"coins", "underlyingCoins", "curve", "token">>,
     CurvePoolERC20 |-> <<"name", "symbol", "decimals", "supply">>,
     Stableswap |-> <<"coins", "underlyingCoins", "poolToken", "aCoefficient", "fee">>,
     CRVToken |-> <<"name", "symbol", "decimals">>,
     GaugeController |-> <<"token", "votingEscrow">>,
     LiquidityGaugeReward |-> <<"lpAddr", "minter", "rewardContract", "rewardedToken">>,
     LiquidityGauge |-> <<"lpAddr", "minter">>,
     Minter |-> <<"token", "gaugeController">>]

\* Uniswap V2 and V3, Balancer, Yearn and Kyber.
deployExchanges ==
    noArguments({"UniswapV2Pair", "BFactory", "DelegateRegistry", "Vault", "Registry",
                 "KyberNetworkTokenV2", "DMMPool", "UniswapV3Factory", "NFTDescriptor"})
    ++ [Uni |-> <<"account", "minter", "mintingAllowedAfter">>,
        UniswapTimelock |-> <<"admin", "delay">>,
        UniswapGovernorAlpha |-> <<"timelock", "uni">>,
        UniswapV2Factory |-> <<"feeToSetter">>,
        UniswapV2Router02 |-> <<"factory", "weth">>,
        StakingRewards |-> <<"rewardsDistribution", "rewardsToken", "stakingToken">>,
        ExchangeProxy |-> <<"weth">>,
        BRegistry |-> <<"factory">>,
        DMMFactory |-> <<"feeToSetter">>,
        DMMRouter02 |-> <<"factory", "weth">>,
        SwapRouter |-> <<"factory", "weth">>,
        NonfungiblePositionManager |-> <<"factory", "weth", "nftDesc">>,
        Quoter |-> <<"factory", "weth">>]

deployPerpV2 ==
    noArguments({"PerpV2OrderBook", "PerpV2MarketRegistry", "PerpV2QuoteToken", "PerpV2Vault",
                 "PerpV2TestAggregatorV3", "PerpV2ChainlinkPriceFeed", "PerpV2BaseToken",
                 "PerpV2ClearingHouseConfig", "PerpV2InsuranceFund", "PerpV2AccountBalance",
                 "PerpV2Exchange", "PerpV2ClearingHouse"})
    ++ [PerpV2Quoter |-> <<"marketRegistry">>]

deployExternal ==
    deployCompound ++ deployAaveV2 ++ deployCurve ++ deployExchanges ++ deployPerpV2
-----------------------------------------------------------------------------
(* The repository's own contracts. *)

\* The parameters of deploySetToken in an order the constructor does not expect (mutant).
deployCoreContractsSetTokenSwapped ==
    [Controller |-> <<"feeRecipient">>,
     SetTokenCreator |-> <<"controller">>,
     SetToken |-> <<"components", "units", "modules", "manager", "controller", "name", "symbol">>,
     PriceOracle |-> <<"controller", "masterQuoteAsset", "adapters", "assetOnes", "assetTwos",
                       "oracles">>,
     IntegrationRegistry |-> <<"controller">>,
     SetValuer |-> <<"controller">>]

deployCoreContracts ==
    [Controller |-> <<"feeRecipient">>,
     SetTokenCreator |-> <<"controller">>,
     SetToken |-> <<"components", "units", "modules", "controller", "manager", "name", "symbol">>,
     PriceOracle |-> <<"controller", "masterQuoteAsset", "adapters", "assetOnes", "assetTwos",
                       "oracles">>,
     IntegrationRegistry |-> <<"controller">>,
     SetValuer |-> <<"controller">>]

deployLibraries ==
    [library \in {"Compound", "AaveV2", "AaveV3", "PerpV2", "PositionV2", "PerpV2LibraryV2",
                  "PerpV2Positions"} |-> <<>>]

\* Modules that know nothing but the controller.
deployControllerModules ==
    [module \in {"BasicIssuanceModule", "IssuanceModule", "DebtIssuanceModule",
                 "DebtIssuanceModuleV2", "SlippageIssuanceModule", "AmmModule",
                 "StreamingFeeModule", "AirdropModule", "TradeModule", "ClaimModule",
                 "StakingModule", "GovernanceModule", "AuctionRebalanceModuleV1"}
        |-> <<"controller">>]

deployWethModules ==
    [WrapModule |-> <<"controller", "weth">>,
     CustomOracleNAVIssuanceModule |-> <<"controller", "weth">>,
     SingleIndexModule |-> <<"controller", "weth", "uniswapRouter", "sushiswapRouter",
                             "balancerProxy">>,
     GeneralIndexModule |-> <<"controller", "weth">>]

deployLeverageModules ==
    [CompoundLeverageModule |-> <<"controller", "compToken", "comptroller", "cEth", "weth">>,
     AaveLeverageModule |-> <<"controller", "lendingPoolAddressesProvider">>,
     AaveV3LeverageModule |-> <<"controller", "lendingPoolAddressesProvider">>,
     NotionalTradeModule |-> <<"controller", "wrappedfCashFactory", "weth", "notionalV2",
                               "decodedIdGasLimit">>,
     WrapModuleV2 |-> <<"controller", "weth">>,
     PerpV2LeverageModuleV2 |-> <<"controller", "perpVault", "perpQuoter", "perpMarketRegistry",
                                  "maxPerpPositionsPerSet">>,
     PerpV2BasisTradingModule |-> <<"controller", "perpVault", "perpQuoter",
                                    "perpMarketRegistry", "maxPerpPositionsPerSet">>]

deployExchangeAdapters ==
    [KyberExchangeAdapter |-> <<"kyberNetworkProxy">>,
     OneInchExchangeAdapter |-> <<"approveAddress", "exchangeAddress", "swapFunctionSignature">>,
     UniswapV2AmmAdapter |-> <<"uniswapV2Router">>,
     UniswapV2ExchangeAdapter |-> <<"uniswapV2Router">>,
     UniswapV2TransferFeeExchangeAdapter |-> <<"uniswapV2Router">>,
     UniswapV2ExchangeAdapterV2 |-> <<"uniswapV2Router">>,
     UniswapV2IndexExchangeAdapter |-> <<"uniswapV2Router">>,
     AaveGovernanceV2Adapter |-> <<"aaveGovernanceV2", "aaveToken">>,
     CompClaimAdapter |-> <<"comptrollerAddress">>,
     BalancerV1IndexExchangeAdapter |-> <<"balancerProxy">>,
     BalancerV2ExchangeAdapter |-> <<"vault">>,
     CompoundLikeGovernanceAdapter |-> <<"governanceAlpha", "governanceToken">>,
     CompoundBravoGovernanceAdapter |-> <<"governorBravo", "governanceToken">>,
     CurveStakingAdapter |-> <<"gaugeController">>,
     RgtMigrationWrapAdapter |-> <<"pegExchanger">>,
     UniswapPairPriceAdapter |-> <<"controller", "uniswapFactory", "uniswapPools">>]

deployOtherAdapters ==
    [UniswapV3IndexExchangeAdapter |-> <<"router">>,
     ZeroExApiAdapter |-> <<"zeroExAddress", "wethAddress">>,
     SnapshotGovernanceAdapter |-> <<"delegateRegistry">>,
     SynthetixExchangeAdapter |-> <<"synthetixExchangerAddress">>,
     UniswapV3ExchangeAdapter |-> <<"swapRouter">>,
     UniswapV3ExchangeAdapterV2 |-> <<"swapRouter">>,
     KyberV3IndexExchangeAdapter |-> <<"dmmRouter", "dmmFactory">>,
     CompoundWrapV2Adapter |-> <<>>,
     YearnWrapV2Adapter |-> <<>>,
     AaveV2WrapV2Adapter |-> <<"lendingPool">>,
     ERC4626WrapV2Adapter |-> <<>>,
     CurveExchangeAdapter |-> <<"tokenA", "tokenB", "tokenAIndex", "tokenBIndex", "exchange">>,
     CurveStEthExchangeAdapter |-> <<"weth", "steth", "exchange">>,
     ConstantPriceAdapter |-> <<>>,
     BoundedStepwiseLinearPriceAdapter |-> <<>>,
     BoundedStepwiseLogarithmicPriceAdapter |-> <<>>,
     BoundedStepwiseExponentialPriceAdapter |-> <<>>]

deployOracles ==
    [CTokenOracle |-> <<"cToken", "underlyingOracle", "cTokenFullUnit", "underlyingFullUnit",
                        "dataDescription">>,
     YearnVaultOracle |-> <<"vault", "underlyingOracle", "underlyingFullUnit",
                            "dataDescription">>]

deployViewers ==
    [ProtocolViewer |-> <<>>,
     PerpV2LeverageModuleViewer |-> <<"perpModule", "perpAccountBalance",
                                      "perpClearingHouseConfig", "vQuoteToken">>]

deployProduct ==
    [AssetLimitHook |-> <<"assets", "limits">>,
     AMMSplitter |-> <<"uniRouter", "sushiRouter", "uniFactory", "sushiFactory">>]

\* The one object tests deploy through.
deployer ==
    deployLibraries ++ deployControllerModules ++ deployWethModules ++ deployLeverageModules
    ++ deployCoreContracts ++ deployExchangeAdapters ++ deployOtherAdapters ++ deployViewers
    ++ deployProduct ++ deployOracles ++ deployMocks ++ deployExternal

\* The libraries a factory is given to link into the bytecode.
linkedLibraries(contract) ==
    CASE contract \in {"CompoundLeverageModule", "CompoundWrapV2Adapter", "CompoundMock"} -> {"Compound"}
      [] contract \in {"AaveLeverageModule", "AaveV2Mock"} -> {"AaveV2"}
      [] contract = "AaveV3LeverageModule" -> {"AaveV3"}
      [] contract \in {"PerpV2LeverageModuleV2", "PerpV2BasisTradingModule"} ->
            {"PositionV2", "PerpV2LibraryV2", "PerpV2Positions"}
      [] contract = "PositionV2Mock" -> {"PositionV2"}
      [] contract = "PerpV2Mock" -> {"PerpV2"}
      [] contract = "PerpV2LibraryV2Mock" -> {"PerpV2LibraryV2"}
      [] contract = "PerpV2PositionsMock" -> {"PerpV2Positions"}
      [] contract = "ValidationLogic" -> {"GenericLogic"}
      [] contract = "AaveV2LendingPool" -> {"ValidationLogic", "ReserveLogic"}
      [] OTHER -> {}

\* The kinds that have a getX helper beside their deployX.
attachable ==
    {"Controller", "SetTokenCreator", "SetToken", "PriceOracle", "IntegrationRegistry",
     "BasicIssuanceModule", "StreamingFeeModule", "UniswapPairPriceAdapter", "AssetLimitHook",
     "StandardTokenMock", "Vault", "PerpV2BaseToken"}

repositoryRoles ==
    [controller |-> "Controller", perpModule |-> "PerpV2LeverageModuleV2",
     navIssuanceModule |-> "CustomOracleNAVIssuanceModule",
     aaveLendingPoolCore |-> "AaveLendingPoolCoreMock"]

\* The handles a deployment of contract needs: arguments of the repository and libraries.
needs(contract) ==
    {repositoryRoles[role] : role \in DOMAIN repositoryRoles \cap
        {deployer[contract][i] : i \in DOMAIN deployer[contract]}} \cup linkedLibraries(contract)

\* The contract that deployX puts on the chain when handle gives the addresses it needs.
deployed(contract, handle) ==
    [kind |-> contract,
     args |-> [i \in DOMAIN deployer[contract] |->
                 LET role == deployer[contract][i]
                 IN  IF role \in DOMAIN repositoryRoles THEN handle[repositoryRoles[role]] ELSE 0],
     libraries |-> [library \in linkedLibraries(contract) |-> handle[library]]]

\* Where the constructors of the contracts that keep a controller read it: SetToken's fourth
\* parameter, everyone else's first.
keepsController(contract) ==
    contract \in (DOMAIN deployCoreContracts \ {"Controller"}) \cup DOMAIN deployControllerModules
        \cup DOMAIN deployWethModules \cup DOMAIN deployLeverageModules
        \cup DOMAIN deployModuleMocks \cup {"UniswapPairPriceAdapter"}

storedController(c) == c.args[IF c.kind = "SetToken" THEN 4 ELSE 1]
=============================================================================
