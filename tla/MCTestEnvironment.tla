------------------------- MODULE MCTestEnvironment -------------------------
(***************************************************************************)
(* Two test files.  One nests three levels of cached suites, one of which  *)
(* deploys any one contract the helpers know, and has a plain suite inside *)
(* a plain one.  The other restores a snapshot after each test; in it a    *)
(* plain hook depends on the suite of the test, as debtIssuanceModule's,   *)
(* and below it one suite has a plain hook too and one deploys in before.  *)
(***************************************************************************)
EXTENDS TestEnvironment

MCSuites == {"cached", "inner", "innermost", "sibling", "leaf", "below",
             "snapshot", "each", "branch", "once"}

MCChildren ==
    [Root |-> <<"cached", "snapshot">>, cached |-> <<"inner", "sibling", "leaf">>,
     inner |-> <<"innermost">>, innermost |-> <<>>, sibling |-> <<>>, leaf |-> <<"below">>,
     below |-> <<>>, snapshot |-> <<"each">>, each |-> <<"branch", "once">>, branch |-> <<>>,
     once |-> <<>>]

MCStyle ==
    [s \in MCSuites |-> CASE s \in {"leaf", "below", "each", "branch"} -> "plain"
                          [] s = "snapshot" -> "snapshot"
                          [] s = "once" -> "before"
                          [] OTHER -> "cache"]

MCTests == [s \in MCSuites |-> IF s \in {"leaf", "snapshot"} THEN 1 ELSE IF s = "cached" THEN 3 ELSE 2]

MCSends ==
    [s \in MCSuites |-> CASE s \in {"innermost", "below"} -> {"afterEach"}
                          [] s = "branch" -> {"before", "after"}
                          [] OTHER -> {}]

deploy(kind) == [call |-> "deploy", kind |-> kind]
get(kind) == [call |-> "get", kind |-> kind]
create == [call |-> "createSetToken", kind |-> "SetToken"]
transact(kind) == [call |-> "transact", kind |-> kind]

\* What each suite does, whichever suite the test is of, but for one.
plans ==
    [cached |-> {<<deploy("Controller"), deploy("SetTokenCreator"), deploy("Compound"),
                   deploy("AaveV2"), deploy("AaveV3"), deploy("PositionV2"),
                   deploy("PerpV2LibraryV2"), deploy("PerpV2Positions")>>},
     inner |-> {<<create>>, <<get("Controller"), deploy("IntegrationRegistry")>>},
     innermost |-> {<<create, deploy("StreamingFeeModule")>>},
     sibling |-> {<<deploy(kind)>> : kind \in DOMAIN deployer}
                 \cup {<<deploy("GenericLogic"), deploy("ValidationLogic"), deploy("ReserveLogic"),
                         deploy("AaveV2LendingPool")>>,
                       <<deploy("PerpV2"), deploy("PerpV2Mock")>>,
                       <<deploy("CustomOracleNAVIssuanceModule"), deploy("NAVIssuanceCaller")>>,
                       <<deploy("AaveLendingPoolCoreMock"), deploy("AaveLendingPoolMock")>>,
                       <<deploy("StandardTokenMock"), get("StandardTokenMock")>>},
     leaf |-> {<<create, deploy("PerpV2LeverageModuleV2")>>},
     below |-> {<<deploy("PerpV2LeverageModuleViewer"), transact("SetToken")>>},
     snapshot |-> {<<deploy("Controller"), deploy("SetTokenCreator")>>},
     each |-> {<<create, deploy("AuctionRebalanceModuleV1")>>},
     branch |-> {<<transact("SetToken"), deploy("StreamingFeeModule")>>},
     once |-> {<<deploy("ManagerIssuanceHookMock"), transact("Controller")>>}]

MCInitializers ==
    [s \in MCSuites |-> [t \in MCSuites |->
        IF s = "each" /\ t = "branch"
        THEN {<<create, transact("SetToken"), deploy("AuctionRebalanceModuleV1")>>}
        ELSE plans[s]]]
=============================================================================
