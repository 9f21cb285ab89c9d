--------------------------- MODULE MCPerpLeverage ---------------------------
(***************************************************************************)
(* Small values for PerpLeverage: collateral of one decimal less than the  *)
(* set, two markets, a price at which a doubled long position is under     *)
(* water, and premiums of both signs.                                      *)
(***************************************************************************)
EXTENDS PerpLeverage

CONSTANTS usdc, wbtc, vETH, vBTC, feeRecipient

MCTokens == {usdc, wbtc}
MCModules == {PerpModule, IssuanceModule}
MCInitialUnits == usdc :> 1997 @@ wbtc :> 11
MCLimits == {<<>>, usdc :> 2001}
MCPrices == {vETH :> 10007 @@ vBTC :> 5003, vETH :> 4703 @@ vBTC :> 5003}
MCManagerFees == {[max |-> 50, issue |-> 7, redeem |-> 13, recipient |-> recipient] :
                    recipient \in {feeRecipient, ZeroAddress}}
MCPremiums == {1301}
MCBaseUnits == {-371}
=============================================================================
