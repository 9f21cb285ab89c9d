---------------------------- MODULE MCNavIssuance ----------------------------
(***************************************************************************)
(* Small values for NavIssuance: a reserve asset of few decimals, the      *)
(* master quote asset of as many as the set, and two prices.               *)
(***************************************************************************)
EXTENDS NavIssuance, TLC

CONSTANTS weth, usdc, recipient

MCTokens == {weth, usdc}
MCModules == {IssuanceModule, NavModule}
MCBaseUnit == weth :> 1000 @@ usdc :> 500
MCFeeShare == [issue |-> 503, redeem |-> 211]
MCDirectFee == [issue |-> 51, redeem |-> 29]
MCInitialUnits == {weth :> 401 @@ usdc :> 253}
MCPrices == {weth :> 1000 @@ usdc :> 713, weth :> 1000 @@ usdc :> 1264}

MCNavSettings ==
    {[reserveAssets |-> <<usdc>>, isReserveAsset |-> {}, feeRecipient |-> recipient,
      managerFees |-> [issue |-> 151, redeem |-> 97], maxManagerFee |-> 300,
      premiumPercentage |-> 63, maxPremiumPercentage |-> 200, minSetTokenSupply |-> 600]}
=============================================================================
