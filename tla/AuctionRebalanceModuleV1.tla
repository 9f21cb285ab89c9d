---------------------- MODULE AuctionRebalanceModuleV1 ----------------------
(***************************************************************************)
(* contracts/protocol/modules/v1/AuctionRebalanceModuleV1.sol: rebalancing *)
(* a set by auctioning its components against a quote asset.               *)
(*                                                                         *)
(* The module's state for the one set is the record a: rebalanceInfo       *)
(* (quoteAsset, rebalanceStartTime, rebalanceDuration, positionMultiplier, *)
(* raiseTargetPercentage, rebalanceComponents), executionInfo (targetUnit  *)
(* and priceConfig of each token) and permissionInfo (bidAllowList,        *)
(* biddersHistory, isAnyoneAllowedToBid).  Calls that change both          *)
(* contracts have outcomes [set, auction].                                 *)
(***************************************************************************)
EXTENDS Position, AuctionPriceAdapters

CONSTANTS AuctionModule,
          Bidders,       \* accounts that may be allowed to bid
          AuctionFee,    \* controller.getModuleFee of this module
          NoConfig       \* priceAdapterConfigData never set

ASSUME AuctionFeeAssumption == AuctionFee \in 0 .. (PreciseUnit - 1)

\* delete rebalanceInfo[set]
noRebalance(a) ==
    [a EXCEPT !.quoteAsset = ZeroAddress, !.rebalanceStartTime = 0, !.rebalanceDuration = 0,
              !.positionMultiplier = 0, !.raiseTargetPercentage = 0, !.rebalanceComponents = {}]

newAuction ==
    [quoteAsset |-> ZeroAddress, rebalanceStartTime |-> 0, rebalanceDuration |-> 0,
     positionMultiplier |-> 0, raiseTargetPercentage |-> 0, rebalanceComponents |-> {},
     targetUnit |-> [c \in Tokens |-> 0], priceConfig |-> [c \in Tokens |-> NoConfig],
     bidAllowList |-> {}, biddersHistory |-> {}, isAnyoneAllowedToBid |-> FALSE]
-----------------------------------------------------------------------------
(* Targets. *)

\* Fees accrued since the start are ignored.
getNormalizedTargetUnitIgnoresMultiplier(s, a, c) ==
    Require(a.positionMultiplier > 0, a.targetUnit[c])

\* Targets follow the set's multiplier.  Reverts on a zero rebalance multiplier.
getNormalizedTargetUnit(s, a, c) ==
    Require(a.positionMultiplier > 0,
            (a.targetUnit[c] * s.positionMultiplier) \div a.positionMultiplier)

isRebalanceDurationElapsed(a, now) == a.rebalanceStartTime + a.rebalanceDuration <= now

\* Within one unit of the target, or exactly at a target of zero.
targetUnmet(s, a, c) ==
    UNION {IF target > 0
           THEN {~close : close \in
                    approximatelyEquals(target, getDefaultPositionRealUnit(s, c), 1)}
           ELSE {getDefaultPositionRealUnit(s, c) # 0}
               : target \in getNormalizedTargetUnit(s, a, c)}

\* The loop stops at the first unmet component, so which of an unmet and a
\* reverting component it meets first depends on the array's order: it can
\* return FALSE whenever some component is unmet.
allTargetsMet(s, a) ==
    LET compared == a.rebalanceComponents \ {a.quoteAsset}
    IN  IF \E c \in compared : TRUE \in targetUnmet(s, a, c) THEN {FALSE}
        ELSE Require(\A c \in compared : Returns(targetUnmet(s, a, c)), TRUE)

isQuoteAssetExcess(s, a) ==
    {getDefaultPositionRealUnit(s, a.quoteAsset) > target
        : target \in getNormalizedTargetUnit(s, a, a.quoteAsset)}

\* Both comparisons are evaluated, also when the first already holds.
isQuoteAssetExcessOrAtTarget(s, a) ==
    UNION {{excess \/ atTarget : atTarget \in
                UNION {approximatelyEquals(getDefaultPositionRealUnit(s, a.quoteAsset), target, 1)
                           : target \in getNormalizedTargetUnit(s, a, a.quoteAsset)}}
               : excess \in isQuoteAssetExcess(s, a)}

canUnlockEarly(s, a) ==
    UNION {IF ~met THEN {FALSE}
           ELSE {enough /\ a.raiseTargetPercentage = 0
                    : enough \in isQuoteAssetExcessOrAtTarget(s, a)}
               : met \in allTargetsMet(s, a)}

\* The quote asset is compared before the targets are.
canRaiseAssetTargets(s, a) ==
    UNION {{met /\ excess : met \in allTargetsMet(s, a)} : excess \in isQuoteAssetExcess(s, a)}
-----------------------------------------------------------------------------
(* Manager functions. *)

\* The set's components and the added ones, without duplicates.
aggregateComponents(s, added) ==
    Require(s.components \cup added # {} /\ added \cap s.components = {}, s.components \cup added)

validAuctionParams(components, added, targets, configs) ==
    /\ \A c \in added : targets[c] > 0
    /\ \A c \in components : areParamsValid(configs[c])

\* Every component of the set is given a target and a price curve anew; a
\* running rebalance is replaced.
startRebalance(s, a, caller, quote, added, targets, configs, shouldLock, duration, multiplier, now) ==
    LET locked == IF shouldLock /\ s.locker # AuctionModule THEN lock(s, AuctionModule) ELSE {s}
        started(components) ==
            [a EXCEPT
                !.quoteAsset = quote, !.rebalanceStartTime = now,
                !.rebalanceDuration = duration, !.positionMultiplier = multiplier,
                !.rebalanceComponents = components,
                !.targetUnit = [c \in Tokens |-> IF c \in components THEN targets[c] ELSE @[c]],
                !.priceConfig = [c \in Tokens |-> IF c \in components THEN configs[c] ELSE @[c]]]
    IN  {[set |-> r[1], auction |-> started(r[2])] :
            r \in {x \in locked \X aggregateComponents(s, added) :
                      /\ onlyManagerAndValidSet(s, AuctionModule, caller)
                      /\ validAuctionParams(x[2], added, targets, configs)
                      /\ \A c \in x[2] : ~hasExternalPosition(s, c)}}

setRaiseTargetPercentage(s, a, caller, percentage) ==
    Require(onlyManagerAndValidSet(s, AuctionModule, caller) /\ percentage > 0,
            [a EXCEPT !.raiseTargetPercentage = percentage])

\* A newly allowed bidder is not recorded.
setBidderStatusForgetsHistory(s, a, caller, statuses) ==
    LET allowed == {b \in DOMAIN statuses : statuses[b]}
    IN  Require(onlyManagerAndValidSet(s, AuctionModule, caller) /\ DOMAIN statuses # {},
                [a EXCEPT !.bidAllowList = (@ \ DOMAIN statuses) \cup allowed,
                          !.biddersHistory = @ \ DOMAIN statuses])

\* statuses maps each of the given bidders, distinct and not none, to its new
\* status; biddersHistory follows the allow list.
setBidderStatus(s, a, caller, statuses) ==
    LET allowed == {b \in DOMAIN statuses : statuses[b]}
    IN  Require(onlyManagerAndValidSet(s, AuctionModule, caller) /\ DOMAIN statuses # {},
                [a EXCEPT !.bidAllowList = (@ \ DOMAIN statuses) \cup allowed,
                          !.biddersHistory = (@ \ DOMAIN statuses) \cup allowed])

setAnyoneBid(s, a, caller, status) ==
    Require(onlyManagerAndValidSet(s, AuctionModule, caller),
            [a EXCEPT !.isAnyoneAllowedToBid = status])

\* Targets start at the current units, so that nothing is open to bids.
initializeAuction(s, a, caller) ==
    {[set |-> t,
      auction |-> [a EXCEPT
          !.targetUnit = [c \in Tokens |-> IF c \in s.components
                                           THEN getDefaultPositionRealUnit(s, c) ELSE @[c]],
          !.positionMultiplier = s.positionMultiplier]] :
        t \in IF /\ onlyManager(s, caller)
                 /\ validAndPendingSet(s, AuctionModule)
                 /\ \A c \in s.components : ~hasExternalPosition(s, c)
              THEN initializeModule(s, AuctionModule) ELSE {}}

\* Called by the set.  Every bidder in the history is disallowed; the
\* execution settings stay behind.
removeAuction(a) ==
    [noRebalance(a) EXCEPT !.bidAllowList = @ \ a.biddersHistory, !.biddersHistory = {},
                           !.isAnyoneAllowedToBid = FALSE]
-----------------------------------------------------------------------------
(* Bids. *)

isAllowedBidder(a, bidder) == a.isAnyoneAllowedToBid \/ bidder \in a.bidAllowList

\* Bids stay open after the rebalance has ended.
validBidTargetsAfterEnd(s, a, c, now) ==
    c # a.quoteAsset /\ c \in a.rebalanceComponents /\ ~hasExternalPosition(s, c)

validBidTargets(s, a, c, now) ==
    /\ c # a.quoteAsset
    /\ c \in a.rebalanceComponents
    /\ ~hasExternalPosition(s, c)
    /\ ~isRebalanceDurationElapsed(a, now)

\* The current notional is rounded down and the target's up: a sale stops
\* short of the target, a purchase reaches it.
calculateAuctionSizeAndDirection(s, a, c) ==
    LET unit == getDefaultPositionRealUnit(s, c)
        current == getDefaultTotalNotional(s.totalSupply, unit)
    IN  UNION {LET goal == preciseMulCeil(s.totalSupply, target)
               IN  Require(unit # target,
                       [isSellAuction |-> goal < current,
                        quantity |-> IF goal < current THEN current - goal
                                     ELSE preciseDiv(goal - current, PreciseUnit - AuctionFee)])
                   : target \in getNormalizedTargetUnit(s, a, c)}

\* Rounded in the bidder's favour.
calculateQuoteAssetQuantitySwapped(isSellAuction, quantity, price) ==
    IF isSellAuction THEN preciseMul(quantity, price) ELSE preciseMulCeil(quantity, price)

\* Rounded in the set's favour both ways.
calculateQuoteAssetQuantity(isSellAuction, quantity, price) ==
    IF isSellAuction THEN preciseMulCeil(quantity, price) ELSE preciseMul(quantity, price)

validQuoteAssetQuantity(isSellAuction, quoteQuantity, limit, sentBalance) ==
    IF isSellAuction THEN quoteQuantity <= limit
    ELSE quoteQuantity >= limit /\ quoteQuantity <= sentBalance

\* _executeBid, _accrueProtocolFee and _updatePositionState: the bidder pays,
\* the set sends, the protocol takes its share of what came in, and both
\* positions are recomputed from the balances of before and after.
settle(s, sent, received, quantitySent, quantityReceived) ==
    LET fee == preciseMul(quantityReceived, AuctionFee)
        executed == strictInvokeTransfer(transferFrom(s, received, quantityReceived),
                                         AuctionModule, sent, quantitySent)
        charged == UNION {payProtocolFeeFromSetToken(t, AuctionModule, received, fee)
                              : t \in executed}
        sentEdited == UNION {calculateAndEditDefaultPosition(t, AuctionModule, sent,
                                 s.totalSupply, s.held[sent]) : t \in charged}
    IN  UNION {calculateAndEditDefaultPosition(t, AuctionModule, received,
                   s.totalSupply, s.held[received]) : t \in sentEdited}

settleAtPrice(s, a, c, auction, quantity, limit, price) ==
    LET quote == calculateQuoteAssetQuantity(auction.isSellAuction, quantity, price)
        sent == IF auction.isSellAuction THEN c ELSE a.quoteAsset
    IN  IF ~validQuoteAssetQuantity(auction.isSellAuction, quote, limit, s.held[sent]) THEN {}
        ELSE IF auction.isSellAuction THEN settle(s, c, a.quoteAsset, quantity, quote)
        ELSE settle(s, a.quoteAsset, c, quote, quantity)

\* The quantity is not held against the size of the auction.
bidUnlimited(s, a, bidder, c, quantity, limit, now) ==
    LET auctions == IF isAllowedBidder(a, bidder) /\ validBidTargets(s, a, c, now)
                    THEN calculateAuctionSizeAndDirection(s, a, c) ELSE {}
    IN  UNION {UNION {settleAtPrice(s, a, c, auction, quantity, limit, price)
                          : price \in getPrice(a.priceConfig[c], now - a.rebalanceStartTime)}
                   : auction \in auctions}

bid(s, a, bidder, c, quantity, limit, now) ==
    LET auctions == IF isAllowedBidder(a, bidder) /\ validBidTargets(s, a, c, now)
                    THEN calculateAuctionSizeAndDirection(s, a, c) ELSE {}
    IN  UNION {UNION {settleAtPrice(s, a, c, auction, quantity, limit, price)
                          : price \in IF quantity <= auction.quantity
                                      THEN getPrice(a.priceConfig[c], now - a.rebalanceStartTime)
                                      ELSE {}}
                   : auction \in auctions}

\* All targets rise together when the rebalance multiplier falls.
raiseAssetTargets(s, a, bidder, now) ==
    UNION {Require(can, [a EXCEPT !.positionMultiplier =
                            preciseDiv(@, PreciseUnit + a.raiseTargetPercentage)])
               : can \in IF isAllowedBidder(a, bidder) /\ ~isRebalanceDurationElapsed(a, now)
                         THEN canRaiseAssetTargets(s, a) ELSE {}}

\* The rebalance goes on after an early unlock.
unlockKeepsDuration(s, a, now) ==
    UNION {IF ~(isRebalanceDurationElapsed(a, now) \/ early) THEN {}
           ELSE {[set |-> t, auction |-> a] : t \in unlock(s, AuctionModule)}
               : early \in IF s.locker = AuctionModule THEN canUnlockEarly(s, a) ELSE {}}

\* Only met targets unlock.
unlockNeedsTargets(s, a, now) ==
    UNION {{[set |-> t, auction |-> [a EXCEPT !.rebalanceDuration = 0]]
                : t \in IF early THEN unlock(s, AuctionModule) ELSE {}}
               : early \in IF s.locker = AuctionModule THEN canUnlockEarly(s, a) ELSE {}}

\* Open to anyone.  Whether the targets are met is evaluated even when the
\* duration has elapsed, and a revert in it is a revert of the unlock.  The
\* set's own refusal is tested first here: a set that this module does not
\* lock may have no rebalance to evaluate.
unlockRebalance(s, a, now) ==
    UNION {IF ~(isRebalanceDurationElapsed(a, now) \/ early) THEN {}
           ELSE {[set |-> t,
                  auction |-> IF early THEN [a EXCEPT !.rebalanceDuration = 0] ELSE a]
                     : t \in unlock(s, AuctionModule)}
               : early \in IF s.locker = AuctionModule THEN canUnlockEarly(s, a) ELSE {}}
=============================================================================
