----------------------------- MODULE IndexSystem -----------------------------
(***************************************************************************)
(* One SetToken with the three modules this release is about:              *)
(* BasicIssuanceModule, StreamingFeeModule and AuctionRebalanceModuleV1.   *)
(* Holders, bidders, the manager, the protocol's owner and anyone at all   *)
(* call in any order; each action is one whole transaction, and a          *)
(* transaction that would revert is one that does not happen.              *)
(***************************************************************************)
EXTENDS BasicIssuanceModule, StreamingFeeModule, AuctionRebalanceModuleV1

CONSTANTS InitialUnits,        \* units per component the set is created with
          IssueQuantities, RedeemQuantities,
          Airdropped,          \* tokens somebody may send to the set
          BidderGroups,        \* sets of bidders whose status a manager may set at once
          AnyoneChoices,       \* values of isAnyoneAllowedToBid a manager may set
          FeeSettings,         \* [fee, maxFee] pairs the fee module may start with
          NewFees,             \* yearly fees a manager may change to
          QuoteAssets, TargetUnits, PriceConfigs, Durations, RaisePercentages, BidQuantities,
          StaleMultipliers,    \* multipliers, besides the current, a rebalance may start with
          LockChoices,         \* values of _shouldLockSetToken
          LifecycleActs,       \* whether modules come and go and the manager changes
          OwnerActs,           \* whether the protocol's owner intervenes
          MaxSupply, MaxHeld, MaxIssued, MaxTime   \* bounds

\* Three contracts, three addresses.
ASSUME ModulesAssumption ==
    /\ Modules = {IssuanceModule, StreamingModule, AuctionModule}
    /\ IssuanceModule # StreamingModule
    /\ IssuanceModule # AuctionModule
    /\ StreamingModule # AuctionModule

\* What the types of the calls' arguments and SetTokenCreator's checks say:
\* numbers are unsigned, and a set starts with positive units.
ASSUME InputsAssumption ==
    /\ \A units \in InitialUnits :
           /\ DOMAIN units \subseteq Tokens
           /\ \A c \in DOMAIN units : units[c] \in Nat \ {0}
    /\ IssueQuantities \cup RedeemQuantities \cup BidQuantities \subseteq Nat
    /\ TargetUnits \cup Durations \cup RaisePercentages \cup StaleMultipliers \subseteq Nat
    /\ NewFees \subseteq Nat /\ FeeSettings \subseteq [fee : Nat, maxFee : Nat]
    /\ PriceConfigs \subseteq PriceConfig
    /\ Airdropped \subseteq Tokens /\ QuoteAssets \subseteq Tokens
    /\ BidderGroups \subseteq SUBSET Bidders
    /\ AnyoneChoices \subseteq BOOLEAN /\ LockChoices \subseteq BOOLEAN
    /\ MaxSupply \in Nat /\ MaxHeld \in Nat /\ MaxIssued \in Nat /\ MaxTime \in Nat

VARIABLES
    set,              \* the SetToken's state
    auction,          \* AuctionRebalanceModuleV1's state for it
    fees,             \* StreamingFeeModule's state for it
    now,              \* block.timestamp
    issued,           \* quantity issued so far (history variable)
    rebalanceLocked   \* whether the last rebalance started locked (history variable)

vars == <<set, auction, fees, now, issued, rebalanceLocked>>

Init ==
    /\ \E units \in InitialUnits, manager \in Managers \ {ZeroAddress} :
           set = newSetToken(units, Modules, manager)
    /\ auction = newAuction
    /\ fees = noFees
    /\ now = 1
    /\ issued = 0
    /\ rebalanceLocked = FALSE

WithinBounds(s) == s.totalSupply <= MaxSupply /\ \A c \in Tokens : s.held[c] <= MaxHeld
-----------------------------------------------------------------------------
(* Holders. *)

Issue(quantity) ==
    /\ set' \in issue(set, quantity)
    /\ WithinBounds(set')
    /\ issued' = issued + quantity
    /\ issued' <= MaxIssued
    /\ UNCHANGED <<auction, fees, now, rebalanceLocked>>

Redeem(quantity) ==
    /\ set' \in redeem(set, quantity)
    /\ UNCHANGED <<auction, fees, now, issued, rebalanceLocked>>

\* Tokens sent to the set outside any module.
Airdrop(c) ==
    /\ set' = transferFrom(set, c, 1)
    /\ WithinBounds(set')
    /\ UNCHANGED <<auction, fees, now, issued, rebalanceLocked>>
-----------------------------------------------------------------------------
(* Streaming fees. *)

AccrueFee ==
    /\ \E r \in accrueFee(set, fees, now) : set' = r.set /\ fees' = r.fees
    /\ WithinBounds(set')
    /\ UNCHANGED <<auction, now, issued, rebalanceLocked>>

UpdateStreamingFee(caller, newFee) ==
    /\ \E r \in updateStreamingFee(set, fees, caller, newFee, now) :
           set' = r.set /\ fees' = r.fees
    /\ WithinBounds(set')
    /\ UNCHANGED <<auction, now, issued, rebalanceLocked>>

UpdateFeeRecipient(caller, recipient) ==
    /\ fees' \in updateFeeRecipient(set, fees, caller, recipient)
    /\ UNCHANGED <<set, auction, now, issued, rebalanceLocked>>
-----------------------------------------------------------------------------
(* Rebalancing. *)

StartRebalance(caller, quoteAsset, added, shouldLock, duration, multiplier) ==
    /\ now + duration <= MaxTime
    /\ \E targets \in [set.components \cup added -> TargetUnits],
          config \in PriceConfigs :
           \E r \in startRebalance(set, auction, caller, quoteAsset, added, targets,
                        [c \in set.components \cup added |-> config],
                        shouldLock, duration, multiplier, now) :
               /\ set' = r.set
               /\ auction' = r.auction
               /\ rebalanceLocked' = (r.set.locker = AuctionModule)
    /\ UNCHANGED <<fees, now, issued>>

Bid(bidder, c, quantity, limit) ==
    /\ set' \in bid(set, auction, bidder, c, quantity, limit, now)
    /\ WithinBounds(set')
    /\ UNCHANGED <<auction, fees, now, issued, rebalanceLocked>>

RaiseAssetTargets(bidder) ==
    /\ auction' \in raiseAssetTargets(set, auction, bidder, now)
    /\ UNCHANGED <<set, fees, now, issued, rebalanceLocked>>

Unlock ==
    /\ \E r \in unlockRebalance(set, auction, now) : set' = r.set /\ auction' = r.auction
    /\ UNCHANGED <<fees, now, issued, rebalanceLocked>>

SetRaiseTargetPercentage(caller, percentage) ==
    /\ auction' \in setRaiseTargetPercentage(set, auction, caller, percentage)
    /\ UNCHANGED <<set, fees, now, issued, rebalanceLocked>>

SetBidderStatus(caller, statuses) ==
    /\ auction' \in setBidderStatus(set, auction, caller, statuses)
    /\ UNCHANGED <<set, fees, now, issued, rebalanceLocked>>

SetAnyoneBid(caller, status) ==
    /\ auction' \in setAnyoneBid(set, auction, caller, status)
    /\ UNCHANGED <<set, fees, now, issued, rebalanceLocked>>
-----------------------------------------------------------------------------
(* Module lifecycle. *)

InitializeIssuance(caller) ==
    /\ set' \in initializeIssuance(set, caller)
    /\ UNCHANGED <<auction, fees, now, issued, rebalanceLocked>>

InitializeFees(caller, setting, recipient) ==
    /\ \E r \in initializeFees(set, fees, caller, setting.fee, setting.maxFee, recipient, now) :
           set' = r.set /\ fees' = r.fees
    /\ UNCHANGED <<auction, now, issued, rebalanceLocked>>

InitializeAuction(caller) ==
    /\ \E r \in initializeAuction(set, auction, caller) :
           set' = r.set /\ auction' = r.auction
    /\ UNCHANGED <<fees, now, issued, rebalanceLocked>>

AddModule(caller, m) ==
    /\ set' \in addModule(set, caller, m)
    /\ UNCHANGED <<auction, fees, now, issued, rebalanceLocked>>

\* The set calls the module's removeModule, which drops the module's state;
\* BasicIssuanceModule's always reverts.
RemoveModule(caller, m) ==
    /\ m # IssuanceModule
    /\ set' \in removeModule(set, caller, m)
    /\ auction' = IF m = AuctionModule THEN removeAuction(auction) ELSE auction
    /\ fees' = IF m = StreamingModule THEN noFees ELSE fees
    /\ UNCHANGED <<now, issued, rebalanceLocked>>

RemovePendingModule(caller, m) ==
    /\ set' \in removePendingModule(set, caller, m)
    /\ UNCHANGED <<auction, fees, now, issued, rebalanceLocked>>

SetManager(caller, newManager) ==
    /\ set' \in setManager(set, caller, newManager)
    /\ UNCHANGED <<auction, fees, now, issued, rebalanceLocked>>
-----------------------------------------------------------------------------
(* The protocol's owner, through the Controller. *)

DisableModule(m) ==
    /\ m \in set.isModule
    /\ set' = [set EXCEPT !.isModule = @ \ {m}]
    /\ UNCHANGED <<auction, fees, now, issued, rebalanceLocked>>

EnableModule(m) ==
    /\ m \notin set.isModule
    /\ set' = [set EXCEPT !.isModule = @ \cup {m}]
    /\ UNCHANGED <<auction, fees, now, issued, rebalanceLocked>>

RemoveSet ==
    /\ set.isSet
    /\ set' = [set EXCEPT !.isSet = FALSE]
    /\ UNCHANGED <<auction, fees, now, issued, rebalanceLocked>>

Tick ==
    /\ now < MaxTime
    /\ now' = now + 1
    /\ UNCHANGED <<set, auction, fees, issued, rebalanceLocked>>
-----------------------------------------------------------------------------
BidLimits == {0, MaxHeld}

HolderNext ==
    \/ \E quantity \in IssueQuantities : Issue(quantity)
    \/ \E quantity \in RedeemQuantities : Redeem(quantity)
    \/ \E c \in Airdropped : Airdrop(c)
    \/ AccrueFee

BidderNext ==
    \/ \E bidder \in Bidders, c \in Tokens, quantity \in BidQuantities, limit \in BidLimits :
           Bid(bidder, c, quantity, limit)
    \/ \E bidder \in Bidders : RaiseAssetTargets(bidder)
    \/ Unlock

ManagerNext(caller) ==
    \/ \E newFee \in NewFees : UpdateStreamingFee(caller, newFee)
    \/ \E recipient \in Recipients : UpdateFeeRecipient(caller, recipient)
    \/ \E quoteAsset \in QuoteAssets, added \in SUBSET (Tokens \ set.components),
          shouldLock \in LockChoices, duration \in Durations,
          multiplier \in StaleMultipliers \cup {set.positionMultiplier} :
           StartRebalance(caller, quoteAsset, added, shouldLock, duration, multiplier)
    \/ \E percentage \in RaisePercentages : SetRaiseTargetPercentage(caller, percentage)
    \/ \E chosen \in BidderGroups : \E statuses \in [chosen -> BOOLEAN] :
           SetBidderStatus(caller, statuses)
    \/ \E status \in AnyoneChoices : SetAnyoneBid(caller, status)

LifecycleNext(caller) ==
    \/ InitializeIssuance(caller)
    \/ \E setting \in FeeSettings, recipient \in Recipients :
           InitializeFees(caller, setting, recipient)
    \/ InitializeAuction(caller)
    \/ LifecycleActs /\ \E m \in Modules : AddModule(caller, m)
    \/ LifecycleActs /\ \E m \in Modules : RemoveModule(caller, m)
    \/ LifecycleActs /\ \E m \in Modules : RemovePendingModule(caller, m)
    \/ LifecycleActs /\ \E newManager \in Managers : SetManager(caller, newManager)

OwnerNext ==
    /\ OwnerActs
    /\ \/ \E m \in Modules : DisableModule(m) \/ EnableModule(m)
       \/ RemoveSet

Next ==
    \/ HolderNext
    \/ BidderNext
    \/ \E caller \in Managers \ {ZeroAddress} : ManagerNext(caller) \/ LifecycleNext(caller)
    \/ OwnerNext
    \/ Tick

Spec == Init /\ [][Next]_vars

\* Time passes, and since anyone may call unlock, somebody does once it stays
\* possible.
FairSpec == Spec /\ WF_vars(Tick) /\ WF_vars(Unlock)
-----------------------------------------------------------------------------
TypeOK ==
    /\ set \in SetTokenState
    /\ fees \in FeeState
    /\ now \in Nat /\ issued \in Nat /\ rebalanceLocked \in BOOLEAN
    /\ auction.targetUnit \in [Tokens -> Nat]
    /\ auction.bidAllowList \subseteq Bidders /\ auction.biddersHistory \subseteq Bidders
    /\ auction.rebalanceComponents \subseteq Tokens

realUnit(c) == getDefaultPositionRealUnit(set, c)

\* A target unit under the set's present multiplier.
scaledTarget(c) ==
    (auction.targetUnit[c] * set.positionMultiplier) \div auction.positionMultiplier

\* The set holds at least what its positions promise to the whole supply.
\* Rounding up on issue and down on redeem and bid is what keeps it so.
FullyCollateralised ==
    \A c \in Tokens : realUnit(c) * set.totalSupply <= set.held[c] * PreciseUnit

\* With fees accruing, units read back after an accrual can exceed what was
\* paid in for them, but never by more than one unit for every set issued:
\* the unrounded claims stay covered up to that much.
ShortfallBounded ==
    \A c \in Tokens :
        set.virtualUnit[c] * set.positionMultiplier * set.totalSupply
            <= PreciseUnit * (set.held[c] * PreciseUnit + issued)

\* A fee accrual mints no more claims than it takes from the positions: no
\* component's total unrounded claim grows, whatever fraction rounding drops.
FeesNeverInflateClaims ==
    [][set'.positionMultiplier # set.positionMultiplier =>
        \A c \in Tokens :
            set'.virtualUnit[c] * set'.positionMultiplier * set'.totalSupply
                <= set.virtualUnit[c] * set.positionMultiplier * set.totalSupply]_vars

Ref == INSTANCE FeeModuleUtils

\* An accrual does what the tests' formulas say of it: the sets minted are the
\* reference's for the time since the last accrual and the rate in force then,
\* whichever accruals and changes of rate came before, and each unit is the
\* reference's up to the fractions dropped from the multiplier and the unit.
FeeAccrualMatchesReference ==
    [][set'.positionMultiplier # set.positionMultiplier =>
        LET inflation == Ref!getStreamingFee(fees.lastStreamingFeeTimestamp, now,
                                             fees.streamingFeePercentage)
            expected == Ref!getPostFeePositionUnits([c \in Tokens |-> realUnit(c)], inflation)
        IN  /\ set'.totalSupply - set.totalSupply
                   = Ref!getStreamingFeeInflationAmount(inflation, set.totalSupply)
            /\ \A c \in Tokens :
                   /\ getDefaultPositionRealUnit(set', c) <= expected[c] + 1
                   /\ getDefaultPositionRealUnit(set', c)
                          >= expected[c] - preciseMulCeil(set.virtualUnit[c], 1)]_vars

\* While the auction module holds the lock, supply and multiplier stand still:
\* bids compute sizes from them, and issuing, redeeming or accruing a fee in
\* the middle of a rebalance must wait for the unlock.
SupplyFrozenWhileLocked ==
    [][set.isLocked /\ set'.isLocked =>
        /\ set'.totalSupply = set.totalSupply
        /\ set'.positionMultiplier = set.positionMultiplier]_vars

\* A rebalance that started locked takes no bid after its unlock: an early
\* unlock also ends the rebalance.
LockedRebalanceEndsWithUnlock ==
    rebalanceLocked /\ ~set.isLocked => isRebalanceDurationElapsed(auction, now)

\* Who may bid is what the manager last said: the history names every allowed
\* bidder, so a removed module leaves no permission behind to come back with
\* the next initialization.
PermissionsAccounted ==
    /\ auction.bidAllowList \subseteq auction.biddersHistory
    /\ set.moduleStates[AuctionModule] # "INITIALIZED" =>
           auction.bidAllowList = {} /\ ~auction.isAnyoneAllowedToBid

\* Positions only move inside a running rebalance, and only those of its
\* components and its quote asset.
PositionsMoveOnlyInRebalance ==
    [][\A c \in Tokens : set'.virtualUnit[c] # set.virtualUnit[c] =>
        /\ ~isRebalanceDurationElapsed(auction, now)
        /\ c \in auction.rebalanceComponents \cup {auction.quoteAsset}]_vars

\* What a bid does to a component it trades, in a set with supply that holds
\* what its position tracks: measured in whole tokens, the position ends
\* between the lower and the higher of its unit and its target (scaled by what
\* fees took since the start), rounded outwards.  Storing a unit rounds down
\* once, and once more under a multiplier that fees have lowered.  With less
\* than it tracks, the set can only sell its whole balance, which closes the
\* position.
BidStaysNearTarget ==
    [][\A c \in Tokens \ {auction.quoteAsset} :
        (/\ set.totalSupply > 0 /\ set'.virtualUnit[c] # set.virtualUnit[c]
         /\ preciseMul(realUnit(c), set.totalSupply) <= set.held[c]) =>
            LET before == realUnit(c)
                target == scaledTarget(c)
                after == getDefaultPositionRealUnit(set', c)
                supply == set.totalSupply
                roundings == IF set.positionMultiplier = PreciseUnit THEN 1 ELSE 2
            IN  /\ after * supply <= preciseMulCeil(larger(before, target), supply) * PreciseUnit
                /\ (after + roundings) * supply
                       > preciseMul(smaller(before, target), supply) * PreciseUnit]_vars

\* A bid pays at least the auction's price: what the set gives up of one token
\* comes back in the other at the quoted price, less the protocol's fee and
\* never less to rounding.
BidPaysAuctionPrice ==
    [][set'.totalSupply = set.totalSupply =>
        \A c \in auction.rebalanceComponents \ {auction.quoteAsset} :
            \A price \in getPrice(auction.priceConfig[c], now - auction.rebalanceStartTime) :
                LET q == auction.quoteAsset
                    gained(t) == set'.held[t] - set.held[t]
                    kept == PreciseUnit - AuctionFee
                IN  /\ gained(c) < 0 =>
                           gained(q) * PreciseUnit * PreciseUnit >= -gained(c) * price * kept
                    /\ gained(q) < 0 /\ gained(c) > 0 =>
                           gained(c) * price >= -gained(q) * kept]_vars

\* approximatelyEquals subtracts its range of one from the component's unit,
\* and from the quote asset's target: neither subtraction underflows.
UnlockComparable ==
    /\ auction.positionMultiplier > 0
    /\ \A c \in auction.rebalanceComponents \ {auction.quoteAsset} :
           scaledTarget(c) = 1 => realUnit(c) > 0
    /\ scaledTarget(auction.quoteAsset) = 0 => realUnit(auction.quoteAsset) > 1

\* A locked set does not stay locked: time passes the end of the rebalance and
\* then anyone's unlock goes through, whatever the manager, the bidders and the
\* owner did in between and whether or not the targets were met.  The only
\* ways out are a module disabled by the owner and targets whose comparison
\* reverts.  The manager extends the rebalance finitely often (MaxTime).
LockedLeadsToUnlocked ==
    set.isLocked ~> (~set.isLocked \/ AuctionModule \notin set.isModule \/ ~UnlockComparable)

\* Once the rebalance's duration has elapsed, unlock can be called.
ElapsedRebalanceUnlocks ==
    set.locker = AuctionModule /\ AuctionModule \in set.isModule
        /\ isRebalanceDurationElapsed(auction, now)
            => Returns(unlockRebalance(set, auction, now))
=============================================================================
