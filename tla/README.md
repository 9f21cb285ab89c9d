# Index Protocol: TLA+ models, checks and proofs

Index Protocol keeps baskets of ERC20 tokens ("sets") as ERC20 tokens of their
own. This directory models the part of `index-protocol/contracts` that holds a
set's accounting together: the SetToken and its position arithmetic, the
registry contracts, the three modules a rebalancing index runs with (issuance,
streaming fee, auction rebalance), issuance at net asset value, and leverage at
Perpetual Protocol with the issuance module that goes with it. It also models
the TypeScript around the contracts: the formulas the tests predict results
with, the sandbox every test runs in, the deployment helpers and the build.
`PROJECT.json` lists the runs, the mutants, the source lines behind every
definition, the hazards and the theorems.

## 1. The system

| Part | State | Operations | Correct when |
|---|---|---|---|
| `SetToken` | components, virtual units, external positions, multiplier, supply, module states, lock, manager | privileged module calls, manager calls, `initializeModule` | the lists name exactly the positions there are; rounding loses no position; a lock has a live owner |
| `Position` | none (edits a SetToken) | `editDefaultPosition`, `editExternalPosition`, `calculateAndEditDefaultPosition` | the same; airdropped balances do not enter a unit |
| `PreciseUnitMath`, `AddressArrayUtils` | none / arrays | fixed-point products and quotients, array removal | each rounds the way its name says; arrays behave as sets |
| `Controller`, `IntegrationRegistry` | arrays and mappings of sets, factories, modules, resources, fees, adapters | owner and factory calls | arrays and mappings agree |
| `BasicIssuanceModule` | none of its own | `issue`, `redeem`, `initialize` | the set holds what its units promise |
| `StreamingFeeModule` | fee settings, time of last accrual | `accrueFee`, fee settings, `initialize`, removal | a fee dilutes and never inflates the claims of holders |
| `AuctionRebalanceModuleV1` | rebalance, targets and price curves, bidder permissions | `startRebalance`, `bid`, `raiseAssetTargets`, `unlock`, settings, lifecycle | bids move positions towards targets at the auction's price, inside the rebalance only; a lock ends; permissions do not outlive the module |
| price adapters | none | `getPrice`, `areParamsValid` | a price stays within bounds, moves one way, and exists |
| `CustomOracleNAVIssuanceModule`, `SetValuer` | fees, premium, reserve assets of a set | `issue`, `redeem` (and with ether), settings, `initialize`, removal | nobody enters or leaves at the others' expense; the reserve array and mapping agree |
| `SlippageIssuanceModule`, `DebtIssuanceModule` | fees, recipient, registered hooks | `issueWithSlippage`, `redeemWithSlippage`, registration, settings | the amount moved is the amount previewed and bounded by the caller |
| `PerpV2LeverageModuleV2`, its viewer | list of markets with a position | `deposit`, `withdraw`, `trade`, issue and redeem hooks, removal | the list names every open position; whoever trades bears the cost |
| reference formulas (`utils/common/*Utils.ts`) | none | the values tests compare with | they agree with the contracts in every reachable state, not only in the tests' cases |
| `Blockchain`, `testingUtils` | the node's snapshots, a module-level stack of their ids, flags per suite | `cacheBeforeEach`, `addSnapshotBeforeRestoreAfterEach`, clock | each test starts from the same chain, with live handles |
| `utils/deploys` | none (adds contracts) | `deployX`, `getX` | constructor arguments and linked libraries are what the contract expects |
| build tasks (`hardhat.config.ts`, `tasks/`, `package.json`) | artifact, external ABI and type files | compile, type generation, scripts | a completed build is consistent, whatever died before it |

Modules call the SetToken, which checks with the Controller that its caller is an
enabled module and, when locked, that it is the locker. The SetToken calls back
into a module in one place, `removeModule`. All state is shared through the
SetToken: a fee accrual changes the multiplier that an auction's targets were
fixed under; an issue changes the supply that bid sizes are computed from.

The NAV and leverage modules add prices that move between any two transactions.
The leverage module is also called back: an issuance module calls its hooks,
which trade on the account before the issue reads the units that the trade moved.
The tests share one node, and contracts on it are undone by a revert while the
JavaScript variables that hold their addresses are not.

The hard behaviours of the contracts are therefore not threads but transactions of different
accounts in an order nobody planned (holders, bidders, the manager, the owner and
anyone, for `accrueFee` and `unlock`), fixed-point rounding repeated many times,
machine integers at their edge, and state fixed at the start of a rebalance and
used later. A transaction is atomic, so an action is a transaction. Those of the
TypeScript are hooks that run in mocha's order around initializers that throw
anywhere, and build processes that die between two files and are started again.

The rest of the repository is in section 7.

## 2. Modules

| Module | Models |
|---|---|
| `Revert` | a call as the set of its outcomes: empty when it reverts |
| `PreciseUnitMath` | `lib/PreciseUnitMath.sol`, with 10^18 as the constant `PreciseUnit` |
| `AddressArrayUtils` | `lib/AddressArrayUtils.sol` on sequences |
| `AddressSet`, `AddressList` | the abstract set, and the array with `addComponent`/`removeComponent` that implements it |
| `SetToken` | `SetToken.sol`: its state as a record, each call as an operator on it; strict transfers of `Invoke` and `ExplicitERC20` |
| `Position` | `protocol/lib/Position.sol`, and the checks and fee transfers of `protocol/lib/ModuleBase.sol` |
| `SetTokenModules` | specification: a SetToken under arbitrary modules, its manager and the owner |
| `AuctionPriceAdapters`, `AuctionPrices` | the four price adapters; specification: one auction's price over time |
| `BasicIssuanceModule`, `StreamingFeeModule`, `AuctionRebalanceModuleV1` | the modules, as operators on the SetToken's and their own state |
| `IndexSystem` | specification: one SetToken with the three modules and all its callers |
| `Controller`, `IntegrationRegistry`, `Governance` | the registries, and the specification of their calls |
| `CustomOracleNAVIssuanceModule`, `NavIssuance` | valuation by `SetValuer` and NAV issuance; specification: one set issued both for components and for a reserve asset |
| `PerpV2Protocol` | external: the account of one trader at Perpetual Protocol V2, from the calls the module makes |
| `PerpV2LeverageModuleV2` | the leverage module with its libraries, and what its viewer reports |
| `DebtIssuanceModule`, `SlippageIssuanceModule`, `PerpLeverage` | issuance with hooks; specification: a levered set, its holders, manager, liquidators and markets |
| `MathUtils`, `FeeModuleUtils`, `NavIssuanceModuleUtils`, `PerpV2Utils` | the tests' formulas, on ethers' BigNumber |
| `Blockchain` | the `Blockchain` class, and as external the snapshots of the node |
| `DeployHelper` | each deployment helper as the arguments it passes and the libraries it links |
| `BuildTasks`, `TestEnvironment` | the build scripts and tasks; specification: a build followed by a test run |
| `MC*` | values for TLC |
| `IndexSystemProofs`, `AuctionPricesProofs`, `NavIssuanceProofs`, `PerpLeverageProofs`, `TestEnvironmentProofs` | theorems about the specification each is named after |
| `SetTokenProofs` | theorems about `SetTokenModules` |
| `GovernanceProofs` | theorems about `Governance` and about the array of `AddressList` |
| `PositionProofs` | what the arithmetic and the editing of positions compute, cited by the others |

A contract's storage is a record and a call an operator from states to the set of
outcomes, so that calls compose the way the Solidity does: a module's call is a
union over the outcomes of the SetToken calls it makes, and one revert empties
the union. The state machines (`SetTokenModules`, `IndexSystem`, `Governance`,
`AddressList`, `AuctionPrices`, `NavIssuance`, `PerpLeverage`) have one action
per entry point. In `TestEnvironment` an action is what a JavaScript process
does between two points where it may fail: one hook, one deployment, one test, or
one file of a build.

What is abstracted:

- Holders' and bidders' balances: only the total supply and the balances of the
  set count. `burn` is bounded by the supply.
- Array order of components: a set, which `AddressList` justifies. The one place
  where order shows, `_allTargetsMet` stopping at the first unmet component
  before it meets one that reverts, is taken as not reverting.
- External position data, events, hook contracts (a refusing hook is an issue
  that does not happen), price adapter names and encodings.
- All components of a rebalance are auctioned on one price curve, chosen when it
  starts, and the adapters stay registered.
- In `unlock`, the set's own check of the locker is tested first; the revert is
  the same.
- ERC20s move exactly the quantity they are asked to, which
  `strictInvokeTransfer` and `ExplicitERC20.transferFrom` insist on.
- NAV issuance: the manager's hooks can only refuse; ether is wrapped before and
  unwrapped after, so that the set sees WETH. Prices are those the PriceOracle
  answers with, and change in an action of their own.
- Perpetual Protocol: a market trades any size at its mid price plus or minus
  `Spread`, which is what makes a trade cost something; margin requirements,
  funding and liquidation are as the module and its fixture use them. Other
  traders appear as price moves, premiums and liquidations.
- The limit on a set's perpetual positions, `MaxPerpPositionsPerSet`, is a
  constant. The owner may change it (`updateMaxPerpPositionsPerSet`,
  PerpV2LeverageModuleV2.sol:566-568), also to less than the length of a list;
  the code then only refuses new positions. What `PositionsListed` says of the
  limit therefore holds for a limit that is not lowered.
- Tests: the body of a test is any change it may make to the chain and the
  clock; contracts are their kind, address, arguments and libraries. The files
  under `test/` give the shapes of suites; see below.
- Build: an ABI is whether its two kinds of entry carry a gas field, which is all
  the tasks change. `solc` and `typechain` are external.
- Integer width is kept in the price adapters, where a conversion to `int256`
  wraps. Elsewhere arithmetic is checked by SafeMath and 256 bits are out of
  reach of real quantities; underflow is modelled as the revert it is.

The suites of `TestEnvironment`. A suite is a describe block with one
initializer, hooked in one of four styles: `cacheBeforeEach`; `before` followed by
`addSnapshotBeforeRestoreAfterEach`; a plain `beforeEach`; or `before` alone. A
block with more hooks is a nest of suites, one for each. The shapes come from the
test files (`test/protocol/`, and `test/protocol/modules/v1/` where only a file is
named):

- Plain suites nest, and each hook of the path runs again for each test:
  `setToken.spec.ts` 148, 209, 263, `streamingFeeModule.spec.ts` 60, 134,
  `auctionRebalanceModuleV1.spec.ts` 868, 914, `debtIssuanceModule.spec.ts` 191,
  256, 303.
- A plain hook may act on a flag that the suite of the test sets
  (`debtIssuanceModule.spec.ts` 206-217): `Initializers[s][t]` is what the
  initializer of `s` does for a test of `t`.
- A suite below may deploy once, in `before`: `wrapModule.spec.ts` 185 in a
  snapshot file, `basicIssuanceModule.spec.ts` 302 below plain hooks.
- `before`, `after` and `afterEach` hooks that send transactions and keep no
  address are `Sends`: `debtIssuanceModule.spec.ts` 643-649,
  `auctionRebalanceModuleV1.spec.ts` 227, 504, `generalIndexModule.spec.ts` 670.
  A `before` of the outermost block that stands with its `cacheBeforeEach`
  (`auctionRebalanceModuleV1.spec.ts` 69-101) counts to the cached initializer,
  since nothing runs between the two.
- Hooks that only set the subject of a test (arguments and callers) have no effect
  on the chain or on handles and are left out; so are blocks that hold only such
  hooks, where they stand above cached ones.

Outside the model, and outside what is proved: six files whose outermost block
has a plain `beforeEach` before its own `addSnapshotBeforeRestoreAfterEach`
(`controller`, `setValuer`, `integrationRegistry`, `snapshotGovernanceAdapter`,
`explicitERC20Mock` and `snapshotDelegationModule`), whose deployments the revert
does not undo, so that they pile up on the chain from test to test; the
sandbox inside a block of `compClaimAdapter.spec.ts` (138); and the one plain hook
above cached suites that sends a transaction
(`modules/v2/perpV2BasisTradingModule.spec.ts` 1755).

The creation of a set and the reading of its address from the log
(`protocolUtils.ts` 15-32) are one step: they are consecutive awaits of one
program on a node that mines each transaction as it comes, and nothing else sends
any.

## 3. Runs

| Run | Question and result |
|---|---|
| `settoken_modules` | Two modules, one component, external positions of either sign, multipliers up to `PreciseUnit`, in any order of calls: positions stay tracked, the lock keeps its owner, a set whose locker was disabled is frozen. 153,120 states. |
| `auction_prices` | All four curves over all moments of a 7-bit clock: bounds, monotony and existence of the price, across each overflow guard. |
| `auction` | Issuance, redemption, airdrops, locked and unlocked rebalances, bids of 0 to 2 tokens on sales and purchases under a falling price with a protocol fee, raised targets: full collateral, targets, price, lock. 270,867 states. |
| `fees` | The same with fees accrued at any time and a rebalance started with the current or the initial multiplier: claims never inflate, the shortfall is bounded, bids follow scaled targets, an accrual is what `feeModuleUtils.ts` predicts. 703,209 states. |
| `lifecycle` | Modules come and go, the manager may give up the set, the owner disables modules and removes the set: permissions, and that a lock ends. 644,224 states. |
| `address_list` | Arrays of up to five addresses implement a set. |
| `governance` | The registries over all calls, from initial arrays that may hold duplicates. 14,338 states. |
| `nav_issuance` | Issue and redemption for components and for a reserve asset of fewer decimals, with two prices, fees that differ between issue and redemption, a premium, reserve assets and settings that change: value of the other holders, the shortfall that rounding leaves, the reserve list, and each flow against `navIssuanceModuleUtils.ts`. 274,824 states. |
| `perp_leverage` | A set levered on two markets, with fees, funding, a price at which it is insolvent, liquidations, modules removed and added again: previews, the tests' formulas, the viewer, the list of positions, and who pays for a trade. 201,295 states. |
| `test_environment` | Up to three build scripts that may die at any file, then ten suites in two files, nested and side by side, hooked in all four styles, with plain suites below plain ones, a hook that depends on the suite of the test and hooks that only send transactions; initializers deploy through each helper and may throw at any step. 857,034 states. |
| `fee_collateral` | Violation, see section 5. |
| `unlock_elapsed` | Violation, see section 5. |

Bounds. `PreciseUnit` is 2 to 10 instead of 10^18, so that a fraction is a large
part of a unit and every rounding shows within a few steps; the theorems of
section 4 hold for every value. Units, quantities and
targets are chosen so that products are not multiples of `PreciseUnit` and so
that both directions of an auction, an exhausted position and a target of zero
occur. `MaxSupply`, `MaxHeld`, `MaxIssued` and `MaxTime` close the state space;
`MaxTime` leaves room for a second rebalance after the first. `LifecycleActs` and
`OwnerActs` switch off, in the runs about arithmetic, the actors that do not
matter there. In the NAV and leverage runs `PreciseUnit` is 1000 and prices and
quantities are primes or near to them, so that every product leaves a remainder;
the collateral has one decimal less than the set (`CollateralScale` 10), the
reserve asset a base unit of half the set's. `MaxFlows`, `MaxTrades` and `MaxMoves` count
issues and redemptions, trades, and moves of the market: two flows at NAV are
enough for the second to meet a multiplier, a supply and a price other than the
one the first was computed with; three flows and three trades open, extend and
close both markets on either side of a move. `MaxScripts` 3 leaves two dead
builds before a good one. The suite tree has an inner suite with two tests and a
sibling after it, the least in which a shared stack of snapshots can be popped
by the wrong hook; below each kind of sandbox it has a plain suite in a plain
suite, with two tests in the lower one, the least in which a hook runs again over
handles that a revert has left without a contract. `UintBits` is 7 in the price runs, wide enough for each guard of
each curve to be the one that decides.

Deadlock. The bounded systems stop when time, supply, issuance or trades are used
up, so `IndexSystem`, `AuctionPrices` and `PerpLeverage` are run without the
deadlock check, and so is `TestEnvironment`, since a build and a test run end;
the others are checked for it.

What the formulas of the tests add. A unit test compares one call with a formula
in a handful of states. `FeeAccrualMatchesReference`, `FlowsMatchReference`,
`TransfersMatchReference` and `ViewMatchesReference` compare the contract with
the same formula in every reachable state. The formulas are translated from
TypeScript and the contracts from Solidity, and they round at different places;
where the results may differ by rounding, the property says by how much.
`ViewMatchesReference` compares two readings of the same list and account: it
says nothing of a position that is missing from the list, which is what
`PositionsListed` is for. `FlowsMatchReference` leaves out an issue so large that the multiplier becomes
zero, a reserve asset of more decimals than the set, and fees of more than the
whole.

`TestsStartAlike` is about the files with a sandbox, the cached and the
snapshotted ones: a file of plain hooks alone has no way back to a chain, and
its tests find what the ones before have left.

`SupplyFrozenWhileLocked` is checked in `auction`, which has no fee settings, so
that TLC sees issues, redemptions and bids against a lock; that an accrual of a
locked set changes nothing either is in the theorem `SupplyFrozen`.
`BidStaysNearTarget` in `fees` has the accruals between the bids of an unlocked
rebalance.

Fairness. `FairSpec` assumes weak fairness of `Tick` (blocks are produced) and of
`Unlock`, which any account may call: somebody who wants the set unlocked exists.
Nothing is assumed of the manager, the bidders or the owner. Because `MaxTime`
limits when a rebalance may start and end, the manager restarts it finitely
often; a manager who restarts for ever does keep a set locked.
`LockedLeadsToUnlocked` names the two ways a lock stays: the owner disabled the
module, or the comparison with the targets reverts (the subject of
`unlock_elapsed`).

Every property of a passing run has a mutant in `PROJECT.json`: a definition
with a plausible fault in place of the modelled one, under which TLC finds the
property violated. The mutated forms stand in the modules above the definitions
they replace.

## 4. Theorems

Proved with TLAPS for all values of the constants: all token sets, units,
quantities, prices, fees and widths, and any number of steps.

`SetTokenProofs`, about `SetTokenModules`:

- `PositionsAlwaysTracked`, `LockerAlwaysInitialized`, `TypeCorrect`:
  invariants. None is inductive alone. `Inv` joins to the type: a positive
  multiplier; components and external modules listed exactly where there is a
  stored unit (`Listed`, `ExternalListed`); every stored unit readable, that is
  keeping its sign through the multiplier (`DefaultReadable`,
  `ExternalReadable`); and a lock whose owner is initialized (`LockHeld`).
  `Position` decides by the unit read back and the lists are compared with the
  unit stored, so listing is preserved only because both agree on zero. A
  multiplier change is where this could fail: the guard checks the smallest
  absolute unit of the listed positions, and `LargerUnitSurvives` carries it to
  all others, which `Listed` shows are all there are.
- `DisabledLockerFreezes`: an action property from `Inv`, each privileged call
  needing an enabled caller and each manager call an unlocked set
  (`PositionsNeedPrivilege`). Only `addModule` is open while locked, and it
  changes none of the state the property protects.

`IndexSystemProofs`, about `IndexSystem`. The invariant `IInv` (`SystemInvariant`)
has three parts, each an operator of the state so that the effect of a call can
be a lemma about that call:

- `ClaimsSound`: `Inv` of the set; a multiplier of at most `PreciseUnit`, since
  only fees change it; a lock of the auction module only; and `Covered`, which is
  `ShortfallBounded` of any state: with `U` for `PreciseUnit`,
  `virtualUnit * multiplier * supply <= U * (held * U + issued)`. It speaks of
  units as they are stored. Units as they are read back are too coarse to be
  carried through a fee: where they are equal in two states, the stored claims
  can still differ by almost one unit per set. Alone it is not inductive: a step
  computes with units that must not be negative and a multiplier that must not be
  zero, which `Inv` says. `ExactlyCovered` is the same without the allowance, for
  a multiplier of exactly `U`.
- `FeesSound`: settings of their type, and a last accrual that is not in the
  future.
- `ControlSound`: a rebalance with a quote asset and a price for each of its
  components; allowed bidders contained in the history, and none left once the
  module is removed; a rebalance started with a lock over once the set is unlocked.

The argument for `Covered` is one rounding fact per action. An issue brings in
`preciseMulCeil` of a unit that was rounded down, so it is short by less than one
unit for every set issued, which is what `issued` allows; a redemption pays out
rounded down; a fee raises the supply and lowers the multiplier, both rounded
towards the smaller claim (`FeesNeverInflate`); a bid ends in `calculateAndEditDefaultPosition`,
whose new unit spreads the balance over the supply (`PositionProofs`); an airdrop
only adds. What follows:

| Theorem | From |
|---|---|
| `SystemTypeCorrect`, `ShortfallAlwaysBounded`, `LockedRebalancesEnd`, `PermissionsAlwaysAccounted` | `IInv` implies them |
| `UnscaledSetsFullyCollateralised` | `ExactlyCovered`; conditional on a multiplier of `U`, because once a fee has been taken the statement is false (run `fee_collateral`) |
| `SupplyFrozen`, `PositionsMoveInRebalances` | `IInv` and a case for each action: who may change supply, multiplier and units |
| `FeesNeverInflate`, `AccrualsMatchReference` | what an accrual computes, the fee in the order of the contract and in that of `feeModuleUtils.ts` |
| `BidsPayAuctionPrice` | what a bid sends and receives, with each product rounded in the set's favour |
| `BidsStayNearTarget` | the same lemmas, what `calculateAuctionSizeAndDirection` allows net of the fee, and the exact unit that `calculateAndEditDefaultPosition` stores |

`GovernanceProofs`, about `Governance`. `GInv` (`GovernanceInvariant`): the
Controller has its type; what is enabled is listed; every resource stands in its
array as often as ids lead to it; and before `initialize` no id leads anywhere,
without which the arrays given to it could not be matched with the mapping.
`remove` takes away one occurrence and closes the gap; the lemmas about it count
occurrences, so that arrays with duplicates, which `initialize` accepts, are covered. `EnabledAlwaysListed`,
`ResourcesAlwaysCounted` and the action property `ListsAlwaysStayInStep` follow.

`AuctionPricesProofs`, about `AuctionPrices`: `PricesWithinBounds`,
`PricesQuoted` and `PricesMoveOneWay`. The state is simple (`PriceInv`: a valid
configuration and a time); the work is in the lemmas about each curve, with a
case for each overflow guard and for the conversion to `int256` that wraps.

`NavIssuanceProofs`, about `NavIssuance`. `NInv` (`NavInvariant`) joins `Inv` and
`Covered` of the set to `NavSound` (the array and the mapping of reserve assets
agree, the premium is at most its maximum and that is less than one) and says
that a set without the module has no settings. At net asset value supply and
multiplier change together: the product of the new two is at most that of the
old two, which dilutes the claim on every component but the reserve asset; the
reserve asset's new unit spreads its balance after the flow. `NavTypeCorrect`,
`NavShortfallBounded` and `ReserveAssetsAlwaysIndexed` follow, and
`FlowsAlwaysMatchReference`: each result of the contract and of the tests'
formula lies in a bracket that its chain of roundings leaves around the exact
quotient, and the distance of the brackets is what the property allows. The
attempt with a distance of two on a redemption failed, and three is what the
chains can differ by.

`PerpLeverageProofs`, about `PerpLeverage`: `PositionsAlwaysListed`, for every
limit of positions that stays as it is. The
invariant `PerpInv` adds to it that a balance is an integer and the list one of
markets, that the supply is at most the largest so far (`Sound`), and that fees
are unsigned and the hooks an array (`SettingsSound`). A redemption burns sets
and then mints fees; it cannot raise the supply past that history, whatever the
manager's fee, because `calculateTotalFees` takes the fee from the quantity with
a checked subtraction (`FeesResult`). The loops over positions and hooks are
recursive functions, unfolded one pass at a time; what they leave alone is shown
by induction on the number of passes. `syncPositionList` walks a copy of an array
it removes from: it drops only markets whose unit rounds to at most one
(`SyncResult`), which is less than two units of the supply of that moment
(`Dust`). Between a trade and the update of the list nothing is known of the
traded market, not even that it is dust, so that `trade` is proved through
`MovedSound`, which sets it aside, and `UpdateResult`, which brings it back.

`TestEnvironmentProofs`, about `TestEnvironment` and the build before it, for
every tree of suites and initializers that keeps the conventions stated with the
assumptions below, every test body, and a failure at any step:

- `CompletedBuildsConsistent`, from `BuildInv`: where in its loop a process is
  tells which files carry the gas fields (`LoopsSound`). Of what a
  dead process left it is only known that an external artifact has one of its
  two forms; a build that completes has rewritten it.
- `SnapshotStackIsSound`, from `StackInv`: the runner is at a place of the tree
  that mocha's order can reach (`RunnerSound`), the stack has one entry for each
  suite with a snapshot on the way to it (`StackMatches`), and the node still
  knows each entry (`StackKnown`), although a revert drops every snapshot taken
  after the one it goes back to.
- `TestsSeeLiveHandles`, from `HandlesInv`. A plain suite's variables do hold
  addresses of contracts that a revert has undone, from the end of one test to the
  hook of the next, so the invariant cannot say that all handles are live. It says
  where they are: those of cached suites on the snapshots of their own and of the
  suites below (`CacheLive`); those of suites initialized in `before` on the chain
  that every test of the file is given (`home`, `LastingLive`); and those of the suites
  whose hooks have run for the test, `hooksRun` of them, on the chain as it is
  (`HooksLive`). A stale handle of a plain suite is one that its initializer
  is going to assign, whichever test it runs for (`VariablesSound`), and before
  that nobody reads it.
- `EveryTestStartsAlike`, from `StartInv` and `SandboxInv`. The sandbox restores
  the chain (`base`) of the first `floor` suites of a path; the plain hooks after
  them run again. `NowKept` says that the hooks run so far took `base` to the chain
  as it is (`Replay`), `PastKept` that any replay of all of them ends in the
  chain noted for the suite (`Ends`), whatever the plain suites held before. The
  step that joins them is `ReplaysAgree`: by induction along the path, an
  initializer run from the same chain, with the same handles around it, for a test
  of the same suite ends in the same chain with the same handles (`MakesOnce`),
  since it reads no variable of its own before it has assigned it. A snapshot pushed
  later by a suite below would move `floor`; mocha runs the tests of a suite before
  the suites in it (`OuterDone`), so that no test of the outer suite follows.
- `EveryDeploymentIsWired`, from `HandlesInv` (`ChainsSound`): a helper is given
  only addresses in scope that the initializer may read, and these are live.

The tree is well founded (`NestingAssumption`), and what is inherited along a
path is shown by induction on the length of the path.

`GovernanceProofs` also has the arrays of the SetToken, which start empty:
`NoDuplicatesHolds`, and `ListImplementsSet`, the refinement of `AddressSet` by
`AddressList` under `members <- entries`; the invariant (a sequence without duplicates) is what makes
one `removeStorage` remove the member.

`PositionProofs`: the rounding direction and tightness of `preciseMul`,
`preciseMulCeil`, `preciseDivCeil` and `divDown`, the last for both signs of both
arguments; the brackets these give for a unit read back, the effect of
`editDefaultPosition` and `calculateAndEditDefaultPosition` on a set with `Inv`,
and the effect of transfers.

Induction. The library's induction rules take a predicate as a parameter, which
the provers cannot instantiate. Where a proof needs induction over a number (the
passes of a loop, the depth of a suite) it is done on a set of numbers: a
set without a least counterexample is complete, from the well-foundedness of
`<` (`LeastNumber`, `NumberInduction`).

Assumptions, each evaluated by TLC in the runs that use it:

- `PreciseUnit` is a positive natural number and `ZeroAddress` is no module; the
  modules of a system are different contracts.
- Arguments have the types of the Solidity signatures, and sets are created with
  positive units, as `SetTokenCreator` requires (`InputsAssumption`,
  `NavInputsAssumption`, `NavSettingsAssumption`, `BaseUnitAssumption`,
  `PerpInputsAssumption`). The protocol's fee on a bid is below one
  (`AuctionFeeAssumption`), and its share of issue and redeem fees at most the
  whole (`PerpLeverageAssumption`).
- The exponential and the logarithm, which come from a library, answer in their
  machine types (`CurvesAssumption`), within the arguments the adapters guard for
  (`WordAssumption`); for `AuctionPrices` alone that they never fall and agree
  with e^0 and ln 1 (`PricesAssumption`).
- There are finitely many resource ids and the owner's arrays are finite
  (`GovernanceAssumption`).
- Suites form a tree, each in one place (`NestingAssumption`). Test files follow
  the conventions of the repository's own (`SuitesAssumption`; section 2 names the
  files, and the exceptions): cached suites stand in cached suites only, and
  `addSnapshotBeforeRestoreAfterEach` in the outermost block of a file. Plain
  suites nest freely. The initializer of one may depend on the suite of the
  test, but given that suite it is one sequence of calls; it assigns the same
  variables for every test and reads none of them before it has assigned it. A
  suite initialized in `before` is not in a cached file and does not use the
  variables of plain suites around it, whose hooks have not run yet.
  Contracts and external artifacts are different files (`BuildAssumption`).

Only model-checked:

- `LockedLeadsToUnlocked`: liveness under fairness, which TLAPS does not prove.
- `NavNotDiluted`: it compares sums over all components, and facts about such
  sums need induction over the set of components.
- The other properties of `PerpLeverage` (`PreviewMatchesTransfer`,
  `ViewMatchesReference`, `TransfersMatchReference`, `PerpValueNotDiluted`): they
  value an account by sums over its markets, for the same reason.
- The two violations, which are counterexamples.

## 5. Where the code and its comments part

- `fee_collateral`. The comment on `accrueFee` says units are adjusted down "to
  ensure full collateralization". Units are read back rounded down, an issue
  pays for the rounded unit, and a later accrual can lower the multiplier
  without lowering the rounded unit: supply times unit exceeds the balance, by
  the small amount `ShortfallBounded` states (below one unit per set issued).
- `unlock_elapsed`. The comment on `unlock` says it can be called once the
  duration has elapsed. The code evaluates the early-unlock conditions first,
  and with a quote-asset target of zero `approximatelyEquals` computes `0 - 1`
  and reverts. `raiseAssetTargets` can also round the rebalance multiplier to
  zero, with the same effect.

Noted without a run:

- With a total supply of zero, a bid of zero on an auctioned component writes a
  unit of zero and delists it.
- A set that holds less of a component than its position tracks, which fees and
  rounding can bring about, refuses every bid on it (the airdrop check of
  `calculateDefaultEditPositionUnit` reverts) but the sale of the whole balance:
  `calculateAndEditDefaultPosition` writes a unit of zero for an empty balance
  without that check, whatever is left to the target. `BidStaysNearTarget` is
  stated for the other sets; the attempt to prove it for all showed the case.
- `BoundedStepwiseExponentialPriceAdapter.sol` guards the product of time and
  coefficient against `uint256` overflow and then converts it to `int256`: from
  2^255 on it is negative, passes the next guard, and the quote reverts. It takes
  a coefficient beyond any sensible curve; `PriceQuoted` is stated for arguments
  that fit.
- `PerpV2LeverageModuleV2`: with an empty list of positions the preview answers
  as if the new unit were zero while the hook charges the vault's share.
  `PreviewMatchesTransfer` is stated for sets with a listed position.
- `PerpV2LeverageModuleV2.removeModule` passes for an account of negative value
  with open positions, although its comment (410-412) says none exist; the list
  is deleted and the set keeps its external position, so that it can be neither
  issued nor redeemed until the module is added again. `PositionsListed` leaves
  those markets out.
- A redemption from an account in debt pays nothing and trades the redeemer's
  share all the same; `PerpValueNotDiluted` excepts it.
- `CustomOracleNAVIssuanceModule.isRedeemValid` compares the reserve position
  with the quantity after fees, while `redeem` also takes the fees out of it: it
  may answer true for a redemption that reverts.
- `navIssuanceModuleUtils.ts` takes fees and premium before a redemption's value
  is brought to the reserve's decimals, the contract after: the two differ by up
  to three of the reserve's smallest unit in states no test of it reaches.
- `package.json` (line 59) sets `SKIP_ABI_GAS_MODS` for the first of two commands
  only, so that what is published carries the gas fields that
  `tasks/subtasks.ts` (18-19) says to skip.
- `leverUp` in `perpV2Utils.ts` ignores the slippage it is called with and allows
  two percent.

## 6. Plan

Done: the SetToken, its libraries and registries; the rebalancing, fee, basic
issuance, NAV issuance, slippage issuance and leverage modules and three
compositions of them; the tests' formulas, sandbox and deployments and the
build; the proofs about the SetToken, the system of three modules, the Controller,
prices, NAV issuance and its reference formulas, the leverage module's list, the
tests' sandbox, deployments and build, arrays and arithmetic.

Next, in this order:

1. `DebtIssuanceModuleV2`, for tokens whose balances change by themselves.
2. `GeneralIndexModule`: trades against an exchange that answers with any
   amount, `tradeRemainingWETH`, `raiseAssetTargets`, trader permissions.
3. The IntegrationRegistry composed with `IndexSystem`, adapters disappearing in
   mid-rebalance; `AirdropModule` and `StakingModule` as further editors of
   positions.

## 7. Not modelled

- `DebtIssuanceModuleV2`, `IssuanceModule`, `GeneralIndexModule`,
  `SingleIndexModule`: in the plan, or variants of what is modelled.
- Lending leverage, basis trading and Notional modules; trade, wrap, claim,
  airdrop, staking, AMM and governance modules: their core is an external
  protocol, and as editors of positions they call what `Position` models.
- Exchange, wrap, oracle and other adapters: stateless encoders of calls.
- PriceOracle's pairs and adapters: `SetValuer` takes its answers.
- `updateMaxPerpPositionsPerSet`: the limit is a constant (section 2).
- Products and viewers other than the leverage viewer: peripheral and read-only.
- `utils/common/uniswapUtils.ts` and `resetAsync`: nothing in the repository calls
  them. `waitForEvent` serves one integration test on a forked main net. `utils/deploys/dependencies.ts` is a table of addresses,
  and the helpers that only attach to those addresses on a forked main net do no
  more. Unit and string conversions have no state.
- The test fixtures (`utils/fixtures`) and test files: used as documentation of
  what the code is for.
