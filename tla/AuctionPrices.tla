---------------------------- MODULE AuctionPrices ----------------------------
(***************************************************************************)
(* One auction's price over time: a configuration is validated when the    *)
(* rebalance starts and then quoted at every later moment.                 *)
(***************************************************************************)
EXTENDS AuctionPriceAdapters

CONSTANTS Configs,     \* configurations offered to isPriceAdapterConfigDataValid
          MaxElapsed   \* last moment quoted

\* What the decoded data can be, and what solady's curves are relied on for:
\* they never fall as their argument grows, start at 1 and at 0, and take a
\* word at most.
ASSUME PricesAssumption ==
    /\ Configs \subseteq PriceConfig /\ MaxElapsed \in Nat
    /\ expWad[0] = PreciseUnit /\ lnWad[PreciseUnit] = 0
    /\ \A x, y \in Words : 0 <= x /\ x <= y /\ y <= MaxExpArg => expWad[x] <= expWad[y]
    /\ \A x, y \in Words : 0 < x /\ x <= y => lnWad[x] <= lnWad[y]

VARIABLES config, elapsed

vars == <<config, elapsed>>

Init ==
    /\ config \in {p \in Configs : areParamsValid(p)}
    /\ elapsed = 0

\* block.timestamp moves on.
Tick == elapsed < MaxElapsed /\ elapsed' = elapsed + 1 /\ UNCHANGED config

Next == Tick

Spec == Init /\ [][Next]_vars
-----------------------------------------------------------------------------
\* The argument of exp or ln still fits a positive int256.
ArgumentFits ==
    config.adapter \in {"exponential", "logarithmic"} =>
        config.timeCoefficient * timeBucket(config, elapsed) < SignBit

\* Every price quoted lies between minPrice and maxPrice, overflow, underflow
\* and wrap-around of the curve's arithmetic included.
PriceWithinBounds ==
    \A price \in getPrice(config, elapsed) :
        config.adapter # "constant" => config.minPrice <= price /\ price <= config.maxPrice

\* A valid configuration is quoted at every moment its argument fits.
PriceQuoted == ArgumentFits => getPrice(config, elapsed) # {}

\* A price only ever moves towards its bound: once a bidder may pay less (or
\* receive more), waiting never takes that back, also where an overflow guard
\* takes over from the formula.
PriceMovesOneWay ==
    [][ArgumentFits' =>
        \A before \in getPrice(config, elapsed), after \in getPrice(config, elapsed') :
            IF config.isDecreasing THEN after <= before ELSE after >= before]_vars
=============================================================================
