------------------------------ MODULE SetToken ------------------------------
(***************************************************************************)
(* contracts/protocol/SetToken.sol as operators on the contract's state.   *)
(*                                                                         *)
(* The state is one record s:                                              *)
(*   components               the components array, as the set AddressList *)
(*                            shows it to be                               *)
(*   virtualUnit              componentPositions[c].virtualUnit            *)
(*   externalPositionModules  componentPositions[c].externalPositionModules*)
(*   externalUnit             externalPositions[m].virtualUnit of c        *)
(*   positionMultiplier, totalSupply, moduleStates, isLocked, locker,      *)
(*   manager                  as in the contract                           *)
(*   isModule, isSet          the Controller's answers about modules and   *)
(*                            about this set                               *)
(*   held                     the component balances of the contract       *)
(* A call takes the state and its sender and gives the set of its outcomes *)
(* (module Revert).  Holders' balances are abstracted to totalSupply and   *)
(* an external position's data is left out.                                *)
(***************************************************************************)
EXTENDS PreciseUnitMath

CONSTANTS Tokens,     \* ERC20 tokens that can be components
          Modules,    \* module contracts
          ZeroAddress,\* no module (an unset locker) or no manager
          Managers    \* accounts that can be manager; may include ZeroAddress

ASSUME ZeroAddressAssumption == ZeroAddress \notin Modules

ModuleState == {"NONE", "PENDING", "INITIALIZED"}
-----------------------------------------------------------------------------
(* Modifiers. *)

onlyModule(s, caller) ==
    /\ s.moduleStates[caller] = "INITIALIZED"
    /\ caller \in s.isModule

\* The lock is not enforced.
whenLockedOnlyLockerUnchecked(s, caller) == TRUE

whenLockedOnlyLocker(s, caller) == s.isLocked => caller = s.locker

privileged(s, caller) == onlyModule(s, caller) /\ whenLockedOnlyLocker(s, caller)
-----------------------------------------------------------------------------
(* Units. *)

convertVirtualToRealUnit(s, virtualUnit) ==
    conservativePreciseMul(virtualUnit, s.positionMultiplier)

getDefaultPositionRealUnit(s, c) == convertVirtualToRealUnit(s, s.virtualUnit[c])

getExternalPositionRealUnit(s, c, m) == convertVirtualToRealUnit(s, s.externalUnit[c][m])

\* The two reverts refuse a positive unit that the round trip would lose.
convertRealToVirtualUnit(s, realUnit) ==
    LET virtualUnit == conservativePreciseDiv(realUnit, s.positionMultiplier)
    IN  Require(realUnit > 0 => /\ virtualUnit # 0
                                /\ convertVirtualToRealUnit(s, virtualUnit) # 0,
                virtualUnit)

\* The absolute virtual units _getPositionsAbsMinimumVirtualUnit runs over.
absVirtualUnits(s) ==
    {u \in {s.virtualUnit[c] : c \in s.components}
            \cup UNION {{abs(s.externalUnit[c][m]) : m \in s.externalPositionModules[c]}
                            : c \in s.components} : u > 0}

\* The smallest of them times the new multiplier must not round to zero; with
\* no position at all the code reverts in toInt256.
validateNewMultiplier(s, newMultiplier) ==
    \E least \in absVirtualUnits(s) :
        /\ \A u \in absVirtualUnits(s) : least <= u
        /\ conservativePreciseMul(least, newMultiplier) > 0
-----------------------------------------------------------------------------
(* Privileged module functions. *)

addComponent(s, caller, c) ==
    Require(privileged(s, caller) /\ c \notin s.components,
            [s EXCEPT !.components = @ \cup {c}])

removeComponent(s, caller, c) ==
    Require(privileged(s, caller) /\ c \in s.components,
            [s EXCEPT !.components = @ \ {c}])

editDefaultPositionUnit(s, caller, c, realUnit) ==
    {[s EXCEPT !.virtualUnit[c] = v] :
        v \in IF privileged(s, caller) THEN convertRealToVirtualUnit(s, realUnit) ELSE {}}

addExternalPositionModule(s, caller, c, m) ==
    Require(privileged(s, caller) /\ m \notin s.externalPositionModules[c],
            [s EXCEPT !.externalPositionModules[c] = @ \cup {m}])

\* The external position's unit stays behind.
removeExternalPositionModuleKeepsUnit(s, caller, c, m) ==
    Require(privileged(s, caller) /\ m \in s.externalPositionModules[c],
            [s EXCEPT !.externalPositionModules[c] = @ \ {m}])

\* Removes the module and deletes its external position.
removeExternalPositionModule(s, caller, c, m) ==
    Require(privileged(s, caller) /\ m \in s.externalPositionModules[c],
            [s EXCEPT !.externalPositionModules[c] = @ \ {m}, !.externalUnit[c][m] = 0])

editExternalPositionUnit(s, caller, c, m, realUnit) ==
    {[s EXCEPT !.externalUnit[c][m] = v] :
        v \in IF privileged(s, caller) THEN convertRealToVirtualUnit(s, realUnit) ELSE {}}

editPositionMultiplier(s, caller, newMultiplier) ==
    Require(privileged(s, caller) /\ validateNewMultiplier(s, newMultiplier),
            [s EXCEPT !.positionMultiplier = newMultiplier])

mint(s, caller, quantity) ==
    Require(privileged(s, caller), [s EXCEPT !.totalSupply = @ + quantity])

\* Burns without checking the balance.
burnUnchecked(s, caller, quantity) ==
    Require(privileged(s, caller), [s EXCEPT !.totalSupply = @ - quantity])

burn(s, caller, quantity) ==
    Require(privileged(s, caller) /\ quantity <= s.totalSupply,
            [s EXCEPT !.totalSupply = @ - quantity])

lock(s, caller) ==
    Require(onlyModule(s, caller) /\ ~s.isLocked,
            [s EXCEPT !.locker = caller, !.isLocked = TRUE])

unlock(s, caller) ==
    Require(onlyModule(s, caller) /\ s.isLocked /\ s.locker = caller,
            [s EXCEPT !.locker = ZeroAddress, !.isLocked = FALSE])
-----------------------------------------------------------------------------
(* Manager functions and module initialization. *)

onlyManager(s, caller) == caller = s.manager

\* Unlike the other manager functions this one is open while locked.
addModule(s, caller, m) ==
    Require(onlyManager(s, caller) /\ s.moduleStates[m] = "NONE" /\ m \in s.isModule,
            [s EXCEPT !.moduleStates[m] = "PENDING"])

\* A locked set lets its locker go.
removeModuleWhileLocked(s, caller, m) ==
    Require(onlyManager(s, caller) /\ s.moduleStates[m] = "INITIALIZED",
            [s EXCEPT !.moduleStates[m] = "NONE"])

\* The module's own removeModule, called in between, is the caller's to compose.
removeModule(s, caller, m) ==
    Require(onlyManager(s, caller) /\ ~s.isLocked /\ s.moduleStates[m] = "INITIALIZED",
            [s EXCEPT !.moduleStates[m] = "NONE"])

removePendingModule(s, caller, m) ==
    Require(onlyManager(s, caller) /\ ~s.isLocked /\ s.moduleStates[m] = "PENDING",
            [s EXCEPT !.moduleStates[m] = "NONE"])

initializeModule(s, caller) ==
    Require(~s.isLocked /\ s.moduleStates[caller] = "PENDING",
            [s EXCEPT !.moduleStates[caller] = "INITIALIZED"])

setManager(s, caller, newManager) ==
    Require(onlyManager(s, caller) /\ ~s.isLocked, [s EXCEPT !.manager = newManager])
-----------------------------------------------------------------------------
(* Token transfers (lib/Invoke.sol, lib/ExplicitERC20.sol).  The ERC20s are *)
(* the standard kind both libraries insist on: a transfer moves exactly the *)
(* quantity, and a zero quantity makes no call at all.                      *)

strictInvokeTransfer(s, caller, token, quantity) ==
    Require(quantity > 0 => privileged(s, caller) /\ quantity <= s.held[token],
            [s EXCEPT !.held[token] = @ - quantity])

transferFrom(s, token, quantity) == [s EXCEPT !.held[token] = @ + quantity]
-----------------------------------------------------------------------------
\* The state of a set created by SetTokenCreator with the given units per
\* component (all positive) and every module in requested left pending.
newSetToken(units, requested, manager) ==
    [components |-> DOMAIN units,
     virtualUnit |-> [c \in Tokens |-> IF c \in DOMAIN units THEN units[c] ELSE 0],
     externalPositionModules |-> [c \in Tokens |-> {}],
     externalUnit |-> [c \in Tokens |-> [m \in Modules |-> 0]],
     positionMultiplier |-> PreciseUnit,
     totalSupply |-> 0,
     moduleStates |-> [m \in Modules |-> IF m \in requested THEN "PENDING" ELSE "NONE"],
     isLocked |-> FALSE,
     locker |-> ZeroAddress,
     manager |-> manager,
     isModule |-> Modules,
     isSet |-> TRUE,
     held |-> [c \in Tokens |-> 0]]

SetTokenState ==
    [components : SUBSET Tokens,
     virtualUnit : [Tokens -> Int],
     externalPositionModules : [Tokens -> SUBSET Modules],
     externalUnit : [Tokens -> [Modules -> Int]],
     positionMultiplier : Int,
     totalSupply : Nat,
     moduleStates : [Modules -> ModuleState],
     isLocked : BOOLEAN,
     locker : Modules \cup {ZeroAddress},
     manager : Managers,
     isModule : SUBSET Modules,
     isSet : BOOLEAN,
     held : [Tokens -> Nat]]
=============================================================================
