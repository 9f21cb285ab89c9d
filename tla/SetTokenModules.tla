--------------------------- MODULE SetTokenModules ---------------------------
(***************************************************************************)
(* A SetToken driven by any modules at all: every privileged entry point   *)
(* of SetToken.sol, positions edited through the Position library as the   *)
(* deployed modules do, the manager's module lifecycle calls, and the      *)
(* Controller's owner enabling and disabling modules.  One action is one   *)
(* call.  What is shown here holds under every module that keeps to the    *)
(* library, so the concrete modules inherit it.                            *)
(***************************************************************************)
EXTENDS Position

CONSTANTS InitialUnits,    \* units per component the set is created with
          RealUnits,       \* real units a module may write, default positions
          ExternalUnits,   \* real units of external positions, negative for debt
          NewMultipliers,  \* position multipliers a module may ask for
          Quantities,      \* quantities minted and burned
          MaxSupply        \* bound on the total supply

ASSUME InputsAssumption ==
    /\ Tokens # {} /\ Managers # {}
    /\ RealUnits \subseteq Nat /\ ExternalUnits \subseteq Int
    /\ NewMultipliers \subseteq Int /\ Quantities \subseteq Nat
    /\ MaxSupply \in Nat
    /\ \A units \in InitialUnits :
           /\ DOMAIN units \in (SUBSET Tokens) \ {{}}
           /\ \A c \in DOMAIN units : units[c] \in Nat \ {0}

VARIABLE set

Init ==
    \E units \in InitialUnits, requested \in (SUBSET Modules) \ {{}},
       manager \in Managers \ {ZeroAddress} :
        set = newSetToken(units, requested, manager)

EditDefaultPosition(m, c, u) == set' \in editDefaultPosition(set, m, c, u)

EditExternalPosition(m, c, u) == set' \in editExternalPosition(set, m, c, m, u)

EditPositionMultiplier(m, x) == set' \in editPositionMultiplier(set, m, x)

Mint(m, q) == set.totalSupply + q <= MaxSupply /\ set' \in mint(set, m, q)

Burn(m, q) == set' \in burn(set, m, q)

Lock(m) == set' \in lock(set, m)

Unlock(m) == set' \in unlock(set, m)

InitializeModule(m) == set' \in initializeModule(set, m)

AddModule(caller, m) == set' \in addModule(set, caller, m)

RemoveModule(caller, m) == set' \in removeModule(set, caller, m)

RemovePendingModule(caller, m) == set' \in removePendingModule(set, caller, m)

SetManager(caller, newManager) == set' \in setManager(set, caller, newManager)

\* Controller.addModule and Controller.removeModule, by the protocol's owner.
EnableModule(m) == m \notin set.isModule /\ set' = [set EXCEPT !.isModule = @ \cup {m}]

DisableModule(m) == m \in set.isModule /\ set' = [set EXCEPT !.isModule = @ \ {m}]

ModuleNext(m) ==
    \/ \E c \in Tokens, u \in RealUnits : EditDefaultPosition(m, c, u)
    \/ \E c \in Tokens, u \in ExternalUnits : EditExternalPosition(m, c, u)
    \/ \E x \in NewMultipliers : EditPositionMultiplier(m, x)
    \/ \E q \in Quantities : Mint(m, q) \/ Burn(m, q)
    \/ Lock(m)
    \/ Unlock(m)
    \/ InitializeModule(m)

ManagerNext(caller) ==
    \/ \E m \in Modules : \/ AddModule(caller, m)
                          \/ RemoveModule(caller, m)
                          \/ RemovePendingModule(caller, m)
    \/ \E newManager \in Managers : SetManager(caller, newManager)

OwnerNext == \E m \in Modules : EnableModule(m) \/ DisableModule(m)

Next ==
    \/ \E m \in Modules : ModuleNext(m)
    \/ \E caller \in Managers \ {ZeroAddress} : ManagerNext(caller)
    \/ OwnerNext

Spec == Init /\ [][Next]_set
-----------------------------------------------------------------------------
TypeOK == set \in SetTokenState

\* A component is listed exactly while it has a position: a default unit, or
\* an external position of some module.  issue and redeem, which walk
\* components, then miss no position and meet no empty one.
ComponentsListed ==
    \A c \in Tokens :
        c \in set.components <=> set.virtualUnit[c] # 0 \/ set.externalPositionModules[c] # {}

\* A module is listed on a component exactly while it has a unit there; no
\* unit survives the removal of its module.
ExternalModulesListed ==
    \A c \in Tokens, m \in Modules :
        m \in set.externalPositionModules[c] <=> set.externalUnit[c][m] # 0

\* No position is lost to rounding: every stored unit keeps its sign when it
\* is read back through the multiplier, however often the multiplier changed.
\* Position's hasDefaultPosition tests the rounded unit and relies on it.
UnitsSurviveRounding ==
    /\ set.positionMultiplier > 0
    /\ \A c \in Tokens :
        /\ set.virtualUnit[c] >= 0
        /\ set.virtualUnit[c] > 0 => getDefaultPositionRealUnit(set, c) > 0
        /\ \A m \in Modules :
            /\ set.externalUnit[c][m] > 0 => getExternalPositionRealUnit(set, c, m) > 0
            /\ set.externalUnit[c][m] < 0 => getExternalPositionRealUnit(set, c, m) < 0

PositionsTracked == ComponentsListed /\ ExternalModulesListed /\ UnitsSurviveRounding

\* A locked set has a locker that is still an initialized module: neither
\* removeModule nor any other path strands the lock.
LockerInitialized ==
    /\ set.isLocked <=> set.locker # ZeroAddress
    /\ set.isLocked => set.moduleStates[set.locker] = "INITIALIZED"

\* What a lock protects.
LockProtected ==
    <<set.components, set.virtualUnit, set.externalPositionModules, set.externalUnit,
      set.positionMultiplier, set.totalSupply, set.isLocked, set.locker, set.manager>>

\* Disabling the locker on the Controller while it holds the lock freezes the
\* set: no module and no manager call can change it until it is enabled again.
FrozenWhileLockerDisabled ==
    [][set.isLocked /\ set.locker \notin set.isModule => UNCHANGED LockProtected]_set
=============================================================================
