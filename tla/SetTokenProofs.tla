--------------------------- MODULE SetTokenProofs ---------------------------
(***************************************************************************)
(* Proofs about SetTokenModules, for every set of tokens and modules, every*)
(* PreciseUnit and every unit, multiplier and quantity a module may pass.  *)
(***************************************************************************)
EXTENDS SetTokenModules, PositionProofs

\* A set as SetTokenCreator leaves it.
LEMMA InitInv == Init => Inv(set)
BY NewSetTokenInv, InputsAssumption DEF Init

\* One step per call.
LEMMA NextInv == Inv(set) /\ [Next]_set => Inv(set)'
<1>. SUFFICES ASSUME Inv(set), [Next]_set PROVE Inv(set')
  BY DEF Inv, Listed, ExternalListed, DefaultReadable, ExternalReadable, LockHeld, SetTokenState,
         convertVirtualToRealUnit
<1>1. ASSUME NEW m \in Modules, NEW c \in Tokens, NEW u \in RealUnits, EditDefaultPosition(m, c, u)
      PROVE  Inv(set')
  BY <1>1, InputsAssumption, EditDefaultPositionInv DEF EditDefaultPosition
<1>2. ASSUME NEW m \in Modules, NEW c \in Tokens, NEW u \in ExternalUnits,
             EditExternalPosition(m, c, u)
      PROVE  Inv(set')
  BY <1>2, InputsAssumption, OpenExternalPositionInv, CloseExternalPositionInv
     DEF EditExternalPosition, editExternalPosition
<1>3. ASSUME NEW m \in Modules, NEW x \in NewMultipliers, EditPositionMultiplier(m, x)
      PROVE  Inv(set')
  BY <1>3, InputsAssumption, EditPositionMultiplierInv DEF EditPositionMultiplier
<1>4. ASSUME NEW m \in Modules, NEW q \in Quantities, Mint(m, q) \/ Burn(m, q)
      PROVE  Inv(set')
  BY <1>4, InputsAssumption, SupplyAndLockInv DEF Mint, Burn
<1>5. ASSUME NEW m \in Modules, Lock(m) \/ Unlock(m) PROVE Inv(set')
  <2>1. set' \in mint(set, m, 0) \cup burn(set, m, 0) \cup lock(set, m) \cup unlock(set, m)
    BY <1>5 DEF Lock, Unlock
  <2>. QED  BY <2>1, SupplyAndLockInv
<1>6. ASSUME NEW caller, NEW m \in Modules,
             \/ InitializeModule(m)
             \/ AddModule(caller, m)
             \/ RemoveModule(caller, m)
             \/ RemovePendingModule(caller, m)
      PROVE  Inv(set')
  BY <1>6, InputsAssumption, LifecycleInv
     DEF InitializeModule, AddModule, RemoveModule, RemovePendingModule
<1>7. ASSUME NEW caller, NEW newManager \in Managers, SetManager(caller, newManager)
      PROVE  Inv(set')
  <2>1. set' = [set EXCEPT !.manager = newManager]
    BY <1>7 DEF SetManager, setManager, Require
  <2>2. set \in SetTokenState /\ LockHeld(set)
    BY DEF Inv
  <2>3. set' \in SetTokenState
    BY <2>1, <2>2 DEF SetTokenState
  <2>. QED  BY <2>1, <2>2, <2>3, PositionsUntouchedInv DEF SetTokenState, LockHeld
<1>8. ASSUME NEW m \in Modules, EnableModule(m) \/ DisableModule(m) PROVE Inv(set')
  <2>1. set.isModule \in SUBSET Modules
    BY DEF Inv, SetTokenState
  <2>. QED  BY <1>8, <2>1, ControllerInv DEF EnableModule, DisableModule
<1>9. CASE UNCHANGED set
  BY <1>9
<1>. QED
  BY <1>1, <1>2, <1>3, <1>4, <1>5, <1>6, <1>7, <1>8, <1>9
     DEF Next, ModuleNext, ManagerNext, OwnerNext

\* The invariant holds under every interleaving of modules, manager and owner.
LEMMA SpecInv == Spec => []Inv(set)
BY InitInv, NextInv, PTL DEF Spec

\* Type correctness of a SetToken under any modules that edit positions
\* through Position.sol.
THEOREM TypeCorrect == Spec => []TypeOK
<1>1. Inv(set) => TypeOK
  BY DEF Inv, TypeOK
<1>. QED  BY <1>1, SpecInv, PTL

\* components, units and external modules stay in step, and no position is
\* lost to rounding, for every multiplier the modules may ever set.
THEOREM PositionsAlwaysTracked == Spec => []PositionsTracked
<1>1. ASSUME Inv(set) PROVE PositionsTracked
  <2>1. set \in SetTokenState /\ set.positionMultiplier > 0
    BY <1>1 DEF Inv
  <2>2. \A c \in Tokens, m \in Modules : set.externalUnit[c][m] \in Int
    BY <2>1 DEF SetTokenState
  <2>3. \A c \in Tokens, m \in Modules :
            set.externalUnit[c][m] < 0 => getExternalPositionRealUnit(set, c, m) < 0
    BY <2>1, <2>2, ReadBack DEF getExternalPositionRealUnit
  <2>4. UnitsSurviveRounding
    BY <1>1, <2>1, <2>3 DEF UnitsSurviveRounding, Inv, DefaultReadable, ExternalReadable,
        getDefaultPositionRealUnit, getExternalPositionRealUnit
  <2>. QED  BY <1>1, <2>4 DEF Inv, PositionsTracked, ComponentsListed, ExternalModulesListed,
                Listed, ExternalListed
<1>. QED  BY <1>1, SpecInv, PTL

\* The lock is never stranded on a module that could not release it.
THEOREM LockerAlwaysInitialized == Spec => []LockerInitialized
<1>1. Inv(set) => LockerInitialized
  BY DEF Inv, LockHeld, LockerInitialized
<1>. QED  BY <1>1, SpecInv, PTL

\* A set whose locker the Controller has disabled is frozen: every call either
\* reverts or changes only module states and the Controller's own answers.
THEOREM DisabledLockerFreezes == Spec => FrozenWhileLockerDisabled
<1>1. ASSUME Inv(set), [Next]_set, set.isLocked, set.locker \notin set.isModule
      PROVE  UNCHANGED LockProtected
  <2>0. set \in SetTokenState
    BY <1>1 DEF Inv
  <2>1. \A m \in Modules : ~privileged(set, m)
    BY <1>1 DEF privileged, onlyModule, whenLockedOnlyLocker
  <2>2. ASSUME NEW m \in Modules, ModuleNext(m) PROVE UNCHANGED LockProtected
    <3>1. ASSUME NEW c \in Tokens, NEW u \in RealUnits, EditDefaultPosition(m, c, u) PROVE FALSE
      BY <3>1, <2>1, PositionsNeedPrivilege DEF EditDefaultPosition
    <3>2. ASSUME NEW c \in Tokens, NEW u \in ExternalUnits, EditExternalPosition(m, c, u)
          PROVE  UNCHANGED LockProtected
      <4>1. set' = set
        BY <3>2, <2>1, PositionsNeedPrivilege DEF EditExternalPosition
      <4>. QED  BY <4>1 DEF LockProtected
    <3>3. ASSUME NEW x \in NewMultipliers, EditPositionMultiplier(m, x) PROVE FALSE
      BY <3>3, <2>1 DEF EditPositionMultiplier, editPositionMultiplier, Require
    <3>4. ASSUME NEW q \in Quantities, Mint(m, q) \/ Burn(m, q) PROVE FALSE
      BY <3>4, <2>1 DEF Mint, mint, Burn, burn, Require
    <3>5. CASE Lock(m) \/ Unlock(m)
      BY <1>1, <3>5 DEF Lock, lock, Unlock, unlock, Require, onlyModule
    <3>6. CASE InitializeModule(m)
      BY <1>1, <3>6 DEF InitializeModule, initializeModule, Require
    <3>. QED  BY <2>2, <3>1, <3>2, <3>3, <3>4, <3>5, <3>6 DEF ModuleNext
  <2>3. ASSUME NEW caller, ManagerNext(caller) PROVE UNCHANGED LockProtected
    <3>1. ASSUME NEW m \in Modules, AddModule(caller, m) PROVE UNCHANGED LockProtected
      <4>1. set' = [set EXCEPT !.moduleStates[m] = "PENDING"]
        BY <3>1 DEF AddModule, addModule, Require
      <4>. QED  BY <2>0, <4>1 DEF LockProtected, SetTokenState
    <3>. QED  BY <1>1, <2>3, <3>1 DEF ManagerNext, RemoveModule, removeModule, RemovePendingModule,
                  removePendingModule, SetManager, setManager, Require
  <2>4. ASSUME NEW m \in Modules, EnableModule(m) \/ DisableModule(m)
        PROVE  UNCHANGED LockProtected
    BY <2>0, <2>4 DEF EnableModule, DisableModule, LockProtected, SetTokenState
  <2>5. CASE UNCHANGED set
    BY <2>5 DEF LockProtected
  <2>. QED  BY <1>1, <2>2, <2>3, <2>4, <2>5 DEF Next, OwnerNext
<1>2. Inv(set) /\ [Next]_set =>
          [set.isLocked /\ set.locker \notin set.isModule => UNCHANGED LockProtected]_set
  BY <1>1
<1>. QED  BY <1>2, SpecInv, PTL DEF Spec, FrozenWhileLockerDisabled
=============================================================================
