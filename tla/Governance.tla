----------------------------- MODULE Governance -----------------------------
(***************************************************************************)
(* The registry contracts under the protocol's owner: the Controller, the  *)
(* IntegrationRegistry and the factories that register sets.  The owner    *)
(* may pass any arrays to initialize, duplicates included: the code does   *)
(* not test for them.                                                      *)
(***************************************************************************)
EXTENDS IntegrationRegistry

CONSTANTS SetAddress, FactoryAddress, ResourceAddress, AdapterAddress,
          RecipientAddress,
          FeePercentages,
          MaxBatch           \* bound on the length of the arrays passed in

\* A resource id is a uint256: there are finitely many.
ASSUME GovernanceAssumption == MaxBatch \in Nat /\ IsFiniteSet(ResourceIds)

VARIABLES controller, registry

vars == <<controller, registry>>

Init ==
    /\ \E recipient \in RecipientAddress : controller = newController(recipient)
    /\ registry = newRegistry

Arrays(S) == UNION {[1 .. n -> S] : n \in 0 .. MaxBatch}

Initialize ==
    /\ \E factories \in Arrays(FactoryAddress), modules \in Arrays(ModuleAddress),
          resources \in Arrays(ResourceAddress), ids \in Arrays(ResourceIds) :
           controller' \in initialize(controller, factories, modules, resources, ids)
    /\ UNCHANGED registry

\* SetTokenCreator.create ends in the addSet; the set is a new contract.
AddSet(factory, set) == controller' \in addSet(controller, factory, set) /\ UNCHANGED registry

RemoveSet(set) == controller' \in removeSet(controller, set) /\ UNCHANGED registry

AddFactory(factory) == controller' \in addFactory(controller, factory) /\ UNCHANGED registry

RemoveFactory(factory) == controller' \in removeFactory(controller, factory) /\ UNCHANGED registry

AddModule(m) == controller' \in addModule(controller, m) /\ UNCHANGED registry

RemoveModule(m) == controller' \in removeModule(controller, m) /\ UNCHANGED registry

AddResource(resource, id) ==
    controller' \in addResource(controller, resource, id) /\ UNCHANGED registry

RemoveResource(id) == controller' \in removeResource(controller, id) /\ UNCHANGED registry

AddFee(m, type, fee) == controller' \in addFee(controller, m, type, fee) /\ UNCHANGED registry

EditFee(m, type, fee) == controller' \in editFee(controller, m, type, fee) /\ UNCHANGED registry

EditFeeRecipient(recipient) ==
    controller' \in editFeeRecipient(controller, recipient) /\ UNCHANGED registry

AddIntegration(m, name, adapter) ==
    registry' \in addIntegration(registry, controller, m, name, adapter) /\ UNCHANGED controller

EditIntegration(m, name, adapter) ==
    registry' \in editIntegration(registry, controller, m, name, adapter) /\ UNCHANGED controller

RemoveIntegration(m, name) ==
    registry' \in removeIntegration(registry, m, name) /\ UNCHANGED controller

BatchAddIntegration(entries) ==
    registry' \in batchAddIntegration(registry, controller, entries) /\ UNCHANGED controller

BatchEditIntegration(entries) ==
    registry' \in batchEditIntegration(registry, controller, entries) /\ UNCHANGED controller

SetNext ==
    \E set \in SetAddress :
        \/ \E factory \in FactoryAddress : AddSet(factory, set)
        \/ RemoveSet(set)

FactoryNext == \E factory \in FactoryAddress : AddFactory(factory) \/ RemoveFactory(factory)

ModuleNext ==
    \E m \in ModuleAddress :
        \/ AddModule(m)
        \/ RemoveModule(m)
        \/ \E type \in FeeTypes, fee \in FeePercentages : AddFee(m, type, fee) \/ EditFee(m, type, fee)

ResourceNext ==
    \E id \in ResourceIds :
        \/ \E resource \in ResourceAddress : AddResource(resource, id)
        \/ RemoveResource(id)

Entries == ModuleAddress \X IntegrationNames \X AdapterAddress

IntegrationNext ==
    \/ \E m \in ModuleAddress, name \in IntegrationNames :
           \/ \E adapter \in AdapterAddress : \/ AddIntegration(m, name, adapter)
                                              \/ EditIntegration(m, name, adapter)
           \/ RemoveIntegration(m, name)
    \/ \E entries \in Arrays(Entries) : BatchAddIntegration(entries) \/ BatchEditIntegration(entries)

Next ==
    \/ Initialize
    \/ SetNext
    \/ FactoryNext
    \/ ModuleNext
    \/ ResourceNext
    \/ \E recipient \in RecipientAddress : EditFeeRecipient(recipient)
    \/ IntegrationNext

Spec == Init /\ [][Next]_vars
-----------------------------------------------------------------------------
\* Every address a mapping calls enabled is in its array, however often it was
\* added and removed and even when initialize was given it twice: the owner's
\* remove calls, which search the array, can always disable it.
EnabledAreListed ==
    /\ controller.isSet \subseteq ToSet(controller.sets)
    /\ controller.isFactory \subseteq ToSet(controller.factories)
    /\ controller.isModule \subseteq ToSet(controller.modules)
    /\ controller.isResource \subseteq ToSet(controller.resources)

\* The resource array holds a resource as often as ids lead to it, so that
\* every id that resolves can be removed, also after another id of the same
\* resource was.
ResourcesCounted ==
    \A resource \in ResourceAddress \ {NullAddress} :
        Cardinality({i \in DOMAIN controller.resources : controller.resources[i] = resource})
            = Cardinality({id \in ResourceIds : controller.resourceId[id] = resource})

\* An array that agrees with its mapping and has no duplicate.
InStep(array, flags) == IsInjective(array) /\ ToSet(array) = flags

\* Past initialize no call parts an array from its mapping: only the arrays
\* passed to initialize can bring in a duplicate.
ListsStayInStep ==
    [][controller.isInitialized =>
        /\ InStep(controller.sets, controller.isSet) =>
               InStep(controller'.sets, controller'.isSet)
        /\ InStep(controller.factories, controller.isFactory) =>
               InStep(controller'.factories, controller'.isFactory)
        /\ InStep(controller.modules, controller.isModule) =>
               InStep(controller'.modules, controller'.isModule)
        /\ InStep(controller.resources, controller.isResource) =>
               InStep(controller'.resources, controller'.isResource)]_vars
=============================================================================
