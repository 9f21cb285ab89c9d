----------------------------- MODULE Controller -----------------------------
(***************************************************************************)
(* contracts/protocol/Controller.sol: the protocol's registry of sets,     *)
(* factories, modules and resources.  Each kind is kept twice, as an array *)
(* and as a mapping to bool; the record k has both, the array under the    *)
(* kind's name and the mapping as the set of addresses it is true of.      *)
(* getters and isSystemContract only read.                                 *)
(***************************************************************************)
EXTENDS AddressArrayUtils, SequencesExt

CONSTANTS NullAddress,     \* address(0)
          ModuleAddress,   \* contracts that can be modules
          ResourceIds, FeeTypes

newController(recipient) ==
    [sets |-> <<>>, factories |-> <<>>, modules |-> <<>>, resources |-> <<>>,
     isSet |-> {}, isFactory |-> {}, isModule |-> {}, isResource |-> {},
     resourceId |-> [id \in ResourceIds |-> NullAddress],
     fees |-> [m \in ModuleAddress |-> [type \in FeeTypes |-> 0]],
     feeRecipient |-> recipient, isInitialized |-> FALSE]

\* The arrays are stored as given.  resources and ids run in parallel; the
\* check of an id is made in the loop, so it also sees the ids before it.
initialize(k, factories, modules, resources, ids) ==
    Require(/\ ~k.isInitialized
            /\ Len(resources) = Len(ids)
            /\ NullAddress \notin ToSet(factories) \cup ToSet(modules) \cup ToSet(resources)
            /\ IsInjective(ids),
        [k EXCEPT !.factories = factories, !.modules = modules, !.resources = resources,
                  !.isFactory = ToSet(factories), !.isModule = ToSet(modules),
                  !.isResource = ToSet(resources),
                  !.resourceId = [id \in ResourceIds |->
                      IF id \in ToSet(ids)
                      THEN resources[CHOOSE i \in DOMAIN ids : ids[i] = id] ELSE @[id]],
                  !.isInitialized = TRUE])

addSet(k, factory, set) ==
    Require(k.isInitialized /\ factory \in k.isFactory /\ set \notin k.isSet,
            [k EXCEPT !.isSet = @ \cup {set}, !.sets = Append(@, set)])

removeSet(k, set) ==
    {[k EXCEPT !.sets = array, !.isSet = @ \ {set}] :
        array \in IF k.isInitialized /\ set \in k.isSet THEN remove(k.sets, set) ELSE {}}

addFactory(k, factory) ==
    Require(k.isInitialized /\ factory \notin k.isFactory,
            [k EXCEPT !.isFactory = @ \cup {factory}, !.factories = Append(@, factory)])

removeFactory(k, factory) ==
    {[k EXCEPT !.factories = array, !.isFactory = @ \ {factory}] :
        array \in IF k.isInitialized /\ factory \in k.isFactory
                  THEN remove(k.factories, factory) ELSE {}}

\* An enabled module is listed again.
addModuleAgain(k, module) ==
    Require(k.isInitialized,
            [k EXCEPT !.isModule = @ \cup {module}, !.modules = Append(@, module)])

addModule(k, module) ==
    Require(k.isInitialized /\ module \notin k.isModule,
            [k EXCEPT !.isModule = @ \cup {module}, !.modules = Append(@, module)])

removeModule(k, module) ==
    {[k EXCEPT !.modules = array, !.isModule = @ \ {module}] :
        array \in IF k.isInitialized /\ module \in k.isModule
                  THEN remove(k.modules, module) ELSE {}}

\* An id in use is overwritten.
addResourceUnderTakenId(k, resource, id) ==
    Require(k.isInitialized /\ resource \notin k.isResource,
            [k EXCEPT !.isResource = @ \cup {resource}, !.resourceId[id] = resource,
                      !.resources = Append(@, resource)])

\* The resource may be address(0), which leaves its id free.
addResource(k, resource, id) ==
    Require(/\ k.isInitialized
            /\ resource \notin k.isResource
            /\ k.resourceId[id] = NullAddress,
            [k EXCEPT !.isResource = @ \cup {resource}, !.resourceId[id] = resource,
                      !.resources = Append(@, resource)])

removeResource(k, id) ==
    LET resource == k.resourceId[id]
    IN  {[k EXCEPT !.resources = array, !.resourceId[id] = NullAddress,
                   !.isResource = @ \ {resource}] :
            array \in IF k.isInitialized /\ resource # NullAddress
                      THEN remove(k.resources, resource) ELSE {}}

\* A fee of zero is no fee: it is set by addFee and not by editFee.
addFee(k, module, type, fee) ==
    Require(k.isInitialized /\ module \in k.isModule /\ k.fees[module][type] = 0,
            [k EXCEPT !.fees[module][type] = fee])

editFee(k, module, type, fee) ==
    Require(k.isInitialized /\ module \in k.isModule /\ k.fees[module][type] # 0,
            [k EXCEPT !.fees[module][type] = fee])

editFeeRecipient(k, recipient) ==
    Require(k.isInitialized /\ recipient # NullAddress, [k EXCEPT !.feeRecipient = recipient])
=============================================================================
