-------------------------- MODULE GovernanceProofs --------------------------
(***************************************************************************)
(* Proofs about Governance, for every set of addresses and ids: the arrays *)
(* of the Controller keep up with its mappings; and about AddressList, the *)
(* arrays of the SetToken.                                                 *)
(***************************************************************************)
EXTENDS Governance, AddressList, FiniteSetTheorems, TLAPS

\* A non-empty set of natural numbers has a least element.
LEMMA LeastNatural ==
    ASSUME NEW T \in SUBSET Nat, T # {}
    PROVE  \E x \in T : \A y \in T : x <= y
<1>1. IsWellFoundedOn(OpToRel(<, Nat), Nat)
  BY NatLessThanWellFounded
<1>2. PICK x \in T : \A y \in T : ~(<<y, x>> \in OpToRel(<, Nat))
  BY <1>1, WFMin
<1>3. \A y \in T : ~(y < x)
  BY <1>2 DEF OpToRel
<1>4. x \in Nat /\ \A y \in T : y \in Nat
  OBVIOUS
<1>. QED  BY <1>3, <1>4

\* indexOf finds an occurrence of every address the array holds, also when it
\* holds it more than once.
LEMMA IndexOfFinds ==
    ASSUME NEW S, NEW A \in Seq(S), NEW a
    PROVE  /\ contains(A, a) <=> a \in ToSet(A)
           /\ contains(A, a) => indexOf(A, a) \in 1 .. Len(A) /\ A[indexOf(A, a)] = a
<1>. DEFINE First(i) == A[i] = a /\ \A j \in 1 .. (i - 1) : A[j] # a
<1>1. ToSet(A) = {A[i] : i \in 1 .. Len(A)}
  BY DEF ToSet
<1>2. CASE ~\E i \in 1 .. Len(A) : A[i] = a
  BY <1>1, <1>2 DEF indexOf, contains
<1>3. CASE \E i \in 1 .. Len(A) : A[i] = a
  <2>. DEFINE T == {i \in 1 .. Len(A) : A[i] = a}
  <2>1. PICK i \in T : \A j \in T : i <= j
    <3>1. T \in SUBSET Nat /\ T # {}
      BY <1>3
    <3>. QED  BY <3>1, LeastNatural
  <2>2. i \in 1 .. Len(A) /\ First(i)
    BY <2>1
  <2>3. indexOf(A, a) = CHOOSE k \in 1 .. Len(A) : First(k)
    BY <1>3 DEF indexOf
  <2>4. indexOf(A, a) \in 1 .. Len(A) /\ First(indexOf(A, a))
    BY <2>2, <2>3
  <2>. QED  BY <2>4, <1>1, <1>3 DEF contains
<1>. QED  BY <1>2, <1>3

\* What remove leaves of an array: the entries around the one that goes.
Popped(A, B, k) ==
    /\ Len(B) = Len(A) - 1
    /\ \A i \in 1 .. (Len(A) - 1) : B[i] = IF i < k THEN A[i] ELSE A[i + 1]

\* remove takes out one entry and closes the gap.
LEMMA RemoveResult ==
    ASSUME NEW S, NEW A \in Seq(S), NEW a, NEW B \in remove(A, a)
    PROVE  /\ B \in Seq(S)
           /\ \E k \in 1 .. Len(A) : A[k] = a /\ Popped(A, B, k)
<1>. DEFINE n == Len(A)
            k == indexOf(A, a)
<1>1. k \in 1 .. n /\ A[k] = a
  BY IndexOfFinds DEF remove, Require
<1>2. B = [i \in 1 .. (n - 1) |-> IF i < k THEN A[i] ELSE A[i + 1]]
  BY DEF remove, Require, pop
<1>3. n \in Nat /\ \A i \in 1 .. n : A[i] \in S
  OBVIOUS
<1>. HIDE DEF n, k
<1>4. B \in Seq(S) /\ Len(B) = n - 1
  BY <1>1, <1>2, <1>3
<1>5. Popped(A, B, k)
  BY <1>2, <1>4 DEF n, Popped
<1>. QED  BY <1>1, <1>4, <1>5 DEF n

\* An address other than the one removed stays in the array, and none comes in.
LEMMA RemoveKeepsOthers ==
    ASSUME NEW S, NEW A \in Seq(S), NEW a, NEW B \in remove(A, a)
    PROVE  /\ ToSet(A) \ {a} \subseteq ToSet(B)
           /\ ToSet(B) \subseteq ToSet(A)
<1>1. B \in Seq(S)
  BY RemoveResult
<1>2. PICK k \in 1 .. Len(A) : A[k] = a /\ Popped(A, B, k)
  BY RemoveResult
<1>3. ToSet(A) = {A[i] : i \in 1 .. Len(A)} /\ ToSet(B) = {B[i] : i \in 1 .. Len(B)}
  BY <1>1 DEF ToSet
<1>4. ASSUME NEW j \in 1 .. Len(A), A[j] # a
      PROVE  \E i \in 1 .. Len(B) : B[i] = A[j]
  <2>1. CASE j < k
    BY <1>2, <1>4, <2>1 DEF Popped
  <2>2. CASE j > k
    <3>1. j - 1 \in 1 .. Len(B) /\ B[j - 1] = A[j]
      BY <1>2, <1>4, <2>2 DEF Popped
    <3>. QED  BY <3>1
  <2>. QED  BY <1>2, <1>4, <2>1, <2>2
<1>5. \A i \in 1 .. Len(B) : \E j \in 1 .. Len(A) : B[i] = A[j]
  BY <1>2 DEF Popped
<1>. QED  BY <1>3, <1>4, <1>5

\* Without duplicates the address is gone, and there are still none.
LEMMA RemoveInStep ==
    ASSUME NEW S, NEW A \in Seq(S), NEW F, NEW a, NEW B \in remove(A, a), InStep(A, F)
    PROVE  InStep(B, F \ {a})
<1>1. B \in Seq(S)
  BY RemoveResult
<1>2. PICK k \in 1 .. Len(A) : A[k] = a /\ Popped(A, B, k)
  BY RemoveResult
<1>3. \A i, j \in 1 .. Len(A) : A[i] = A[j] => i = j
  BY DEF InStep, IsInjective
<1>4. \A i, j \in 1 .. Len(B) : B[i] = B[j] => i = j
  BY <1>2, <1>3 DEF Popped
<1>5. \A i \in 1 .. Len(B) : B[i] # a
  BY <1>2, <1>3 DEF Popped
<1>6. ToSet(B) = {B[i] : i \in 1 .. Len(B)} /\ DOMAIN B = 1 .. Len(B)
  BY <1>1 DEF ToSet
<1>. QED  BY <1>4, <1>5, <1>6, RemoveKeepsOthers DEF InStep, IsInjective

\* Pushing an address that is not marked yet, and marking it, adds no duplicate.
LEMMA AppendInStep ==
    ASSUME NEW S, NEW A \in Seq(S), NEW F, NEW a \in S, a \notin F, InStep(A, F)
    PROVE  InStep(Append(A, a), F \cup {a})
<1>. DEFINE B == Append(A, a)
<1>1. /\ B \in Seq(S) /\ Len(B) = Len(A) + 1 /\ B[Len(A) + 1] = a
      /\ \A i \in 1 .. Len(A) : B[i] = A[i]
  OBVIOUS
<1>. HIDE DEF B
<1>2. /\ ToSet(A) = {A[i] : i \in 1 .. Len(A)} /\ DOMAIN A = 1 .. Len(A)
      /\ ToSet(B) = {B[i] : i \in 1 .. Len(B)} /\ DOMAIN B = 1 .. Len(B)
  BY <1>1 DEF ToSet
<1>3. ToSet(B) = F \cup {a}
  BY <1>1, <1>2 DEF InStep
<1>4. \A i, j \in 1 .. Len(B) : B[i] = B[j] => i = j
  BY <1>1, <1>2 DEF InStep, IsInjective
<1>. QED  BY <1>2, <1>3, <1>4 DEF InStep, IsInjective, B

\* A push adds one address.
LEMMA AppendLists ==
    ASSUME NEW S, NEW A \in Seq(S), NEW a \in S
    PROVE  Append(A, a) \in Seq(S) /\ ToSet(Append(A, a)) = ToSet(A) \cup {a}
<1>. DEFINE B == Append(A, a)
<1>1. /\ B \in Seq(S) /\ Len(B) = Len(A) + 1 /\ B[Len(A) + 1] = a
      /\ \A i \in 1 .. Len(A) : B[i] = A[i]
  OBVIOUS
<1>. HIDE DEF B
<1>2. /\ ToSet(A) = {A[i] : i \in 1 .. Len(A)}
      /\ ToSet(B) = {B[i] : i \in 1 .. Len(B)}
  BY <1>1 DEF ToSet
<1>3. ToSet(B) = ToSet(A) \cup {a}
  BY <1>1, <1>2
<1>. QED  BY <1>1, <1>3 DEF B
-----------------------------------------------------------------------------
\* One call's effect on an array and the mapping kept beside it: nothing, an
\* address that was not enabled comes in, or one is searched for and goes.
PairStep(S, A, F, B, G) ==
    \/ B = A /\ G = F
    \/ \E a \in S : a \notin F /\ B = Append(A, a) /\ G = F \cup {a}
    \/ \E a \in S : B \in remove(A, a) /\ G = F \ {a}

PairKept(S, A, F, B, G) ==
    /\ B \in Seq(S) /\ G \in SUBSET S
    /\ F \subseteq ToSet(A) => G \subseteq ToSet(B)
    /\ InStep(A, F) => InStep(B, G)

\* Each way a call changes an array and its mapping keeps what is enabled listed,
\* and the two in step if they were.
LEMMA PairStepKeeps ==
    ASSUME NEW S, NEW A \in Seq(S), NEW F \in SUBSET S, NEW B, NEW G, PairStep(S, A, F, B, G)
    PROVE  PairKept(S, A, F, B, G)
<1>1. CASE B = A /\ G = F
  BY <1>1 DEF PairKept
<1>2. ASSUME NEW a \in S, a \notin F, B = Append(A, a), G = F \cup {a}
      PROVE  PairKept(S, A, F, B, G)
  <2>1. B \in Seq(S) /\ ToSet(B) = ToSet(A) \cup {a}
    BY <1>2, AppendLists
  <2>2. InStep(A, F) => InStep(B, G)
    BY <1>2, AppendInStep
  <2>. QED  BY <1>2, <2>1, <2>2 DEF PairKept
<1>3. ASSUME NEW a \in S, B \in remove(A, a), G = F \ {a}
      PROVE  PairKept(S, A, F, B, G)
  <2>1. B \in Seq(S)
    BY <1>3, RemoveResult
  <2>2. ToSet(A) \ {a} \subseteq ToSet(B)
    BY <1>3, RemoveKeepsOthers
  <2>3. InStep(A, F) => InStep(B, G)
    BY <1>3, RemoveInStep
  <2>. QED  BY <1>3, <2>1, <2>2, <2>3 DEF PairKept
<1>. QED  BY <1>1, <1>2, <1>3 DEF PairStep

ControllerType ==
    [sets : Seq(SetAddress), factories : Seq(FactoryAddress),
     modules : Seq(ModuleAddress), resources : Seq(ResourceAddress),
     isSet : SUBSET SetAddress, isFactory : SUBSET FactoryAddress,
     isModule : SUBSET ModuleAddress, isResource : SUBSET ResourceAddress,
     resourceId : [ResourceIds -> ResourceAddress \cup {NullAddress}],
     fees : [ModuleAddress -> [FeeTypes -> FeePercentages \cup {0}]],
     feeRecipient : RecipientAddress, isInitialized : BOOLEAN]

\* The arrays and mappings of k and l differ by one call at most.
ListsStep(k, l) ==
    /\ PairStep(SetAddress, k.sets, k.isSet, l.sets, l.isSet)
    /\ PairStep(FactoryAddress, k.factories, k.isFactory, l.factories, l.isFactory)
    /\ PairStep(ModuleAddress, k.modules, k.isModule, l.modules, l.isModule)
    /\ PairStep(ResourceAddress, k.resources, k.isResource, l.resources, l.isResource)

\* What ties the resource array to the ids: an id of its own for an address
\* that comes in, and the id released with the one that goes.
IdsStep(k, l) ==
    \/ l.resources = k.resources /\ l.resourceId = k.resourceId
    \/ \E id \in ResourceIds, a \in ResourceAddress :
           /\ k.resourceId[id] = NullAddress
           /\ l.resources = Append(k.resources, a)
           /\ l.resourceId = [k.resourceId EXCEPT ![id] = a]
    \/ \E id \in ResourceIds :
           /\ k.resourceId[id] # NullAddress
           /\ l.resources \in remove(k.resources, k.resourceId[id])
           /\ l.resourceId = [k.resourceId EXCEPT ![id] = NullAddress]

Fields(l) ==
    [sets |-> l.sets, factories |-> l.factories, modules |-> l.modules,
     resources |-> l.resources, isSet |-> l.isSet, isFactory |-> l.isFactory,
     isModule |-> l.isModule, isResource |-> l.isResource, resourceId |-> l.resourceId,
     fees |-> l.fees, feeRecipient |-> l.feeRecipient, isInitialized |-> l.isInitialized]

\* Every call but initialize, on an initialised Controller.
CallStep(k, l) ==
    /\ k.isInitialized /\ l.isInitialized
    /\ l.fees \in [ModuleAddress -> [FeeTypes -> FeePercentages \cup {0}]]
    /\ l.feeRecipient \in RecipientAddress
    /\ l = Fields(l)
    /\ ListsStep(k, l) /\ IdsStep(k, l)

\* addSet and removeSet change one array with its mapping.
LEMMA SetCalls ==
    ASSUME NEW k \in ControllerType, NEW factory, NEW set \in SetAddress, NEW l,
           l \in addSet(k, factory, set) \/ l \in removeSet(k, set)
    PROVE  CallStep(k, l)
<1>1. CASE l \in addSet(k, factory, set)
  <2>1. /\ k.isInitialized /\ set \notin k.isSet
        /\ l = [k EXCEPT !.isSet = @ \cup {set}, !.sets = Append(@, set)]
    BY <1>1 DEF addSet, Require
  <2>2. l = [k EXCEPT !.isSet = k.isSet \cup {set}, !.sets = Append(k.sets, set)]
    BY <2>1
  <2>. QED  BY <2>1, <2>2 DEF CallStep, ListsStep, PairStep, IdsStep, ControllerType, Fields
<1>2. CASE l \in removeSet(k, set)
  <2>1. PICK array \in remove(k.sets, set) :
            /\ k.isInitialized
            /\ l = [k EXCEPT !.sets = array, !.isSet = @ \ {set}]
    BY <1>2 DEF removeSet
  <2>. QED  BY <2>1 DEF CallStep, ListsStep, PairStep, IdsStep, ControllerType, Fields
<1>. QED  BY <1>1, <1>2

\* addFactory and removeFactory.
LEMMA FactoryCalls ==
    ASSUME NEW k \in ControllerType, NEW factory \in FactoryAddress, NEW l,
           l \in addFactory(k, factory) \/ l \in removeFactory(k, factory)
    PROVE  CallStep(k, l)
<1>1. CASE l \in addFactory(k, factory)
  <2>1. /\ k.isInitialized /\ factory \notin k.isFactory
        /\ l = [k EXCEPT !.isFactory = @ \cup {factory}, !.factories = Append(@, factory)]
    BY <1>1 DEF addFactory, Require
  <2>. QED  BY <2>1 DEF CallStep, ListsStep, PairStep, IdsStep, ControllerType, Fields
<1>2. CASE l \in removeFactory(k, factory)
  <2>1. PICK array \in remove(k.factories, factory) :
            /\ k.isInitialized
            /\ l = [k EXCEPT !.factories = array, !.isFactory = @ \ {factory}]
    BY <1>2 DEF removeFactory
  <2>. QED  BY <2>1 DEF CallStep, ListsStep, PairStep, IdsStep, ControllerType, Fields
<1>. QED  BY <1>1, <1>2

\* addModule and removeModule.
LEMMA ModuleCalls ==
    ASSUME NEW k \in ControllerType, NEW m \in ModuleAddress, NEW l,
           l \in addModule(k, m) \/ l \in removeModule(k, m)
    PROVE  CallStep(k, l)
<1>1. CASE l \in addModule(k, m)
  <2>1. /\ k.isInitialized /\ m \notin k.isModule
        /\ l = [k EXCEPT !.isModule = @ \cup {m}, !.modules = Append(@, m)]
    BY <1>1 DEF addModule, Require
  <2>. QED  BY <2>1 DEF CallStep, ListsStep, PairStep, IdsStep, ControllerType, Fields
<1>2. CASE l \in removeModule(k, m)
  <2>1. PICK array \in remove(k.modules, m) :
            /\ k.isInitialized
            /\ l = [k EXCEPT !.modules = array, !.isModule = @ \ {m}]
    BY <1>2 DEF removeModule
  <2>. QED  BY <2>1 DEF CallStep, ListsStep, PairStep, IdsStep, ControllerType, Fields
<1>. QED  BY <1>1, <1>2

\* addFee and editFee leave arrays and mappings alone.
LEMMA FeeCalls ==
    ASSUME NEW k \in ControllerType, NEW m \in ModuleAddress, NEW type \in FeeTypes,
           NEW fee \in FeePercentages, NEW l,
           l \in addFee(k, m, type, fee) \/ l \in editFee(k, m, type, fee)
    PROVE  CallStep(k, l)
<1>1. k.isInitialized /\ l = [k EXCEPT !.fees[m][type] = fee]
  BY DEF addFee, editFee, Require
<1>2. l = [k EXCEPT !.fees = [k.fees EXCEPT ![m] = [k.fees[m] EXCEPT ![type] = fee]]]
  BY <1>1 DEF ControllerType
<1>. DEFINE newFees == [k.fees EXCEPT ![m] = [k.fees[m] EXCEPT ![type] = fee]]
<1>3. newFees \in [ModuleAddress -> [FeeTypes -> FeePercentages \cup {0}]]
  BY DEF ControllerType
<1>4. l = [k EXCEPT !.fees = newFees]
  BY <1>2
<1>. HIDE DEF newFees
<1>. QED  BY <1>1, <1>3, <1>4 DEF CallStep, ListsStep, PairStep, IdsStep, ControllerType, Fields

\* So does editFeeRecipient.
LEMMA RecipientCall ==
    ASSUME NEW k \in ControllerType, NEW recipient \in RecipientAddress,
           NEW l \in editFeeRecipient(k, recipient)
    PROVE  CallStep(k, l)
<1>1. k.isInitialized /\ l = [k EXCEPT !.feeRecipient = recipient]
  BY DEF editFeeRecipient, Require
<1>. QED  BY <1>1 DEF CallStep, ListsStep, PairStep, IdsStep, ControllerType, Fields

\* addResource: an id that led nowhere leads to the new entry of the array.
LEMMA AddResourceCall ==
    ASSUME NEW k \in ControllerType, NEW id \in ResourceIds, NEW resource \in ResourceAddress,
           NEW l \in addResource(k, resource, id)
    PROVE  CallStep(k, l)
<1>. DEFINE newIds == [k.resourceId EXCEPT ![id] = resource]
<1>1. /\ k.isInitialized /\ resource \notin k.isResource /\ k.resourceId[id] = NullAddress
      /\ l = [k EXCEPT !.isResource = @ \cup {resource}, !.resourceId = newIds,
                       !.resources = Append(@, resource)]
  BY DEF addResource, Require, ControllerType
<1>. HIDE DEF newIds
<1>2. /\ l.resources = Append(k.resources, resource) /\ l.resourceId = newIds
      /\ l.isResource = k.isResource \cup {resource}
      /\ l.isInitialized /\ l.fees = k.fees /\ l.feeRecipient = k.feeRecipient
      /\ l = Fields(l)
      /\ l.sets = k.sets /\ l.factories = k.factories /\ l.modules = k.modules
      /\ l.isSet = k.isSet /\ l.isFactory = k.isFactory /\ l.isModule = k.isModule
  BY <1>1 DEF ControllerType, Fields
<1>3. ListsStep(k, l)
  BY <1>1, <1>2 DEF ListsStep, PairStep
<1>4. IdsStep(k, l)
  BY <1>1, <1>2 DEF IdsStep, newIds
<1>. QED  BY <1>1, <1>2, <1>3, <1>4 DEF CallStep, ControllerType

\* removeResource: the id and one entry of the array go together.
LEMMA RemoveResourceCall ==
    ASSUME NEW k \in ControllerType, NEW id \in ResourceIds, NEW l \in removeResource(k, id)
    PROVE  CallStep(k, l)
<1>. DEFINE a == k.resourceId[id]
            newIds == [k.resourceId EXCEPT ![id] = NullAddress]
<1>1. PICK array \in remove(k.resources, a) :
          /\ k.isInitialized /\ a # NullAddress
          /\ l = [k EXCEPT !.resources = array, !.resourceId = newIds, !.isResource = @ \ {a}]
  BY DEF removeResource, ControllerType
<1>2. a \in ResourceAddress
  BY <1>1 DEF ControllerType
<1>. HIDE DEF newIds, a
<1>3. /\ l.resources = array /\ l.resourceId = newIds
      /\ l.isResource = k.isResource \ {a}
      /\ l.isInitialized /\ l.fees = k.fees /\ l.feeRecipient = k.feeRecipient
      /\ l = Fields(l)
      /\ l.sets = k.sets /\ l.factories = k.factories /\ l.modules = k.modules
      /\ l.isSet = k.isSet /\ l.isFactory = k.isFactory /\ l.isModule = k.isModule
  BY <1>1 DEF ControllerType, Fields
<1>4. ListsStep(k, l)
  BY <1>1, <1>2, <1>3 DEF ListsStep, PairStep
<1>5. IdsStep(k, l)
  BY <1>1, <1>3 DEF IdsStep, newIds, a
<1>. QED  BY <1>1, <1>3, <1>4, <1>5 DEF CallStep, ControllerType
-----------------------------------------------------------------------------
\* The places of the array that hold r, and the ids that lead to it.
Places(A, r) == {i \in DOMAIN A : A[i] = r}

IdsOf(ids, r) == {id \in ResourceIds : ids[id] = r}

\* The occurrences of an address in an array can be counted.
LEMMA PlacesFinite ==
    ASSUME NEW S, NEW A \in Seq(S), NEW r
    PROVE  IsFiniteSet(Places(A, r)) /\ Places(A, r) \in SUBSET (1 .. Len(A))
<1>1. Places(A, r) \in SUBSET (1 .. Len(A))
  BY DEF Places
<1>2. IsFiniteSet(1 .. Len(A))
  BY FS_Interval
<1>. QED  BY <1>1, <1>2, FS_Subset

\* A push adds one occurrence.
LEMMA AppendCounts ==
    ASSUME NEW S, NEW A \in Seq(S), NEW a \in S, NEW r
    PROVE  Cardinality(Places(Append(A, a), r)) =
               IF r = a THEN Cardinality(Places(A, r)) + 1 ELSE Cardinality(Places(A, r))
<1>. DEFINE B == Append(A, a)
            n == Len(A)
<1>1. /\ n \in Nat /\ DOMAIN A = 1 .. n /\ DOMAIN B = 1 .. (n + 1) /\ B[n + 1] = a
      /\ \A i \in 1 .. n : B[i] = A[i]
  OBVIOUS
<1>. HIDE DEF B, n
<1>2. Places(B, r) = IF r = a THEN Places(A, r) \cup {n + 1} ELSE Places(A, r)
  <2>1. \A i \in 1 .. (n + 1) : i \in 1 .. n \/ i = n + 1
    BY <1>1
  <2>2. \A i \in 1 .. n : i \in 1 .. (n + 1)
    BY <1>1
  <2>3. n + 1 \in 1 .. (n + 1)
    BY <1>1
  <2>4. CASE r = a
    BY <1>1, <2>1, <2>2, <2>3, <2>4 DEF Places
  <2>5. CASE r # a
    BY <1>1, <2>1, <2>2, <2>3, <2>5 DEF Places
  <2>. QED  BY <2>4, <2>5
<1>3. n + 1 \notin Places(A, r)
  BY <1>1 DEF Places
<1>4. IsFiniteSet(Places(A, r))
  BY PlacesFinite
<1>5. Cardinality(Places(A, r) \cup {n + 1}) = Cardinality(Places(A, r)) + 1
  BY <1>3, <1>4, FS_AddElement
<1>. QED  BY <1>2, <1>5 DEF B

\* remove takes one occurrence of a and none of another address.
LEMMA RemoveCounts ==
    ASSUME NEW S, NEW A \in Seq(S), NEW a, NEW B \in remove(A, a), NEW r
    PROVE  Cardinality(Places(B, r)) =
               IF r = a THEN Cardinality(Places(A, r)) - 1 ELSE Cardinality(Places(A, r))
<1>1. B \in Seq(S)
  BY RemoveResult
<1>2. PICK k \in 1 .. Len(A) : A[k] = a /\ Popped(A, B, k)
  BY RemoveResult
<1>. DEFINE n == Len(A)
            P == Places(A, r) \ {k}
            Q == Places(B, r)
            f == [i \in P |-> IF i < k THEN i ELSE i - 1]
<1>3. /\ n \in Nat /\ k \in 1 .. n /\ DOMAIN A = 1 .. n /\ DOMAIN B = 1 .. (n - 1)
      /\ \A i \in 1 .. (n - 1) : B[i] = IF i < k THEN A[i] ELSE A[i + 1]
  BY <1>1, <1>2 DEF Popped
<1>. HIDE DEF n
<1>4. \A i \in P : i \in 1 .. n /\ i # k /\ A[i] = r
  BY <1>3 DEF Places
<1>5. \A i \in 1 .. n : i # k /\ A[i] = r => i \in P
  BY <1>3 DEF Places
<1>6. \A j : j \in Q <=> j \in 1 .. (n - 1) /\ B[j] = r
  BY <1>3 DEF Places
<1>. HIDE DEF P, Q
<1>7. \A i \in P : (IF i < k THEN i ELSE i - 1) \in Q
  <2>. SUFFICES ASSUME NEW i \in P PROVE (IF i < k THEN i ELSE i - 1) \in Q
    OBVIOUS
  <2>1. CASE i < k
    BY <2>1, <1>3, <1>4, <1>6
  <2>2. CASE ~(i < k)
    <3>1. i - 1 \in 1 .. (n - 1) /\ ~(i - 1 < k) /\ (i - 1) + 1 = i
      BY <2>2, <1>3, <1>4
    <3>. QED  BY <2>2, <3>1, <1>3, <1>4, <1>6
  <2>. QED  BY <2>1, <2>2
<1>8. f \in [P -> Q]
  BY <1>7
<1>9. \A i, j \in P : f[i] = f[j] => i = j
  BY <1>3, <1>4
<1>10. \A j \in Q : \E i \in P : f[i] = j
  <2>. SUFFICES ASSUME NEW j \in Q PROVE \E i \in P : f[i] = j
    OBVIOUS
  <2>1. CASE j < k
    <3>1. j \in P /\ f[j] = j
      BY <2>1, <1>3, <1>5, <1>6
    <3>. QED  BY <3>1
  <2>2. CASE ~(j < k)
    <3>1. j + 1 \in P
      BY <2>2, <1>3, <1>5, <1>6
    <3>2. f[j + 1] = j
      BY <3>1, <2>2, <1>3, <1>6
    <3>. QED  BY <3>1, <3>2
  <2>. QED  BY <2>1, <2>2
<1>11. ExistsBijection(P, Q)
  <2>1. DOMAIN f = P
    BY <1>8
  <2>. HIDE DEF f
  <2>2. f \in Injection(P, Q)
    BY <1>8, <1>9, <2>1 DEF Injection, IsInjective
  <2>3. f \in Surjection(P, Q)
    BY <1>8, <1>10 DEF Surjection
  <2>. QED  BY <2>2, <2>3 DEF ExistsBijection, Bijection
<1>12. IsFiniteSet(Places(A, r))
  BY PlacesFinite
<1>13. IsFiniteSet(P) /\ Cardinality(P) =
           IF k \in Places(A, r) THEN Cardinality(Places(A, r)) - 1 ELSE Cardinality(Places(A, r))
  BY <1>12, FS_RemoveElement DEF P
<1>14. Cardinality(Q) = Cardinality(P)
  BY <1>11, <1>13, FS_Bijection
<1>15. k \in Places(A, r) <=> r = a
  BY <1>2, <1>3 DEF Places
<1>. QED  BY <1>13, <1>14, <1>15 DEF Q

\* An id that led nowhere is given to a, or one that led somewhere is released.
Reassigned(ids, new, id, a, r) ==
    Cardinality(IdsOf(new, r)) =
        IF r = a THEN Cardinality(IdsOf(ids, r)) + 1
        ELSE IF r = ids[id] THEN Cardinality(IdsOf(ids, r)) - 1
        ELSE Cardinality(IdsOf(ids, r))

\* Leading an id elsewhere takes it from the count of one resource to the count of
\* another.
LEMMA IdsCount ==
    ASSUME NEW V, NEW ids \in [ResourceIds -> V], NEW id \in ResourceIds, NEW a, NEW r,
           ids[id] # a, NEW new, new = [ids EXCEPT ![id] = a]
    PROVE  Reassigned(ids, new, id, a, r)
<1>1. IsFiniteSet(IdsOf(ids, r))
  <2>1. IdsOf(ids, r) \in SUBSET ResourceIds
    BY DEF IdsOf
  <2>. QED  BY <2>1, GovernanceAssumption, FS_Subset
<1>2. CASE r = a
  <2>1. IdsOf(new, r) = IdsOf(ids, r) \cup {id} /\ id \notin IdsOf(ids, r)
    BY <1>2 DEF IdsOf
  <2>. QED  BY <1>1, <1>2, <2>1, FS_AddElement DEF Reassigned
<1>3. CASE r # a /\ r = ids[id]
  <2>1. IdsOf(new, r) = IdsOf(ids, r) \ {id} /\ id \in IdsOf(ids, r)
    BY <1>3 DEF IdsOf
  <2>. QED  BY <1>1, <1>3, <2>1, FS_RemoveElement DEF Reassigned
<1>4. CASE r # a /\ r # ids[id]
  <2>1. IdsOf(new, r) = IdsOf(ids, r)
    BY <1>4 DEF IdsOf
  <2>. QED  BY <1>4, <2>1 DEF Reassigned
<1>. QED  BY <1>2, <1>3, <1>4

Counted(A, ids, r) == Cardinality(Places(A, r)) = Cardinality(IdsOf(ids, r))

\* So every call changes occurrences and ids of a resource by the same number.
LEMMA IdsStepCounts ==
    ASSUME NEW k \in ControllerType, NEW l, IdsStep(k, l),
           NEW r \in ResourceAddress \ {NullAddress}, Counted(k.resources, k.resourceId, r)
    PROVE  Counted(l.resources, l.resourceId, r)
<1>. DEFINE V == ResourceAddress \cup {NullAddress}
<1>1. k.resources \in Seq(ResourceAddress) /\ k.resourceId \in [ResourceIds -> V]
  BY DEF ControllerType
<1>2. CASE l.resources = k.resources /\ l.resourceId = k.resourceId
  BY <1>2
<1>3. ASSUME NEW id \in ResourceIds, NEW a \in ResourceAddress,
             k.resourceId[id] = NullAddress,
             l.resources = Append(k.resources, a),
             l.resourceId = [k.resourceId EXCEPT ![id] = a]
      PROVE  Counted(l.resources, l.resourceId, r)
  <2>1. Cardinality(Places(l.resources, r)) =
            IF r = a THEN Cardinality(Places(k.resources, r)) + 1
            ELSE Cardinality(Places(k.resources, r))
    BY <1>1, <1>3, AppendCounts
  <2>2. CASE a = NullAddress
    <3>1. l.resourceId = k.resourceId
      BY <1>1, <1>3, <2>2
    <3>. QED  BY <2>1, <2>2, <3>1 DEF Counted
  <2>3. CASE a # NullAddress
    <3>1. Cardinality(IdsOf(l.resourceId, r)) =
              IF r = a THEN Cardinality(IdsOf(k.resourceId, r)) + 1
              ELSE IF r = k.resourceId[id] THEN Cardinality(IdsOf(k.resourceId, r)) - 1
              ELSE Cardinality(IdsOf(k.resourceId, r))
      <4>1. k.resourceId[id] # a
        BY <1>3, <2>3
      <4>2. Reassigned(k.resourceId, l.resourceId, id, a, r)
        BY <1>1, <1>3, <4>1, IdsCount, Zenon
      <4>. QED  BY <4>2 DEF Reassigned
    <3>. QED  BY <1>3, <2>1, <2>3, <3>1 DEF Counted
  <2>. QED  BY <2>2, <2>3
<1>4. ASSUME NEW id \in ResourceIds, k.resourceId[id] # NullAddress,
             l.resources \in remove(k.resources, k.resourceId[id]),
             l.resourceId = [k.resourceId EXCEPT ![id] = NullAddress]
      PROVE  Counted(l.resources, l.resourceId, r)
  <2>1. Cardinality(Places(l.resources, r)) =
            IF r = k.resourceId[id] THEN Cardinality(Places(k.resources, r)) - 1
            ELSE Cardinality(Places(k.resources, r))
    BY <1>1, <1>4, RemoveCounts
  <2>2. Cardinality(IdsOf(l.resourceId, r)) =
            IF r = NullAddress THEN Cardinality(IdsOf(k.resourceId, r)) + 1
            ELSE IF r = k.resourceId[id] THEN Cardinality(IdsOf(k.resourceId, r)) - 1
            ELSE Cardinality(IdsOf(k.resourceId, r))
    <3>1. Reassigned(k.resourceId, l.resourceId, id, NullAddress, r)
      BY <1>1, <1>4, IdsCount, Zenon
    <3>. QED  BY <3>1 DEF Reassigned
  <2>. QED  BY <2>1, <2>2 DEF Counted
<1>. QED  BY <1>2, <1>3, <1>4 DEF IdsStep
-----------------------------------------------------------------------------
\* The inductive invariant: before initialize no id leads anywhere, so the
\* arrays it stores are all that the count has to account for.
Sound(k) ==
    /\ k \in ControllerType
    /\ /\ k.isSet \subseteq ToSet(k.sets)
       /\ k.isFactory \subseteq ToSet(k.factories)
       /\ k.isModule \subseteq ToSet(k.modules)
       /\ k.isResource \subseteq ToSet(k.resources)
    /\ \A r \in ResourceAddress \ {NullAddress} : Counted(k.resources, k.resourceId, r)
    /\ ~k.isInitialized => \A id \in ResourceIds : k.resourceId[id] = NullAddress

GInv == Sound(controller)

\* The lists of k are still in step in l when they were in k.
KeptInStep(k, l) ==
    /\ InStep(k.sets, k.isSet) => InStep(l.sets, l.isSet)
    /\ InStep(k.factories, k.isFactory) => InStep(l.factories, l.isFactory)
    /\ InStep(k.modules, k.isModule) => InStep(l.modules, l.isModule)
    /\ InStep(k.resources, k.isResource) => InStep(l.resources, l.isResource)

\* Every call but initialize preserves the invariant.
LEMMA CallKeeps ==
    ASSUME NEW k, Sound(k), NEW l, CallStep(k, l)
    PROVE  Sound(l) /\ KeptInStep(k, l)
<1>. k \in ControllerType
  BY DEF Sound
<1>1. PairKept(SetAddress, k.sets, k.isSet, l.sets, l.isSet)
  BY PairStepKeeps DEF CallStep, ListsStep, ControllerType
<1>2. PairKept(FactoryAddress, k.factories, k.isFactory, l.factories, l.isFactory)
  BY PairStepKeeps DEF CallStep, ListsStep, ControllerType
<1>3. PairKept(ModuleAddress, k.modules, k.isModule, l.modules, l.isModule)
  BY PairStepKeeps DEF CallStep, ListsStep, ControllerType
<1>4. PairKept(ResourceAddress, k.resources, k.isResource, l.resources, l.isResource)
  BY PairStepKeeps DEF CallStep, ListsStep, ControllerType
<1>5. l.resourceId \in [ResourceIds -> ResourceAddress \cup {NullAddress}]
  BY DEF CallStep, IdsStep, ControllerType
<1>6. l \in ControllerType
  <2>1. Fields(l) \in ControllerType
    BY <1>1, <1>2, <1>3, <1>4, <1>5 DEF PairKept, CallStep, ControllerType, Fields
  <2>. QED  BY <2>1 DEF CallStep
<1>7. \A r \in ResourceAddress \ {NullAddress} : Counted(l.resources, l.resourceId, r)
  BY IdsStepCounts DEF CallStep, Sound
<1>8. Sound(l)
  BY <1>1, <1>2, <1>3, <1>4, <1>6, <1>7 DEF PairKept, Sound, CallStep
<1>. QED  BY <1>1, <1>2, <1>3, <1>4, <1>8 DEF PairKept, KeptInStep

\* The arrays passed in are sequences.
LEMMA ArraysAreSequences == \A S : Arrays(S) \subseteq Seq(S)
  BY GovernanceAssumption DEF Arrays

\* initialize stores the arrays as given and lets every id of the batch lead
\* to the resource beside it; the ids are distinct, so the counts agree also
\* when a resource is listed twice.
LEMMA InitializeSound ==
    ASSUME NEW k, Sound(k),
           NEW factories \in Arrays(FactoryAddress), NEW modules \in Arrays(ModuleAddress),
           NEW resources \in Arrays(ResourceAddress), NEW ids \in Arrays(ResourceIds),
           NEW l \in initialize(k, factories, modules, resources, ids)
    PROVE  ~k.isInitialized /\ Sound(l)
<1>. DEFINE n == Len(ids)
            newIds == [id \in ResourceIds |->
                IF id \in ToSet(ids) THEN resources[CHOOSE i \in DOMAIN ids : ids[i] = id]
                ELSE k.resourceId[id]]
<1>1. /\ factories \in Seq(FactoryAddress) /\ modules \in Seq(ModuleAddress)
      /\ resources \in Seq(ResourceAddress) /\ ids \in Seq(ResourceIds)
  BY ArraysAreSequences
<1>2. /\ ~k.isInitialized /\ Len(resources) = n /\ IsInjective(ids)
      /\ NullAddress \notin ToSet(resources)
      /\ l = [k EXCEPT !.factories = factories, !.modules = modules, !.resources = resources,
                       !.isFactory = ToSet(factories), !.isModule = ToSet(modules),
                       !.isResource = ToSet(resources), !.resourceId = newIds,
                       !.isInitialized = TRUE]
  BY DEF initialize, Require
<1>3. /\ k \in ControllerType
      /\ \A id \in ResourceIds : k.resourceId[id] = NullAddress
      /\ k.isSet \subseteq ToSet(k.sets)
  BY <1>2 DEF Sound
<1>4. /\ n \in Nat /\ DOMAIN ids = 1 .. n /\ DOMAIN resources = 1 .. n
      /\ ToSet(ids) = {ids[i] : i \in 1 .. n}
      /\ \A i, j \in 1 .. n : ids[i] = ids[j] => i = j
      /\ \A i \in 1 .. n : /\ ids[i] \in ResourceIds /\ resources[i] \in ResourceAddress
                           /\ resources[i] # NullAddress
  <2>1. n \in Nat /\ DOMAIN ids = 1 .. n /\ DOMAIN resources = 1 .. n
    BY <1>1, <1>2
  <2>. HIDE DEF n
  <2>. QED  BY <1>1, <1>2, <2>1 DEF ToSet, IsInjective
<1>5. \A i \in 1 .. n : newIds[ids[i]] = resources[i]
  <2>. SUFFICES ASSUME NEW i \in 1 .. n PROVE newIds[ids[i]] = resources[i]
    OBVIOUS
  <2>. HIDE DEF n
  <2>1. ids[i] \in ResourceIds /\ ids[i] \in ToSet(ids)
    BY <1>4
  <2>2. (CHOOSE j \in DOMAIN ids : ids[j] = ids[i]) = i
    BY <1>4
  <2>. QED  BY <2>1, <2>2
<1>6. \A id \in ResourceIds : (\A i \in 1 .. n : ids[i] # id) => newIds[id] = NullAddress
  <2>. HIDE DEF n
  <2>. QED  BY <1>3, <1>4
<1>7. newIds \in [ResourceIds -> ResourceAddress \cup {NullAddress}]
  <2>1. \A id \in ResourceIds : newIds[id] \in ResourceAddress \cup {NullAddress}
    <3>. HIDE DEF newIds, n
    <3>. QED  BY <1>4, <1>5, <1>6
  <2>. QED  BY <2>1
<1>. HIDE DEF n, newIds
<1>8. ASSUME NEW r \in ResourceAddress \ {NullAddress} PROVE Counted(resources, newIds, r)
  <2>. DEFINE P == Places(resources, r)
              Q == IdsOf(newIds, r)
              f == [i \in P |-> ids[i]]
  <2>1. \A i : i \in P <=> i \in 1 .. n /\ resources[i] = r
    BY <1>4 DEF Places
  <2>2. \A id : id \in Q <=> id \in ResourceIds /\ newIds[id] = r
    BY DEF IdsOf
  <2>3. IsFiniteSet(P)
    BY <1>1, PlacesFinite
  <2>. HIDE DEF P, Q
  <2>4. f \in [P -> Q]
    BY <1>4, <1>5, <2>1, <2>2
  <2>5. \A i, j \in P : f[i] = f[j] => i = j
    BY <1>4, <2>1
  <2>6. \A id \in Q : \E i \in P : f[i] = id
    <3>. SUFFICES ASSUME NEW id \in Q PROVE \E i \in P : f[i] = id
      OBVIOUS
    <3>1. PICK i \in 1 .. n : ids[i] = id
      BY <1>6, <2>2, <1>8
    <3>2. i \in P
      BY <1>5, <2>1, <2>2, <3>1
    <3>. QED  BY <3>1, <3>2
  <2>7. ExistsBijection(P, Q)
    <3>1. DOMAIN f = P
      BY <2>4
    <3>. HIDE DEF f
    <3>2. f \in Injection(P, Q)
      BY <2>4, <2>5, <3>1 DEF Injection, IsInjective
    <3>3. f \in Surjection(P, Q)
      BY <2>4, <2>6 DEF Surjection
    <3>. QED  BY <3>2, <3>3 DEF ExistsBijection, Bijection
  <2>8. Cardinality(Q) = Cardinality(P)
    BY <2>3, <2>7, FS_Bijection
  <2>. QED  BY <2>8 DEF P, Q, Counted
<1>9. /\ l.factories = factories /\ l.modules = modules /\ l.resources = resources
      /\ l.isFactory = ToSet(factories) /\ l.isModule = ToSet(modules)
      /\ l.isResource = ToSet(resources) /\ l.resourceId = newIds /\ l.isInitialized
      /\ l.sets = k.sets /\ l.isSet = k.isSet
      /\ l.fees = k.fees /\ l.feeRecipient = k.feeRecipient /\ l.isInitialized \in BOOLEAN
      /\ l = Fields(l)
  BY <1>2, <1>3 DEF ControllerType, Fields
<1>10. /\ ToSet(factories) \in SUBSET FactoryAddress /\ ToSet(modules) \in SUBSET ModuleAddress
       /\ ToSet(resources) \in SUBSET ResourceAddress
  BY <1>1 DEF ToSet
<1>11. l \in ControllerType
  <2>1. Fields(l) \in ControllerType
    BY <1>1, <1>3, <1>7, <1>9, <1>10 DEF ControllerType, Fields
  <2>. QED  BY <2>1, <1>9
<1>. QED  BY <1>2, <1>3, <1>8, <1>9, <1>11 DEF Sound

\* Every step is initialize, a call on the initialised Controller, or leaves
\* the Controller alone.
LEMMA ControllerSteps ==
    ASSUME GInv, [Next]_vars
    PROVE  \/ controller' = controller
           \/ CallStep(controller, controller')
           \/ ~controller.isInitialized /\ Sound(controller')
<1>. controller \in ControllerType
  BY DEF GInv, Sound
<1>1. CASE Initialize
  BY <1>1, InitializeSound DEF Initialize, GInv
<1>2. CASE SetNext
  BY <1>2, SetCalls DEF SetNext, AddSet, RemoveSet
<1>3. CASE FactoryNext
  BY <1>3, FactoryCalls DEF FactoryNext, AddFactory, RemoveFactory
<1>4. CASE ModuleNext
  BY <1>4, ModuleCalls, FeeCalls DEF ModuleNext, AddModule, RemoveModule, AddFee, EditFee
<1>5. CASE ResourceNext
  BY <1>5, AddResourceCall, RemoveResourceCall DEF ResourceNext, AddResource, RemoveResource
<1>6. CASE \E recipient \in RecipientAddress : EditFeeRecipient(recipient)
  BY <1>6, RecipientCall DEF EditFeeRecipient
<1>7. CASE IntegrationNext
  BY <1>7 DEF IntegrationNext, AddIntegration, EditIntegration, RemoveIntegration,
             BatchAddIntegration, BatchEditIntegration
<1>8. CASE UNCHANGED vars
  BY <1>8 DEF vars
<1>. QED  BY <1>1, <1>2, <1>3, <1>4, <1>5, <1>6, <1>7, <1>8 DEF Next

\* A Controller as it is deployed.
LEMMA GInvInitially == Init => GInv
<1>. SUFFICES ASSUME Init PROVE GInv
  OBVIOUS
<1>1. PICK recipient \in RecipientAddress : controller = newController(recipient)
  BY DEF Init
<1>2. controller \in ControllerType
  BY <1>1 DEF newController, ControllerType
<1>3. \A r \in ResourceAddress \ {NullAddress} : Counted(controller.resources, controller.resourceId, r)
  <2>. SUFFICES ASSUME NEW r \in ResourceAddress \ {NullAddress}
                PROVE  Counted(controller.resources, controller.resourceId, r)
    OBVIOUS
  <2>1. Places(controller.resources, r) = {}
    BY <1>1 DEF newController, Places
  <2>2. IdsOf(controller.resourceId, r) = {}
    BY <1>1 DEF newController, IdsOf
  <2>. QED  BY <2>1, <2>2 DEF Counted
<1>. QED  BY <1>1, <1>2, <1>3 DEF GInv, Sound, newController

\* Every step of the owner, the factories and the registry preserves it.
LEMMA GInvPreserved == GInv /\ [Next]_vars => GInv'
<1>. SUFFICES ASSUME GInv, [Next]_vars PROVE Sound(controller')
  BY DEF GInv
<1>. QED  BY ControllerSteps, CallKeeps DEF GInv

\* The registry of the protocol is sound after any sequence of its owner's and
\* its factories' calls.
THEOREM GovernanceInvariant == Spec => []GInv
  BY GInvInitially, GInvPreserved, PTL DEF Spec

\* Whatever a mapping of the Controller calls enabled, the remove call for it
\* finds in the array: no address stays enabled for good, not even one that
\* initialize was given twice.
THEOREM EnabledAlwaysListed == Spec => []EnabledAreListed
<1>1. GInv => EnabledAreListed
  BY DEF GInv, Sound, EnabledAreListed
<1>. QED  BY <1>1, GovernanceInvariant, PTL

\* The resource array holds every resource exactly as often as ids lead to it,
\* so that removeResource never reverts on an id that resolves.
THEOREM ResourcesAlwaysCounted == Spec => []ResourcesCounted
<1>1. GInv => ResourcesCounted
  BY DEF GInv, Sound, ResourcesCounted, Counted, Places, IdsOf
<1>. QED  BY <1>1, GovernanceInvariant, PTL

\* An array of the initialised Controller that agrees with its mapping and has
\* no duplicate stays that way under every call.
THEOREM ListsAlwaysStayInStep == Spec => ListsStayInStep
<1>. DEFINE Body ==
    controller.isInitialized =>
        /\ InStep(controller.sets, controller.isSet) =>
               InStep(controller'.sets, controller'.isSet)
        /\ InStep(controller.factories, controller.isFactory) =>
               InStep(controller'.factories, controller'.isFactory)
        /\ InStep(controller.modules, controller.isModule) =>
               InStep(controller'.modules, controller'.isModule)
        /\ InStep(controller.resources, controller.isResource) =>
               InStep(controller'.resources, controller'.isResource)
<1>1. GInv /\ [Next]_vars => [Body]_vars
  <2>. SUFFICES ASSUME GInv, [Next]_vars PROVE Body
    OBVIOUS
  <2>1. CASE controller' = controller
    BY <2>1
  <2>2. CASE CallStep(controller, controller')
    BY <2>2, CallKeeps DEF GInv, KeptInStep
  <2>3. CASE ~controller.isInitialized
    BY <2>3
  <2>. QED  BY <2>1, <2>2, <2>3, ControllerSteps
<1>. QED  BY <1>1, GovernanceInvariant, PTL DEF Spec, ListsStayInStep
-----------------------------------------------------------------------------
(* AddressList: the arrays of SetToken.sol start empty and are edited      *)
(* through a contains check and removeStorage alone.  They are sets.       *)

ArrayInv == ArrayTypeOK /\ NoDuplicates

\* What removeStorage leaves: one entry less, the last one in the hole.
LEMMA RemoveStorageResult ==
    ASSUME ArrayInv, NEW a, NEW B \in removeStorage(components, a)
    PROVE  LET n == Len(components)
               k == indexOf(components, a)
           IN  /\ k \in 1 .. n /\ components[k] = a
               /\ B \in Seq(Address) /\ Len(B) = n - 1
               /\ \A i \in 1 .. (n - 1) :
                      B[i] = IF i = k THEN components[n] ELSE components[i]
<1>. DEFINE n == Len(components)
            k == indexOf(components, a)
<1>1. contains(components, a)
  BY DEF removeStorage, Require, contains
<1>2. k \in 1 .. n /\ components[k] = a
  BY <1>1, IndexOfFinds DEF ToSet, ArrayInv, ArrayTypeOK, NoDuplicates
<1>3. B = [i \in 1 .. (n - 1) |-> IF i = k THEN components[n] ELSE components[i]]
  BY DEF removeStorage, Require
<1>4. n \in Nat /\ \A i \in 1 .. n : components[i] \in Address
  BY DEF ArrayInv, ArrayTypeOK
<1>. HIDE DEF n, k
<1>5. B \in Seq(Address) /\ Len(B) = n - 1
  BY <1>2, <1>3, <1>4
<1>. QED  BY <1>2, <1>3, <1>5 DEF n, k

\* Neither call of SetToken.sol on its components array lets an address in
\* twice: the swap of removeStorage moves an entry, never copies one.
LEMMA ArrayInvPreserved == ArrayInv /\ [ListNext]_components => ArrayInv'
<1>. SUFFICES ASSUME ArrayInv, [ListNext]_components PROVE ArrayInv'
  OBVIOUS
<1>. USE DEF ArrayInv, ArrayTypeOK, NoDuplicates
<1>1. ASSUME NEW a \in Address, addComponent(a) PROVE ArrayInv'
  BY <1>1, IndexOfFinds DEF ToSet, addComponent, isComponent
<1>2. ASSUME NEW a \in Address, removeComponent(a) PROVE ArrayInv'
  <2>. DEFINE n == Len(components)
              k == indexOf(components, a)
  <2>1. components' \in removeStorage(components, a)
    BY <1>2 DEF removeComponent
  <2>2. /\ k \in 1 .. n /\ components[k] = a
        /\ components' \in Seq(Address) /\ Len(components') = n - 1
        /\ \A i \in 1 .. (n - 1) :
               components'[i] = IF i = k THEN components[n] ELSE components[i]
    BY <2>1, RemoveStorageResult
  <2>. QED  BY <2>2
<1>3. CASE UNCHANGED components
  BY <1>3
<1>. QED  BY <1>1, <1>2, <1>3 DEF ListNext

\* No address occurs twice in an array edited the way SetToken.sol edits its
\* components: one removeComponent always makes isComponent false.
THEOREM NoDuplicatesHolds == ListSpec => []NoDuplicates
<1>1. ListInit => ArrayInv
  BY DEF ListInit, ArrayInv, ArrayTypeOK, NoDuplicates
<1>2. ArrayInv => NoDuplicates
  BY DEF ArrayInv
<1>. QED  BY <1>1, <1>2, ArrayInvPreserved, PTL DEF ListSpec

\* Every call on the array is the same call on the set of its entries.
LEMMA StepImplements == ArrayInv /\ ArrayInv' /\ [ListNext]_components => [Abstract!Next]_entries
<1>. SUFFICES ASSUME ArrayInv, ArrayInv', [ListNext]_components PROVE [Abstract!Next]_entries
  OBVIOUS
<1>1. ASSUME NEW a \in Address, addComponent(a) PROVE Abstract!Add(a)
  <2>1. a \notin entries
    BY <1>1, IndexOfFinds DEF ToSet, addComponent, isComponent, entries, ArrayInv, ArrayTypeOK, NoDuplicates
  <2>2. entries' = entries \cup {a}
    <3>1. /\ Len(components') = Len(components) + 1
          /\ components'[Len(components) + 1] = a
          /\ \A i \in 1 .. Len(components) : components'[i] = components[i]
          /\ Len(components) \in Nat
      BY <1>1 DEF addComponent, ArrayInv, ArrayTypeOK
    <3>. QED  BY <3>1 DEF entries
  <2>. QED  BY <2>1, <2>2 DEF Abstract!Add
<1>2. ASSUME NEW a \in Address, removeComponent(a) PROVE Abstract!Remove(a)
  <2>. DEFINE n == Len(components)
              k == indexOf(components, a)
  <2>1. components' \in removeStorage(components, a)
    BY <1>2 DEF removeComponent
  <2>2. /\ k \in 1 .. n /\ components[k] = a
        /\ Len(components') = n - 1
        /\ \A i \in 1 .. (n - 1) :
               components'[i] = IF i = k THEN components[n] ELSE components[i]
    BY <2>1, RemoveStorageResult
  <2>3. n \in Nat /\ \A i, j \in 1 .. n : components[i] = components[j] => i = j
    BY DEF ArrayInv, ArrayTypeOK, NoDuplicates
  <2>. HIDE DEF n, k
  <2>4. \A i \in 1 .. (n - 1) : components'[i] \in entries /\ components'[i] # a
    BY <2>2, <2>3 DEF entries, n
  <2>5. \A j \in 1 .. n : components[j] # a => \E i \in 1 .. (n - 1) : components'[i] = components[j]
    <3>. SUFFICES ASSUME NEW j \in 1 .. n, components[j] # a
                  PROVE  \E i \in 1 .. (n - 1) : components'[i] = components[j]
      OBVIOUS
    <3>1. CASE j = n
      BY <3>1, <2>2, <2>3
    <3>2. CASE j # n
      BY <3>2, <2>2, <2>3
    <3>. QED  BY <3>1, <3>2
  <2>6. entries' = entries \ {a}
    <3>1. entries' = {components'[i] : i \in 1 .. (n - 1)}
      BY <2>2 DEF entries
    <3>2. entries = {components[i] : i \in 1 .. n}
      BY DEF entries, n
    <3>. QED  BY <3>1, <3>2, <2>4, <2>5
  <2>7. a \in entries
    BY <2>2 DEF entries, n
  <2>. QED  BY <2>6, <2>7 DEF Abstract!Remove
<1>3. CASE UNCHANGED components
  BY <1>3 DEF entries
<1>. QED  BY <1>1, <1>2, <1>3 DEF ListNext, Abstract!Next

\* The components array of SetToken.sol implements a set of addresses, for
\* which the order that removeStorage scrambles does not matter.
THEOREM ListImplementsSet == ListSpec => ImplementsSet
<1>1. ListInit => ArrayInv /\ Abstract!Init
  BY DEF ListInit, ArrayInv, ArrayTypeOK, NoDuplicates, Abstract!Init, entries
<1>. QED  BY <1>1, ArrayInvPreserved, StepImplements, PTL DEF ListSpec, ImplementsSet, Abstract!Spec
=============================================================================
