------------------------ MODULE IntegrationRegistry ------------------------
(***************************************************************************)
(* contracts/protocol/IntegrationRegistry.sol: the adapters each module    *)
(* may use, by name.  r is the mapping integrations; a name stands for its *)
(* hash.  Whether a module is valid is asked of the Controller k when an   *)
(* adapter is added or edited, not when it is removed or used.             *)
(***************************************************************************)
EXTENDS Controller

CONSTANT IntegrationNames

newRegistry == [m \in ModuleAddress |-> [name \in IntegrationNames |-> NullAddress]]

addIntegration(r, k, module, name, adapter) ==
    Require(/\ module \in k.isModule
            /\ r[module][name] = NullAddress
            /\ adapter # NullAddress,
            [r EXCEPT ![module][name] = adapter])

editIntegration(r, k, module, name, adapter) ==
    Require(/\ module \in k.isModule
            /\ r[module][name] # NullAddress
            /\ adapter # NullAddress,
            [r EXCEPT ![module][name] = adapter])

removeIntegration(r, module, name) ==
    Require(r[module][name] # NullAddress, [r EXCEPT ![module][name] = NullAddress])

\* The batch calls run over entries <<module, name, adapter>>; one entry that
\* reverts reverts the batch.
batchAddIntegration(r, k, entries) ==
    IF entries = <<>> THEN {}
    ELSE FoldLeft(LAMBDA outcomes, e : UNION {addIntegration(q, k, e[1], e[2], e[3]) : q \in outcomes},
                  {r}, entries)

batchEditIntegration(r, k, entries) ==
    IF entries = <<>> THEN {}
    ELSE FoldLeft(LAMBDA outcomes, e : UNION {editIntegration(q, k, e[1], e[2], e[3]) : q \in outcomes},
                  {r}, entries)
=============================================================================
