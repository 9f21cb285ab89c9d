----------------------------- MODULE AddressSet -----------------------------
(***************************************************************************)
(* What SetToken.sol promises of each address array it keeps (components,  *)
(* modules, externalPositionModules): it is a set.  An address is added    *)
(* only when absent, removed only when present, and nothing else about the *)
(* array can be observed through isComponent, isModule and the like.       *)
(***************************************************************************)
CONSTANT Address

VARIABLE members

Init == members = {}

Add(a) == a \notin members /\ members' = members \cup {a}

Remove(a) == a \in members /\ members' = members \ {a}

Next == \E a \in Address : Add(a) \/ Remove(a)

Spec == Init /\ [][Next]_members
=============================================================================
