----------------------------- MODULE AddressList -----------------------------
(***************************************************************************)
(* The storage arrays of SetToken.sol, in the one way it uses them: push   *)
(* behind a contains check (addComponent), removeStorage                   *)
(* (removeComponent).  removeStorage reorders the array, so that this      *)
(* implements a set is not evident from any single call.                   *)
(***************************************************************************)
EXTENDS AddressArrayUtils

CONSTANT Address

VARIABLE components

isComponent(a) == contains(components, a)

\* Without the check of isComponent.
addComponentUnchecked(a) == components' = Append(components, a)

addComponent(a) ==
    /\ ~isComponent(a)
    /\ components' = Append(components, a)

removeComponent(a) == \E array \in removeStorage(components, a) : components' = array

ListInit == components = <<>>

ListNext == \E a \in Address : addComponent(a) \/ removeComponent(a)

ListSpec == ListInit /\ [][ListNext]_components
-----------------------------------------------------------------------------
entries == {components[i] : i \in 1 .. Len(components)}

\* No address occurs twice in the array: addComponent's check together with
\* removeStorage's copy of the last element never duplicates an entry, so one
\* removal always suffices to make isComponent false.
NoDuplicates ==
    \A i, j \in 1 .. Len(components) : components[i] = components[j] => i = j

ArrayTypeOK == components \in Seq(Address)

Abstract == INSTANCE AddressSet WITH members <- entries

\* The array behaves as the set of its elements, whatever order the swaps of
\* removeStorage leave them in.
ImplementsSet == Abstract!Spec
=============================================================================
