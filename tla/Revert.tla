------------------------------- MODULE Revert -------------------------------
(***************************************************************************)
(* Contract calls as sets of outcomes.                                     *)
(*                                                                         *)
(* A Solidity call either returns one value (or one new state) or reverts, *)
(* and a revert anywhere undoes the whole transaction.  An operator that   *)
(* models a call which can revert is therefore written as the set of its   *)
(* outcomes: a singleton when the call returns, the empty set when it      *)
(* reverts.  A transaction is a chain of \E over such sets: it is enabled  *)
(* exactly when no call in it reverts.                                     *)
(***************************************************************************)

\* require(condition); return outcome;
Require(condition, outcome) == IF condition THEN {outcome} ELSE {}

\* Whether a call returns in the state its arguments describe.
Returns(call) == call # {}
=============================================================================
