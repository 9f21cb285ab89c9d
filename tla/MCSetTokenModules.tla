-------------------------- MODULE MCSetTokenModules --------------------------
(***************************************************************************)
(* Small values for SetTokenModules.  One component carries a default      *)
(* position and an external position of each of two modules, so the        *)
(* minimum taken over positions really is over several.  PreciseUnit = 3   *)
(* with multipliers 1..4 makes units round both below and above one.       *)
(***************************************************************************)
EXTENDS SetTokenModules, TLC

CONSTANT c1

MCInitialUnits == {c1 :> 1, c1 :> 2}
MCExternalUnits == -2 .. 1
MCNewMultipliers == -1 .. 4
=============================================================================
