----------------------------- MODULE MCConsole -----------------------------
(***************************************************************************)
(* Small instances of the ten components of Readings.  The sets whose      *)
(* members are interchangeable stand for those of other parts as well,     *)
(* which keeps the permutations few.                                       *)
(***************************************************************************)
EXTENDS Readings, TLC

ASSUME InstancesAssumption == ReadingsAssumption

Interchangeable == Permutations(Requests) \union Permutations(Logins)
=============================================================================
