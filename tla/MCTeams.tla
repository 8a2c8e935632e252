------------------------------ MODULE MCTeams -------------------------------
(***************************************************************************)
(* Instances of Teams for TLC.                                             *)
(***************************************************************************)
EXTENDS Teams, TLC

Symmetry == Permutations(Players) \cup Permutations(Teams) \cup Permutations(Calls)
=============================================================================
