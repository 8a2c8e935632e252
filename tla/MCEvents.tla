------------------------------ MODULE MCEvents ------------------------------
(***************************************************************************)
(* Instances of Events for TLC.  Updates change one field at a time, and   *)
(* the window is the first one of the clock's.                             *)
(***************************************************************************)
EXTENDS Events, TLC

EveryKind == {"transition", "auto", "freeze", "thaw", "register", "registerTeam",
              "add", "remove", "update", "delete"}

Symmetry == Permutations(Challenges) \cup Permutations(Calls)
=============================================================================
