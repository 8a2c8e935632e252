----------------------------- MODULE MCSessions ------------------------------
(***************************************************************************)
(* Instances of Sessions for TLC.                                          *)
(***************************************************************************)
EXTENDS Sessions, TLC

AllKinds == Kinds

\* Tokens and calls are interchangeable.
Symmetry == Permutations(Tokens) \cup Permutations(Requests)
==============================================================================
