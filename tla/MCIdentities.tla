---------------------------- MODULE MCIdentities ----------------------------
(***************************************************************************)
(* An instance of Identities for TLC.                                      *)
(***************************************************************************)
EXTENDS Identities, TLC

Symmetry == Permutations(Emails)
=============================================================================
