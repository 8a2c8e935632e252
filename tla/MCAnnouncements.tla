-------------------------- MODULE MCAnnouncements ---------------------------
(***************************************************************************)
(* An instance of Announcements for TLC.                                   *)
(***************************************************************************)
EXTENDS Announcements, TLC

Symmetry == Permutations(PostCalls) \cup Permutations(Users)
=============================================================================
