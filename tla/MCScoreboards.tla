--------------------------- MODULE MCScoreboards ---------------------------
(***************************************************************************)
(* Instances of Scoreboards for TLC: an event with one challenge.          *)
(***************************************************************************)
EXTENDS Scoreboards, TLC

TheChallenge == CHOOSE h \in Challenges : TRUE
EverySolveOfIt == [s \in Solves |-> TheChallenge]
BoardKinds == {"freeze", "thaw", "add", "remove"}

Symmetry == Permutations(Calls) \cup Permutations(Solves)
    \cup Permutations(Boards) \cup Permutations(Jobs)
=============================================================================
