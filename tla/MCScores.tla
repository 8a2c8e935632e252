------------------------------ MODULE MCScores ------------------------------
(***************************************************************************)
(* Instances of Scores for TLC.                                            *)
(***************************************************************************)
EXTENDS Scores, TLC

CONSTANTS p1, t1

OneInATeam == [p \in Players |-> IF p = p1 THEN t1 ELSE None]
TwoDeltas == {1, -3}
Symmetry == Permutations(RoleCalls) \cup Permutations(ScoreCalls) \cup Permutations(Seeded)
=============================================================================
