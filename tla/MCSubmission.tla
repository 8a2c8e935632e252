---------------------------- MODULE MCSubmission -----------------------------
(***************************************************************************)
(* Instances of Submission for TLC.                                        *)
(***************************************************************************)
EXTENDS Submission, MCDecay, TLC

CONSTANTS u1, u2, u3, t1, c1, r1, r2, r3, d1, d2

MCScoring == [c \in Challenges |->
                 [points |-> 100, minPoints |-> 10, isStatic |-> FALSE]]

\* Two players of one team and a third with none.
PairInTeam == [u \in Users |-> IF u = u3 THEN NoTeam ELSE t1]

\* Handler invocations are interchangeable, and so are the players whose
\* membership is the same.
Symmetry ==
    UNION {Permutations(Requests), Permutations(Deletions)}
    \cup UNION {Permutations({u \in Users : TeamOf[u] = t}) :
                    t \in {TeamOf[u] : u \in Users}}

AnyCalls == [Requests -> [user : Users, challenge : Challenges]]

\* All the submissions at once, or one of them and all the deletions.
AllRequests == {Requests}
RequestsOrDeletions == {Requests, {r1} \cup Deletions}
==============================================================================
