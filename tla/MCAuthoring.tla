----------------------------- MODULE MCAuthoring -----------------------------
(***************************************************************************)
(* Chapters for TLC: a dynamic challenge whose floor is above half of its  *)
(* points, fresh or solved until recentSolves is full, and a story without *)
(* chapters, or with one of three nodes, two of them behind a choice.      *)
(***************************************************************************)
EXTENDS Chapters, MCDecay, TLC

CONSTANTS k1, n1, n2, n3, n4

Curve(p, m) == [points |-> p, minPoints |-> m, isStatic |-> FALSE]

MCCreated == {Curve(500, 430)}

\* The documented example, odd points, no points and a static challenge, up to 102
\* solves.
MCCurves == {Curve(500, 100), Curve(500, 400), Curve(333, 0), Curve(1, 0), Curve(0, 0),
             [points |-> 500, minPoints |-> 100, isStatic |-> TRUE]}

ASSUME CurvesAssumption ==
    \A s \in MCCurves, n \in 0..101 :
        /\ CurrentPoints(s, n + 1) <= CurrentPoints(s, n)
        /\ s.minPoints <= CurrentPoints(s, n) /\ CurrentPoints(s, n) <= s.points

Text(n, next) ==
    [id |-> n, type |-> "text", entry |-> FALSE, optional |-> FALSE, next |-> next,
     choices |-> <<>>, unlockAfter |-> {}]
Choice(n, targets) == [Text(n, None) EXCEPT !.type = "choice", !.choices = targets]

Fork == <<[Choice(n1, <<n2, n3>>) EXCEPT !.entry = TRUE], Text(n2, n3), Text(n3, None)>>

MCDrafts == [{k1} -> {Fork}] \cup {<<>>}

MCNewNodes == {Text(None, n1), [Choice(None, <<n3, n3>>) EXCEPT !.unlockAfter = {n2}]}

Sets(name, values) == {<<name, v>> : v \in values}
MCChanges ==
    Sets("entry", BOOLEAN) \cup Sets("next", {n3, None}) \cup Sets("type", {"choice"})
        \cup Sets("choices", {<<n2, n2>>}) \cup Sets("unlockAfter", {{n3, n4}})

\* The challenge and the story share nothing: each start of the one comes with one
\* start of the other.
AuthoringInit == Init /\ (challenge.solveCount = 0 <=> story.chapters = {})

AuthoringSpec == AuthoringInit /\ [][Next]_vars

Symmetry == Permutations(Slots) \cup Permutations(Chapters \ {k1})
==============================================================================
