--------------------------- MODULE ChallengePoints ---------------------------
(***************************************************************************)
(* The value of a challenge: getCurrentPoints of challenge.model.ts.       *)
(*                                                                         *)
(* A static challenge is always worth its base points.  A dynamic one is   *)
(* worth floor(points * (0.5 + 0.5 * exp(-0.05 * max(0, solves - 1)))),    *)
(* never less than minPoints.  The exponential enters as the constant      *)
(* function Decay, in millionths: TLC binds it to the rounded values of    *)
(* exp(-0.05 * k), the proofs use only that it starts at one and never     *)
(* increases.                                                              *)
(***************************************************************************)
EXTENDS Integers

CONSTANTS
    MaxDecay,    \* bound: Decay is given on 0..MaxDecay, constant beyond
    Decay        \* Decay[k] = exp(-0.05 * k), in millionths

One == 1000000

ASSUME DecayAssumption ==
    /\ MaxDecay \in Nat
    /\ Decay \in [0..MaxDecay -> 0..One]
    /\ Decay[0] = One
    /\ \A i, j \in 0..MaxDecay : i <= j => Decay[j] <= Decay[i]

\* The scoring fields of a challenge document.  The pre("validate") hook
\* rejects a document whose minPoints exceed its points.
Scorings ==
    {s \in [points : Nat, minPoints : Nat, isStatic : BOOLEAN] :
        s.minPoints <= s.points}

\* Math.max(0, solveCount - 1), the solves the exponential counts.
Decaying(n) ==
    LET k == IF n - 1 > 0 THEN n - 1 ELSE 0 IN
    IF k <= MaxDecay THEN k ELSE MaxDecay

\* 0.5 + 0.5 * Math.exp(...), in millionths.
Factor(n) == (One + Decay[Decaying(n)]) \div 2

\* Math.floor(points * factor).
Decayed(points, n) == (points * Factor(n)) \div One

\* getCurrentPoints of a challenge with scoring s and solveCount = n.
CurrentPoints(s, n) ==
    IF s.isStatic THEN s.points
    ELSE LET d == Decayed(s.points, n) IN
         IF d < s.minPoints THEN s.minPoints ELSE d
==============================================================================
