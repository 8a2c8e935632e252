------------------------------- MODULE Roster -------------------------------
(***************************************************************************)
(* What the team service promises, whatever its documents look like: a     *)
(* player is in one team or in none, changes teams only through none, and  *)
(* joins open teams only; a team opens once, and closes for good, either   *)
(* empty or freeing everybody who was in it.                               *)
(***************************************************************************)
CONSTANTS Players, Teams, None

VARIABLES
    at,     \* the team of each player, None without one
    phase   \* "unused", then "open", then "closed"

vars == <<at, phase>>

TypeOK ==
    /\ at \in [Players -> Teams \cup {None}]
    /\ phase \in [Teams -> {"unused", "open", "closed"}]

Init ==
    /\ at = [p \in Players |-> None]
    /\ phase = [t \in Teams |-> "unused"]

Found(p, t) ==
    /\ at[p] = None
    /\ phase[t] = "unused"
    /\ at' = [at EXCEPT ![p] = t]
    /\ phase' = [phase EXCEPT ![t] = "open"]

\* A player who is deleted while founding a team leaves a team without players.
FoundDeserted(t) ==
    /\ phase[t] = "unused"
    /\ phase' = [phase EXCEPT ![t] = "open"]
    /\ UNCHANGED at

Join(p, t) ==
    /\ at[p] = None
    /\ phase[t] = "open"
    /\ at' = [at EXCEPT ![p] = t]
    /\ UNCHANGED phase

\* Leaving, being kicked, being deleted.
Part(p) ==
    /\ at[p] # None
    /\ at' = [at EXCEPT ![p] = None]
    /\ \/ UNCHANGED phase
       \/ /\ \A q \in Players : at[q] = at[p] => q = p
          /\ phase' = [phase EXCEPT ![at[p]] = "closed"]

Disband(t) ==
    /\ phase[t] = "open"
    /\ at' = [p \in Players |-> IF at[p] = t THEN None ELSE at[p]]
    /\ phase' = [phase EXCEPT ![t] = "closed"]

Next ==
    \/ \E p \in Players, t \in Teams : Found(p, t) \/ Join(p, t)
    \/ \E p \in Players : Part(p)
    \/ \E t \in Teams : FoundDeserted(t) \/ Disband(t)

Spec == Init /\ [][Next]_vars
=============================================================================
