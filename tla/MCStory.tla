------------------------------ MODULE MCStory -------------------------------
(***************************************************************************)
(* Stories of two chapters for TLC: three nodes in the first chapter, with *)
(* edges to later nodes only, and one node in the second.                  *)
(***************************************************************************)
EXTENDS Story, TLC

CONSTANTS ch1, ch2

MCNodes == 1 .. 4
MCChapters == {ch1, ch2}
MCOrder == [ch \in MCChapters |-> IF ch = ch1 THEN 1 ELSE 3]
Symmetry == Permutations(Users) \cup Permutations(Calls)

Doc(ch, type, entry, optional, next, choices, unlockAfter) ==
    [chapter |-> ch, type |-> type, entry |-> entry, optional |-> optional,
     next |-> next, choices |-> choices, unlockAfter |-> unlockAfter]

FirstNodes ==
    {Doc(ch1, "text", TRUE, FALSE, 2, {}, {}), Doc(ch1, "challenge", TRUE, FALSE, 2, {}, {}),
     Doc(ch1, "choice", TRUE, FALSE, None, {2, 3}, {}),
     Doc(ch1, "text", TRUE, FALSE, 2, {3}, {})}
SecondNodes ==
    {Doc(ch1, type, FALSE, optional, next, {}, {}) :
        type \in {"text", "challenge"}, optional \in BOOLEAN, next \in {3, None}}
ThirdNodes ==
    {Doc(ch1, "text", FALSE, optional, None, {}, unlockAfter) :
        optional \in BOOLEAN, unlockAfter \in {{}, {2}}}
LastNodes == {Doc(ch2, "text", TRUE, FALSE, None, {}, {})}

MCGraphs ==
    {<<a, b, c, d>> : a \in FirstNodes, b \in SecondNodes, c \in ThirdNodes, d \in LastNodes}

=============================================================================
