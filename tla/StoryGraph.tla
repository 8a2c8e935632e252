----------------------------- MODULE StoryGraph -----------------------------
(***************************************************************************)
(* The nodes of a story and what the code computes of them: validateGraph  *)
(* of story.model.ts, collectBranch, computeBypassedNodes and              *)
(* isChapterComplete of story.service.ts.  The worklists of the code are   *)
(* the least sets closed under the edges they follow.                      *)
(***************************************************************************)
EXTENDS Naturals, FiniteSets

CONSTANTS
    Nodes,
    Chapters,
    None

ASSUME NoneIsNoNode == None \notin Nodes \cup Chapters

\* choices holds the targets of the options: two options with one target are one.
\* Options have different labels, which the validation of a new node asks for
\* (story.validator.ts:165); an edited label could equal another.
NodeDocs ==
    [chapter : Chapters, type : {"text", "challenge", "choice"}, entry : BOOLEAN,
     optional : BOOLEAN, next : Nodes \cup {None}, choices : SUBSET Nodes,
     unlockAfter : SUBSET Nodes]

NodesOf(g, ch) == {n \in Nodes : g[n].chapter = ch}
Entries(g, ch) == {n \in NodesOf(g, ch) : g[n].entry}

\* The edges that collectBranch follows, and all edges.
Forward(g) ==
    [n \in Nodes |-> IF g[n].type = "choice" /\ g[n].choices # {}
                     THEN g[n].choices
                     ELSE {g[n].next} \ {None}]
Edges(g) == [n \in Nodes |-> g[n].choices \cup ({g[n].next} \ {None})]

Reach(edges, n) ==
    {m \in Nodes : \A S \in SUBSET Nodes :
        n \in S /\ (\A k \in S : edges[k] \subseteq S) => m \in S}

\* Mutant of Bypassed.
BypassedWhole(g, n, chosen) == UNION {Reach(Forward(g), t) : t \in g[n].choices \ {chosen}}

\* Nodes of the branches not taken, but for those the taken one leads to as well.
Bypassed(g, n, chosen) ==
    (UNION {Reach(Forward(g), t) : t \in g[n].choices \ {chosen}})
        \ Reach(Forward(g), chosen)

ChapterComplete(g, ch, completed, bypassed) ==
    \A n \in NodesOf(g, ch) : g[n].optional \/ n \in bypassed \/ n \in completed

ValidNode(g, n) ==
    LET own == NodesOf(g, g[n].chapter) IN
    /\ g[n].type = "choice" => g[n].choices # {} /\ g[n].next = None
    /\ g[n].choices \subseteq own
    /\ g[n].next \in own \cup {None}
    /\ g[n].unlockAfter \subseteq own

\* Mutant of ValidChapter.
ValidNodesOnly(g, ch) ==
    Cardinality(Entries(g, ch)) = 1 /\ \A n \in NodesOf(g, ch) : ValidNode(g, n)

\* Required nodes must be reachable, or have prerequisites.
ValidChapter(g, ch) ==
    /\ Cardinality(Entries(g, ch)) = 1
    /\ \A n \in NodesOf(g, ch) :
        /\ ValidNode(g, n)
        /\ \A m \in Edges(g)[n] : n \notin Reach(Edges(g), m)
        /\ \/ g[n].optional
           \/ g[n].unlockAfter # {}
           \/ \E e \in Entries(g, ch) : n \in Reach(Edges(g), e)
=============================================================================
