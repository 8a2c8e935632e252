------------------------------ MODULE Chapters ------------------------------
(***************************************************************************)
(* Editing one story: its chapters, their nodes and edges, and what        *)
(* publishes them, beside the editing of a challenge.  From createChapter  *)
(* to disconnectEdge of story.service.ts.                                  *)
(*                                                                         *)
(* Node calls load the chapter, check it, edit their copy and save, as in  *)
(* Challenges.  A field of a node is sent under the position the node had: *)
(* such a save is refused when the version has changed, but raises it only *)
(* when the field is an array.  The order, the content and the layout of   *)
(* the nodes are left out: a call that asks for a taken order is refused.  *)
(* updateStory and updateChapter assign to a new object and save nothing.  *)
(***************************************************************************)
EXTENDS StoryGraph, Challenges

CONSTANTS
    Drafts,       \* the chapters there may be when the model starts, with their nodes
    NewNodes,     \* what createNode is asked for, without its _id
    Changes,      \* what updateNode is asked for: pairs of a field and a value
    MaxNodeEdits  \* bound: calls begun on the story

VARIABLES
    story,        \* the status and the chapters it lists, None once deleted
    chapter,      \* the document of each chapter, None when there is none
    minted,       \* the _ids given to chapters and nodes so far
    nodeEdit,     \* what each call asks for, with the document it loaded
    nodeEdits     \* calls begun

chapterVars == <<story, chapter, minted, nodeEdit, nodeEdits>>
vars == <<challengeVars, chapterVars>>

-----------------------------------------------------------------------------

NodeFields ==
    [id : Nodes, type : {"text", "choice"}, entry : BOOLEAN, optional : BOOLEAN,
     next : Nodes \cup {None}, choices : Seq(Nodes \cup {None}), unlockAfter : SUBSET Nodes]

ChapterDocs == [published : BOOLEAN, nodes : Seq(NodeFields), version : Nat]

Statuses == {"draft", "published", "archived"}

Stories == [status : Statuses, chapters : SUBSET Chapters]

Blank == [published |-> FALSE, nodes |-> <<>>, version |-> 0]

ASSUME ChaptersAssumption ==
    /\ \A d \in Drafts :
        /\ DOMAIN d \subseteq Chapters
        /\ \A ch \in DOMAIN d :
            /\ d[ch] \in Seq(NodeFields)
            /\ \A i, j \in DOMAIN d[ch] : d[ch][i].id = d[ch][j].id => i = j
    /\ \A p \in NewNodes :
        "id" \in DOMAIN p /\ \A n \in Nodes : [p EXCEPT !.id = n] \in NodeFields
    /\ Changes \subseteq
        ({"type"} \X {"text", "choice"}) \cup ({"entry", "optional"} \X BOOLEAN)
            \cup ({"next"} \X (Nodes \cup {None})) \cup ({"choices"} \X Seq(Nodes))
            \cup ({"unlockAfter"} \X (SUBSET Nodes))
    /\ MaxNodeEdits \in Nat

Targets(node) == {node.choices[j] : j \in DOMAIN node.choices} \ {None}
Ids(doc) == {doc.nodes[i].id : i \in DOMAIN doc.nodes}

ChaptersInit ==
    /\ \E d \in Drafts :
        LET written == DOMAIN d IN
        /\ story = [status |-> "draft", chapters |-> written]
        /\ chapter = [ch \in Chapters |->
                IF ch \in written THEN [Blank EXCEPT !.nodes = d[ch]] ELSE None]
        /\ minted = written \cup UNION {Ids(chapter[ch]) : ch \in written}
    /\ nodeEdit = [c \in Slots |-> Idle]
    /\ nodeEdits = 0

\* The nodes of a chapter as the graph that validateGraph walks.
GraphOf(ch, doc) ==
    [n \in Nodes |->
        IF n \in Ids(doc)
        THEN LET d == CHOOSE x \in {doc.nodes[i] : i \in DOMAIN doc.nodes} : x.id = n IN
             [chapter |-> ch, type |-> d.type, entry |-> d.entry, optional |-> d.optional,
              next |-> d.next, choices |-> {d.choices[i] : i \in DOMAIN d.choices},
              unlockAfter |-> d.unlockAfter]
        ELSE [chapter |-> None, next |-> None, choices |-> {}]]

\* A choice has two options or more, and an option without a target is not valid.
ValidDoc(ch, doc) ==
    /\ \A i \in DOMAIN doc.nodes :
        LET node == doc.nodes[i] IN
        /\ node.type = "choice" => Len(node.choices) >= 2
        /\ \A j \in DOMAIN node.choices : node.choices[j] # None
    /\ ValidChapter(GraphOf(ch, doc), ch)

-----------------------------------------------------------------------------
(* Loading a chapter, with the checks made on it.                           *)

Free(c) == nodeEdit[c] = Idle /\ nodeEdits < MaxNodeEdits

Begin(c, k) ==
    /\ nodeEdits' = nodeEdits + 1
    /\ nodeEdit' = [nodeEdit EXCEPT ![c] = k]
    /\ UNCHANGED <<challengeVars, story, chapter>>

\* op says what the save sends: nodes pushed, a plain field of a node, an array of
\* it, the target of one of its options, all nodes, or the status of the chapter.
EditOf(op, ch, node, field, value) ==
    [op |-> op, chapter |-> ch, node |-> node, field |-> field, value |-> value,
     was |-> chapter[ch]]

\* The nodes of a chapter that exists, by _id.
Has(ch, n) == chapter[ch] # None /\ n \in Ids(chapter[ch])

Place(doc, n) == CHOOSE i \in DOMAIN doc.nodes : doc.nodes[i].id = n
Node(ch, n) == chapter[ch].nodes[Place(chapter[ch], n)]

NoOtherEntry(ch, n) == \A m \in Ids(chapter[ch]) \ {n} : ~Node(ch, m).entry

CreateNode(c, ch) ==
    /\ chapter[ch] # None
    /\ \E n \in Nodes \ minted, p \in NewNodes :
        /\ p.entry => NoOtherEntry(ch, n)
        /\ ({p.next} \ {None}) \cup p.unlockAfter \cup Targets(p) \subseteq Ids(chapter[ch])
        /\ minted' = minted \cup {n}
        /\ Begin(c, EditOf("push", ch, n, "nodes", [p EXCEPT !.id = n]))

\* unlockAfter is not checked here.  A value the node has already is not sent.
UpdateNode(c, ch) ==
    \E n \in Nodes, u \in Changes :
        /\ Has(ch, n)
        /\ u[2] # Node(ch, n)[u[1]]
        /\ u[1] = "entry" /\ u[2] => NoOtherEntry(ch, n)
        /\ u[1] = "next" => u[2] \in Ids(chapter[ch]) \cup {None}
        /\ u[1] = "choices" => {u[2][j] : j \in DOMAIN u[2]} \subseteq Ids(chapter[ch])
        /\ Begin(c, EditOf(IF u[1] \in {"choices", "unlockAfter"} THEN "array" ELSE "field",
                 ch, n, u[1], u[2]))
        /\ UNCHANGED minted

\* "c.targetNode?.toString() ?? '' === nodeId" is true of every option with a target.
Referenced(ch, n) ==
    \E m \in Ids(chapter[ch]) \ {n} :
        \/ Node(ch, m).next = n
        \/ Targets(Node(ch, m)) # {}
        \/ n \in Node(ch, m).unlockAfter

DeleteNode(c, ch) ==
    \E n \in Nodes :
        /\ Has(ch, n) /\ ~Referenced(ch, n)
        /\ Begin(c, EditOf("all", ch, n, "nodes", None))
        /\ UNCHANGED minted

ConnectEdge(c, ch) ==
    \E n, m \in Nodes :
        /\ Has(ch, n) /\ Has(ch, m) /\ n # m
        /\ \/ /\ Node(ch, n).type # "choice" /\ Node(ch, n).next # m
              /\ Begin(c, EditOf("field", ch, n, "next", m))
           \/ /\ Node(ch, n).type = "choice"
              /\ \E j \in DOMAIN Node(ch, n).choices :
                    Node(ch, n).choices[j] # m /\ Begin(c, EditOf("option", ch, n, j, m))
           \/ /\ n \notin Node(ch, m).unlockAfter
              /\ Begin(c, EditOf("array", ch, m, "unlockAfter", Node(ch, m).unlockAfter \cup {n}))
        /\ UNCHANGED minted

DisconnectEdge(c, ch) ==
    \E n \in Nodes :
        /\ Has(ch, n)
        /\ \/ Node(ch, n).next # None /\ Begin(c, EditOf("field", ch, n, "next", None))
           \/ \E j \in DOMAIN Node(ch, n).choices :
                    Node(ch, n).choices[j] # None /\ Begin(c, EditOf("option", ch, n, j, None))
           \/ \E m \in Node(ch, n).unlockAfter :
                    Begin(c, EditOf("array", ch, n, "unlockAfter", Node(ch, n).unlockAfter \ {m}))
        /\ UNCHANGED minted

PublishChapter(c, ch) ==
    /\ chapter[ch] # None /\ ValidDoc(ch, chapter[ch])
    /\ Begin(c, EditOf("status", ch, None, "published", TRUE))
    /\ UNCHANGED minted

-----------------------------------------------------------------------------
(* Saving it.                                                               *)

Pending(c, op) == nodeEdit[c] # Idle /\ nodeEdit[c].op = op

Finish(c) ==
    /\ nodeEdit' = [nodeEdit EXCEPT ![c] = Idle]
    /\ UNCHANGED <<challengeVars, minted, nodeEdits>>

\* Mutant of Outdated: a field is sent to the position whatever stands there.
OutdatedArray(k) ==
    k.op \in {"array", "all"} /\ chapter[k.chapter].version # k.was.version

\* Mutant of Outdated: deleteNode pulls its node by _id and asks for no version.
OutdatedButAll(k) ==
    k.op \notin {"push", "status", "all"} /\ chapter[k.chapter].version # k.was.version

\* A save that sends a position, or replaces an array, asks for the loaded version.
Outdated(k) == k.op \notin {"push", "status"} /\ chapter[k.chapter].version # k.was.version

Saved(k, d) ==
    LET i == Place(k.was, k.node) IN
    CASE k.op = "push" ->
            [d EXCEPT !.nodes = Append(@, k.value), !.version = @ + 1]
      [] k.op = "field" -> [d EXCEPT !.nodes[i][k.field] = k.value]
      [] k.op = "option" -> [d EXCEPT !.nodes[i].choices[k.field] = k.value]
      [] k.op = "array" ->
            [d EXCEPT !.nodes[i][k.field] = k.value, !.version = @ + 1]
      [] k.op = "all" ->
            [d EXCEPT !.nodes = Without(k.was.nodes, i), !.version = @ + 1]
      [] k.op = "status" -> [d EXCEPT !.published = TRUE]

\* The save of a chapter that is gone fails too.
SaveChapter(c) ==
    /\ \E op \in {"push", "field", "option", "array", "all", "status"} : Pending(c, op)
    /\ LET k == nodeEdit[c] IN
       chapter' = IF chapter[k.chapter] = None \/ Outdated(k) THEN chapter
                  ELSE [chapter EXCEPT ![k.chapter] = Saved(k, @)]
    /\ Finish(c)
    /\ UNCHANGED story

-----------------------------------------------------------------------------
(* The story and its list of chapters.                                      *)

\* The calls that keep the list of chapters: what createChapter read of the list, or
\* the places where deleteChapter still has to delete.
ListCalls ==
    [op : {"create", "list"}, chapter : Chapters, value : SUBSET Chapters]
        \cup [op : {"delete"}, chapter : Chapters, value : SUBSET {"chapter", "story"}]

ASSUME IdleIsNoCall == Idle \notin ListCalls /\ None \notin ChapterDocs \cup Stories

CallOf(op, what, value) == [op |-> op, chapter |-> what, value |-> value]

Go(c, k) ==
    /\ nodeEdit' = [nodeEdit EXCEPT ![c] = k]
    /\ UNCHANGED <<challengeVars, minted, nodeEdits>>

\* The order of a chapter is left out: a call that asks for a taken one is refused.
CreateChapter(c) ==
    /\ story # None
    /\ \E ch \in Chapters \ minted :
        /\ minted' = minted \cup {ch}
        /\ Begin(c, CallOf("create", ch, story.chapters))

InsertChapter(c) ==
    /\ Pending(c, "create")
    /\ chapter' = [chapter EXCEPT ![nodeEdit[c].chapter] = Blank]
    /\ Go(c, [nodeEdit[c] EXCEPT !.op = "list"])
    /\ UNCHANGED story

\* Mutant of Listed.
ListedInCopy(k) == [story EXCEPT !.chapters = k.value \cup {k.chapter}]

\* $push
Listed(k) == [story EXCEPT !.chapters = @ \cup {k.chapter}]

ListChapter(c) ==
    /\ Pending(c, "list")
    /\ story' = IF story = None THEN None ELSE Listed(nodeEdit[c])
    /\ Finish(c)
    /\ UNCHANGED chapter

DeleteChapter(c, ch) ==
    /\ chapter[ch] # None
    /\ Begin(c, CallOf("delete", ch, {"chapter", "story"}))
    /\ UNCHANGED minted

\* The two commands of the Promise.all, in any order.
DeleteFrom(c, place) ==
    /\ Pending(c, "delete") /\ place \in nodeEdit[c].value
    /\ LET ch == nodeEdit[c].chapter IN
       \/ /\ place = "chapter"
          /\ chapter' = [chapter EXCEPT ![ch] = None]
          /\ UNCHANGED story
       \/ /\ place = "story"
          /\ story' = IF story = None THEN None ELSE [story EXCEPT !.chapters = @ \ {ch}]
          /\ UNCHANGED chapter
    /\ Go(c, IF nodeEdit[c].value = {place} THEN Idle
             ELSE [nodeEdit[c] EXCEPT !.value = @ \ {place}])

\* Publishing looks first at the chapters that are published now.
SetStoryStatus(c) ==
    /\ story # None
    /\ \E s \in Statuses \ {story.status} :
        Begin(c, CallOf(IF s = "published" THEN "find" ELSE "check", s, {}))
    /\ UNCHANGED minted

FindPublished(c) ==
    LET found == {ch \in Chapters : chapter[ch] # None /\ chapter[ch].published} IN
    /\ Pending(c, "find")
    /\ Go(c, IF found = {} THEN Idle ELSE CallOf("check", nodeEdit[c].chapter, found))
    /\ UNCHANGED <<story, chapter>>

\* Each is read again; one that is gone by now is passed over.
CheckChapter(c, ch) ==
    /\ Pending(c, "check") /\ ch \in nodeEdit[c].value
    /\ Go(c, IF chapter[ch] = None \/ ValidDoc(ch, chapter[ch])
             THEN [nodeEdit[c] EXCEPT !.value = @ \ {ch}] ELSE Idle)
    /\ UNCHANGED <<story, chapter>>

SaveStatus(c) ==
    /\ Pending(c, "check") /\ nodeEdit[c].value = {}
    /\ story' = IF story = None THEN None ELSE [story EXCEPT !.status = nodeEdit[c].chapter]
    /\ Finish(c)
    /\ UNCHANGED chapter

\* Refused while the story is played, which is not modelled here.
DeleteStory(c) ==
    /\ story # None
    /\ Begin(c, CallOf("deleteStory", None, {}))
    /\ UNCHANGED minted

\* The transaction.
CommitDeletion(c) ==
    /\ Pending(c, "deleteStory")
    /\ story' = None
    /\ chapter' = [ch \in Chapters |-> None]
    /\ Finish(c)

Start(c) ==
    \/ \E ch \in Chapters :
        \/ CreateNode(c, ch) \/ UpdateNode(c, ch) \/ DeleteNode(c, ch)
        \/ ConnectEdge(c, ch) \/ DisconnectEdge(c, ch) \/ PublishChapter(c, ch)
        \/ DeleteChapter(c, ch)
    \/ CreateChapter(c) \/ SetStoryStatus(c) \/ DeleteStory(c)

Continue(c) ==
    \/ SaveChapter(c)
    \/ InsertChapter(c) \/ ListChapter(c)
    \/ \E place \in {"chapter", "story"} : DeleteFrom(c, place)
    \/ FindPublished(c) \/ (\E ch \in Chapters : CheckChapter(c, ch)) \/ SaveStatus(c)
    \/ CommitDeletion(c)

ChaptersNext == \E c \in Slots : (Free(c) /\ Start(c)) \/ Continue(c)

Init == ChallengesInit /\ ChaptersInit

\* bound: the challenge and the story share nothing, and a behaviour edits one of
\* them.
Next ==
    \/ nodeEdits = 0 /\ ChallengesNext /\ UNCHANGED chapterVars
    \/ begun = 0 /\ ChaptersNext

Spec == Init /\ [][Next]_vars

-----------------------------------------------------------------------------
(* What stays true of the chapters.                                         *)

Typed ==
    /\ story \in Stories \cup {None}
    /\ chapter \in [Chapters -> ChapterDocs \cup {None}]
    /\ minted \subseteq Chapters \cup Nodes

\* Whatever is edited at once, the nodes of a chapter have different _ids, and a
\* chapter is listed in its story, but for the calls that create or delete it.
ChaptersConsistent ==
    /\ Typed
    /\ \A ch \in Chapters : chapter[ch] # None =>
        /\ Cardinality(Ids(chapter[ch])) = Len(chapter[ch].nodes)
        /\ \/ story = None \/ ch \in story.chapters
           \/ \E c \in Slots : Pending(c, "list") /\ nodeEdit[c].chapter = ch
           \/ \E c \in Slots : Pending(c, "delete") /\ nodeEdit[c].chapter = ch

\* The call that ends in this step was a node call on ch, of these kinds.
Lands(c, ch, ops) ==
    /\ \E op \in ops : Pending(c, op)
    /\ nodeEdit[c].chapter = ch /\ nodeEdit'[c] = Idle

\* An edit lands on the node that was loaded, wherever it stands by now, and changes
\* only the field it names.  A deleteNode may put other nodes back as it had loaded
\* them; it removes no node but its own, and brings none back.
EditLands(ch) ==
    LET before == chapter[ch] after == chapter'[ch] IN
    /\ \A n \in Ids(before) \ Ids(after) :
        \E c \in Slots : Lands(c, ch, {"all"}) /\ nodeEdit[c].node = n
    /\ \A n \in Ids(after) \ Ids(before) :
        \E c \in Slots : Lands(c, ch, {"push"}) /\ nodeEdit[c].node = n
    /\ \A n \in Ids(before) \cap Ids(after) :
        LET old == before.nodes[Place(before, n)]
            new == after.nodes[Place(after, n)] IN
        old # new => \E c \in Slots :
            \/ Lands(c, ch, {"all"})
               /\ new = nodeEdit[c].was.nodes[Place(nodeEdit[c].was, n)]
            \/ Lands(c, ch, {"field", "array"})
               /\ nodeEdit[c].node = n
               /\ new = [old EXCEPT ![nodeEdit[c].field] = nodeEdit[c].value]
            \/ Lands(c, ch, {"option"})
               /\ nodeEdit[c].node = n
               /\ new = [old EXCEPT !.choices[nodeEdit[c].field] = nodeEdit[c].value]

\* The nodes an edge leads to that are not there.
Lost(doc, n) ==
    LET d == doc.nodes[Place(doc, n)] IN
    (Targets(d) \cup ({d.next} \ {None})) \ Ids(doc)

\* No edit leaves an edge of a node without its end: only a node created from a copy
\* that a deletion has overtaken can lead nowhere.  A deleteNode may put such an edge
\* back that another call has mended, but makes none.
EdgesHold(ch) ==
    \A n \in Ids(chapter[ch]) \cap Ids(chapter'[ch]) :
        \/ Lost(chapter'[ch], n) \subseteq Lost(chapter[ch], n)
        \/ \E c \in Slots :
            /\ Lands(c, ch, {"all"})
            /\ Lost(chapter'[ch], n) \subseteq Lost(nodeEdit[c].was, n)

NodeEditsHold ==
    [][\A ch \in Chapters : chapter[ch] # None /\ chapter'[ch] # None =>
            EditLands(ch) /\ EdgesHold(ch)]_chapter
=============================================================================
