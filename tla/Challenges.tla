----------------------------- MODULE Challenges -----------------------------
(***************************************************************************)
(* The life of one challenge after createChallenge: updateChallenge,       *)
(* setVisibility, deleteChallenge, the hints and the attachments of        *)
(* challenge.service.ts, and the solves that are recorded meanwhile.       *)
(*                                                                         *)
(* Each call loads the document, edits its copy and saves it.  A save      *)
(* sends only what the copy changed: a field is set, an element pushed to  *)
(* an array is pushed, an array it spliced is replaced as a whole.  A push *)
(* raises the version of the document; a replacement raises it too and is  *)
(* refused when the version is no longer the one that was loaded.          *)
(***************************************************************************)
EXTENDS ChallengePoints, Sequences, FiniteSets

CONSTANTS
    Slots,        \* slots of concurrent calls
    Idle,
    Created,      \* the scorings a challenge may be created with
    Solves,       \* the solves it may have when the model starts
    Points,       \* the points an update may ask for
    Flags,
    Orders,       \* the orders of hints
    RecentCap,    \* recentSolves keeps this many solves, 10 in the code
    MaxEdits      \* bound: calls begun

ASSUME ChallengesAssumption ==
    /\ Created \subseteq Scorings /\ Solves \subseteq Nat /\ Points \subseteq Nat
    /\ Orders \subseteq Nat /\ RecentCap \in Nat /\ MaxEdits \in Nat

VARIABLES
    challenge,    \* the stored document
    edit,         \* what each call asks for, with the document it loaded
    begun         \* calls begun

challengeVars == <<challenge, edit, begun>>

-----------------------------------------------------------------------------

\* Hints and attachments carry the number of the call that added them as _id.
Hints == [id : Nat, order : Orders]

\* recent is the length of recentSolves; flag counts how often its text was hashed;
\* dated stands for publishedAt.
Docs ==
    [scoring : Scorings, solveCount : Int, recent : Nat,
     flag : [text : Flags, hashed : Nat],
     isVisible : BOOLEAN, isActive : BOOLEAN, dated : BOOLEAN,
     hints : Seq(Hints), attachments : SUBSET Nat, version : Nat]

\* value is the new value of the field an update sets, or what is added or removed;
\* of a solve, whether another was counted or taken back since it loaded its copy.
Edits ==
    [op : {"points"}, value : Points, was : Docs]
        \cup [op : {"flag"}, value : Flags, was : Docs]
        \cup [op : {"isVisible", "setVisibility"}, value : BOOLEAN, was : Docs]
        \cup [op : {"addHint"}, value : Hints, was : Docs]
        \cup [op : {"removeHint", "addAttachment", "removeAttachment"}, value : Nat, was : Docs]
        \cup [op : {"delete"}, value : {Idle}, was : Docs]
        \cup [op : {"solve"}, value : BOOLEAN, was : Docs]

ASSUME IdleIsNoEdit == Idle \notin Edits

\* A challenge as createChallenge leaves it, or one that was published and solved.
ChallengesInit ==
    /\ \E s \in Created, n \in Solves, f \in Flags :
        challenge = [scoring |-> s, solveCount |-> n,
                     recent |-> IF n < RecentCap THEN n ELSE RecentCap,
                     flag |-> [text |-> f, hashed |-> 1],
                     isVisible |-> n > 0, isActive |-> TRUE, dated |-> n > 0,
                     hints |-> <<>>, attachments |-> {}, version |-> n]
    /\ edit = [c \in Slots |-> Idle]
    /\ begun = 0

-----------------------------------------------------------------------------
(* Loading the document, with the checks made on it.                        *)

Load(c, op, value) ==
    /\ edit[c] = Idle /\ begun < MaxEdits
    /\ begun' = begun + 1
    /\ edit' = [edit EXCEPT ![c] = [op |-> op, value |-> value, was |-> challenge]]
    /\ UNCHANGED challenge

\* One field at a time; a field that is not in ALLOWED_CHALLENGE_UPDATE_FIELDS, as
\* minPoints, is ignored.
UpdateChallenge(c) ==
    /\ challenge.isActive
    /\ \/ \E p \in Points : Load(c, "points", p)
       \/ \E f \in Flags : Load(c, "flag", f)
       \/ \E v \in BOOLEAN : Load(c, "isVisible", v)

SetVisibility(c) ==
    challenge.isActive /\ \E v \in BOOLEAN : Load(c, "setVisibility", v)

\* findById: a challenge deleted before is deleted again.
DeleteChallenge(c) == Load(c, "delete", Idle)

AddHint(c) ==
    /\ challenge.isActive
    /\ \E o \in Orders :
        /\ \A i \in DOMAIN challenge.hints : challenge.hints[i].order # o
        /\ Load(c, "addHint", [id |-> begun, order |-> o])

RemoveHint(c) ==
    challenge.isActive /\ \E i \in DOMAIN challenge.hints : Load(c, "removeHint", i)

AddAttachment(c) == challenge.isActive /\ Load(c, "addAttachment", begun)

RemoveAttachment(c) ==
    challenge.isActive /\ \E a \in challenge.attachments : Load(c, "removeAttachment", a)

\* A correct flag that is stored: submitFlag loads the challenge before it inserts the
\* submission, and saves that copy after.
Solve(c) ==
    challenge.isActive /\ challenge.isVisible /\ Load(c, "solve", FALSE)

-----------------------------------------------------------------------------
(* Saving it.                                                               *)

At(c, ops) == edit[c] # Idle /\ edit[c].op \in ops

Done(c) == edit' = [edit EXCEPT ![c] = Idle] /\ UNCHANGED begun

\* Mutant of Valid: saved with validateBeforeSave false, as the other calls are.
NotValidated(k) == TRUE

\* The document as the call edited it, where updateChallenge alone validates it.
Valid(k) ==
    /\ k.was.scoring.minPoints <= (IF k.op = "points" THEN k.value ELSE k.was.scoring.points)
    /\ \A i, j \in DOMAIN k.was.hints : k.was.hints[i].order = k.was.hints[j].order => i = j

\* Mutant of UpdateWith: the hook hashes whatever flag the copy has.
UpdateHashing(k, d) ==
    CASE k.op = "points" ->
            [d EXCEPT !.scoring.points = k.value, !.flag.hashed = k.was.flag.hashed + 1]
      [] k.op = "flag" -> [d EXCEPT !.flag = [text |-> k.value, hashed |-> 1]]
      [] OTHER -> [d EXCEPT !.isVisible = k.value, !.dated = @ \/ k.value]

\* Mutant of UpdateWith: the copy is saved whole.
UpdateWhole(k, d) ==
    [k.was EXCEPT !.scoring.points = IF k.op = "points" THEN k.value ELSE @,
                  !.flag = IF k.op = "flag" THEN [text |-> k.value, hashed |-> 1] ELSE @,
                  !.isVisible = IF k.op \in {"points", "flag"} THEN @ ELSE k.value,
                  !.dated = @ \/ (k.op \notin {"points", "flag"} /\ k.value)]

\* The pre("save") hooks hash a flag and date a publication when the field changed.
\* The stored hash is never the text itself, so a flag always changed.
UpdateWith(k, d) ==
    CASE k.op = "points" ->
            IF k.value = k.was.scoring.points THEN d ELSE [d EXCEPT !.scoring.points = k.value]
      [] k.op = "flag" -> [d EXCEPT !.flag = [text |-> k.value, hashed |-> 1]]
      [] OTHER ->
            IF k.value = k.was.isVisible THEN d
            ELSE [d EXCEPT !.isVisible = k.value, !.dated = @ \/ k.value]

SaveUpdate(c) ==
    /\ At(c, {"points", "flag", "isVisible"})
    /\ challenge' = IF Valid(edit[c]) THEN UpdateWith(edit[c], challenge) ELSE challenge
    /\ Done(c)

SaveVisibility(c) ==
    /\ At(c, {"setVisibility"})
    /\ challenge' = UpdateWith(edit[c], challenge)
    /\ Done(c)

SaveDeletion(c) ==
    /\ At(c, {"delete"})
    /\ challenge' = [challenge EXCEPT !.isActive = FALSE,
                                      !.isVisible = @ /\ ~edit[c].was.isVisible]
    /\ Done(c)

\* Mutant of SaveHint: the push leaves the version alone.
SaveHintQuietly(c) ==
    /\ At(c, {"addHint"})
    /\ challenge' = [challenge EXCEPT !.hints = Append(@, edit[c].value)]
    /\ Done(c)

SaveHint(c) ==
    /\ At(c, {"addHint"})
    /\ challenge' = [challenge EXCEPT !.hints = Append(@, edit[c].value), !.version = @ + 1]
    /\ Done(c)

\* A call whose replacement is refused fails with a VersionError.
Refused(k) == challenge.version # k.was.version

Without(s, i) == SubSeq(s, 1, i - 1) \o SubSeq(s, i + 1, Len(s))

SaveHintRemoval(c) ==
    /\ At(c, {"removeHint"})
    /\ challenge' = IF Refused(edit[c]) THEN challenge
                    ELSE [challenge EXCEPT !.hints = Without(edit[c].was.hints, edit[c].value),
                                           !.version = @ + 1]
    /\ Done(c)

SaveAttachment(c) ==
    /\ At(c, {"addAttachment"})
    /\ challenge' = [challenge EXCEPT !.attachments = @ \cup {edit[c].value}, !.version = @ + 1]
    /\ Done(c)

SaveAttachmentRemoval(c) ==
    /\ At(c, {"removeAttachment"})
    /\ challenge' = IF Refused(edit[c]) THEN challenge
                    ELSE [challenge EXCEPT !.attachments = edit[c].was.attachments \ {edit[c].value},
                                           !.version = @ + 1]
    /\ Done(c)

\* What a solve that is counted, or taken back, means for those in flight.
Overtaken ==
    [c \in Slots |-> IF At(c, {"solve"}) THEN [edit[c] EXCEPT !.value = TRUE] ELSE edit[c]]

\* recordSolve counts in its copy and pushes to recentSolves, or replaces the array
\* once it is full.
Counted(k, d) ==
    [d EXCEPT !.solveCount = k.was.solveCount + 1,
              !.recent = IF k.was.recent >= RecentCap THEN RecentCap ELSE @ + 1,
              !.version = @ + 1]

SaveSolve(c) ==
    /\ At(c, {"solve"})
    /\ IF edit[c].was.recent >= RecentCap /\ Refused(edit[c])
       THEN UNCHANGED challenge /\ Done(c)
       ELSE /\ challenge' = Counted(edit[c], challenge)
            /\ edit' = [Overtaken EXCEPT ![c] = Idle]
            /\ UNCHANGED begun

\* deleteSubmission takes a solve back.  Any number of calls may have found the
\* submission before one of them removed it: all it takes is that there was one.
DeleteSolve ==
    /\ challenge.recent > 0 \/ \E c \in Slots : At(c, {"solve"})
    /\ begun < MaxEdits
    /\ begun' = begun + 1
    /\ challenge' = [challenge EXCEPT !.solveCount = @ - 1]
    /\ edit' = Overtaken

ChallengesNext ==
    \/ \E c \in Slots :
        \/ UpdateChallenge(c) \/ SaveUpdate(c)
        \/ SetVisibility(c) \/ SaveVisibility(c)
        \/ DeleteChallenge(c) \/ SaveDeletion(c)
        \/ AddHint(c) \/ SaveHint(c) \/ RemoveHint(c) \/ SaveHintRemoval(c)
        \/ AddAttachment(c) \/ SaveAttachment(c)
        \/ RemoveAttachment(c) \/ SaveAttachmentRemoval(c)
        \/ Solve(c) \/ SaveSolve(c)
    \/ DeleteSolve

-----------------------------------------------------------------------------
(* What stays true of the challenge.                                        *)

Value == CurrentPoints(challenge.scoring, challenge.solveCount)

\* Whatever is edited at once, minPoints stays at most points and the value between
\* the two, a visible challenge has been dated, and a flag is hashed once: the
\* copies that other calls save never hash it again.
ChallengeConsistent ==
    /\ challenge \in Docs
    /\ challenge.scoring.minPoints <= Value /\ Value <= challenge.scoring.points
    /\ challenge.isVisible => challenge.dated
    /\ challenge.flag.hashed = 1

Ends(c, op) == At(c, {op}) /\ edit'[c] = Idle

HintIds(d) == {d.hints[i].id : i \in DOMAIN d.hints}

\* A deletion of a solve lands in the step it begins in.
TakesBack == begun' > begun /\ challenge'.solveCount = challenge.solveCount - 1

\* An edit undoes nothing that other calls wrote since it loaded the document: a
\* deleted challenge stays deleted, a hint or an attachment goes only when a call
\* removes it, the solve count moves only by one for a solve or a deletion of one,
\* and the value rises only when an update sets the points or a solve is deleted.
\* Solves alone undo each other: one that another solve or a deletion has overtaken
\* writes back the count it knew, and with it the value.
Kept ==
    /\ challenge'.isActive => challenge.isActive
    /\ challenge'.solveCount # challenge.solveCount =>
        \/ TakesBack
        \/ \E c \in Slots :
            /\ Ends(c, "solve")
            /\ edit[c].value \/ challenge'.solveCount = challenge.solveCount + 1
    /\ \A h \in HintIds(challenge) \ HintIds(challenge') :
        \E c \in Slots : Ends(c, "removeHint") /\ edit[c].was.hints[edit[c].value].id = h
    /\ \A a \in challenge.attachments \ challenge'.attachments :
        \E c \in Slots : Ends(c, "removeAttachment") /\ edit[c].value = a
    /\ Value' > Value =>
        \/ challenge'.scoring.points > challenge.scoring.points
        \/ TakesBack
        \/ \E c \in Slots : Ends(c, "solve") /\ edit[c].value

ChallengeEditsHold == [][Kept]_challengeVars
=============================================================================
