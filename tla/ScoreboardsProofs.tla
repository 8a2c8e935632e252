------------------------- MODULE ScoreboardsProofs -------------------------
(***************************************************************************)
(* Proofs about the event document (Events) and the stored leaderboards    *)
(* that follow its freeze (Scoreboards).                                   *)
(*                                                                         *)
(* EventInv is the inductive invariant of an event: what each call at work *)
(* will save or count fits the event as it is stored by then.  A step of   *)
(* the boards is a step of the event or leaves it alone (BoardsStepEvent), *)
(* so the same invariant serves both; BoardsInv adds what each             *)
(* recomputation is about to write.                                        *)
(***************************************************************************)
EXTENDS Scoreboards, FiniteSetTheorems, TLAPS

-----------------------------------------------------------------------------
(* The event.  What the copy of a call will send (SaveSound): the flag and    *)
(* the time of the freeze together, dates that were compared, a step of the   *)
(* graph, and challenges from a document that is still the one the version    *)
(* names.  What counts will still add (Comers, TeamsToCome).                  *)

Stamped(d) == d.frozen <=> d.frozenAt # None

SaveSound(c) ==
    LET o == old[c] n == new[c] kind == call[c].kind IN
    /\ o \in EventDocs /\ n \in EventDocs
    /\ Stamped(o) /\ Stamped(n)
    /\ n.frozen = o.frozen => n.frozenAt = o.frozenAt
    /\ n.frozen # o.frozen =>
        kind \in {"freeze", "thaw"} /\ o.status = "active" /\ (n.frozen <=> kind = "freeze")
    /\ n.opensAt # o.opensAt \/ n.closedAt # o.closedAt => Window(n)
    /\ n.status # o.status =>
        kind \in {"transition", "auto"} /\ n.status \in Transitions[o.status]
    /\ n.challenges # o.challenges => kind \in {"add", "remove", "update"}
    /\ kind = "add" => n.challenges # o.challenges
    /\ event # None =>
        /\ o.version <= event.version
        /\ o.version = event.version => o.challenges = event.challenges

CallSound(c) ==
    /\ at[c] = "loaded" => call[c] \in Requests
    /\ at[c] = "loaded" /\ Saves(call[c]) => SaveSound(c)
    /\ at[c] = "saved" => call[c].kind \in {"freeze", "thaw", "registerTeam"}

Comers ==
    {c \in Calls : at[c] = "loaded" /\ call[c].kind \in {"register", "registerTeam"}}
TeamsToCome == {c \in Calls : at[c] = "saved" /\ call[c].kind = "registerTeam"}

EventInv ==
    /\ TypeOK
    /\ \A c \in Calls : CallSound(c)
    /\ event # None =>
        /\ event.max \in capacities
        /\ Stamped(event)
        /\ Window(event) \/ mixed
        /\ event.teams + Cardinality(TeamsToCome) <= event.registered
        /\ 0 \notin capacities =>
            \E m \in capacities :
                event.registered + Cardinality(Comers) < m + Cardinality(Calls)

LEMMA RequestTypes ==
    ASSUME NEW r \in Requests
    PROVE  /\ r.kind \in {"transition", "auto", "delete", "freeze", "thaw", "register",
                          "registerTeam", "add", "remove", "update"}
           /\ r.kind = "transition" => r.to \in Statuses
           /\ r.kind \in {"add", "remove"} => r.set \in SUBSET Challenges
           /\ r.kind = "update" =>
                /\ r.set \in (SUBSET Challenges) \cup {None}
                /\ r.opensAt \in Times \cup {None} /\ r.closedAt \in Times \cup {None}
                /\ r.max \in Capacities \cup {None}
BY DEF Requests, Request

\* What a copy that differs from o in nothing but its status has.
SameDates(n, o) == n.opensAt = o.opensAt /\ n.closedAt = o.closedAt
SameFreeze(n, o) == n.frozen = o.frozen /\ n.frozenAt = o.frozenAt

LEMMA DocTypes ==
    ASSUME NEW d \in EventDocs
    PROVE  /\ d.status \in Statuses /\ d.opensAt \in Times /\ d.closedAt \in Times
           /\ d.early \in BOOLEAN /\ d.challenges \in SUBSET Challenges /\ d.version \in Nat
           /\ d.frozen \in BOOLEAN /\ d.frozenAt \in Times \cup {None}
           /\ d.max \in Capacities /\ d.registered \in Nat /\ d.teams \in Nat
BY DEF EventDocs

LEMMA MovedDoc ==
    ASSUME NEW d \in EventDocs, NEW to \in Statuses
    PROVE  \E n \in EventDocs :
               /\ n = Moved(d, to) /\ n.status = to /\ SameDates(n, d) /\ SameFreeze(n, d)
               /\ n.challenges = d.challenges
<1>1. PICK e \in BOOLEAN :
          e = (d.early \/ (to = "ended" /\ d.status = "active" /\ clock < d.closedAt))
  OBVIOUS
<1>2. PICK n : n = [d EXCEPT !.status = to, !.early = e]
  OBVIOUS
<1>3. n = Moved(d, to)
  BY <1>1, <1>2 DEF Moved, EventDocs
<1>4. n \in EventDocs
  BY <1>2 DEF EventDocs
<1>5. /\ n.status = to /\ SameDates(n, d) /\ SameFreeze(n, d) /\ n.challenges = d.challenges
  BY <1>2 DEF EventDocs, SameDates, SameFreeze
<1> QED
  BY <1>3, <1>4, <1>5

LEMMA FrozenDoc ==
    ASSUME NEW d \in EventDocs, Stamped(d), NEW b \in BOOLEAN, clock \in 0..MaxTime
    PROVE  \E n \in EventDocs :
               /\ n = Frozen(d, b) /\ n.status = d.status /\ SameDates(n, d)
               /\ Stamped(n) /\ n.frozen = b /\ (d.frozen = b => SameFreeze(n, d))
               /\ n.challenges = d.challenges
<1>0. clock \in Times /\ clock # None
  BY EventsAssumption DEF Times
<1>1. CASE d.frozen = b
  BY <1>1 DEF Frozen, SameDates, SameFreeze
<1>2. CASE d.frozen # b
  <2>1. PICK t : t = IF ~b THEN None ELSE IF d.frozenAt = None THEN clock ELSE d.frozenAt
    OBVIOUS
  <2>2. t \in Times \cup {None} /\ (b <=> t # None)
    BY <1>0, <2>1, DocTypes
  <2>3. PICK n : n = [d EXCEPT !.frozen = b, !.frozenAt = t]
    OBVIOUS
  <2>4. n = Frozen(d, b)
    BY <1>2, <2>1, <2>3 DEF Frozen, EventDocs
  <2>5. n \in EventDocs
    BY <2>2, <2>3 DEF EventDocs
  <2>6. /\ n.status = d.status /\ n.opensAt = d.opensAt /\ n.closedAt = d.closedAt
        /\ n.frozen = b /\ n.frozenAt = t /\ n.challenges = d.challenges
    BY <2>3 DEF EventDocs
  <2> QED
    BY <1>2, <2>2, <2>4, <2>5, <2>6 DEF Stamped, SameDates
<1> QED
  BY <1>1, <1>2

LEMMA UpdatedDoc ==
    ASSUME NEW d \in EventDocs, NEW r \in Requests, r.kind = "update"
    PROVE  \E n \in EventDocs :
               /\ n = Updated(d, r) /\ n.status = d.status /\ SameFreeze(n, d)
<1>1. /\ r.set \in (SUBSET Challenges) \cup {None}
      /\ r.opensAt \in Times \cup {None} /\ r.closedAt \in Times \cup {None}
      /\ r.max \in Capacities \cup {None}
  BY RequestTypes
<1>2. PICK opens, closes, set, max :
          /\ opens = Assigned(d.opensAt, r.opensAt) /\ closes = Assigned(d.closedAt, r.closedAt)
          /\ set = Assigned(d.challenges, r.set) /\ max = Assigned(d.max, r.max)
  OBVIOUS
<1>3. /\ opens \in Times /\ closes \in Times /\ set \in SUBSET Challenges /\ max \in Capacities
  BY <1>1, <1>2, DocTypes DEF Assigned
<1>4. PICK n : n = [d EXCEPT !.opensAt = opens, !.closedAt = closes, !.challenges = set,
                             !.max = max]
  OBVIOUS
<1>5. n = Updated(d, r)
  BY <1>2, <1>4 DEF Updated, EventDocs
<1>6. n \in EventDocs
  BY <1>3, <1>4 DEF EventDocs
<1>7. n.status = d.status /\ SameFreeze(n, d)
  BY <1>4 DEF EventDocs, SameFreeze
<1> QED
  BY <1>5, <1>6, <1>7

LEMMA ChallengesDoc ==
    ASSUME NEW d \in EventDocs, NEW set \in SUBSET Challenges
    PROVE  \E n \in EventDocs :
               /\ n = [d EXCEPT !.challenges = set] /\ n.status = d.status
               /\ SameDates(n, d) /\ SameFreeze(n, d) /\ n.challenges = set
<1>1. PICK n : n = [d EXCEPT !.challenges = set]
  OBVIOUS
<1>2. n \in EventDocs
  BY <1>1 DEF EventDocs
<1>3. n.status = d.status /\ SameDates(n, d) /\ SameFreeze(n, d) /\ n.challenges = set
  BY <1>1 DEF EventDocs, SameDates, SameFreeze
<1> QED
  BY <1>1, <1>2, <1>3

\* What a call that is admitted makes of its copy.
Sound(r, o, n) ==
    /\ n \in EventDocs /\ Stamped(n)
    /\ n.frozen = o.frozen => n.frozenAt = o.frozenAt
    /\ n.frozen # o.frozen =>
        r.kind \in {"freeze", "thaw"} /\ o.status = "active" /\ (n.frozen <=> r.kind = "freeze")
    /\ n.opensAt # o.opensAt \/ n.closedAt # o.closedAt => Window(n)
    /\ n.status # o.status =>
        r.kind \in {"transition", "auto"} /\ n.status \in Transitions[o.status]
    /\ n.challenges # o.challenges => r.kind \in {"add", "remove", "update"}
    /\ r.kind = "add" => n.challenges # o.challenges

LEMMA ChangedSound ==
    ASSUME NEW d \in EventDocs, Stamped(d), NEW r \in Requests, Saves(r), Admits(r, d),
           Validates(r) => Window(Changed(r, d)), clock \in 0..MaxTime
    PROVE  Sound(r, d, Changed(r, d))
<1>0. r.kind \in {"transition", "auto", "freeze", "thaw", "add", "remove", "update"}
  BY RequestTypes DEF Saves
<1>1. CASE r.kind = "transition"
  <2>1. r.to \in Statuses /\ r.to \in Transitions[d.status] /\ Changed(r, d) = Moved(d, r.to)
    BY <1>1, RequestTypes DEF Admits, Changed
  <2>2. PICK to \in Statuses : to = r.to
    BY <2>1
  <2>3. PICK n \in EventDocs : /\ n = Moved(d, to) /\ n.status = to /\ SameDates(n, d)
                               /\ SameFreeze(n, d) /\ n.challenges = d.challenges
    BY MovedDoc
  <2>4. Sound(r, d, n)
    BY <1>1, <2>1, <2>2, <2>3 DEF Sound, SameDates, SameFreeze, Stamped
  <2> QED
    BY <2>1, <2>2, <2>3, <2>4
<1>2. CASE r.kind = "auto"
  <2>1. Due(d) # d.status /\ Changed(r, d) = Moved(d, Due(d))
    BY <1>2 DEF Admits, Changed
  <2>2. PICK to : to = Due(d)
    OBVIOUS
  <2>3. \/ d.status = "scheduled" /\ to = "active"
        \/ d.status = "active" /\ to = "ended"
    BY <2>1, <2>2 DEF Due
  <2>4. to \in Statuses /\ to \in Transitions[d.status]
    BY <2>3 DEF Statuses, Transitions
  <2>5. PICK n \in EventDocs : /\ n = Moved(d, to) /\ n.status = to /\ SameDates(n, d)
                               /\ SameFreeze(n, d) /\ n.challenges = d.challenges
    BY <2>4, MovedDoc
  <2>6. Sound(r, d, n)
    BY <1>2, <2>4, <2>5 DEF Sound, SameDates, SameFreeze, Stamped
  <2> QED
    BY <2>1, <2>2, <2>5, <2>6
<1>3. CASE r.kind \in {"freeze", "thaw"}
  <2>1. PICK b \in BOOLEAN : b = (r.kind = "freeze")
    OBVIOUS
  <2>2. Changed(r, d) = Frozen(d, b) /\ d.status = "active"
    BY <1>3, <2>1 DEF Changed, Admits
  <2>3. PICK n \in EventDocs :
            /\ n = Frozen(d, b) /\ n.status = d.status /\ SameDates(n, d)
            /\ Stamped(n) /\ n.frozen = b /\ (d.frozen = b => SameFreeze(n, d))
            /\ n.challenges = d.challenges
    BY FrozenDoc
  <2>4. Sound(r, d, n)
    BY <1>3, <2>1, <2>2, <2>3 DEF Sound, SameDates, SameFreeze
  <2> QED
    BY <2>2, <2>3, <2>4
<1>4. CASE r.kind \in {"add", "remove"}
  <2>1. PICK set : set = IF r.kind = "add" THEN d.challenges \cup r.set ELSE d.challenges \ r.set
    OBVIOUS
  <2>2. r.set \in SUBSET Challenges /\ d.challenges \in SUBSET Challenges
    BY <1>4, RequestTypes, DocTypes
  <2>3. set \in SUBSET Challenges
    BY <2>1, <2>2
  <2>4. r.kind = "add" => set # d.challenges
    BY <2>1 DEF Admits
  <2>5. PICK n \in EventDocs :
               /\ n = [d EXCEPT !.challenges = set] /\ n.status = d.status
               /\ SameDates(n, d) /\ SameFreeze(n, d) /\ n.challenges = set
    BY <2>3, ChallengesDoc
  <2>6. Changed(r, d) = n
    BY <1>4, <2>1, <2>5 DEF Changed
  <2>7. Sound(r, d, n)
    BY <1>4, <2>4, <2>5 DEF Sound, SameDates, SameFreeze, Stamped
  <2> QED
    BY <2>6, <2>7
<1>5. CASE r.kind = "update"
  <2>1. PICK n \in EventDocs : /\ n = Updated(d, r) /\ n.status = d.status /\ SameFreeze(n, d)
    BY <1>5, UpdatedDoc
  <2>2. Changed(r, d) = n /\ Window(n)
    BY <1>5, <2>1 DEF Changed, Validates
  <2>3. Sound(r, d, n)
    BY <1>5, <2>1, <2>2 DEF Sound, SameFreeze, Stamped
  <2> QED
    BY <2>2, <2>3
<1> QED
  BY <1>0, <1>1, <1>2, <1>3, <1>4, <1>5

LEMMA CallSets ==
    ASSUME NEW S \in SUBSET Calls
    PROVE  /\ Cardinality(S) \in Nat /\ Cardinality(Calls) \in Nat
           /\ Cardinality(S) <= Cardinality(Calls)
           /\ \A T \in SUBSET S : Cardinality(T) \in Nat /\ Cardinality(T) <= Cardinality(S)
           /\ \A c \in Calls \ S : Cardinality(S \cup {c}) = Cardinality(S) + 1
           /\ \A c \in S : Cardinality(S \ {c}) = Cardinality(S) - 1
<1>1. IsFiniteSet(Calls) /\ IsFiniteSet(S)
  BY EventsAssumption, FS_Subset
<1>2. /\ Cardinality(S) \in Nat /\ Cardinality(Calls) \in Nat
      /\ Cardinality(S) <= Cardinality(Calls)
  BY <1>1, FS_CardinalityType, FS_Subset
<1>3. \A T \in SUBSET S : Cardinality(T) \in Nat /\ Cardinality(T) <= Cardinality(S)
  BY <1>1, FS_CardinalityType, FS_Subset
<1>4. \A c \in Calls \ S : Cardinality(S \cup {c}) = Cardinality(S) + 1
  BY <1>1, FS_AddElement
<1>5. \A c \in S : Cardinality(S \ {c}) = Cardinality(S) - 1
  BY <1>1, FS_RemoveElement
<1> QED
  BY <1>2, <1>3, <1>4, <1>5

\* The calls other than c stay as they are.
OthersStay(c) ==
    \A b \in Calls \ {c} :
        call'[b] = call[b] /\ at'[b] = at[b] /\ old'[b] = old[b] /\ new'[b] = new[b]

\* A version names one set of challenges.
VersionNames ==
    event' # None =>
        /\ event # None /\ event.version <= event'.version
        /\ event'.version = event.version => event'.challenges = event.challenges

LEMMA OthersSound ==
    ASSUME EventInv, NEW c, NEW b \in Calls, b # c, OthersStay(c), VersionNames,
           event' \in EventDocs \cup {None}
    PROVE  CallSound(b)'
<1>1. CallSound(b)
  BY DEF EventInv
<1>2. call'[b] = call[b] /\ at'[b] = at[b] /\ old'[b] = old[b] /\ new'[b] = new[b]
  BY DEF OthersStay
<1>3. ASSUME at[b] = "loaded", Saves(call[b]) PROVE SaveSound(b)'
  <2>1. SaveSound(b)
    BY <1>1, <1>3 DEF CallSound
  <2>2. ASSUME event' # None
        PROVE  /\ old[b].version <= event'.version
               /\ old[b].version = event'.version => old[b].challenges = event'.challenges
    <3>1. /\ old[b].version \in Nat /\ event.version \in Nat /\ event'.version \in Nat
      BY <2>1, <2>2, DocTypes DEF SaveSound, VersionNames, EventInv, TypeOK
    <3>2. /\ old[b].version <= event.version
          /\ old[b].version = event.version => old[b].challenges = event.challenges
      BY <2>1, <2>2 DEF SaveSound, VersionNames
    <3> QED
      BY <2>2, <3>1, <3>2 DEF VersionNames
  <2> QED
    BY <1>2, <2>1, <2>2 DEF SaveSound
<1> QED
  BY <1>1, <1>2, <1>3 DEF CallSound

LEMMA LeaveTyped ==
    ASSUME TypeOK, NEW c \in Calls, Leave(c)
    PROVE  /\ call' \in [Calls -> Requests \cup {None}]
           /\ at' \in [Calls -> {"idle", "loaded", "saved"}]
           /\ old' \in [Calls -> EventDocs \cup {None}]
           /\ new' \in [Calls -> EventDocs \cup {None}]
           /\ at'[c] = "idle" /\ OthersStay(c) /\ CallSound(c)'
           /\ Comers' = Comers \ {c} /\ TeamsToCome' = TeamsToCome \ {c}
<1>1. /\ call' \in [Calls -> Requests \cup {None}]
      /\ at' \in [Calls -> {"idle", "loaded", "saved"}]
      /\ old' \in [Calls -> EventDocs \cup {None}]
      /\ new' \in [Calls -> EventDocs \cup {None}]
  BY DEF TypeOK, Leave
<1>2. at'[c] = "idle" /\ OthersStay(c)
  BY DEF TypeOK, Leave, OthersStay
<1>3. CallSound(c)'
  BY <1>2 DEF CallSound
<1>4. Comers' = Comers \ {c} /\ TeamsToCome' = TeamsToCome \ {c}
  BY <1>2 DEF Comers, TeamsToCome, OthersStay
<1> QED
  BY <1>1, <1>2, <1>3, <1>4

\* What the stored event keeps while the counts of it do not change.
LEMMA CountsKept ==
    ASSUME EventInv, event # None, event' # None,
           Comers' \subseteq Comers, TeamsToCome' \subseteq TeamsToCome,
           event'.registered = event.registered, event'.teams = event.teams,
           capacities \subseteq capacities'
    PROVE  /\ event'.teams + Cardinality(TeamsToCome') <= event'.registered
           /\ 0 \notin capacities' =>
                \E m \in capacities' :
                    event'.registered + Cardinality(Comers') < m + Cardinality(Calls)
<1>1. event \in EventDocs /\ event.registered \in Nat /\ event.teams \in Nat
  BY DocTypes DEF EventInv, TypeOK
<1>2. /\ Cardinality(Comers) \in Nat /\ Cardinality(Comers') \in Nat
      /\ Cardinality(Comers') <= Cardinality(Comers) /\ Cardinality(Calls) \in Nat
      /\ Cardinality(TeamsToCome) \in Nat /\ Cardinality(TeamsToCome') \in Nat
      /\ Cardinality(TeamsToCome') <= Cardinality(TeamsToCome)
  <2>1. Comers \in SUBSET Calls /\ TeamsToCome \in SUBSET Calls
    BY DEF Comers, TeamsToCome
  <2> QED
    BY <2>1, CallSets
<1>3. event.teams + Cardinality(TeamsToCome) <= event.registered
  BY DEF EventInv
<1>4. ASSUME 0 \notin capacities'
      PROVE  \E m \in capacities' :
                 event'.registered + Cardinality(Comers') < m + Cardinality(Calls)
  <2>1. PICK m \in capacities : event.registered + Cardinality(Comers) < m + Cardinality(Calls)
    BY <1>4 DEF EventInv
  <2>2. m \in Nat
    BY <2>1, EventsAssumption DEF EventInv, TypeOK
  <2>3. event'.registered + Cardinality(Comers') < m + Cardinality(Calls)
    BY <1>1, <1>2, <2>1, <2>2
  <2> QED
    BY <2>1, <2>3
<1> QED
  BY <1>1, <1>2, <1>3, <1>4

\* The document stays as it is, or is gone, and no call is added.
LEMMA EventStays ==
    ASSUME EventInv, NEW c \in Calls, Leave(c), event' \in {event, None},
           clock' = clock, made' = made, capacities' = capacities, mixed' = mixed
    PROVE  EventInv'
<1>1. TypeOK
  BY DEF EventInv
<1>2. /\ call' \in [Calls -> Requests \cup {None}]
      /\ at' \in [Calls -> {"idle", "loaded", "saved"}]
      /\ old' \in [Calls -> EventDocs \cup {None}]
      /\ new' \in [Calls -> EventDocs \cup {None}]
      /\ at'[c] = "idle" /\ OthersStay(c) /\ CallSound(c)'
      /\ Comers' \subseteq Comers /\ TeamsToCome' \subseteq TeamsToCome
  BY <1>1, LeaveTyped
<1>3. TypeOK'
  BY <1>1, <1>2 DEF TypeOK
<1>4. VersionNames
  <2>1. event' # None => event' = event /\ event.version \in Nat
    BY DocTypes DEF EventInv, TypeOK
  <2> QED
    BY <2>1 DEF VersionNames
<1>5. \A b \in Calls : CallSound(b)'
  BY <1>1, <1>2, <1>3, <1>4, OthersSound DEF TypeOK
<1>6. ASSUME event' # None
      PROVE  /\ event.teams + Cardinality(TeamsToCome') <= event.registered
             /\ 0 \notin capacities' =>
                  \E m \in capacities' :
                      event.registered + Cardinality(Comers') < m + Cardinality(Calls)
  BY <1>2, <1>6, CountsKept
<1>7. event' # None => event' = event
  OBVIOUS
<1> QED
  BY <1>3, <1>5, <1>6, <1>7 DEF EventInv, Stamped, Window

LEMMA LoadKeeps ==
    ASSUME EventInv, NEW c \in Calls, NEW r \in Requests, Load(c, r)
    PROVE  EventInv'
<1>1. /\ at[c] = "idle" /\ made < MaxCalls /\ event # None /\ Admits(r, event)
      /\ Validates(r) => Window(Changed(r, event))
      /\ call' = [call EXCEPT ![c] = r] /\ at' = [at EXCEPT ![c] = "loaded"]
      /\ old' = [old EXCEPT ![c] = IF Saves(r) THEN event ELSE None]
      /\ new' = [new EXCEPT ![c] = IF Saves(r) THEN Changed(r, event) ELSE None]
      /\ made' = made + 1 /\ event' = event /\ clock' = clock /\ capacities' = capacities
      /\ mixed' = mixed
  BY DEF Load
<1>2. TypeOK /\ event \in EventDocs /\ Stamped(event) /\ clock \in 0..MaxTime
  BY <1>1 DEF EventInv, TypeOK
<1>3. Saves(r) => Sound(r, event, Changed(r, event))
  BY <1>1, <1>2, ChangedSound
<1>4. TypeOK'
  <2>1. made' \in 0..MaxCalls
    BY <1>1, <1>2, EventsAssumption DEF TypeOK
  <2>2. /\ (IF Saves(r) THEN event ELSE None) \in EventDocs \cup {None}
        /\ (IF Saves(r) THEN Changed(r, event) ELSE None) \in EventDocs \cup {None}
    BY <1>2, <1>3 DEF Sound
  <2> QED
    BY <1>1, <1>2, <2>1, <2>2 DEF TypeOK
<1>5. /\ OthersStay(c) /\ call'[c] = r /\ at'[c] = "loaded"
      /\ Saves(r) => old'[c] = event /\ new'[c] = Changed(r, event)
  BY <1>1, <1>2 DEF TypeOK, OthersStay
<1>6. CallSound(c)'
  <2>1. ASSUME Saves(r) PROVE SaveSound(c)'
    <3>1. event.version \in Nat
      BY <1>2, DocTypes
    <3> QED
      BY <1>1, <1>2, <1>3, <1>5, <2>1, <3>1 DEF Sound, SaveSound
  <2> QED
    BY <1>5, <2>1 DEF CallSound
<1>7. VersionNames
  <2>1. event.version \in Nat
    BY <1>2, DocTypes
  <2> QED
    BY <1>1, <2>1 DEF VersionNames
<1>8. \A b \in Calls : CallSound(b)'
  BY <1>4, <1>5, <1>6, <1>7, OthersSound DEF TypeOK
<1>9. TeamsToCome' = TeamsToCome
  BY <1>1, <1>5 DEF TeamsToCome, OthersStay
<1>10. ASSUME 0 \notin capacities'
       PROVE  \E m \in capacities' :
                  event'.registered + Cardinality(Comers') < m + Cardinality(Calls)
  <2>1. CASE r.kind \in {"register", "registerTeam"}
    <3>1. ~ Full(event) /\ event.max \in capacities
      BY <1>1, <2>1 DEF Admits, EventInv
    <3>2. event.max \in Nat /\ event.registered \in Nat /\ event.max # 0
      BY <1>1, <1>2, <1>10, <3>1, DocTypes, EventsAssumption
    <3>3. event.registered < event.max
      BY <3>1, <3>2 DEF Full
    <3>4. Comers' \in SUBSET Calls
      BY DEF Comers
    <3>5. /\ Cardinality(Comers') \in Nat /\ Cardinality(Calls) \in Nat
          /\ Cardinality(Comers') <= Cardinality(Calls)
      BY <3>4, CallSets
    <3>6. event.registered + Cardinality(Comers') < event.max + Cardinality(Calls)
      BY <3>2, <3>3, <3>5
    <3> QED
      BY <1>1, <3>1, <3>6
  <2>2. CASE r.kind \notin {"register", "registerTeam"}
    <3>1. Comers' \subseteq Comers
      BY <1>5, <2>2 DEF Comers, OthersStay
    <3> QED
      BY <1>1, <1>9, <1>10, <3>1, CountsKept
  <2> QED
    BY <2>1, <2>2
<1> QED
  BY <1>1, <1>4, <1>8, <1>9, <1>10 DEF EventInv, Stamped, Window

LEMMA CountKeeps ==
    ASSUME EventInv, NEW c \in Calls, CountRegistration(c)
    PROVE  EventInv'
<1>1. /\ at[c] = "loaded" /\ call[c].kind \in {"register", "registerTeam"}
      /\ event' = Incremented(event)
      /\ clock' = clock /\ made' = made /\ capacities' = capacities /\ mixed' = mixed
  BY DEF CountRegistration
<1>2. TypeOK /\ event \in EventDocs \cup {None}
  BY DEF EventInv, TypeOK
<1>3. /\ call' \in [Calls -> Requests \cup {None}]
      /\ at' \in [Calls -> {"idle", "loaded", "saved"}]
      /\ old' \in [Calls -> EventDocs \cup {None}]
      /\ new' \in [Calls -> EventDocs \cup {None}]
      /\ OthersStay(c) /\ CallSound(c)'
      /\ Comers' = Comers \ {c}
      /\ TeamsToCome' \subseteq TeamsToCome \cup {c}
  <2>1. CASE Leave(c)
    BY <1>2, <2>1, LeaveTyped
  <2>2. CASE /\ call[c].kind = "registerTeam"
             /\ at' = [at EXCEPT ![c] = "saved"] /\ call' = call /\ old' = old /\ new' = new
    <3>1. /\ at' \in [Calls -> {"idle", "loaded", "saved"}] /\ at'[c] = "saved" /\ OthersStay(c)
      BY <1>2, <2>2 DEF TypeOK, OthersStay
    <3>2. CallSound(c)'
      BY <2>2, <3>1 DEF CallSound
    <3>3. Comers' = Comers \ {c} /\ TeamsToCome' \subseteq TeamsToCome \cup {c}
      BY <3>1 DEF Comers, TeamsToCome, OthersStay
    <3> QED
      BY <1>2, <2>2, <3>1, <3>2, <3>3 DEF TypeOK
  <2> QED
    BY <2>1, <2>2 DEF CountRegistration
<1>4. event = None => event' = None
  BY <1>1 DEF Incremented
<1>5. ASSUME event # None
      PROVE  /\ event' \in EventDocs /\ event'.registered = event.registered + 1
             /\ event'.teams = event.teams /\ event'.version = event.version
             /\ event'.challenges = event.challenges /\ event'.max = event.max
             /\ event'.frozen = event.frozen /\ event'.frozenAt = event.frozenAt
             /\ event'.opensAt = event.opensAt /\ event'.closedAt = event.closedAt
  <2>1. event \in EventDocs /\ event' = [event EXCEPT !.registered = @ + 1]
    BY <1>1, <1>2, <1>5 DEF Incremented
  <2>2. event.registered + 1 \in Nat
    BY <2>1, DocTypes
  <2> QED
    BY <2>1, <2>2 DEF EventDocs
<1>6. event' \in EventDocs \cup {None}
  BY <1>4, <1>5
<1>7. TypeOK'
  BY <1>1, <1>2, <1>3, <1>6 DEF TypeOK
<1>8. VersionNames
  BY <1>2, <1>4, <1>5, DocTypes DEF VersionNames
<1>9. \A b \in Calls : CallSound(b)'
  BY <1>3, <1>6, <1>8, OthersSound
<1>10. ASSUME event' # None
       PROVE  /\ event'.teams + Cardinality(TeamsToCome') <= event'.registered
              /\ 0 \notin capacities' =>
                   \E m \in capacities' :
                       event'.registered + Cardinality(Comers') < m + Cardinality(Calls)
  <2>1. /\ event # None /\ event \in EventDocs
        /\ event.registered \in Nat /\ event.teams \in Nat
        /\ event'.registered = event.registered + 1 /\ event'.teams = event.teams
    BY <1>2, <1>4, <1>5, <1>10, DocTypes
  <2>2. Comers \in SUBSET Calls /\ TeamsToCome \in SUBSET Calls /\ c \in Comers
        /\ TeamsToCome \cup {c} \in SUBSET Calls /\ c \notin TeamsToCome
    BY <1>1 DEF Comers, TeamsToCome
  <2>3. /\ Cardinality(Comers) \in Nat /\ Cardinality(Comers') = Cardinality(Comers) - 1
        /\ Cardinality(Calls) \in Nat
    BY <1>3, <2>2, CallSets
  <2>4. /\ Cardinality(TeamsToCome') \in Nat /\ Cardinality(TeamsToCome) \in Nat
        /\ Cardinality(TeamsToCome') <= Cardinality(TeamsToCome) + 1
    <3>1. Cardinality(TeamsToCome \cup {c}) = Cardinality(TeamsToCome) + 1
      BY <2>2, CallSets
    <3> QED
      BY <1>3, <2>2, <3>1, CallSets
  <2>5. event.teams + Cardinality(TeamsToCome) <= event.registered
    BY <2>1 DEF EventInv
  <2>6. ASSUME 0 \notin capacities
        PROVE  \E m \in capacities :
                   event'.registered + Cardinality(Comers') < m + Cardinality(Calls)
    <3>1. PICK m \in capacities : event.registered + Cardinality(Comers) < m + Cardinality(Calls)
      BY <2>1, <2>6 DEF EventInv
    <3>2. m \in Nat
      BY <1>2, <3>1, EventsAssumption DEF TypeOK
    <3>3. event'.registered + Cardinality(Comers') < m + Cardinality(Calls)
      BY <2>1, <2>3, <3>1, <3>2
    <3> QED
      BY <3>1, <3>3
  <2>7. event'.teams + Cardinality(TeamsToCome') <= event'.registered
    BY <2>1, <2>4, <2>5
  <2> QED
    BY <1>1, <2>6, <2>7
<1>11. event' # None => event # None
  BY <1>4
<1> QED
  BY <1>1, <1>5, <1>7, <1>9, <1>10, <1>11 DEF EventInv, Stamped, Window

LEMMA CountTeamKeeps ==
    ASSUME EventInv, NEW c \in Calls, CountTeam(c)
    PROVE  EventInv'
<1>1. /\ at[c] = "saved" /\ call[c].kind = "registerTeam" /\ Leave(c)
      /\ event' = IF event = None THEN None ELSE [event EXCEPT !.teams = @ + 1]
      /\ clock' = clock /\ made' = made /\ capacities' = capacities /\ mixed' = mixed
  BY DEF CountTeam
<1>2. TypeOK /\ event \in EventDocs \cup {None}
  BY DEF EventInv, TypeOK
<1>3. /\ call' \in [Calls -> Requests \cup {None}]
      /\ at' \in [Calls -> {"idle", "loaded", "saved"}]
      /\ old' \in [Calls -> EventDocs \cup {None}]
      /\ new' \in [Calls -> EventDocs \cup {None}]
      /\ OthersStay(c) /\ CallSound(c)'
      /\ Comers' = Comers \ {c} /\ TeamsToCome' = TeamsToCome \ {c}
  BY <1>1, <1>2, LeaveTyped
<1>4. event = None => event' = None
  BY <1>1
<1>5. ASSUME event # None
      PROVE  /\ event' \in EventDocs /\ event'.registered = event.registered
             /\ event'.teams = event.teams + 1 /\ event'.version = event.version
             /\ event'.challenges = event.challenges /\ event'.max = event.max
             /\ event'.frozen = event.frozen /\ event'.frozenAt = event.frozenAt
             /\ event'.opensAt = event.opensAt /\ event'.closedAt = event.closedAt
  <2>1. event \in EventDocs /\ event' = [event EXCEPT !.teams = @ + 1]
    BY <1>1, <1>2, <1>5
  <2>2. event.teams + 1 \in Nat
    BY <2>1, DocTypes
  <2> QED
    BY <2>1, <2>2 DEF EventDocs
<1>6. event' \in EventDocs \cup {None}
  BY <1>4, <1>5
<1>7. TypeOK'
  BY <1>1, <1>2, <1>3, <1>6 DEF TypeOK
<1>8. VersionNames
  BY <1>2, <1>4, <1>5, DocTypes DEF VersionNames
<1>9. \A b \in Calls : CallSound(b)'
  BY <1>3, <1>6, <1>8, OthersSound
<1>10. ASSUME event' # None
       PROVE  /\ event'.teams + Cardinality(TeamsToCome') <= event'.registered
              /\ 0 \notin capacities' =>
                   \E m \in capacities' :
                       event'.registered + Cardinality(Comers') < m + Cardinality(Calls)
  <2>1. /\ event # None /\ event \in EventDocs
        /\ event.registered \in Nat /\ event.teams \in Nat
        /\ event'.registered = event.registered /\ event'.teams = event.teams + 1
    BY <1>2, <1>4, <1>5, <1>10, DocTypes
  <2>2. Comers' = Comers
    BY <1>1, <1>3 DEF Comers
  <2>3. TeamsToCome \in SUBSET Calls /\ c \in TeamsToCome
    BY <1>1 DEF TeamsToCome
  <2>4. /\ Cardinality(TeamsToCome) \in Nat
        /\ Cardinality(TeamsToCome') = Cardinality(TeamsToCome) - 1
    BY <1>3, <2>3, CallSets
  <2>5. event.teams + Cardinality(TeamsToCome) <= event.registered
    BY <2>1 DEF EventInv
  <2>6. event'.teams + Cardinality(TeamsToCome') <= event'.registered
    BY <2>1, <2>4, <2>5
  <2> QED
    BY <1>1, <2>1, <2>2, <2>6 DEF EventInv
<1>11. event' # None => event # None
  BY <1>4
<1> QED
  BY <1>1, <1>5, <1>7, <1>9, <1>10, <1>11 DEF EventInv, Stamped, Window

\* The document that a save leaves.
LEMMA MergedDoc ==
    ASSUME EventInv, NEW c \in Calls, at[c] = "loaded", Saves(call[c]), event # None, Current(c)
    PROVE  \E d \in EventDocs :
               /\ d = Merged(c) /\ Stamped(d)
               /\ d.registered = event.registered /\ d.teams = event.teams
               /\ d.status = Sent(old[c].status, new[c].status, event.status)
               /\ d.frozen = Sent(old[c].frozen, new[c].frozen, event.frozen)
               /\ Window(event) \/ mixed => Window(d) \/ mixed \/ DatesMix(c)
               /\ event.version <= d.version
               /\ d.version = event.version => d.challenges = event.challenges
               /\ \A x \in event.challenges \ d.challenges : x \in old[c].challenges
<1> DEFINE o == old[c] n == new[c]
<1>1. PICK status, opens, closes, early, set, version, frozen, frozenAt, max :
          /\ status = Sent(o.status, n.status, event.status)
          /\ opens = Sent(o.opensAt, n.opensAt, event.opensAt)
          /\ closes = Sent(o.closedAt, n.closedAt, event.closedAt)
          /\ early = Sent(o.early, n.early, event.early)
          /\ set = IF call[c].kind = "add" THEN event.challenges \cup call[c].set
                   ELSE Sent(o.challenges, n.challenges, event.challenges)
          /\ version = event.version + (IF n.challenges # o.challenges THEN 1 ELSE 0)
          /\ frozen = Sent(o.frozen, n.frozen, event.frozen)
          /\ frozenAt = Sent(o.frozenAt, n.frozenAt, event.frozenAt)
          /\ max = Sent(o.max, n.max, event.max)
  OBVIOUS
<1>2. PICK d : d = [status |-> status, opensAt |-> opens, closedAt |-> closes,
                    early |-> early, challenges |-> set, version |-> version,
                    frozen |-> frozen, frozenAt |-> frozenAt, max |-> max,
                    registered |-> event.registered, teams |-> event.teams]
  OBVIOUS
<1>3. d = Merged(c)
  BY <1>1, <1>2 DEF Merged
<1>4. /\ d.status = status /\ d.opensAt = opens /\ d.closedAt = closes /\ d.challenges = set
      /\ d.version = version /\ d.frozen = frozen /\ d.frozenAt = frozenAt
      /\ d.registered = event.registered /\ d.teams = event.teams
  BY <1>2
<1>5. SaveSound(c)
  BY DEF EventInv, CallSound
<1>6. /\ o \in EventDocs /\ n \in EventDocs /\ event \in EventDocs
      /\ Stamped(o) /\ Stamped(n) /\ Stamped(event)
  BY <1>5 DEF SaveSound, EventInv, TypeOK
<1> HIDE DEF o, n
<1>7. call[c].kind = "add" => call[c].set \in SUBSET Challenges
  <2>1. call[c] \in Requests
    BY DEF EventInv, CallSound
  <2> QED
    BY <2>1, RequestTypes
<1>8. set \in SUBSET Challenges
  BY <1>1, <1>6, <1>7, DocTypes DEF Sent
<1>9. version \in Nat
  BY <1>1, <1>6, DocTypes
<1>10. /\ status \in Statuses /\ opens \in Times /\ closes \in Times /\ early \in BOOLEAN
       /\ frozen \in BOOLEAN /\ frozenAt \in Times \cup {None} /\ max \in Capacities
       /\ event.registered \in Nat /\ event.teams \in Nat
  BY <1>1, <1>6, DocTypes DEF Sent
<1>11. d \in EventDocs
  BY <1>2, <1>8, <1>9, <1>10 DEF EventDocs
<1>12. Stamped(d)
  <2>1. n.frozen = o.frozen => n.frozenAt = o.frozenAt
    BY <1>5 DEF SaveSound, o, n
  <2>2. CASE n.frozen = o.frozen
    BY <1>1, <1>4, <1>6, <2>1, <2>2 DEF Sent, Stamped
  <2>3. CASE n.frozen # o.frozen
    <3>1. n.frozenAt # o.frozenAt
      BY <1>6, <2>3, DocTypes DEF Stamped
    <3> QED
      BY <1>1, <1>4, <1>6, <2>3, <3>1 DEF Sent, Stamped
  <2> QED
    BY <2>2, <2>3
<1>13. ASSUME Window(event), ~ DatesMix(c) PROVE Window(d)
  <2>1. CASE n.opensAt = o.opensAt /\ n.closedAt = o.closedAt
    BY <1>1, <1>4, <1>13, <2>1 DEF Sent, Window
  <2>2. CASE ~(n.opensAt = o.opensAt /\ n.closedAt = o.closedAt)
    <3>1. Window(n)
      BY <1>5, <2>2 DEF SaveSound, o, n
    <3>2. d.opensAt = n.opensAt /\ d.closedAt = n.closedAt
      BY <1>3, <1>13, <2>2 DEF DatesMix, o, n
    <3> QED
      BY <3>1, <3>2 DEF Window
  <2> QED
    BY <2>1, <2>2
<1>14. /\ event.version <= d.version
       /\ d.version = event.version => d.challenges = event.challenges
  <2>1. event.version \in Nat
    BY <1>6, DocTypes
  <2>2. CASE n.challenges = o.challenges
    <3>1. call[c].kind # "add"
      BY <1>5, <2>2 DEF SaveSound, o, n
    <3> QED
      BY <1>1, <1>4, <2>1, <2>2, <3>1 DEF Sent
  <2>3. CASE n.challenges # o.challenges
    BY <1>1, <1>4, <2>1, <2>3
  <2> QED
    BY <2>2, <2>3
<1>15. ASSUME NEW x \in event.challenges \ d.challenges PROVE x \in o.challenges
  <2>1. call[c].kind # "add" /\ n.challenges # o.challenges
    BY <1>1, <1>4, <1>15 DEF Sent
  <2>2. Replaces(c)
    BY <1>5, <2>1 DEF SaveSound, Replaces, o, n
  <2>3. event.version = o.version
    BY <2>2 DEF Current, o
  <2>4. o.challenges = event.challenges
    BY <1>5, <2>3 DEF SaveSound, o
  <2> QED
    BY <1>15, <2>4
<1> QED
  BY <1>1, <1>3, <1>4, <1>11, <1>12, <1>13, <1>14, <1>15 DEF o, n

LEMMA SaveKeeps ==
    ASSUME EventInv, NEW c \in Calls, Save(c)
    PROVE  EventInv'
<1>1. /\ at[c] = "loaded" /\ Saves(call[c]) /\ event # None /\ Current(c)
      /\ event' = Merged(c) /\ capacities' = capacities \cup {event'.max}
      /\ mixed' = (mixed \/ DatesMix(c)) /\ clock' = clock /\ made' = made
  BY DEF Save, Saving
<1>2. TypeOK /\ event \in EventDocs
  BY <1>1 DEF EventInv, TypeOK
<1>3. /\ event' \in EventDocs /\ Stamped(event')
      /\ event'.registered = event.registered /\ event'.teams = event.teams
      /\ Window(event) \/ mixed => Window(event') \/ mixed \/ DatesMix(c)
      /\ event.version <= event'.version
      /\ event'.version = event.version => event'.challenges = event.challenges
  <2>1. PICK d \in EventDocs :
               /\ d = Merged(c) /\ Stamped(d)
               /\ d.registered = event.registered /\ d.teams = event.teams
               /\ Window(event) \/ mixed => Window(d) \/ mixed \/ DatesMix(c)
               /\ event.version <= d.version
               /\ d.version = event.version => d.challenges = event.challenges
    BY <1>1, MergedDoc
  <2>2. event' = d
    BY <1>1, <2>1
  <2> QED
    BY <2>1, <2>2 DEF Stamped, Window
<1>4. /\ call' \in [Calls -> Requests \cup {None}]
      /\ at' \in [Calls -> {"idle", "loaded", "saved"}]
      /\ old' \in [Calls -> EventDocs \cup {None}]
      /\ new' \in [Calls -> EventDocs \cup {None}]
      /\ OthersStay(c) /\ CallSound(c)'
      /\ Comers' \subseteq Comers /\ TeamsToCome' \subseteq TeamsToCome
  <2>1. CASE Leave(c)
    BY <1>2, <2>1, LeaveTyped
  <2>2. CASE /\ call[c].kind \in {"freeze", "thaw"}
             /\ at' = [at EXCEPT ![c] = "saved"] /\ call' = call
             /\ old' = [old EXCEPT ![c] = None] /\ new' = [new EXCEPT ![c] = None]
    <3>1. /\ at' \in [Calls -> {"idle", "loaded", "saved"}] /\ at'[c] = "saved" /\ OthersStay(c)
          /\ old' \in [Calls -> EventDocs \cup {None}]
          /\ new' \in [Calls -> EventDocs \cup {None}]
      BY <1>2, <2>2 DEF TypeOK, OthersStay
    <3>2. CallSound(c)'
      BY <2>2, <3>1 DEF CallSound
    <3>3. Comers' \subseteq Comers /\ TeamsToCome' \subseteq TeamsToCome
      BY <2>2, <3>1 DEF Comers, TeamsToCome, OthersStay
    <3> QED
      BY <1>2, <2>2, <3>1, <3>2, <3>3 DEF TypeOK
  <2> QED
    BY <2>1, <2>2 DEF Save
<1>5. event'.max \in Capacities
  BY <1>3, DocTypes
<1>6. mixed' \in BOOLEAN
  BY <1>1
<1>7. TypeOK'
  BY <1>1, <1>2, <1>3, <1>4, <1>5, <1>6 DEF TypeOK
<1>8. VersionNames
  BY <1>1, <1>3 DEF VersionNames
<1>9. \A b \in Calls : CallSound(b)'
  BY <1>3, <1>4, <1>8, OthersSound
<1>10. ASSUME event' # None
       PROVE  /\ event'.teams + Cardinality(TeamsToCome') <= event'.registered
              /\ 0 \notin capacities' =>
                   \E m \in capacities' :
                       event'.registered + Cardinality(Comers') < m + Cardinality(Calls)
  <2>1. capacities \subseteq capacities'
    BY <1>1
  <2> QED
    BY <1>1, <1>3, <1>4, <1>10, <2>1, CountsKept
<1>11. Window(event') \/ mixed'
  BY <1>1, <1>3 DEF EventInv
<1>12. event'.max \in capacities'
  BY <1>1
<1> QED
  BY <1>3, <1>7, <1>9, <1>10, <1>11, <1>12 DEF EventInv, Stamped, Window

LEMMA EventSame ==
    ASSUME EventInv, event' = event, clock' \in 0..MaxTime, call' = call, at' = at, old' = old,
           new' = new, made' = made, capacities' = capacities, mixed' = mixed
    PROVE  EventInv'
<1>1. TypeOK'
  BY DEF EventInv, TypeOK
<1>2. \A c \in Calls : CallSound(c)'
  <2> SUFFICES ASSUME NEW c \in Calls PROVE CallSound(c)'
    OBVIOUS
  <2>1. CallSound(c)
    BY DEF EventInv
  <2> QED
    BY <2>1 DEF CallSound, SaveSound, Stamped, Window
<1>3. Comers' = Comers /\ TeamsToCome' = TeamsToCome
  BY DEF Comers, TeamsToCome
<1> QED
  BY <1>1, <1>2, <1>3 DEF EventInv, Stamped, Window

LEMMA EventInvStep ==
    ASSUME EventInv, [Next]_vars
    PROVE  EventInv'
<1>1. CASE UNCHANGED vars
  BY <1>1, EventSame DEF vars, EventInv, TypeOK
<1>2. CASE Tick
  <2>1. clock \in 0..MaxTime /\ clock' = clock + 1 /\ clock < MaxTime /\ MaxTime \in Nat
    BY <1>2, EventsAssumption DEF Tick, EventInv, TypeOK
  <2>2. clock' \in 0..MaxTime
    BY <2>1
  <2> QED
    BY <1>2, <2>2, EventSame DEF Tick
<1>3. ASSUME NEW c \in Calls, Operation(c) PROVE EventInv'
  <2>1. CASE \E r \in {q \in Requests : q.kind \in Kinds} : Load(c, r)
    BY <2>1, LoadKeeps
  <2>2. CASE Save(c)
    BY <2>2, SaveKeeps
  <2>3. CASE SetFrozen(c)
    BY <2>3, EventStays DEF SetFrozen
  <2>4. CASE CountRegistration(c)
    BY <2>4, CountKeeps
  <2>5. CASE CountTeam(c)
    BY <2>5, CountTeamKeeps
  <2>6. CASE DeleteEvent(c)
    BY <2>6, EventStays DEF DeleteEvent
  <2>7. CASE Fail(c)
    BY <2>7, EventStays DEF Fail
  <2> QED
    BY <1>3, <2>1, <2>2, <2>3, <2>4, <2>5, <2>6, <2>7 DEF Operation
<1> QED
  BY <1>1, <1>2, <1>3 DEF Next

\* The event as it is created, with nobody at it.
LEMMA EventInvInit ==
    ASSUME NEW status \in Statuses, NEW opens \in Times, NEW closes \in Times, opens < closes,
           NEW set \in SUBSET Challenges, NEW max \in Capacities,
           event = Created(status, opens, closes, set, max), Idle
    PROVE  EventInv
<1>1. /\ event = [status |-> status, opensAt |-> opens, closedAt |-> closes, early |-> FALSE,
                  challenges |-> set, version |-> 0, frozen |-> FALSE, frozenAt |-> None,
                  max |-> max, registered |-> 0, teams |-> 0]
      /\ clock = 0 /\ call = [c \in Calls |-> None] /\ at = [c \in Calls |-> "idle"]
      /\ old = [c \in Calls |-> None] /\ new = [c \in Calls |-> None] /\ made = 0
      /\ capacities = {event.max} /\ mixed = FALSE
  BY DEF Created, Idle
<1>2. event \in EventDocs
  BY <1>1 DEF EventDocs
<1>3. /\ event.max = max /\ event.registered = 0 /\ event.teams = 0 /\ event.frozen = FALSE
      /\ event.frozenAt = None /\ event.opensAt = opens /\ event.closedAt = closes
  BY <1>1
<1>4. MaxTime \in Nat /\ MaxCalls \in Nat /\ max \in Nat
  BY EventsAssumption
<1>5. TypeOK
  <2>1. 0 \in 0..MaxTime /\ 0 \in 0..MaxCalls /\ {event.max} \subseteq Capacities
    BY <1>3, <1>4
  <2>2. /\ call \in [Calls -> Requests \cup {None}]
        /\ at \in [Calls -> {"idle", "loaded", "saved"}]
        /\ old \in [Calls -> EventDocs \cup {None}] /\ new \in [Calls -> EventDocs \cup {None}]
    BY <1>1
  <2>3. clock \in 0..MaxTime /\ made \in 0..MaxCalls /\ capacities \subseteq Capacities
        /\ mixed \in BOOLEAN
    BY <1>1, <2>1
  <2> QED
    BY <1>2, <2>2, <2>3 DEF TypeOK
<1>6. \A c \in Calls : CallSound(c)
  BY <1>1 DEF CallSound
<1>7. Comers = {} /\ TeamsToCome = {} /\ Cardinality({}) = 0
  BY <1>1, FS_EmptySet DEF Comers, TeamsToCome
<1>8. Cardinality(Calls) \in Nat /\ Cardinality(Calls) # 0
  BY EventsAssumption, FS_CardinalityType, FS_EmptySet
<1>9. 0 + Cardinality({}) <= 0 /\ (max # 0 => 0 + Cardinality({}) < max + Cardinality(Calls))
  BY <1>4, <1>7, <1>8
<1> QED
  BY <1>1, <1>3, <1>5, <1>6, <1>7, <1>9 DEF EventInv, Stamped, Window

LEMMA EventInvHolds == Spec => []EventInv
<1>1. Init => EventInv
  <2> SUFFICES ASSUME Init PROVE EventInv
    OBVIOUS
  <2>1. {"draft", "scheduled", "active"} \subseteq Statuses
    BY DEF Statuses
  <2> QED
    BY <2>1, EventInvInit DEF Init
<1>2. EventInv /\ [Next]_vars => EventInv'
  BY EventInvStep
<1> QED
  BY <1>1, <1>2, PTL DEF Spec

\* Whatever calls load and save the event at once: the flag of a freeze and its time are
\* stored together, the capacity is passed by fewer registrations than there are calls,
\* the teams do not outnumber the participants, and the window is crossed only when two
\* updates each changed one date.
THEOREM EventConsistentHolds == Spec => []EventConsistent
<1>1. EventInv => EventConsistent
  <2> SUFFICES ASSUME EventInv PROVE EventConsistent
    OBVIOUS
  <2>1. TypeOK /\ FreezeIsStamped
    BY DEF EventInv, FreezeIsStamped, Stamped
  <2>2. WindowUnlessMixed
    BY DEF EventInv, WindowUnlessMixed, Window
  <2>3. /\ Cardinality(Comers) \in Nat /\ Cardinality(TeamsToCome) \in Nat
        /\ Cardinality(Calls) \in Nat
    <3>1. Comers \in SUBSET Calls /\ TeamsToCome \in SUBSET Calls
      BY DEF Comers, TeamsToCome
    <3> QED
      BY <3>1, CallSets
  <2>4. event # None => event.registered \in Nat /\ event.teams \in Nat
    BY DocTypes DEF EventInv, TypeOK
  <2>5. TeamsWithinRegistered
    <3> SUFFICES ASSUME event # None PROVE event.teams <= event.registered
      BY DEF TeamsWithinRegistered
    <3>1. event.teams + Cardinality(TeamsToCome) <= event.registered
      BY DEF EventInv
    <3> QED
      BY <2>3, <2>4, <3>1
  <2>6. OverbookedByOverlapOnly
    <3> SUFFICES ASSUME event # None, 0 \notin capacities
                 PROVE  \E m \in capacities : event.registered < m + Cardinality(Calls)
      BY DEF OverbookedByOverlapOnly
    <3>1. PICK m \in capacities : event.registered + Cardinality(Comers) < m + Cardinality(Calls)
      BY DEF EventInv
    <3>2. m \in Nat
      BY <3>1, EventsAssumption DEF EventInv, TypeOK
    <3>3. event.registered < m + Cardinality(Calls)
      BY <2>3, <2>4, <3>1, <3>2
    <3> QED
      BY <3>1, <3>3
  <2> QED
    BY <2>1, <2>2, <2>5, <2>6 DEF EventConsistent
<1> QED
  BY <1>1, EventInvHolds, PTL

\* Only a save changes more than the counts of the event.
LEMMA EventMoves ==
    ASSUME EventInv, Next, event # None, event' # None
    PROVE  \/ /\ event'.status = event.status /\ event'.challenges = event.challenges
              /\ event'.frozen = event.frozen
           \/ \E c \in Calls : Save(c)
<1>1. event \in EventDocs
  BY DEF EventInv, TypeOK
<1>2. CASE Tick
  BY <1>2 DEF Tick
<1>3. ASSUME NEW c \in Calls, Operation(c)
      PROVE  \/ /\ event'.status = event.status /\ event'.challenges = event.challenges
                /\ event'.frozen = event.frozen
             \/ Save(c)
  <2>1. CASE \E r \in {q \in Requests : q.kind \in Kinds} : Load(c, r)
    BY <2>1 DEF Load
  <2>3. CASE SetFrozen(c)
    BY <2>3 DEF SetFrozen
  <2>4. CASE CountRegistration(c)
    <3>1. event' = [event EXCEPT !.registered = @ + 1]
      BY <2>4 DEF CountRegistration, Incremented
    <3> QED
      BY <1>1, <3>1 DEF EventDocs
  <2>5. CASE CountTeam(c)
    <3>1. event' = [event EXCEPT !.teams = @ + 1]
      BY <2>5 DEF CountTeam
    <3> QED
      BY <1>1, <3>1 DEF EventDocs
  <2>6. CASE DeleteEvent(c)
    BY <2>6 DEF DeleteEvent
  <2>7. CASE Fail(c)
    BY <2>7 DEF Fail
  <2> QED
    BY <1>3, <2>1, <2>3, <2>4, <2>5, <2>6, <2>7 DEF Operation
<1> QED
  BY <1>2, <1>3 DEF Next

\* The parts of EventEditsHold, for one step.
StatusStep ==
    event # None /\ event' # None /\ event'.status # event.status =>
        \/ event'.status \in Transitions[event.status]
        \/ \E c \in Calls : at[c] = "loaded" /\ at'[c] = "idle"
                          /\ old[c] # None /\ old[c].status # event.status
ChallengesStep ==
    event # None /\ event' # None =>
        \A x \in event.challenges \ event'.challenges :
            \E c \in Calls : at[c] = "loaded" /\ at'[c] = "idle"
                          /\ old[c] # None /\ x \in old[c].challenges
FreezeStep ==
    event # None /\ event.status \in {"ended", "archived"} /\ event.frozen =>
        \/ event' = None \/ event'.frozen
        \/ \E c \in Calls : at[c] = "loaded" /\ call[c].kind = "thaw"
                          /\ old[c].status = "active"

LEMMA SaveHolds ==
    ASSUME EventInv, NEW c \in Calls, Save(c)
    PROVE  StatusStep /\ ChallengesStep /\ FreezeStep
<1>1. /\ at[c] = "loaded" /\ Saves(call[c]) /\ event # None /\ Current(c)
      /\ event' = Merged(c)
      /\ call[c].kind \in {"freeze", "thaw"} \/ Leave(c)
  BY DEF Save, Saving
<1>2. PICK d \in EventDocs :
         /\ d = Merged(c)
         /\ d.status = Sent(old[c].status, new[c].status, event.status)
         /\ \A x \in event.challenges \ d.challenges : x \in old[c].challenges
  BY <1>1, MergedDoc
<1>3. event' = d /\ d.frozen = Sent(old[c].frozen, new[c].frozen, event.frozen)
  BY <1>1, <1>2 DEF Merged
<1>4. SaveSound(c)
  BY <1>1 DEF EventInv, CallSound
<1>5. old[c] # None
  BY <1>4, NoneIsNoEvent DEF SaveSound
<1>6. Leave(c) => at'[c] = "idle"
  BY DEF EventInv, TypeOK, Leave
<1>7. StatusStep
  <2> SUFFICES ASSUME d.status # event.status
               PROVE  \/ d.status \in Transitions[event.status]
                      \/ at[c] = "loaded" /\ at'[c] = "idle"
                         /\ old[c] # None /\ old[c].status # event.status
    BY <1>3 DEF StatusStep
  <2>1. new[c].status # old[c].status /\ d.status = new[c].status
    BY <1>2 DEF Sent
  <2>2. call[c].kind \in {"transition", "auto"} /\ d.status \in Transitions[old[c].status]
    BY <1>4, <2>1 DEF SaveSound
  <2>3. at'[c] = "idle"
    BY <1>1, <1>6, <2>2
  <2> QED
    BY <1>1, <1>5, <2>2, <2>3
<1>8. ChallengesStep
  <2> SUFFICES ASSUME NEW x \in event.challenges \ d.challenges
               PROVE  at[c] = "loaded" /\ at'[c] = "idle"
                      /\ old[c] # None /\ x \in old[c].challenges
    BY <1>3 DEF ChallengesStep
  <2>1. call[c].kind \notin {"freeze", "thaw"}
    <3>1. CASE new[c].challenges = old[c].challenges
      <4>1. call[c].kind # "add"
        BY <1>4, <3>1 DEF SaveSound
      <4>2. d.challenges = event.challenges
        <5>1. d.challenges = Sent(old[c].challenges, new[c].challenges, event.challenges)
          BY <1>2, <4>1 DEF Merged
        <5> QED
          BY <3>1, <5>1 DEF Sent
      <4> QED
        BY <4>2
    <3>2. CASE new[c].challenges # old[c].challenges
      BY <1>4, <3>2 DEF SaveSound
    <3> QED
      BY <3>1, <3>2
  <2> QED
    BY <1>1, <1>2, <1>5, <1>6, <2>1
<1>9. FreezeStep
  <2> SUFFICES ASSUME event.frozen, ~ d.frozen
               PROVE  at[c] = "loaded" /\ call[c].kind = "thaw" /\ old[c].status = "active"
    BY <1>3 DEF FreezeStep
  <2>1. new[c].frozen # old[c].frozen /\ ~ new[c].frozen
    BY <1>3 DEF Sent
  <2> QED
    BY <1>1, <1>4, <2>1 DEF SaveSound
<1> QED
  BY <1>7, <1>8, <1>9

LEMMA EditsHoldStep ==
    ASSUME EventInv, [Next]_vars
    PROVE  [StatusStep]_vars /\ [ChallengesStep]_vars /\ [FreezeStep]_vars
<1>1. CASE UNCHANGED vars
  BY <1>1
<1>2. CASE Next
  <2>1. CASE \E c \in Calls : Save(c)
    BY <2>1, SaveHolds
  <2>2. CASE ~ \E c \in Calls : Save(c)
    <3>1. event # None /\ event' # None =>
            /\ event'.status = event.status /\ event'.challenges = event.challenges
            /\ event'.frozen = event.frozen
      BY <1>2, <2>2, EventMoves
    <3>2. StatusStep /\ ChallengesStep
      BY <3>1 DEF StatusStep, ChallengesStep
    <3>3. FreezeStep
      BY <3>1 DEF FreezeStep
    <3> QED
      BY <3>2, <3>3
  <2> QED
    BY <2>1, <2>2
<1> QED
  BY <1>1, <1>2

\* Whatever saves overlap, and but for a call that had loaded the document before: the
\* status takes only steps of the graph, a freeze outlives the end of its event, and no
\* challenge disappears.
THEOREM EventEditsHoldHolds == Spec => EventEditsHold
<1>1. EventInv /\ [Next]_vars => [StatusStep]_vars /\ [ChallengesStep]_vars /\ [FreezeStep]_vars
  BY EditsHoldStep
<1>2. Spec => [][StatusStep]_vars /\ [][ChallengesStep]_vars /\ [][FreezeStep]_vars
  BY <1>1, EventInvHolds, PTL DEF Spec
<1>3. EventEditsHold <=> [][StatusStep]_vars /\ [][ChallengesStep]_vars /\ [][FreezeStep]_vars
  BY DEF EventEditsHold, StatusFollowsGraphUnlessOvertaken, NoUnseenChallengeDropped,
         FrozenEndStaysFrozen, StatusStep, ChallengesStep, FreezeStep
<1> QED
  BY <1>2, <1>3
-----------------------------------------------------------------------------
(* The boards.  How far a solve has come (SolveSound), and what a             *)
(* recomputation will write (JobSound).                                       *)

SolveSound(s) ==
    /\ stage[s] = "none" <=> stamp[s] = None
    /\ stage[s] # "none" => stamp[s] <= clock
    /\ s \in stored => stage[s] \notin {"none", "stamped"}
    /\ s \in credited => stage[s] \notin {"none", "stamped", "stored"}
    /\ stage[s] \in {"credited", "marked", "unmarked"} => s \in credited
    /\ stage[s] = "gone" => s \notin credited

\* What shows the solves as they are, but for those that were missed.
Fresh(shown, missed) ==
    \A s \in Solves \ missed :
        (stage[s] = "marked" => s \in shown) /\ (stage[s] = "gone" => s \notin shown)

JobSound(v) ==
    /\ \A s \in v.solves : stage[s] # "none"
    /\ v.step \in {"event", "solves"} => v.solves = {}
    /\ v.frozen => v.scope = "event" /\ v.until # None /\ v.among # {}
    /\ v.frozen => \A s \in v.solves : stamp[s] <= v.until
    /\ v.scope = "event" => \A s \in v.solves : stamp[s] <= v.read
    /\ v.scope = "global" => v.step # "event"
    /\ v.scope = "global" /\ v.step \in {"upsert", "insert"} => Fresh(v.solves, v.missed)

BoardSound(d) ==
    /\ \A s \in d.solves : stage[s] # "none"
    /\ d.scope = "event" /\ d.frozen =>
        /\ d.frozenAt # None
        /\ d.raced \/ \A s \in d.solves : stamp[s] <= d.frozenAt
    /\ d.scope = "event" => \A s \in d.solves : stamp[s] <= d.read
    /\ d.scope = "global" /\ ~ d.stale => Fresh(d.solves, d.missed)

Flagging == {c \in Calls : at[c] = "saved" /\ call[c].kind \in {"freeze", "thaw"}}

BoardsInv ==
    /\ BoardsTypeOK
    /\ \A s \in Solves : SolveSound(s)
    /\ \A j \in Jobs : job[j] # None => JobSound(job[j])
    /\ \A b \in Boards : board[b] # None => BoardSound(board[b])
    /\ \A a, b \in BoardsOf("global") : a = b
    /\ torn \/ event = None \/ Flagging # {}
         \/ \A b \in BoardsOf("event") : board[b].frozen = event.frozen


\* Every step of the boards is a step of the event, or leaves the event alone.
LEMMA BoardsStepEvent ==
    ASSUME EventInv, BoardsNext
    PROVE  [Next]_vars /\ clock \in Nat /\ clock' \in Nat /\ clock <= clock'
<1>1. clock \in Nat
  BY EventsAssumption DEF EventInv, TypeOK
<1>2. CASE EventStep
  <2>1. CASE Tick
    BY <1>1, <2>1 DEF Tick, Next
  <2>2. CASE \E c \in Calls :
            \/ \E r \in {q \in Requests : q.kind \in Kinds} : Load(c, r)
            \/ Save(c) \/ CountRegistration(c) \/ CountTeam(c) \/ DeleteEvent(c)
            \/ at[c] = "loaded" /\ Fail(c)
    <3>1. PICK c \in Calls :
            \/ \E r \in {q \in Requests : q.kind \in Kinds} : Load(c, r)
            \/ Save(c) \/ CountRegistration(c) \/ CountTeam(c) \/ DeleteEvent(c)
            \/ at[c] = "loaded" /\ Fail(c)
      BY <2>2
    <3>2. Operation(c)
      BY <3>1 DEF Operation
    <3>3. clock' = clock
      BY <3>1 DEF Load, Save, Saving, CountRegistration, CountTeam, DeleteEvent, Fail
    <3> QED
      BY <1>1, <3>2, <3>3 DEF Next
  <2> QED
    BY <1>2, <2>1, <2>2 DEF EventStep
<1>3. ASSUME NEW c \in Calls, FlagBoards(c) \/ FailToFlag(c)
      PROVE  Next /\ clock' = clock
  BY <1>3 DEF FlagBoards, FailToFlag, SetFrozen, Fail, Operation, Next
<1>4. ASSUME \/ \E c \in Calls : TakeNow(c)
             \/ \E s \in Solves : Solving(s)
             \/ \E j \in Jobs : Recomputing(j)
      PROVE  UNCHANGED vars /\ clock' = clock
  BY <1>4 DEF TakeNow, Solving, Recomputing, vars
<1> QED
  BY <1>1, <1>2, <1>3, <1>4 DEF BoardsNext

LEMMA JobTypes ==
    ASSUME NEW v \in JobStates
    PROVE  /\ v.step \in {"event", "solves", "upsert", "insert"} /\ v.scope \in Scopes
           /\ v.among \in SUBSET Challenges /\ v.frozen \in BOOLEAN
           /\ v.until \in Times \cup {None} /\ v.solves \in SUBSET Solves
           /\ v.missed \in SUBSET Solves /\ v.read \in Times
BY DEF JobStates

LEMMA BoardTypes ==
    ASSUME NEW d \in BoardDocs
    PROVE  /\ d.scope \in Scopes /\ d.solves \in SUBSET Solves /\ d.stale \in BOOLEAN
           /\ d.frozen \in BOOLEAN /\ d.frozenAt \in Times \cup {None}
           /\ d.missed \in SUBSET Solves /\ d.read \in Times /\ d.raced \in BOOLEAN
BY DEF BoardDocs

\* What the solves keep in every step, and what they keep but for Mark.
SolvesMoveOn ==
    \A s \in Solves : stage[s] # "none" => stage'[s] # "none" /\ stamp'[s] = stamp[s]
NothingToMark ==
    \A s \in Solves : stage'[s] \in {"marked", "gone"} => stage'[s] = stage[s]

LEMMA JobStays ==
    ASSUME NEW v \in JobStates, JobSound(v), SolvesMoveOn, NothingToMark
    PROVE  JobSound(v)'
<1>1. v.solves \in SUBSET Solves
  BY JobTypes
<1>2. (\A s \in v.solves : stage[s] # "none")'
  BY <1>1 DEF JobSound, SolvesMoveOn
<1>3. /\ v.frozen => \A s \in v.solves : stamp'[s] <= v.until
      /\ v.scope = "event" => \A s \in v.solves : stamp'[s] <= v.read
  BY <1>1 DEF JobSound, SolvesMoveOn
<1>4. Fresh(v.solves, v.missed) => Fresh(v.solves, v.missed)'
  BY DEF Fresh, NothingToMark
<1> QED
  BY <1>2, <1>3, <1>4 DEF JobSound

LEMMA BoardStays ==
    ASSUME NEW d \in BoardDocs, BoardSound(d), SolvesMoveOn, NothingToMark
    PROVE  BoardSound(d)'
<1>1. d.solves \in SUBSET Solves
  BY BoardTypes
<1>2. (\A s \in d.solves : stage[s] # "none")'
  BY <1>1 DEF BoardSound, SolvesMoveOn
<1>3. /\ d.scope = "event" /\ d.frozen =>
           d.raced \/ \A s \in d.solves : stamp'[s] <= d.frozenAt
      /\ d.scope = "event" => \A s \in d.solves : stamp'[s] <= d.read
  BY <1>1 DEF BoardSound, SolvesMoveOn
<1>4. Fresh(d.solves, d.missed) => Fresh(d.solves, d.missed)'
  BY DEF Fresh, NothingToMark
<1> QED
  BY <1>2, <1>3, <1>4 DEF BoardSound

\* All jobs and all boards, while none of them changes.
LEMMA JobsStay ==
    ASSUME BoardsInv, job' = job, SolvesMoveOn, NothingToMark
    PROVE  \A j \in Jobs : job'[j] # None => JobSound(job[j])'
<1> SUFFICES ASSUME NEW j \in Jobs, job'[j] # None PROVE JobSound(job[j])'
  OBVIOUS
<1>1. PICK v : v = job[j]
  OBVIOUS
<1>2. v \in JobStates /\ JobSound(v)
  BY <1>1 DEF BoardsInv, BoardsTypeOK
<1>3. JobSound(v)'
  BY <1>2, JobStays
<1>4. job'[j] = v
  BY <1>1
<1> QED
  BY <1>3, <1>4 DEF JobSound

LEMMA BoardsStay ==
    ASSUME BoardsInv, board' = board, SolvesMoveOn, NothingToMark
    PROVE  \A b \in Boards : board'[b] # None => BoardSound(board[b])'
<1> SUFFICES ASSUME NEW b \in Boards, board'[b] # None PROVE BoardSound(board[b])'
  OBVIOUS
<1>1. PICK d : d = board[b]
  OBVIOUS
<1>2. d \in BoardDocs /\ BoardSound(d)
  BY <1>1 DEF BoardsInv, BoardsTypeOK
<1>3. BoardSound(d)'
  BY <1>2, BoardStays
<1>4. board'[b] = d
  BY <1>1
<1> QED
  BY <1>3, <1>4 DEF BoardSound

\* The solves, while they stay as they are and time may pass.
LEMMA SolvesStay ==
    ASSUME BoardsInv, UNCHANGED solveVars, clock \in Nat, clock' \in Nat, clock <= clock'
    PROVE  (\A s \in Solves : SolveSound(s)') /\ SolvesMoveOn /\ NothingToMark
<1>1. stage' = stage /\ stamp' = stamp /\ stored' = stored /\ credited' = credited
  BY DEF solveVars
<1>2. ASSUME NEW s \in Solves PROVE SolveSound(s)'
  <2>1. SolveSound(s)
    BY DEF BoardsInv
  <2>2. stamp[s] \in Times \cup {None}
    BY DEF BoardsInv, BoardsTypeOK
  <2>3. stage[s] # "none" => stamp[s] <= clock'
    <3>1. ASSUME stage[s] # "none" PROVE stamp[s] \in Nat /\ stamp[s] <= clock
      BY <2>1, <2>2, <3>1, EventsAssumption DEF SolveSound, Times
    <3> QED
      BY <3>1
  <2> QED
    BY <1>1, <2>1, <2>3 DEF SolveSound
<1>3. SolvesMoveOn /\ NothingToMark
  BY <1>1 DEF SolvesMoveOn, NothingToMark
<1> QED
  BY <1>2, <1>3

\* Only the stage of s changes, and only along its way.
LEMMA StageMoves ==
    ASSUME BoardsInv, NEW s \in Solves, NEW from, NEW to, Step(s, from, to),
           to \in {"stamped", "stored", "credited", "marked", "unmarked", "deleting", "gone",
                   "forgotten"}
    PROVE  /\ stage[s] \in from /\ stage'[s] = to
           /\ \A r \in Solves \ {s} : stage'[r] = stage[r]
           /\ stage' \in [Solves -> {"none", "stamped", "stored", "credited", "marked",
                                     "unmarked", "deleting", "gone", "forgotten"}]
BY DEF Step, BoardsInv, BoardsTypeOK

\* What every step of a solve leaves behind, but for the marks.
Keeps(s) ==
    /\ stage' \in [Solves -> {"none", "stamped", "stored", "credited", "marked",
                              "unmarked", "deleting", "gone", "forgotten"}]
    /\ stamp' \in [Solves -> Times \cup {None}]
    /\ stored' \subseteq Solves /\ credited' \subseteq Solves
    /\ \A r \in Solves : SolveSound(r)'
    /\ SolvesMoveOn

LEMMA OtherSolves ==
    ASSUME BoardsInv, NEW r \in Solves, stage'[r] = stage[r], stamp'[r] = stamp[r],
           r \in stored' <=> r \in stored, r \in credited' <=> r \in credited, clock' = clock
    PROVE  SolveSound(r)'
<1>1. SolveSound(r)
  BY DEF BoardsInv
<1> QED
  BY <1>1 DEF SolveSound

LEMMA StampMoves ==
    ASSUME BoardsInv, EventInv, NEW s \in Solves, Stamp(s), clock' = clock
    PROVE  Keeps(s) /\ NothingToMark
<1>1. /\ stage[s] = "none" /\ stage'[s] = "stamped"
      /\ \A r \in Solves \ {s} : stage'[r] = stage[r]
      /\ stage' \in [Solves -> {"none", "stamped", "stored", "credited", "marked",
                                "unmarked", "deleting", "gone", "forgotten"}]
  BY StageMoves DEF Stamp
<1>2. stamp' = [stamp EXCEPT ![s] = clock] /\ stored' = stored /\ credited' = credited
  BY DEF Stamp
<1>3. clock \in Times /\ clock # None /\ clock <= clock
  BY EventsAssumption DEF EventInv, TypeOK, Times
<1>4. /\ stamp' \in [Solves -> Times \cup {None}] /\ stamp'[s] = clock
      /\ \A r \in Solves \ {s} : stamp'[r] = stamp[r]
      /\ stored' \subseteq Solves /\ credited' \subseteq Solves
  BY <1>2, <1>3 DEF BoardsInv, BoardsTypeOK
<1>5. SolveSound(s)'
  <2>1. SolveSound(s)
    BY DEF BoardsInv
  <2> QED
    BY <1>1, <1>2, <1>3, <1>4, <2>1 DEF SolveSound
<1>6. ASSUME NEW r \in Solves \ {s} PROVE SolveSound(r)'
  BY <1>1, <1>2, <1>4, OtherSolves
<1>7. SolvesMoveOn /\ NothingToMark
  BY <1>1, <1>4 DEF SolvesMoveOn, NothingToMark
<1> QED
  BY <1>1, <1>4, <1>5, <1>6, <1>7 DEF Keeps

\* The steps after the stamp.
LEMMA LaterMoves ==
    ASSUME BoardsInv, NEW s \in Solves, stamp' = stamp, clock' = clock,
           stage' \in [Solves -> {"none", "stamped", "stored", "credited", "marked",
                                  "unmarked", "deleting", "gone", "forgotten"}],
           stored' \subseteq Solves, credited' \subseteq Solves,
           \A r \in Solves \ {s} :
               /\ stage'[r] = stage[r]
               /\ r \in stored' <=> r \in stored
               /\ r \in credited' <=> r \in credited,
           stage[s] # "none", stage'[s] # "none",
           s \in stored' => stage'[s] \notin {"none", "stamped"},
           s \in credited' => stage'[s] \notin {"none", "stamped", "stored"},
           stage'[s] \in {"credited", "marked", "unmarked"} => s \in credited',
           stage'[s] = "gone" => s \notin credited'
    PROVE  Keeps(s)
<1>1. stamp' \in [Solves -> Times \cup {None}]
  BY DEF BoardsInv, BoardsTypeOK
<1>2. SolveSound(s)'
  <2>1. SolveSound(s)
    BY DEF BoardsInv
  <2> QED
    BY <2>1 DEF SolveSound
<1>3. ASSUME NEW r \in Solves \ {s} PROVE SolveSound(r)'
  BY OtherSolves
<1>4. SolvesMoveOn
  BY DEF SolvesMoveOn
<1> QED
  BY <1>1, <1>2, <1>3, <1>4 DEF Keeps

LEMMA SolveMoves ==
    ASSUME BoardsInv, NEW s \in Solves, clock' = clock,
           Store(s) \/ Credit(s) \/ Mark(s) \/ LoseMark(s) \/ Delete(s) \/ Remove(s) \/ Debit(s)
    PROVE  Keeps(s) /\ (~ Mark(s) => NothingToMark)
<1>1. /\ SolveSound(s) /\ stored \subseteq Solves /\ credited \subseteq Solves
      /\ stage \in [Solves -> {"none", "stamped", "stored", "credited", "marked",
                               "unmarked", "deleting", "gone", "forgotten"}]
  BY DEF BoardsInv, BoardsTypeOK
<1>2. CASE Store(s)
  <2>1. /\ stage[s] = "stamped" /\ stage'[s] = "stored"
        /\ \A r \in Solves \ {s} : stage'[r] = stage[r]
        /\ stage' \in [Solves -> {"none", "stamped", "stored", "credited", "marked",
                                  "unmarked", "deleting", "gone", "forgotten"}]
    BY <1>2, StageMoves DEF Store
  <2>2. stored' = stored \cup {s} /\ credited' = credited /\ stamp' = stamp
    BY <1>2 DEF Store
  <2>3. Keeps(s)
    BY <1>1, <2>1, <2>2, LaterMoves DEF SolveSound
  <2> QED
    BY <2>1, <2>3 DEF NothingToMark
<1>3. CASE Credit(s)
  <2>1. /\ stage[s] = "stored" /\ stage'[s] = "credited"
        /\ \A r \in Solves \ {s} : stage'[r] = stage[r]
        /\ stage' \in [Solves -> {"none", "stamped", "stored", "credited", "marked",
                                  "unmarked", "deleting", "gone", "forgotten"}]
    BY <1>3, StageMoves DEF Credit
  <2>2. stored' = stored /\ credited' = credited \cup {s} /\ stamp' = stamp
    BY <1>3 DEF Credit
  <2>3. Keeps(s)
    BY <1>1, <2>1, <2>2, LaterMoves DEF SolveSound
  <2> QED
    BY <2>1, <2>3 DEF NothingToMark
<1>4. CASE Mark(s)
  <2>1. PICK to \in {"marked", "gone"} :
            \/ to = "marked" /\ Step(s, {"credited"}, to)
            \/ to = "gone" /\ s \notin stored \cup credited /\ Step(s, {"deleting"}, to)
    BY <1>4 DEF Mark
  <2>2. /\ stage'[s] = to
        /\ \/ to = "marked" /\ stage[s] = "credited"
           \/ to = "gone" /\ stage[s] = "deleting" /\ s \notin credited
        /\ \A r \in Solves \ {s} : stage'[r] = stage[r]
        /\ stage' \in [Solves -> {"none", "stamped", "stored", "credited", "marked",
                                  "unmarked", "deleting", "gone", "forgotten"}]
    BY <2>1, StageMoves
  <2>3. stored' = stored /\ credited' = credited /\ stamp' = stamp
    BY <1>4 DEF Mark
  <2>4. Keeps(s)
    BY <1>1, <2>2, <2>3, LaterMoves DEF SolveSound
  <2> QED
    BY <1>4, <2>4
<1>5. CASE LoseMark(s)
  <2>1. PICK to \in {"unmarked", "forgotten"} :
            \/ to = "unmarked" /\ Step(s, {"credited"}, to)
            \/ to = "forgotten" /\ Step(s, {"deleting"}, to)
    BY <1>5 DEF LoseMark
  <2>2. /\ stage'[s] = to
        /\ \/ to = "unmarked" /\ stage[s] = "credited"
           \/ to = "forgotten" /\ stage[s] = "deleting"
        /\ \A r \in Solves \ {s} : stage'[r] = stage[r]
        /\ stage' \in [Solves -> {"none", "stamped", "stored", "credited", "marked",
                                  "unmarked", "deleting", "gone", "forgotten"}]
    BY <2>1, StageMoves
  <2>3. stored' = stored /\ credited' = credited /\ stamp' = stamp
    BY <1>5 DEF LoseMark
  <2>4. Keeps(s)
    BY <1>1, <2>2, <2>3, LaterMoves DEF SolveSound
  <2> QED
    BY <2>2, <2>4 DEF NothingToMark
<1>6. CASE Delete(s)
  <2>1. /\ stage[s] \in {"marked", "unmarked"} /\ stage'[s] = "deleting"
        /\ \A r \in Solves \ {s} : stage'[r] = stage[r]
        /\ stage' \in [Solves -> {"none", "stamped", "stored", "credited", "marked",
                                  "unmarked", "deleting", "gone", "forgotten"}]
    BY <1>6, StageMoves DEF Delete
  <2>2. stored' = stored /\ credited' = credited /\ stamp' = stamp
    BY <1>6 DEF Delete
  <2>3. Keeps(s)
    BY <1>1, <2>1, <2>2, LaterMoves DEF SolveSound
  <2> QED
    BY <2>1, <2>3 DEF NothingToMark
<1>7. CASE Remove(s) \/ Debit(s)
  <2>1. /\ stage[s] = "deleting" /\ stage' = stage /\ stamp' = stamp
        /\ stored' \in {stored, stored \ {s}} /\ credited' \in {credited, credited \ {s}}
    BY <1>7 DEF Remove, Debit
  <2>2. Keeps(s)
    BY <1>1, <2>1, LaterMoves DEF SolveSound
  <2> QED
    BY <2>1, <2>2 DEF NothingToMark
<1> QED
  BY <1>2, <1>3, <1>4, <1>5, <1>6, <1>7

\* A mark makes up for what the boards and the jobs at work do not show.
LEMMA FreshAfterMark ==
    ASSUME NEW s \in Solves, NEW shown, NEW missed, Fresh(shown, missed),
           \A r \in Solves \ {s} : stage'[r] = stage[r]
    PROVE  Fresh(shown, missed \cup {s})'
BY DEF Fresh

LEMMA JobMarked ==
    ASSUME BoardsInv, NEW s \in Solves, Mark(s), clock' = clock, NEW j \in Jobs
    PROVE  /\ job'[j] \in JobStates \cup {None}
           /\ job'[j] # None => JobSound(job[j])'
<1>1. PICK v, w : v = job[j] /\ w = job'[j]
  OBVIOUS
<1>2. w = IF v # None /\ v.scope = "global" /\ v.step \in {"upsert", "insert"}
          THEN [v EXCEPT !.missed = @ \cup {s}] ELSE v
  BY <1>1 DEF Mark, Missing
<1>3. SolvesMoveOn /\ \A r \in Solves \ {s} : stage'[r] = stage[r]
  <2>1. Keeps(s)
    BY SolveMoves
  <2> QED
    BY <2>1 DEF Keeps, Mark, Step, BoardsInv, BoardsTypeOK
<1>4. CASE v = None
  <2>1. w = None
    BY <1>2, <1>4
  <2> QED
    BY <1>1, <2>1
<1>5. CASE v # None
  <2>1. v \in JobStates /\ JobSound(v)
    BY <1>1, <1>5 DEF BoardsInv, BoardsTypeOK
  <2>2. /\ v.step \in {"event", "solves", "upsert", "insert"} /\ v.scope \in Scopes
        /\ v.among \in SUBSET Challenges /\ v.frozen \in BOOLEAN
        /\ v.until \in Times \cup {None} /\ v.solves \in SUBSET Solves
        /\ v.missed \in SUBSET Solves
    BY <2>1, JobTypes
  <2>3. PICK missed \in SUBSET Solves :
            missed = IF v.scope = "global" /\ v.step \in {"upsert", "insert"}
                     THEN v.missed \cup {s} ELSE v.missed
    BY <2>2
  <2>4. w = [v EXCEPT !.missed = missed]
    BY <1>2, <1>5, <2>1, <2>3 DEF JobStates
  <2>5. w \in JobStates
    BY <2>1, <2>4 DEF JobStates
  <2>6. /\ w.step = v.step /\ w.scope = v.scope /\ w.among = v.among /\ w.frozen = v.frozen
        /\ w.until = v.until /\ w.solves = v.solves /\ w.missed = missed
        /\ w.read = v.read
    BY <2>1, <2>4 DEF JobStates
  <2>7. (\A r \in w.solves : stage[r] # "none")'
    BY <1>3, <2>1, <2>2, <2>6 DEF JobSound, SolvesMoveOn
  <2>8. /\ w.frozen => \A r \in w.solves : stamp'[r] <= w.until
        /\ w.scope = "event" => \A r \in w.solves : stamp'[r] <= w.read
    BY <1>3, <2>1, <2>2, <2>6 DEF JobSound, SolvesMoveOn
  <2>9. w.scope = "global" /\ w.step \in {"upsert", "insert"} => Fresh(w.solves, w.missed)'
    <3> SUFFICES ASSUME w.scope = "global", w.step \in {"upsert", "insert"}
                 PROVE  Fresh(w.solves, w.missed)'
      OBVIOUS
    <3>1. Fresh(v.solves, v.missed)
      BY <2>1, <2>6 DEF JobSound
    <3>2. PICK shown, over : shown = v.solves /\ over = v.missed
      OBVIOUS
    <3>3. Fresh(shown, over \cup {s})'
      BY <1>3, <3>1, <3>2, FreshAfterMark
    <3>4. w.solves = shown /\ w.missed = over \cup {s}
      BY <2>3, <2>6, <3>2
    <3> QED
      BY <3>3, <3>4 DEF Fresh
  <2>10. JobSound(w)'
    BY <2>1, <2>6, <2>7, <2>8, <2>9 DEF JobSound
  <2>11. JobSound(job[j])'
    BY <1>1, <2>10 DEF JobSound
  <2> QED
    BY <1>1, <2>5, <2>11
<1> QED
  BY <1>4, <1>5

LEMMA BoardMarked ==
    ASSUME BoardsInv, NEW s \in Solves, Mark(s), clock' = clock, NEW b \in Boards
    PROVE  /\ board'[b] \in BoardDocs \cup {None}
           /\ board'[b] # None => BoardSound(board[b])'
           /\ board[b] = None => board'[b] = None
           /\ board[b] # None =>
                board'[b].scope = board[b].scope /\ board'[b].frozen = board[b].frozen
<1>1. PICK d, e : d = board[b] /\ e = board'[b]
  OBVIOUS
<1>2. e = IF d # None /\ d.scope = "global" /\ ~ d.stale THEN [d EXCEPT !.stale = TRUE] ELSE d
  BY <1>1 DEF Mark, Missing, MarkedBoards, BoardsOf
<1>3. SolvesMoveOn /\ \A r \in Solves \ {s} : stage'[r] = stage[r]
  <2>1. Keeps(s)
    BY SolveMoves
  <2> QED
    BY <2>1 DEF Keeps, Mark, Step, BoardsInv, BoardsTypeOK
<1>4. CASE d = None
  <2>1. e = None
    BY <1>2, <1>4
  <2> QED
    BY <1>1, <1>4, <2>1
<1>5. CASE d # None
  <2>1. d \in BoardDocs /\ BoardSound(d)
    BY <1>1, <1>5 DEF BoardsInv, BoardsTypeOK
  <2>2. /\ d.scope \in Scopes /\ d.solves \in SUBSET Solves /\ d.stale \in BOOLEAN
        /\ d.frozen \in BOOLEAN /\ d.frozenAt \in Times \cup {None}
        /\ d.missed \in SUBSET Solves
    BY <2>1, BoardTypes
  <2>3. PICK stale \in BOOLEAN : stale = (d.stale \/ d.scope = "global")
    OBVIOUS
  <2>4. e = [d EXCEPT !.stale = stale]
    BY <1>2, <1>5, <2>1, <2>2, <2>3 DEF BoardDocs
  <2>5. e \in BoardDocs
    BY <2>1, <2>4 DEF BoardDocs
  <2>6. /\ e.scope = d.scope /\ e.frozen = d.frozen /\ e.frozenAt = d.frozenAt
        /\ e.solves = d.solves /\ e.stale = stale /\ e.read = d.read /\ e.raced = d.raced
    BY <2>1, <2>4 DEF BoardDocs
  <2>7. (\A r \in e.solves : stage[r] # "none")'
    BY <1>3, <2>1, <2>2, <2>6 DEF BoardSound, SolvesMoveOn
  <2>8. /\ e.scope = "event" /\ e.frozen =>
             e.raced \/ \A r \in e.solves : stamp'[r] <= e.frozenAt
        /\ e.scope = "event" => \A r \in e.solves : stamp'[r] <= e.read
    BY <1>3, <2>1, <2>2, <2>6 DEF BoardSound, SolvesMoveOn
  <2>9. BoardSound(e)'
    BY <2>1, <2>3, <2>6, <2>7, <2>8 DEF BoardSound
  <2>10. BoardSound(board[b])'
    BY <1>1, <2>9 DEF BoardSound
  <2> QED
    BY <1>1, <1>5, <2>5, <2>6, <2>10
<1> QED
  BY <1>4, <1>5

\* What the boards say of the freeze, and how many there are.
FlagsAgree ==
    torn \/ event = None \/ Flagging # {}
        \/ \A b \in BoardsOf("event") : board[b].frozen = event.frozen
OneGlobal == \A a, b \in BoardsOf("global") : a = b

LEMMA ShapeStays ==
    ASSUME BoardsInv, event' = event, at' = at, call' = call, torn' = torn,
           \A b \in Boards :
               /\ board[b] = None => board'[b] = None
               /\ board[b] # None =>
                    board'[b].scope = board[b].scope /\ board'[b].frozen = board[b].frozen
    PROVE  FlagsAgree' /\ OneGlobal'
<1>1. FlagsAgree /\ OneGlobal
  BY DEF BoardsInv, FlagsAgree, OneGlobal
<1>2. \A scope \in Scopes, b \in Boards :
         b \in BoardsOf(scope)' => b \in BoardsOf(scope) /\ board'[b].frozen = board[b].frozen
  BY DEF BoardsOf
<1>3. BoardsOf("global")' \subseteq BoardsOf("global")
  BY <1>2 DEF BoardsOf, Scopes
<1>4. \A b \in BoardsOf("event")' : b \in BoardsOf("event") /\ board'[b].frozen = board[b].frozen
  BY <1>2 DEF BoardsOf, Scopes
<1>5. Flagging' = Flagging
  BY DEF Flagging
<1> QED
  BY <1>1, <1>3, <1>4, <1>5 DEF FlagsAgree, OneGlobal

LEMMA SolvingKeeps ==
    ASSUME EventInv, BoardsInv, NEW s \in Solves, Solving(s)
    PROVE  BoardsInv'
<1>1. /\ UNCHANGED vars /\ started' = started /\ torn' = torn /\ clock' = clock /\ now' = now
      /\ event' = event /\ at' = at /\ call' = call
  BY DEF Solving, vars
<1>2. Keeps(s) /\ (~ Mark(s) => NothingToMark)
  BY <1>1, StampMoves, SolveMoves DEF Solving
<1>3. /\ board' \in [Boards -> BoardDocs \cup {None}] /\ job' \in [Jobs -> JobStates \cup {None}]
      /\ \A j \in Jobs : job'[j] # None => JobSound(job[j])'
      /\ \A b \in Boards : board'[b] # None => BoardSound(board[b])'
      /\ FlagsAgree' /\ OneGlobal'
  <2>1. CASE Mark(s)
    <3>1. /\ board' = [b \in Boards |-> board'[b]] /\ job' = [j \in Jobs |-> job'[j]]
      BY <2>1 DEF Mark, Missing
    <3>2. \A j \in Jobs : /\ job'[j] \in JobStates \cup {None}
                          /\ job'[j] # None => JobSound(job[j])'
      BY <1>1, <2>1, JobMarked
    <3>3. \A b \in Boards : /\ board'[b] \in BoardDocs \cup {None}
                            /\ board'[b] # None => BoardSound(board[b])'
      BY <1>1, <2>1, BoardMarked
    <3>4. \A b \in Boards :
              /\ board[b] = None => board'[b] = None
              /\ board[b] # None =>
                   board'[b].scope = board[b].scope /\ board'[b].frozen = board[b].frozen
      BY <1>1, <2>1, BoardMarked
    <3>5. FlagsAgree' /\ OneGlobal'
      BY <1>1, <3>4, ShapeStays
    <3> QED
      BY <3>1, <3>2, <3>3, <3>5
  <2>2. CASE ~ Mark(s)
    <3>1. board' = board /\ job' = job
      BY <2>2 DEF Solving, Stamp, Store, Credit, LoseMark, Delete, Remove, Debit
    <3>2. /\ \A j \in Jobs : job'[j] # None => JobSound(job[j])'
          /\ \A b \in Boards : board'[b] # None => BoardSound(board[b])'
      BY <1>2, <2>2, <3>1, JobsStay, BoardsStay DEF Keeps
    <3>3. FlagsAgree' /\ OneGlobal'
      BY <1>1, <3>1, ShapeStays
    <3> QED
      BY <3>1, <3>2, <3>3 DEF BoardsInv, BoardsTypeOK
  <2> QED
    BY <2>1, <2>2
<1>4. BoardsTypeOK'
  BY <1>1, <1>2, <1>3 DEF Keeps, BoardsInv, BoardsTypeOK
<1>5. \A r \in Solves : SolveSound(r)'
  BY <1>2 DEF Keeps
<1> QED
  BY <1>3, <1>4, <1>5 DEF BoardsInv, FlagsAgree, OneGlobal

\* One job changes and nothing else does.
LEMMA JobBecomes ==
    ASSUME EventInv, BoardsInv, UNCHANGED <<vars, solveVars, now>>, board' = board, torn' = torn,
           started' \in 0..MaxJobs, NEW j \in Jobs, NEW w \in JobStates \cup {None},
           w # None => JobSound(w), job' = [job EXCEPT ![j] = w]
    PROVE  BoardsInv'
<1>1. /\ event' = event /\ at' = at /\ call' = call /\ clock' = clock /\ clock \in Nat
      /\ clock <= clock
  BY EventsAssumption DEF vars, EventInv, TypeOK
<1>2. (\A s \in Solves : SolveSound(s)') /\ SolvesMoveOn /\ NothingToMark
  BY <1>1, SolvesStay
<1>3. \A b \in Boards : board'[b] # None => BoardSound(board[b])'
  BY <1>2, BoardsStay
<1>4. FlagsAgree' /\ OneGlobal'
  BY <1>1, ShapeStays
<1>5. /\ job' \in [Jobs -> JobStates \cup {None}] /\ job'[j] = w
      /\ \A i \in Jobs \ {j} : job'[i] = job[i]
  BY DEF BoardsInv, BoardsTypeOK
<1>6. ASSUME NEW i \in Jobs, job'[i] # None PROVE JobSound(job[i])'
  <2>1. PICK v : v = job'[i]
    OBVIOUS
  <2>2. v \in JobStates /\ JobSound(v)
    <3>1. CASE i = j
      BY <1>5, <1>6, <2>1, <3>1
    <3>2. CASE i # j
      BY <1>5, <1>6, <2>1, <3>2 DEF BoardsInv, BoardsTypeOK
    <3> QED
      BY <3>1, <3>2
  <2>3. JobSound(v)'
    BY <1>2, <2>2, JobStays
  <2> QED
    BY <2>1, <2>3 DEF JobSound
<1>7. BoardsTypeOK'
  BY <1>1, <1>5 DEF solveVars, BoardsInv, BoardsTypeOK
<1> QED
  BY <1>2, <1>3, <1>4, <1>6, <1>7 DEF BoardsInv, FlagsAgree, OneGlobal

\* What is written, over the board b or as a new one.
LEMMA WrittenSound ==
    ASSUME NEW v \in JobStates, JobSound(v), v.step \in {"upsert", "insert"},
           NEW b, b # None => board[b] \in BoardDocs
    PROVE  \E d \in BoardDocs :
               /\ d = Written(v, b) /\ BoardSound(d) /\ d.scope = v.scope /\ d.frozen = v.frozen
<1>1. /\ v.scope \in Scopes /\ v.frozen \in BOOLEAN /\ v.until \in Times \cup {None}
      /\ v.solves \in SUBSET Solves /\ v.missed \in SUBSET Solves /\ v.read \in Times
  BY JobTypes
<1>2. PICK t : t = IF v.among = {} THEN IF b = None THEN None ELSE board[b].frozenAt ELSE v.until
  OBVIOUS
<1>3. t \in Times \cup {None}
  BY <1>1, <1>2, BoardTypes
<1>4. PICK d : d = [scope |-> v.scope, solves |-> v.solves, stale |-> FALSE,
                    frozen |-> v.frozen, frozenAt |-> t, missed |-> v.missed,
                    read |-> v.read, raced |-> FALSE]
  OBVIOUS
<1>5. d = Written(v, b)
  BY <1>2, <1>4 DEF Written
<1>6. d \in BoardDocs
  BY <1>1, <1>3, <1>4 DEF BoardDocs
<1>7. /\ d.scope = v.scope /\ d.frozen = v.frozen /\ d.frozenAt = t /\ d.solves = v.solves
      /\ d.missed = v.missed /\ d.read = v.read
  BY <1>4
<1>8. BoardSound(d)
  <2>1. d.scope = "event" /\ d.frozen => d.frozenAt = v.until
    BY <1>2, <1>7 DEF JobSound
  <2> QED
    BY <1>7, <2>1 DEF JobSound, BoardSound
<1> QED
  BY <1>5, <1>6, <1>7, <1>8

\* A job ends by writing d to the board b.
LEMMA BoardBecomes ==
    ASSUME EventInv, BoardsInv, UNCHANGED <<vars, solveVars, now>>, started' = started,
           NEW j \in Jobs, job[j] # None, NEW b \in Boards, NEW d \in BoardDocs, BoardSound(d),
           d.scope = job[j].scope, d.frozen = job[j].frozen,
           \/ b \in BoardsOf(d.scope)
           \/ board[b] = None /\ (d.scope = "global" => BoardsOf("global") = {}),
           board' = [board EXCEPT ![b] = d], job' = [job EXCEPT ![j] = None],
           torn' = (torn \/ ~Reflects(job[j]))
    PROVE  BoardsInv'
<1>1. /\ event' = event /\ at' = at /\ call' = call /\ clock' = clock /\ clock \in Nat
      /\ clock <= clock
  BY EventsAssumption DEF vars, EventInv, TypeOK
<1>2. (\A s \in Solves : SolveSound(s)') /\ SolvesMoveOn /\ NothingToMark
  BY <1>1, SolvesStay
<1>3. /\ board' \in [Boards -> BoardDocs \cup {None}] /\ board'[b] = d
      /\ \A a \in Boards \ {b} : board'[a] = board[a]
      /\ job' \in [Jobs -> JobStates \cup {None}] /\ job'[j] = None
      /\ \A i \in Jobs \ {j} : job'[i] = job[i]
  BY DEF BoardsInv, BoardsTypeOK
<1>4. ASSUME NEW i \in Jobs, job'[i] # None PROVE JobSound(job[i])'
  <2>1. PICK v : v = job'[i]
    OBVIOUS
  <2>2. v \in JobStates /\ JobSound(v)
    BY <1>3, <1>4, <2>1 DEF BoardsInv, BoardsTypeOK
  <2>3. JobSound(v)'
    BY <1>2, <2>2, JobStays
  <2> QED
    BY <2>1, <2>3 DEF JobSound
<1>5. ASSUME NEW a \in Boards, board'[a] # None PROVE BoardSound(board[a])'
  <2>1. PICK e : e = board'[a]
    OBVIOUS
  <2>2. e \in BoardDocs /\ BoardSound(e)
    <3>1. CASE a = b
      BY <1>3, <2>1, <3>1
    <3>2. CASE a # b
      BY <1>3, <1>5, <2>1, <3>2 DEF BoardsInv, BoardsTypeOK
    <3> QED
      BY <3>1, <3>2
  <2>3. BoardSound(e)'
    BY <1>2, <2>2, BoardStays
  <2> QED
    BY <2>1, <2>3 DEF BoardSound
<1>6. OneGlobal'
  <2>1. ASSUME NEW a \in Boards, a \in BoardsOf("global")'
        PROVE  a \in BoardsOf("global") \/ (a = b /\ d.scope = "global")
    BY <1>3, <2>1 DEF BoardsOf
  <2>2. \A x, y \in BoardsOf("global") : x = y
    BY DEF BoardsInv
  <2>3. d.scope = "global" => b \in BoardsOf("global") \/ BoardsOf("global") = {}
    OBVIOUS
  <2>4. ASSUME NEW x \in BoardsOf("global")', NEW y \in BoardsOf("global")' PROVE x = y
    <3>1. x \in Boards /\ y \in Boards
      BY DEF BoardsOf
    <3> QED
      BY <2>1, <2>2, <2>3, <3>1
  <2> QED
    BY <2>4 DEF OneGlobal
<1>7. FlagsAgree'
  <2>1. Flagging' = Flagging
    BY <1>1 DEF Flagging
  <2>2. FlagsAgree
    BY DEF BoardsInv, FlagsAgree
  <2>3. ASSUME ~ torn, Reflects(job[j]), event # None, Flagging = {},
               NEW a \in BoardsOf("event")'
        PROVE  board'[a].frozen = event.frozen
    <3>1. CASE a = b
      <4>1. d.scope = "event"
        BY <1>3, <2>3, <3>1 DEF BoardsOf
      <4> QED
        BY <1>3, <2>3, <3>1, <4>1 DEF Reflects
    <3>2. CASE a # b
      <4>1. a \in BoardsOf("event") /\ board'[a] = board[a]
        BY <1>3, <2>3, <3>2 DEF BoardsOf
      <4> QED
        BY <2>2, <2>3, <4>1 DEF FlagsAgree
    <3> QED
      BY <3>1, <3>2
  <2> QED
    BY <1>1, <2>1, <2>3 DEF FlagsAgree
<1>8. BoardsTypeOK'
  BY <1>1, <1>3 DEF solveVars, BoardsInv, BoardsTypeOK
<1> QED
  BY <1>2, <1>4, <1>5, <1>6, <1>7, <1>8 DEF BoardsInv, FlagsAgree, OneGlobal

LEMMA RecomputeKeeps ==
    ASSUME EventInv, BoardsInv, NEW j \in Jobs, NEW scope \in Scopes, NEW by,
           Recompute(j, scope, by), UNCHANGED <<vars, solveVars, now>>
    PROVE  BoardsInv'
<1>1. /\ started < MaxJobs /\ started' = started + 1 /\ board' = board /\ torn' = torn
      /\ job' = [job EXCEPT ![j] = NewJob(IF scope = "event" THEN "event" ELSE "solves", scope)]
  BY DEF Recompute
<1>2. started' \in 0..MaxJobs
  BY <1>1, SolvesAssumption DEF BoardsInv, BoardsTypeOK
<1>3. PICK step \in {"event", "solves"} : step = IF scope = "event" THEN "event" ELSE "solves"
  OBVIOUS
<1>4. PICK w : w = [step |-> step, scope |-> scope, among |-> {}, frozen |-> FALSE,
                    until |-> None, solves |-> {}, missed |-> {}, read |-> 0]
  OBVIOUS
<1>5. w \in JobStates
  BY <1>4, EventsAssumption DEF JobStates, Times
<1>6. JobSound(w)
  BY <1>3, <1>4 DEF JobSound
<1>7. job' = [job EXCEPT ![j] = w]
  BY <1>1, <1>3, <1>4 DEF NewJob
<1> QED
  BY <1>1, <1>2, <1>5, <1>6, <1>7, JobBecomes

LEMMA ReadEventKeeps ==
    ASSUME EventInv, BoardsInv, NEW j \in Jobs, ReadEvent(j), started' = started,
           UNCHANGED <<vars, solveVars, now>>
    PROVE  BoardsInv'
<1>1. PICK v : v = job[j]
  OBVIOUS
<1>2. /\ v # None /\ v.step = "event" /\ event # None /\ board' = board /\ torn' = torn
      /\ job' = [job EXCEPT ![j] =
           IF event.challenges = {}
           THEN [v EXCEPT !.step = "upsert"]
           ELSE [v EXCEPT !.step = "solves", !.among = event.challenges,
                          !.frozen = event.frozen, !.until = event.frozenAt]]
  BY <1>1 DEF ReadEvent, BoardsInv, BoardsTypeOK
<1>3. v \in JobStates /\ JobSound(v)
  BY <1>1, <1>2 DEF BoardsInv, BoardsTypeOK
<1>4. started' \in 0..MaxJobs
  BY DEF BoardsInv, BoardsTypeOK
<1>5. event \in EventDocs /\ Stamped(event)
  BY <1>2 DEF EventInv, TypeOK
<1>6. CASE event.challenges = {}
  <2>1. PICK w : w = [v EXCEPT !.step = "upsert"]
    OBVIOUS
  <2>2. w \in JobStates
    BY <1>3, <2>1 DEF JobStates
  <2>3. /\ w.step = "upsert" /\ w.scope = v.scope /\ w.among = v.among /\ w.frozen = v.frozen
        /\ w.until = v.until /\ w.solves = v.solves /\ w.read = v.read
    BY <1>3, <2>1 DEF JobStates
  <2>4. JobSound(w)
    BY <1>2, <1>3, <2>3 DEF JobSound
  <2>5. job' = [job EXCEPT ![j] = w]
    BY <1>2, <1>6, <2>1
  <2> QED
    BY <1>2, <1>4, <2>2, <2>4, <2>5, JobBecomes
<1>7. CASE event.challenges # {}
  <2>1. PICK set, b, t : set = event.challenges /\ b = event.frozen /\ t = event.frozenAt
    OBVIOUS
  <2>2. /\ set \in SUBSET Challenges /\ set # {} /\ b \in BOOLEAN /\ t \in Times \cup {None}
        /\ b => t # None
    BY <1>5, <1>7, <2>1, DocTypes DEF Stamped
  <2>3. PICK w : w = [v EXCEPT !.step = "solves", !.among = set, !.frozen = b, !.until = t]
    OBVIOUS
  <2>4. w \in JobStates
    BY <1>3, <2>2, <2>3 DEF JobStates
  <2>5. /\ w.step = "solves" /\ w.scope = v.scope /\ w.among = set /\ w.frozen = b
        /\ w.until = t /\ w.solves = v.solves
    BY <1>3, <2>3 DEF JobStates
  <2>6. v.scope = "event"
    BY <1>2, <1>3, JobTypes DEF JobSound, Scopes
  <2>7. v.solves = {}
    BY <1>2, <1>3 DEF JobSound
  <2>8. JobSound(w)
    BY <2>2, <2>5, <2>6, <2>7 DEF JobSound
  <2>9. job' = [job EXCEPT ![j] = w]
    BY <1>2, <1>7, <2>1, <2>3
  <2> QED
    BY <1>2, <1>4, <2>4, <2>8, <2>9, JobBecomes
<1> QED
  BY <1>6, <1>7

LEMMA ReadSolvesKeeps ==
    ASSUME EventInv, BoardsInv, NEW j \in Jobs, ReadSolves(j), started' = started,
           UNCHANGED <<vars, solveVars, now>>
    PROVE  BoardsInv'
<1>1. PICK v : v = job[j]
  OBVIOUS
<1>2. PICK set, t : set = Counted(v) /\ t = IF v.scope = "event" THEN clock ELSE 0
  OBVIOUS
<1>3. /\ v # None /\ v.step = "solves" /\ board' = board /\ torn' = torn
      /\ job' = [job EXCEPT ![j] = [v EXCEPT !.step = "upsert", !.solves = set, !.read = t]]
  BY <1>1, <1>2 DEF ReadSolves, BoardsInv, BoardsTypeOK
<1>4. v \in JobStates /\ JobSound(v)
  BY <1>1, <1>3 DEF BoardsInv, BoardsTypeOK
<1>5. started' \in 0..MaxJobs
  BY DEF BoardsInv, BoardsTypeOK
<1>6. PICK w : w = [v EXCEPT !.step = "upsert", !.solves = set, !.read = t]
  OBVIOUS
<1>7. /\ set \in SUBSET Solves /\ \A s \in set : stage[s] # "none"
      /\ v.scope = "global" => set = credited
      /\ v.frozen => \A s \in set : stamp[s] <= v.until
      /\ v.scope = "event" => \A s \in set : stamp[s] <= t
      /\ t \in Times
  <2>3. t \in Times
    BY <1>2, EventsAssumption DEF EventInv, TypeOK, Times
  <2>1. CASE v.scope = "global"
    <3>1. set = credited
      BY <1>2, <2>1 DEF Counted
    <3>2. ~ v.frozen
      BY <1>4, <2>1 DEF JobSound
    <3> QED
      BY <2>1, <2>3, <3>1, <3>2 DEF BoardsInv, BoardsTypeOK, SolveSound
  <2>2. CASE v.scope # "global"
    <3>1. \A s \in set : s \in stored /\ (v.frozen /\ v.until # None => stamp[s] <= v.until)
      BY <1>2, <2>2 DEF Counted
    <3>2. /\ stored \subseteq Solves
          /\ \A s \in stored : stage[s] # "none" /\ stamp[s] <= clock
      BY DEF BoardsInv, BoardsTypeOK, SolveSound
    <3>3. v.frozen => v.until # None
      BY <1>4 DEF JobSound
    <3> QED
      BY <1>2, <2>2, <2>3, <3>1, <3>2, <3>3
  <2> QED
    BY <2>1, <2>2
<1>8. w \in JobStates
  BY <1>4, <1>6, <1>7 DEF JobStates
<1>9. /\ w.step = "upsert" /\ w.scope = v.scope /\ w.among = v.among /\ w.frozen = v.frozen
      /\ w.until = v.until /\ w.solves = set /\ w.missed = v.missed /\ w.read = t
  BY <1>4, <1>6 DEF JobStates
<1>10. Fresh(credited, w.missed)
  <2>1. \A s \in Solves : /\ stage[s] = "marked" => s \in credited
                          /\ stage[s] = "gone" => s \notin credited
    BY DEF BoardsInv, SolveSound
  <2> QED
    BY <2>1 DEF Fresh
<1>11. w.scope = "global" => Fresh(w.solves, w.missed)
  BY <1>7, <1>9, <1>10
<1>12. JobSound(w)
  BY <1>4, <1>7, <1>9, <1>11 DEF JobSound
<1>13. job' = [job EXCEPT ![j] = w]
  BY <1>3, <1>6
<1> QED
  BY <1>3, <1>5, <1>8, <1>12, <1>13, JobBecomes

\* An upsert that goes on to insert, or an insert that is tried again.
LEMMA TurnKeeps ==
    ASSUME EventInv, BoardsInv, NEW j \in Jobs, started' = started,
           UNCHANGED <<vars, solveVars, now>>,
           job[j] # None, job[j].step \in {"upsert", "insert"}, board' = board, torn' = torn,
           NEW to \in {"upsert", "insert"}, job' = [job EXCEPT ![j] = [job[j] EXCEPT !.step = to]]
    PROVE  BoardsInv'
<1>1. PICK v, w : v = job[j] /\ w = [v EXCEPT !.step = to]
  OBVIOUS
<1>2. v \in JobStates /\ JobSound(v)
  BY <1>1 DEF BoardsInv, BoardsTypeOK
<1>3. started' \in 0..MaxJobs
  BY DEF BoardsInv, BoardsTypeOK
<1>4. w \in JobStates
  BY <1>1, <1>2 DEF JobStates
<1>5. /\ w.step = to /\ w.scope = v.scope /\ w.among = v.among /\ w.frozen = v.frozen
      /\ w.until = v.until /\ w.solves = v.solves /\ w.missed = v.missed /\ w.read = v.read
  BY <1>1, <1>2 DEF JobStates
<1>6. JobSound(w)
  BY <1>1, <1>2, <1>5 DEF JobSound
<1>7. job' = [job EXCEPT ![j] = w]
  BY <1>1
<1> QED
  BY <1>3, <1>4, <1>6, <1>7, JobBecomes

LEMMA UpdateKeeps ==
    ASSUME EventInv, BoardsInv, NEW j \in Jobs, Update(j), started' = started,
           UNCHANGED <<vars, solveVars, now>>
    PROVE  BoardsInv'
<1>1. PICK b \in BoardsOf(job[j].scope) :
          /\ board' = [board EXCEPT ![b] = Written(job[j], b)]
          /\ job' = [job EXCEPT ![j] = None]
          /\ torn' = (torn \/ ~Reflects(job[j]))
  BY DEF Update, Finish
<1>2. PICK v : v = job[j]
  OBVIOUS
<1>3. v # None /\ v.step = "upsert" /\ v \in JobStates /\ JobSound(v)
  BY <1>2 DEF Update, BoardsInv, BoardsTypeOK
<1>4. b \in Boards /\ board[b] \in BoardDocs
  BY <1>1 DEF BoardsOf, BoardsInv, BoardsTypeOK
<1>5. PICK d \in BoardDocs :
          /\ d = Written(v, b) /\ BoardSound(d) /\ d.scope = v.scope /\ d.frozen = v.frozen
  BY <1>3, <1>4, WrittenSound
<1> QED
  BY <1>1, <1>2, <1>3, <1>4, <1>5, BoardBecomes

LEMMA InsertKeeps ==
    ASSUME EventInv, BoardsInv, NEW j \in Jobs, Insert(j), started' = started,
           UNCHANGED <<vars, solveVars, now>>
    PROVE  BoardsInv'
<1>1. PICK v : v = job[j]
  OBVIOUS
<1>2. v # None /\ v.step = "insert" /\ v \in JobStates /\ JobSound(v)
  BY <1>1 DEF Insert, BoardsInv, BoardsTypeOK
<1>3. CASE IndexAdmits(job[j].scope)
  <2>1. PICK b \in Boards :
            /\ board[b] = None
            /\ board' = [board EXCEPT ![b] = Written(job[j], None)]
            /\ job' = [job EXCEPT ![j] = None]
            /\ torn' = (torn \/ ~Reflects(job[j]))
    BY <1>3 DEF Insert, Finish
  <2>2. PICK none : none = None
    OBVIOUS
  <2>3. PICK d \in BoardDocs :
            /\ d = Written(v, none) /\ BoardSound(d) /\ d.scope = v.scope /\ d.frozen = v.frozen
    BY <1>2, <2>2, WrittenSound
  <2>4. d.scope = "global" => BoardsOf("global") = {}
    BY <1>1, <1>3, <2>3 DEF IndexAdmits
  <2> QED
    BY <1>1, <1>2, <2>1, <2>2, <2>3, <2>4, BoardBecomes
<1>4. CASE ~ IndexAdmits(job[j].scope)
  <2>1. /\ job' = [job EXCEPT ![j] = [job[j] EXCEPT !.step = "upsert"]]
        /\ board' = board /\ torn' = torn
    BY <1>4 DEF Insert, BoardsInv, BoardsTypeOK
  <2> QED
    BY <1>1, <1>2, <2>1, TurnKeeps
<1> QED
  BY <1>3, <1>4

LEMMA RecomputingKeeps ==
    ASSUME EventInv, BoardsInv, NEW j \in Jobs, Recomputing(j)
    PROVE  BoardsInv'
<1>1. UNCHANGED <<vars, solveVars, now>>
  BY DEF Recomputing
<1>2. CASE \E scope \in Scopes, by \in {"reader", "stale", "admin"} : Recompute(j, scope, by)
  BY <1>1, <1>2, RecomputeKeeps
<1>3. ASSUME started' = started, FindNone(j) PROVE BoardsInv'
  <2>1. /\ job[j] # None /\ job[j].step = "upsert" /\ board' = board /\ torn' = torn
        /\ job' = [job EXCEPT ![j] = [job[j] EXCEPT !.step = "insert"]]
    BY <1>3 DEF FindNone, BoardsInv, BoardsTypeOK
  <2> QED
    BY <1>1, <1>3, <2>1, TurnKeeps
<1>4. ASSUME started' = started, Abort(j) PROVE BoardsInv'
  <2>1. /\ job' = [job EXCEPT ![j] = None] /\ board' = board /\ torn' = torn
        /\ started' \in 0..MaxJobs
    BY <1>4 DEF Abort, BoardsInv, BoardsTypeOK
  <2>2. PICK w \in JobStates \cup {None} : w = None
    OBVIOUS
  <2> QED
    BY <1>1, <2>1, <2>2, JobBecomes
<1> QED
  BY <1>1, <1>2, <1>3, <1>4, ReadEventKeeps, ReadSolvesKeeps, UpdateKeeps, InsertKeeps
     DEF Recomputing

\* The boards and the solves stay, and so does what the boards say of the freeze,
\* unless the event changes.
LEMMA BoardsUntouched ==
    ASSUME BoardsInv, UNCHANGED <<solveVars, board, job, started>>,
           clock \in Nat, clock' \in Nat, clock <= clock', torn' \in BOOLEAN, FlagsAgree',
           now' \in [Calls -> Times \cup {None}]
    PROVE  BoardsInv'
<1>1. board' = board /\ job' = job
  OBVIOUS
<1>2. (\A s \in Solves : SolveSound(s)') /\ SolvesMoveOn /\ NothingToMark
  BY SolvesStay
<1>3. /\ \A j \in Jobs : job'[j] # None => JobSound(job[j])'
      /\ \A b \in Boards : board'[b] # None => BoardSound(board[b])'
  BY <1>1, <1>2, JobsStay, BoardsStay
<1>4. OneGlobal'
  BY <1>1 DEF OneGlobal, BoardsInv, BoardsOf
<1>5. BoardsTypeOK'
  BY DEF BoardsInv, BoardsTypeOK, solveVars
<1> QED
  BY <1>2, <1>3, <1>4, <1>5 DEF BoardsInv, FlagsAgree, OneGlobal

\* An event that keeps its freeze keeps agreeing with its boards.
LEMMA FreezeKept ==
    ASSUME BoardsInv, board' = board, torn => torn',
           event' # None => event # None /\ event'.frozen = event.frozen,
           Flagging \subseteq Flagging'
    PROVE  FlagsAgree'
<1>1. FlagsAgree
  BY DEF BoardsInv, FlagsAgree
<1>2. BoardsOf("event")' = BoardsOf("event")
  BY DEF BoardsOf
<1> QED
  BY <1>1, <1>2 DEF FlagsAgree

\* The calls that flag are those they were, when c is none of them.
LEMMA FlaggingKept ==
    ASSUME EventInv, NEW c \in Calls, c \notin Flagging, OthersStay(c)
    PROVE  Flagging \subseteq Flagging'
BY DEF Flagging, OthersStay

\* A call that saves changes the flag of the event only to go on to the boards.
LEMMA SaveFlags ==
    ASSUME EventInv, NEW c \in Calls, Save(c)
    PROVE  /\ event # None
           /\ Flagging \subseteq Flagging'
           /\ event'.frozen = event.frozen \/ Flagging' # {}
<1>1. /\ at[c] = "loaded" /\ Saves(call[c]) /\ event # None /\ Current(c) /\ event' = Merged(c)
  BY DEF Save, Saving
<1>2. TypeOK /\ SaveSound(c) /\ c \notin Flagging
  BY <1>1 DEF EventInv, CallSound, Flagging
<1>3. event'.frozen = Sent(old[c].frozen, new[c].frozen, event.frozen)
  BY <1>1, MergedDoc
<1>4. CASE call[c].kind \in {"freeze", "thaw"}
  <2>1. /\ at' = [at EXCEPT ![c] = "saved"] /\ call' = call
        /\ old' = [old EXCEPT ![c] = None] /\ new' = [new EXCEPT ![c] = None]
    BY <1>4 DEF Save
  <2>2. at'[c] = "saved" /\ OthersStay(c)
    BY <1>2, <2>1 DEF OthersStay, TypeOK
  <2>3. c \in Flagging'
    BY <1>4, <2>1, <2>2 DEF Flagging
  <2> QED
    BY <1>1, <1>2, <2>2, <2>3, FlaggingKept
<1>5. CASE call[c].kind \notin {"freeze", "thaw"}
  <2>1. Leave(c)
    BY <1>5 DEF Save
  <2>2. OthersStay(c)
    BY <1>2, <2>1, LeaveTyped
  <2>3. new[c].frozen = old[c].frozen
    BY <1>2, <1>5 DEF SaveSound
  <2>4. event'.frozen = event.frozen
    BY <1>3, <2>3 DEF Sent
  <2> QED
    BY <1>1, <1>2, <2>2, <2>4, FlaggingKept
<1> QED
  BY <1>4, <1>5

\* The other operations of an event leave its flag alone.
LEMMA CallFlags ==
    ASSUME EventInv, NEW c \in Calls,
           \/ \E r \in {q \in Requests : q.kind \in Kinds} : Load(c, r)
           \/ CountRegistration(c) \/ CountTeam(c) \/ DeleteEvent(c)
           \/ at[c] = "loaded" /\ Fail(c)
    PROVE  /\ event' # None => event # None /\ event'.frozen = event.frozen
           /\ Flagging \subseteq Flagging'
<1>1. TypeOK /\ event \in EventDocs \cup {None}
  BY DEF EventInv, TypeOK
<1>2. CASE \E r \in {q \in Requests : q.kind \in Kinds} : Load(c, r)
  <2>1. PICK r : Load(c, r)
    BY <1>2
  <2>2. event' = event /\ at[c] = "idle" /\ OthersStay(c)
    BY <1>1, <2>1 DEF Load, OthersStay, TypeOK
  <2>3. c \notin Flagging
    BY <2>2 DEF Flagging
  <2> QED
    BY <2>2, <2>3, FlaggingKept
<1>3. CASE CountRegistration(c)
  <2>1. /\ at[c] = "loaded" /\ event' = Incremented(event)
    BY <1>3 DEF CountRegistration
  <2>2. OthersStay(c)
    <3>1. CASE Leave(c)
      BY <1>1, <3>1, LeaveTyped
    <3>2. CASE ~ Leave(c)
      BY <1>1, <1>3, <3>2 DEF CountRegistration, OthersStay, TypeOK
    <3> QED
      BY <3>1, <3>2
  <2>3. event' # None => event # None /\ event'.frozen = event.frozen
    BY <1>1, <2>1 DEF Incremented, EventDocs
  <2>4. c \notin Flagging
    BY <2>1 DEF Flagging
  <2> QED
    BY <2>2, <2>3, <2>4, FlaggingKept
<1>4. CASE CountTeam(c)
  <2>1. /\ call[c].kind = "registerTeam" /\ Leave(c)
        /\ event' = IF event = None THEN None ELSE [event EXCEPT !.teams = @ + 1]
    BY <1>4 DEF CountTeam
  <2>2. OthersStay(c) /\ c \notin Flagging
    BY <1>1, <2>1, LeaveTyped DEF Flagging
  <2>3. event' # None => event # None /\ event'.frozen = event.frozen
    BY <1>1, <2>1 DEF EventDocs
  <2> QED
    BY <2>2, <2>3, FlaggingKept
<1>5. CASE DeleteEvent(c)
  <2>1. at[c] = "loaded" /\ Leave(c) /\ event' = None
    BY <1>5 DEF DeleteEvent
  <2>2. OthersStay(c) /\ c \notin Flagging
    BY <1>1, <2>1, LeaveTyped DEF Flagging
  <2> QED
    BY <2>1, <2>2, FlaggingKept
<1>6. CASE at[c] = "loaded" /\ Fail(c)
  <2>1. at[c] = "loaded" /\ Leave(c) /\ event' = event
    BY <1>6 DEF Fail
  <2>2. OthersStay(c) /\ c \notin Flagging
    BY <1>1, <2>1, LeaveTyped DEF Flagging
  <2> QED
    BY <2>1, <2>2, FlaggingKept
<1> QED
  BY <1>2, <1>3, <1>4, <1>5, <1>6

LEMMA EventStepKeeps ==
    ASSUME EventInv, BoardsInv, EventStep
    PROVE  BoardsInv'
<1>1. clock \in Nat /\ clock' \in Nat /\ clock <= clock'
  BY BoardsStepEvent DEF BoardsNext
<1>2. UNCHANGED <<solveVars, board, job, started>> /\ board' = board /\ torn' = torn /\ now' = now
  BY DEF EventStep, boardVars
<1>3. torn' \in BOOLEAN /\ now' \in [Calls -> Times \cup {None}]
  BY <1>2 DEF BoardsInv, BoardsTypeOK
<1>4. CASE Tick
  <2>1. event' = event /\ Flagging' = Flagging
    BY <1>4 DEF Tick, Flagging
  <2>2. FlagsAgree'
    BY <1>2, <2>1, FreezeKept
  <2> QED
    BY <1>1, <1>2, <1>3, <2>2, BoardsUntouched
<1>5. ASSUME NEW c \in Calls, Save(c) PROVE BoardsInv'
  <2>1. CASE Flagging' # {}
    <3>1. FlagsAgree'
      BY <2>1 DEF FlagsAgree
    <3> QED
      BY <1>1, <1>2, <1>3, <3>1, BoardsUntouched
  <2>2. CASE Flagging' = {}
    <3>1. event # None /\ event'.frozen = event.frozen /\ Flagging \subseteq Flagging'
      BY <1>5, <2>2, SaveFlags
    <3>2. FlagsAgree'
      BY <1>2, <3>1, FreezeKept
    <3> QED
      BY <1>1, <1>2, <1>3, <3>2, BoardsUntouched
  <2> QED
    BY <2>1, <2>2
<1>6. ASSUME NEW c \in Calls,
             \/ \E r \in {q \in Requests : q.kind \in Kinds} : Load(c, r)
             \/ CountRegistration(c) \/ CountTeam(c) \/ DeleteEvent(c)
             \/ at[c] = "loaded" /\ Fail(c)
      PROVE  BoardsInv'
  <2>1. /\ event' # None => event # None /\ event'.frozen = event.frozen
        /\ Flagging \subseteq Flagging'
    BY <1>6, CallFlags
  <2>2. FlagsAgree'
    BY <1>2, <2>1, FreezeKept
  <2> QED
    BY <1>1, <1>2, <1>3, <2>2, BoardsUntouched
<1> QED
  BY <1>4, <1>5, <1>6 DEF EventStep

LEMMA FailToFlagKeeps ==
    ASSUME EventInv, BoardsInv, NEW c \in Calls, FailToFlag(c)
    PROVE  BoardsInv'
<1>1. clock \in Nat /\ clock' \in Nat /\ clock <= clock'
  BY BoardsStepEvent DEF BoardsNext
<1>2. /\ UNCHANGED <<solveVars, board, job, started>> /\ board' = board
      /\ torn' = (torn \/ call[c].kind \in {"freeze", "thaw"})
      /\ at[c] = "saved" /\ Leave(c) /\ event' = event
      /\ now' = [now EXCEPT ![c] = None]
  BY DEF FailToFlag, Fail
<1>3. torn' \in BOOLEAN /\ now' \in [Calls -> Times \cup {None}]
  BY <1>2 DEF BoardsInv, BoardsTypeOK
<1>4. CASE call[c].kind \in {"freeze", "thaw"}
  <2>1. FlagsAgree'
    BY <1>2, <1>4 DEF FlagsAgree
  <2> QED
    BY <1>1, <1>2, <1>3, <2>1, BoardsUntouched
<1>5. CASE call[c].kind \notin {"freeze", "thaw"}
  <2>1. c \notin Flagging /\ OthersStay(c)
    BY <1>2, <1>5, LeaveTyped DEF Flagging, EventInv
  <2>2. Flagging \subseteq Flagging'
    BY <2>1, FlaggingKept
  <2>3. FlagsAgree'
    BY <1>2, <2>2, FreezeKept
  <2> QED
    BY <1>1, <1>2, <1>3, <2>3, BoardsUntouched
<1> QED
  BY <1>4, <1>5

\* setFrozen only takes its time.
LEMMA TakeNowKeeps ==
    ASSUME EventInv, BoardsInv, NEW c \in Calls, TakeNow(c)
    PROVE  BoardsInv'
<1>1. clock \in Times /\ clock \in Nat /\ clock' \in Nat /\ clock <= clock'
  BY EventsAssumption DEF EventInv, TypeOK, Times, TakeNow, vars
<1>2. /\ UNCHANGED <<solveVars, board, job, started>> /\ board' = board /\ torn' = torn
      /\ event' = event /\ at' = at /\ call' = call
  BY DEF TakeNow, vars
<1>3. torn' \in BOOLEAN /\ now' \in [Calls -> Times \cup {None}]
  BY <1>1 DEF TakeNow, BoardsInv, BoardsTypeOK
<1>4. FlagsAgree'
  <2>1. Flagging' = Flagging
    BY <1>2 DEF Flagging
  <2> QED
    BY <1>2, <2>1, FreezeKept
<1> QED
  BY <1>1, <1>2, <1>3, <1>4, BoardsUntouched

\* A board that takes over the flag shows nothing made later than the time taken,
\* if its solves had been read by then.
LEMMA FlaggedSound ==
    ASSUME EventInv, BoardsInv, NEW d \in BoardDocs, BoardSound(d), NEW c \in Calls,
           call[c].kind = "freeze" => now[c] # None
    PROVE  \E e \in BoardDocs :
               /\ e = Flagged(d, c) /\ BoardSound(e) /\ e.scope = d.scope
               /\ e.frozen = (call[c].kind = "freeze")
<1>1. PICK b \in BOOLEAN : b = (call[c].kind = "freeze")
  OBVIOUS
<1>2. PICK t : t = IF b THEN now[c] ELSE None
  OBVIOUS
<1>3. t \in Times \cup {None} /\ (b => t \in Times /\ t # None)
  BY <1>1, <1>2 DEF BoardsInv, BoardsTypeOK
<1>4. PICK late \in BOOLEAN : late = (b /\ d.read > now[c])
  OBVIOUS
<1>5. PICK e : e = [d EXCEPT !.frozen = b, !.frozenAt = t, !.raced = late]
  OBVIOUS
<1>6. e = Flagged(d, c)
  BY <1>1, <1>2, <1>4, <1>5 DEF Flagged
<1>7. e \in BoardDocs
  BY <1>3, <1>5 DEF BoardDocs
<1>8. /\ e.scope = d.scope /\ e.frozen = b /\ e.frozenAt = t /\ e.solves = d.solves
      /\ e.stale = d.stale /\ e.missed = d.missed /\ e.read = d.read /\ e.raced = late
  BY <1>5 DEF BoardDocs
<1>9. ASSUME d.scope = "event", b, ~ late, NEW s \in d.solves PROVE stamp[s] <= t
  <2>1. stage[s] # "none" /\ stamp[s] <= d.read /\ s \in Solves
    BY <1>9, BoardTypes DEF BoardSound
  <2>2. stamp[s] # None /\ stamp[s] \in Times \cup {None} /\ d.read \in Times
    BY <2>1, BoardTypes DEF BoardsInv, BoardsTypeOK, SolveSound
  <2>3. t \in Nat /\ d.read \in Nat /\ stamp[s] \in Nat
    BY <1>3, <1>9, <2>2, EventsAssumption DEF Times
  <2>4. t = now[c] /\ ~ (d.read > now[c])
    BY <1>2, <1>4, <1>9, Zenon
  <2> QED
    BY <2>1, <2>3, <2>4
<1>10. BoardSound(e)
  BY <1>3, <1>8, <1>9 DEF BoardSound
<1> QED
  BY <1>1, <1>6, <1>7, <1>8, <1>10

LEMMA FlagBoardsKeeps ==
    ASSUME EventInv, BoardsInv, NEW c \in Calls, FlagBoards(c)
    PROVE  BoardsInv'
<1>1. PICK flag \in BOOLEAN : flag = (call[c].kind = "freeze")
  OBVIOUS
<1>2. /\ UNCHANGED solveVars /\ job' = job /\ started' = started /\ event' = event
      /\ clock' = clock
      /\ board' = [x \in Boards |-> IF x \in BoardsOf("event") THEN Flagged(board[x], c)
                                    ELSE board[x]]
      /\ torn' = (torn \/ event = None \/ event.frozen # flag)
      /\ now' = [now EXCEPT ![c] = None] /\ (call[c].kind = "freeze" => now[c] # None)
  BY <1>1 DEF FlagBoards, FlaggedBoards, SetFrozen
<1>3. clock \in Nat /\ clock <= clock
  BY EventsAssumption DEF EventInv, TypeOK
<1>4. (\A s \in Solves : SolveSound(s)') /\ SolvesMoveOn /\ NothingToMark
  BY <1>2, <1>3, SolvesStay
<1>5. \A j \in Jobs : job'[j] # None => JobSound(job[j])'
  BY <1>2, <1>4, JobsStay
<1>6. ASSUME NEW b \in Boards
      PROVE  /\ board'[b] \in BoardDocs \cup {None}
             /\ board'[b] # None => BoardSound(board[b])'
             /\ board[b] = None => board'[b] = None
             /\ board[b] # None =>
                  /\ board'[b].scope = board[b].scope
                  /\ board[b].scope = "event" => board'[b].frozen = flag
  <2>1. PICK d : d = board[b]
    OBVIOUS
  <2>2. CASE d = None
    <3>1. board'[b] = None
      BY <1>2, <2>1, <2>2 DEF BoardsOf
    <3> QED
      BY <2>1, <2>2, <3>1
  <2>3. CASE d # None
    <3>1. d \in BoardDocs /\ BoardSound(d)
      BY <2>1, <2>3 DEF BoardsInv, BoardsTypeOK
    <3>2. CASE d.scope = "event"
      <4>1. board'[b] = Flagged(d, c)
        BY <1>2, <2>1, <2>3, <3>2 DEF BoardsOf
      <4>2. PICK e \in BoardDocs :
                e = Flagged(d, c) /\ BoardSound(e) /\ e.scope = d.scope /\ e.frozen = flag
        BY <1>1, <1>2, <3>1, FlaggedSound
      <4>3. BoardSound(e)'
        BY <1>4, <4>2, BoardStays
      <4> QED
        BY <2>1, <2>3, <4>1, <4>2, <4>3 DEF BoardSound
    <3>3. CASE d.scope # "event"
      <4>1. board'[b] = d
        BY <1>2, <2>1, <3>3 DEF BoardsOf
      <4>2. BoardSound(d)'
        BY <1>4, <3>1, BoardStays
      <4> QED
        BY <2>1, <2>3, <3>1, <3>3, <4>1, <4>2 DEF BoardSound
    <3> QED
      BY <3>2, <3>3
  <2> QED
    BY <2>2, <2>3
<1>7. \A b \in BoardsOf("event")' : board'[b].frozen = flag
  <2> SUFFICES ASSUME NEW b \in BoardsOf("event")' PROVE board'[b].frozen = flag
    OBVIOUS
  <2>1. b \in Boards /\ board'[b] # None /\ board'[b].scope = "event"
    BY DEF BoardsOf
  <2> QED
    BY <1>6, <2>1
<1>8. OneGlobal'
  <2>1. BoardsOf("global")' \subseteq BoardsOf("global")
    <3> SUFFICES ASSUME NEW b \in BoardsOf("global")' PROVE b \in BoardsOf("global")
      OBVIOUS
    <3>1. b \in Boards /\ board'[b] # None /\ board'[b].scope = "global"
      BY DEF BoardsOf
    <3>2. board[b] # None /\ board[b].scope = "global"
      BY <1>6, <3>1
    <3> QED
      BY <3>1, <3>2 DEF BoardsOf
  <2> QED
    BY <2>1 DEF OneGlobal, BoardsInv
<1>9. FlagsAgree'
  <2>1. torn' \/ event' = None \/ event'.frozen = flag
    BY <1>2
  <2> QED
    BY <1>7, <2>1 DEF FlagsAgree
<1>10. BoardsTypeOK'
  <2>1. /\ stage' = stage /\ stamp' = stamp /\ stored' = stored /\ credited' = credited
        /\ job' = job /\ started' = started /\ torn' \in BOOLEAN
        /\ now' \in [Calls -> Times \cup {None}]
    <3>1. torn \in BOOLEAN /\ now \in [Calls -> Times \cup {None}]
      BY DEF BoardsInv, BoardsTypeOK
    <3>2. torn' \in BOOLEAN /\ now' \in [Calls -> Times \cup {None}]
      BY <1>2, <3>1
    <3> QED
      BY <1>2, <3>2 DEF solveVars
  <2>2. board' \in [Boards -> BoardDocs \cup {None}]
    <3>1. board' = [x \in Boards |-> board'[x]]
      BY <1>2
    <3> QED
      BY <1>6, <3>1
  <2> QED
    BY <2>1, <2>2 DEF BoardsInv, BoardsTypeOK
<1>11. \A b \in Boards : board'[b] # None => BoardSound(board[b])'
  BY <1>6
<1> QED
  BY <1>4, <1>5, <1>8, <1>9, <1>10, <1>11 DEF BoardsInv, FlagsAgree, OneGlobal

LEMMA BoardsInvStep ==
    ASSUME EventInv, BoardsInv, [BoardsNext]_allVars
    PROVE  EventInv' /\ BoardsInv'
<1>1. CASE BoardsNext
  <2>1. EventInv'
    BY <1>1, BoardsStepEvent, EventInvStep
  <2>2. BoardsInv'
    BY <1>1, EventStepKeeps, TakeNowKeeps, FlagBoardsKeeps, FailToFlagKeeps, SolvingKeeps,
       RecomputingKeeps DEF BoardsNext
  <2> QED
    BY <2>1, <2>2
<1>2. CASE UNCHANGED allVars
  <2>1. UNCHANGED vars /\ UNCHANGED <<solveVars, board, job, started>> /\ torn' = torn
    BY <1>2 DEF allVars, boardVars
  <2>2. EventInv'
    BY <2>1, EventInvStep
  <2>3. /\ event' = event /\ at' = at /\ call' = call /\ clock' = clock /\ clock \in Nat
        /\ clock <= clock /\ board' = board
    BY <2>1, EventsAssumption DEF vars, EventInv, TypeOK
  <2>4. FlagsAgree'
    <3>1. Flagging' = Flagging
      BY <2>3 DEF Flagging
    <3> QED
      BY <2>1, <2>3, <3>1, FreezeKept
  <2>5. torn' \in BOOLEAN /\ now' \in [Calls -> Times \cup {None}]
    BY <1>2 DEF BoardsInv, BoardsTypeOK, allVars, boardVars
  <2>6. BoardsInv'
    BY <2>1, <2>3, <2>4, <2>5, BoardsUntouched
  <2> QED
    BY <2>2, <2>6
<1> QED
  BY <1>1, <1>2

LEMMA BoardsInvInit ==
    ASSUME BoardsInit
    PROVE  EventInv /\ BoardsInv
<1>1. PICK set \in SUBSET Challenges, max \in Capacities :
          event = Created("active", 1, MaxTime + 1, set, max)
  BY DEF BoardsInit
<1>2. Idle
  BY DEF BoardsInit
<1>3. "active" \in Statuses /\ 1 \in Times /\ MaxTime + 1 \in Times /\ 1 < MaxTime + 1
  BY EventsAssumption, SolvesAssumption DEF Statuses, Times
<1>4. PICK opens, closes : opens = 1 /\ closes = MaxTime + 1
  OBVIOUS
<1>5. EventInv
  BY <1>1, <1>2, <1>3, <1>4, EventInvInit
<1>6. /\ stage = [s \in Solves |-> "none"] /\ stamp = [s \in Solves |-> None]
      /\ stored = {} /\ credited = {} /\ board = [b \in Boards |-> None]
      /\ job = [j \in Jobs |-> None] /\ started = 0 /\ torn = FALSE
      /\ now = [c \in Calls |-> None]
  BY DEF BoardsInit
<1>7. BoardsTypeOK
  <2>1. stage \in [Solves -> {"none", "stamped", "stored", "credited", "marked",
                             "unmarked", "deleting", "gone", "forgotten"}]
    BY <1>6
  <2>2. /\ stamp \in [Solves -> Times \cup {None}]
        /\ board \in [Boards -> BoardDocs \cup {None}]
        /\ job \in [Jobs -> JobStates \cup {None}]
        /\ now \in [Calls -> Times \cup {None}]
    BY <1>6
  <2>3. started \in 0..MaxJobs
    BY <1>6, SolvesAssumption
  <2>4. stored \subseteq Solves /\ credited \subseteq Solves /\ torn \in BOOLEAN
    BY <1>6
  <2> QED
    BY <2>1, <2>2, <2>3, <2>4 DEF BoardsTypeOK
<1>8. \A s \in Solves : SolveSound(s)
  BY <1>6 DEF SolveSound
<1>9. \A scope : BoardsOf(scope) = {}
  BY <1>6 DEF BoardsOf
<1>10. /\ \A j \in Jobs : job[j] # None => JobSound(job[j])
       /\ \A b \in Boards : board[b] # None => BoardSound(board[b])
  BY <1>6
<1> QED
  BY <1>5, <1>7, <1>8, <1>9, <1>10 DEF BoardsInv

LEMMA BoardsInvHolds == BoardsSpec => [](EventInv /\ BoardsInv)
<1>1. BoardsInit => EventInv /\ BoardsInv
  BY BoardsInvInit
<1>2. EventInv /\ BoardsInv /\ [BoardsNext]_allVars => (EventInv /\ BoardsInv)'
  BY BoardsInvStep
<1> QED
  BY <1>1, <1>2, PTL DEF BoardsSpec

\* upsertBoard, recompute and freezeScoreboard: whatever readers, writers and
\* administrators overlap, one global board exists at most, a board that calls
\* itself frozen shows no solve made after the time it gives, unless its solves were
\* read between the time and the write of setFrozen, and the boards agree
\* with the event on the freeze unless a call of freezeScoreboard is between its two
\* steps or failed there, or a board was computed for an earlier state of the event.
THEOREM BoardsConsistentHolds == BoardsSpec => []BoardsConsistent
<1>1. BoardsInv => BoardsConsistent
  <2> SUFFICES ASSUME BoardsInv PROVE BoardsConsistent
    OBVIOUS
  <2>1. BoardsTypeOK
    BY DEF BoardsInv
  <2>2. OneGlobalBoard
    <3>1. CASE BoardsOf("global") = {}
      BY <3>1, FS_EmptySet DEF OneGlobalBoard
    <3>2. CASE BoardsOf("global") # {}
      <4>1. PICK b : b \in BoardsOf("global")
        BY <3>2
      <4>2. BoardsOf("global") = {b}
        BY <4>1 DEF BoardsInv
      <4>3. Cardinality({b}) = 1
        BY FS_Singleton
      <4> QED
        BY <4>2, <4>3 DEF OneGlobalBoard
    <3> QED
      BY <3>1, <3>2
  <2>3. FrozenBoardIsOldUnlessRaced
    BY DEF FrozenBoardIsOldUnlessRaced, BoardsInv, BoardSound, BoardsOf
  <2>4. FlagsAgreeUnlessTorn
    BY DEF FlagsAgreeUnlessTorn, BoardsInv, Flagging
  <2> QED
    BY <2>1, <2>2, <2>3, <2>4 DEF BoardsConsistent
<1> QED
  BY <1>1, BoardsInvHolds, PTL

\* markStale against recompute: a global board that is not marked stale shows every
\* solve whose mark is made and none whose deletion is marked, but for the marks
\* that came while it was being computed.
THEOREM FreshUnlessOvertakenHolds == BoardsSpec => []FreshUnlessOvertaken
<1>1. BoardsInv => FreshUnlessOvertaken
  BY DEF FreshUnlessOvertaken, BoardsInv, BoardSound, BoardsOf, Fresh
<1> QED
  BY <1>1, BoardsInvHolds, PTL
=============================================================================
