-------------------------- MODULE ChallengesProofs --------------------------
(***************************************************************************)
(* What a challenge is worth, for every scoring and solve count; what      *)
(* overlapping edits leave of it, for any number of calls, points, flags,  *)
(* hints and attachments; what they leave of the chapters of a story, for  *)
(* any number of calls, chapters and nodes; and what is left to its        *)
(* players, for every graph that validateGraph lets through.               *)
(*                                                                         *)
(* Each invariant says what the copy of a call still has in common with    *)
(* the stored document.                                                    *)
(***************************************************************************)
EXTENDS Chapters, Story, FiniteSetTheorems, TLAPS

-----------------------------------------------------------------------------
(* The value of a challenge.                                                *)

LEMMA OneIsNatural == One \in Nat
BY SMT DEF One

LEMMA ProductMonotone ==
    ASSUME NEW a \in Nat, NEW b \in Nat, NEW c \in Nat, b <= c
    PROVE  a * b \in Nat /\ a * b <= a * c
<1>1. a * b \in Nat /\ a * c \in Nat /\ a * (c - b) \in Nat
  BY SMT
<1>2. a * c = a * b + a * (c - b)
  BY SMT
<1> QED
  BY <1>1, <1>2

LEMMA DecayingInRange ==
    ASSUME NEW n \in Int
    PROVE  Decaying(n) \in 0..MaxDecay
BY DecayAssumption DEF Decaying

LEMMA DecayingMonotone ==
    ASSUME NEW m \in Int, NEW n \in Int, m <= n
    PROVE  Decaying(m) <= Decaying(n)
BY DecayAssumption DEF Decaying

LEMMA DecayBound ==
    ASSUME NEW k \in 0..MaxDecay
    PROVE  Decay[k] \in Nat /\ Decay[k] <= One
<1>1. Decay[k] \in 0..One
  BY DecayAssumption
<1> QED
  BY <1>1, OneIsNatural

LEMMA HalfMonotone ==
    ASSUME NEW d \in Nat, NEW e \in Nat, d <= e, e <= One
    PROVE  /\ (One + d) \div 2 \in Nat
           /\ (One + e) \div 2 <= One
           /\ (One + d) \div 2 <= (One + e) \div 2
BY SMT DEF One

LEMMA FactorInRange ==
    ASSUME NEW n \in Int
    PROVE  Factor(n) \in Nat /\ Factor(n) <= One
<1>1. Decay[Decaying(n)] \in Nat /\ Decay[Decaying(n)] <= One
  BY DecayingInRange, DecayBound
<1> QED
  BY <1>1, HalfMonotone DEF Factor

LEMMA FactorAntitone ==
    ASSUME NEW m \in Int, NEW n \in Int, m <= n
    PROVE  Factor(n) <= Factor(m)
<1>1. /\ Decay[Decaying(m)] \in Nat /\ Decay[Decaying(m)] <= One
      /\ Decay[Decaying(n)] \in Nat
  BY DecayingInRange, DecayBound
<1>2. Decay[Decaying(n)] <= Decay[Decaying(m)]
  BY DecayAssumption, DecayingInRange, DecayingMonotone
<1> QED
  BY <1>1, <1>2, HalfMonotone DEF Factor

LEMMA QuotientMonotone ==
    ASSUME NEW a \in Nat, NEW b \in Nat, a <= b
    PROVE  a \div One \in Nat /\ a \div One <= b \div One
BY SMT DEF One

LEMMA DecayedBounds ==
    ASSUME NEW p \in Nat, NEW n \in Int
    PROVE  Decayed(p, n) \in Nat /\ Decayed(p, n) <= p
<1>1. Factor(n) \in Nat /\ Factor(n) <= One
  BY FactorInRange
<1>2. One \in Nat
  BY OneIsNatural
<1>3. p * Factor(n) \in Nat /\ p * Factor(n) <= p * One
  BY <1>1, <1>2, ProductMonotone
<1>4. p * One \in Nat /\ (p * One) \div One = p
  BY SMT DEF One
<1> QED
  BY <1>3, <1>4, QuotientMonotone DEF Decayed

\* A value is a natural number, whatever solve count a save or a deletion
\* left in the challenge, negative ones included.
THEOREM PointsAreNatural ==
    ASSUME NEW s \in Scorings, NEW n \in Int
    PROVE  CurrentPoints(s, n) \in Nat
<1>1. s.points \in Nat /\ s.minPoints \in Nat
  BY DEF Scorings
<1>2. Decayed(s.points, n) \in Nat
  BY <1>1, DecayedBounds
<1> QED
  BY <1>1, <1>2 DEF CurrentPoints

\* A value never leaves the range from minPoints to points.
THEOREM PointsInRange ==
    ASSUME NEW s \in Scorings, NEW n \in Int
    PROVE  s.minPoints <= CurrentPoints(s, n) /\ CurrentPoints(s, n) <= s.points
<1>1. s.points \in Nat /\ s.minPoints \in Nat /\ s.minPoints <= s.points
  BY DEF Scorings
<1>2. Decayed(s.points, n) \in Nat /\ Decayed(s.points, n) <= s.points
  BY <1>1, DecayedBounds
<1> QED
  BY <1>1, <1>2 DEF CurrentPoints

\* "Points decay as more teams/users solve the challenge": as a function of
\* solveCount the value never rises.
THEOREM PointsDecay ==
    ASSUME NEW s \in Scorings, NEW m \in Int, NEW n \in Int, m <= n
    PROVE  CurrentPoints(s, n) <= CurrentPoints(s, m)
<1>1. Factor(m) \in Nat /\ Factor(n) \in Nat /\ Factor(n) <= Factor(m)
  BY FactorInRange, FactorAntitone
<1>2. s.points \in Nat /\ s.minPoints \in Nat
  BY DEF Scorings
<1>3. s.points * Factor(n) \in Nat /\ s.points * Factor(m) \in Nat
      /\ s.points * Factor(n) <= s.points * Factor(m)
  BY <1>1, <1>2, ProductMonotone
<1>4. Decayed(s.points, n) <= Decayed(s.points, m)
  BY <1>3, QuotientMonotone DEF Decayed
<1>5. Decayed(s.points, n) \in Nat /\ Decayed(s.points, m) \in Nat
  BY <1>2, DecayedBounds
<1> QED
  BY <1>2, <1>4, <1>5 DEF CurrentPoints

\* A challenge with fewer base points and the same floor is never worth more.
THEOREM PointsFollowBase ==
    ASSUME NEW s \in Scorings, NEW t \in Scorings, NEW n \in Int,
           t.points <= s.points, t.minPoints = s.minPoints, t.isStatic = s.isStatic
    PROVE  CurrentPoints(t, n) <= CurrentPoints(s, n)
<1>1. s.points \in Nat /\ t.points \in Nat /\ s.minPoints \in Nat
  BY DEF Scorings
<1>2. Factor(n) \in Nat
  BY FactorInRange
<1>3. /\ Factor(n) * t.points \in Nat /\ Factor(n) * s.points \in Nat
      /\ Factor(n) * t.points <= Factor(n) * s.points
  BY <1>1, <1>2, ProductMonotone
<1>4. t.points * Factor(n) = Factor(n) * t.points /\ s.points * Factor(n) = Factor(n) * s.points
  BY <1>1, <1>2, SMT
<1>5. Decayed(t.points, n) <= Decayed(s.points, n)
  BY <1>3, <1>4, QuotientMonotone DEF Decayed
<1>6. Decayed(t.points, n) \in Nat /\ Decayed(s.points, n) \in Nat
  BY <1>1, DecayedBounds
<1> QED
  BY <1>1, <1>5, <1>6 DEF CurrentPoints

-----------------------------------------------------------------------------
(* The challenge.  The copy has minPoints, which no call writes; the arrays, *)
(* as long as the version is the same; and the solve count, as long as no    *)
(* other solve was counted and none taken back.                              *)

Known(k) ==
    /\ k.was.scoring.minPoints = challenge.scoring.minPoints
    /\ k.was.version <= challenge.version
    /\ k.was.version = challenge.version =>
        k.was.hints = challenge.hints /\ k.was.attachments = challenge.attachments
    /\ k.op = "solve" => k.value \/ k.was.solveCount = challenge.solveCount
    /\ k.op = "removeHint" => k.value \in DOMAIN k.was.hints

Sound(d) == (d.isVisible => d.dated) /\ d.flag.hashed = 1

ChallengeInv ==
    /\ challenge \in Docs /\ Sound(challenge)
    /\ begun \in Nat
    /\ edit \in [Slots -> Edits \cup {Idle}]
    /\ \A c \in Slots : edit[c] # Idle => Known(edit[c])

-----------------------------------------------------------------------------
(* Steps of calls.                                                          *)

LEMMA EditFields ==
    ASSUME NEW k \in Edits
    PROVE  /\ k.was \in Docs
           /\ k.op = "points" => k.value \in Points
           /\ k.op = "flag" => k.value \in Flags
           /\ k.op \in {"isVisible", "setVisibility"} => k.value \in BOOLEAN
           /\ k.op = "addHint" => k.value \in Hints
           /\ k.op \in {"removeHint", "addAttachment", "removeAttachment"} => k.value \in Nat
           /\ k.op = "solve" => k.value \in BOOLEAN
BY DEF Edits

LEMMA DocFields ==
    ASSUME NEW d \in Docs
    PROVE  /\ d.scoring \in Scorings /\ d.scoring.points \in Nat /\ d.scoring.minPoints \in Nat
           /\ d.scoring.minPoints <= d.scoring.points
           /\ d.solveCount \in Int /\ d.recent \in Nat /\ d.version \in Nat
           /\ d.hints \in Seq(Hints) /\ d.attachments \subseteq Nat
           /\ d.isVisible \in BOOLEAN /\ d.isActive \in BOOLEAN /\ d.dated \in BOOLEAN
BY DEF Docs, Scorings

\* A call that begins.
LEMMA LoadKeeps ==
    ASSUME ChallengeInv, NEW c \in Slots, NEW op, NEW value, Load(c, op, value),
           [op |-> op, value |-> value, was |-> challenge] \in Edits,
           op = "removeHint" => value \in DOMAIN challenge.hints
    PROVE  ChallengeInv'
<1> DEFINE k == [op |-> op, value |-> value, was |-> challenge]
<1>1. challenge' = challenge /\ begun' = begun + 1 /\ edit' = [edit EXCEPT ![c] = k]
  BY DEF Load
<1>2. k \in Edits /\ k.was = challenge /\ k.op = op /\ k.value = value
  OBVIOUS
<1> HIDE DEF k
<1>3. edit' \in [Slots -> Edits \cup {Idle}] /\ begun' \in Nat
  BY <1>1, <1>2 DEF ChallengeInv
<1>4. ASSUME NEW d \in Slots, edit'[d] # Idle PROVE Known(edit[d])'
  <2>1. CASE d = c
    <3>1. edit'[d] = k
      BY <1>1, <2>1 DEF ChallengeInv
    <3>2. challenge.version \in Nat
      BY DocFields DEF ChallengeInv
    <3>3. QED
      BY <1>1, <1>2, <3>1, <3>2 DEF Known
  <2>2. CASE d # c
    BY <1>1, <2>2, <1>4 DEF ChallengeInv, Known
  <2>3. QED
    BY <2>1, <2>2
<1> QED
  BY <1>1, <1>3, <1>4 DEF ChallengeInv

\* A call that ends: what it may have written.
LEMMA SaveKeeps ==
    ASSUME ChallengeInv, NEW c \in Slots, edit[c] # Idle, Done(c),
           challenge' \in Docs, Sound(challenge'),
           challenge'.scoring.minPoints = challenge.scoring.minPoints,
           challenge'.version >= challenge.version,
           challenge'.version = challenge.version =>
               challenge'.hints = challenge.hints /\ challenge'.attachments = challenge.attachments,
           challenge'.solveCount = challenge.solveCount
    PROVE  ChallengeInv'
<1>1. edit' = [edit EXCEPT ![c] = Idle] /\ begun' = begun
  BY DEF Done
<1>2. edit' \in [Slots -> Edits \cup {Idle}]
  BY <1>1 DEF ChallengeInv
<1>3. ASSUME NEW d \in Slots, edit'[d] # Idle PROVE Known(edit[d])'
  <2>1. d # c /\ edit'[d] = edit[d] /\ Known(edit[d]) /\ edit[d] \in Edits
    BY <1>1, <1>3 DEF ChallengeInv
  <2>2. edit[d].was.version \in Nat /\ challenge.version \in Nat /\ challenge'.version \in Nat
    BY <2>1, EditFields, DocFields DEF ChallengeInv
  <2>3. QED
    BY <2>1, <2>2 DEF Known
<1> QED
  BY <1>1, <1>2, <1>3 DEF ChallengeInv

\* A step that counts a solve or takes one back, and tells the solves in flight.
LEMMA CountKeeps ==
    ASSUME ChallengeInv, begun' \in Nat, edit' \in [Slots -> Edits \cup {Idle}],
           \A d \in Slots : edit'[d] # Idle => edit'[d] = Overtaken[d],
           challenge' \in Docs, Sound(challenge'),
           challenge'.scoring = challenge.scoring,
           challenge'.version >= challenge.version,
           challenge'.hints = challenge.hints, challenge'.attachments = challenge.attachments
    PROVE  ChallengeInv'
<1>1. ASSUME NEW d \in Slots, edit'[d] # Idle PROVE Known(edit[d])'
  <2>1. edit'[d] = Overtaken[d]
    BY <1>1
  <2>2. edit[d] # Idle /\ edit[d] \in Edits /\ Known(edit[d])
    BY <1>1, <2>1 DEF Overtaken, At, ChallengeInv
  <2>3. edit[d].was.version \in Nat /\ challenge.version \in Nat /\ challenge'.version \in Nat
    BY <2>2, EditFields, DocFields DEF ChallengeInv
  <2>4. CASE edit[d].op = "solve"
    <3>1. edit'[d] = [edit[d] EXCEPT !.value = TRUE]
      BY <2>1, <2>2, <2>4 DEF Overtaken, At
    <3>2. edit'[d].op = "solve" /\ edit'[d].value = TRUE /\ edit'[d].was = edit[d].was
      BY <2>2, <2>4, <3>1 DEF Edits
    <3> QED
      BY <2>2, <2>3, <3>2 DEF Known
  <2>5. CASE edit[d].op # "solve"
    <3>1. edit'[d] = edit[d]
      BY <2>1, <2>5 DEF Overtaken, At
    <3> QED
      BY <2>2, <2>3, <2>5, <3>1 DEF Known
  <2> QED
    BY <2>4, <2>5
<1> QED
  BY <1>1 DEF ChallengeInv

LEMMA OvertakenTyped ==
    ASSUME ChallengeInv
    PROVE  Overtaken \in [Slots -> Edits \cup {Idle}]
<1> SUFFICES ASSUME NEW c \in Slots, At(c, {"solve"})
             PROVE  [edit[c] EXCEPT !.value = TRUE] \in Edits
  BY DEF ChallengeInv, Overtaken
<1>1. edit[c] \in Edits /\ edit[c].op = "solve"
  BY DEF ChallengeInv, At
<1> QED
  BY <1>1 DEF Edits

\* Removing an element of a sequence leaves all the others, in their order.
LEMMA WithoutLeavesOthers ==
    ASSUME NEW S, NEW s \in Seq(S), NEW i \in DOMAIN s
    PROVE  /\ Without(s, i) \in Seq(S) /\ Len(Without(s, i)) = Len(s) - 1
           /\ \A j \in 1..(i - 1) : Without(s, i)[j] = s[j]
           /\ \A j \in i..(Len(s) - 1) : Without(s, i)[j] = s[j + 1]
           /\ \A j \in DOMAIN s : j # i =>
                \E m \in DOMAIN Without(s, i) : Without(s, i)[m] = s[j]
<1> DEFINE front == SubSeq(s, 1, i - 1)
           rest == SubSeq(s, i + 1, Len(s))
<1>1. i \in 1..Len(s) /\ Len(s) \in Nat
  OBVIOUS
<1>2. /\ front \in Seq(S) /\ Len(front) = i - 1
      /\ \A j \in 1..(i - 1) : front[j] = s[j]
  BY <1>1
<1>3. /\ rest \in Seq(S) /\ Len(rest) = Len(s) - i
      /\ \A j \in 1..(Len(s) - i) : rest[j] = s[i + j]
  BY <1>1
<1>4. Without(s, i) = front \o rest
  BY DEF Without
<1> HIDE DEF front, rest
<1>5. /\ front \o rest \in Seq(S) /\ Len(front \o rest) = Len(s) - 1
      /\ \A j \in 1..(i - 1) : (front \o rest)[j] = s[j]
      /\ \A j \in i..(Len(s) - 1) : (front \o rest)[j] = s[j + 1]
  <2>1. front \o rest \in Seq(S) /\ Len(front \o rest) = Len(s) - 1
    BY <1>1, <1>2, <1>3
  <2>2. ASSUME NEW j \in 1..(i - 1) PROVE (front \o rest)[j] = s[j]
    <3>1. j \in 1..Len(front) /\ j \in 1..(Len(front) + Len(rest))
      BY <1>1, <1>2, <1>3
    <3>2. (front \o rest)[j] = front[j]
      BY <1>2, <1>3, <3>1
    <3>3. QED
      BY <1>2, <3>2
  <2>3. ASSUME NEW j \in i..(Len(s) - 1) PROVE (front \o rest)[j] = s[j + 1]
    <3>1. /\ j \in 1..(Len(front) + Len(rest)) /\ ~(j <= Len(front))
          /\ j - Len(front) = j - i + 1 /\ j - i + 1 \in 1..(Len(s) - i)
      BY <1>1, <1>2, <1>3
    <3>2. (front \o rest)[j] = rest[j - Len(front)]
      BY <1>2, <1>3, <3>1
    <3>3. rest[j - i + 1] = s[i + (j - i + 1)] /\ i + (j - i + 1) = j + 1
      BY <1>1, <1>3, <3>1
    <3>4. QED
      BY <3>1, <3>2, <3>3
  <2>4. QED
    BY <2>1, <2>2, <2>3
<1>6. ASSUME NEW j \in DOMAIN s, j # i
      PROVE  \E m \in DOMAIN (front \o rest) : (front \o rest)[m] = s[j]
  <2>1. CASE j < i
    <3>1. j \in 1..(i - 1) /\ j \in DOMAIN (front \o rest)
      BY <1>1, <1>5, <2>1
    <3>2. QED
      BY <1>5, <3>1
  <2>2. CASE j > i
    <3>1. j - 1 \in i..(Len(s) - 1) /\ j - 1 \in DOMAIN (front \o rest)
      BY <1>1, <1>5, <2>2
    <3>2. (front \o rest)[j - 1] = s[j]
      BY <1>1, <1>5, <3>1
    <3>3. QED
      BY <3>1, <3>2
  <2>3. QED
    BY <1>1, <1>6, <2>1, <2>2
<1> QED
  BY <1>4, <1>5, <1>6

\* What an update leaves in the document.
LEMMA UpdateSound ==
    ASSUME NEW d \in Docs, Sound(d), NEW k \in Edits,
           k.op \in {"points", "flag", "isVisible", "setVisibility"},
           k.op = "points" => k.value >= d.scoring.minPoints
    PROVE  /\ UpdateWith(k, d) \in Docs /\ Sound(UpdateWith(k, d))
           /\ UpdateWith(k, d).scoring.minPoints = d.scoring.minPoints
           /\ UpdateWith(k, d).scoring.isStatic = d.scoring.isStatic
           /\ k.op # "points" => UpdateWith(k, d).scoring = d.scoring
           /\ UpdateWith(k, d).solveCount = d.solveCount
           /\ UpdateWith(k, d).version = d.version
           /\ UpdateWith(k, d).hints = d.hints
           /\ UpdateWith(k, d).attachments = d.attachments
           /\ UpdateWith(k, d).isActive = d.isActive
<1>1. CASE k.op = "points"
  <2>1. k.value \in Nat
    BY <1>1, EditFields, ChallengesAssumption
  <2>2. UpdateWith(k, d) = d \/ UpdateWith(k, d) = [d EXCEPT !.scoring.points = k.value]
    BY <1>1 DEF UpdateWith
  <2>3. [d EXCEPT !.scoring.points = k.value].scoring \in Scorings
    BY <1>1, <2>1 DEF Docs, Scorings
  <2>4. [d EXCEPT !.scoring.points = k.value] \in Docs
    BY <2>3 DEF Docs
  <2>5. QED
    BY <1>1, <2>2, <2>4 DEF Docs, Scorings, Sound
<1>2. CASE k.op = "flag"
  <2>1. UpdateWith(k, d) = [d EXCEPT !.flag = [text |-> k.value, hashed |-> 1]]
    BY <1>2 DEF UpdateWith
  <2>2. QED
    BY <1>2, <2>1, EditFields DEF Docs, Sound
<1>3. CASE k.op \in {"isVisible", "setVisibility"}
  <2>1. \/ UpdateWith(k, d) = d
        \/ UpdateWith(k, d) = [d EXCEPT !.isVisible = k.value, !.dated = @ \/ k.value]
    BY <1>3 DEF UpdateWith
  <2>2. QED
    BY <1>3, <2>1, EditFields DEF Docs, Sound
<1> QED
  BY <1>1, <1>2, <1>3

-----------------------------------------------------------------------------
(* The steps, one by one.                                                   *)

LEMMA LoadSteps ==
    ASSUME ChallengeInv, NEW c \in Slots,
           \/ UpdateChallenge(c) \/ SetVisibility(c) \/ DeleteChallenge(c)
           \/ AddHint(c) \/ RemoveHint(c)
           \/ AddAttachment(c) \/ RemoveAttachment(c) \/ Solve(c)
    PROVE  ChallengeInv' /\ UNCHANGED challenge
<1>1. challenge \in Docs /\ begun \in Nat
  BY DEF ChallengeInv
<1>2. CASE UpdateChallenge(c)
  <2>1. PICK op \in {"points", "flag", "isVisible"}, value \in Points \cup Flags \cup BOOLEAN :
            Load(c, op, value) /\ [op |-> op, value |-> value, was |-> challenge] \in Edits
    BY <1>1, <1>2 DEF UpdateChallenge, Edits
  <2>2. ChallengeInv'
    BY <2>1, LoadKeeps
  <2> QED
    BY <2>1, <2>2 DEF Load
<1>3. CASE SetVisibility(c)
  <2>1. PICK value \in BOOLEAN : Load(c, "setVisibility", value)
    BY <1>3 DEF SetVisibility
  <2>2. [op |-> "setVisibility", value |-> value, was |-> challenge] \in Edits
    BY <1>1 DEF Edits
  <2>3. ChallengeInv'
    BY <2>1, <2>2, LoadKeeps
  <2> QED
    BY <2>1, <2>3 DEF Load
<1>4. CASE DeleteChallenge(c)
  <2>1. [op |-> "delete", value |-> Idle, was |-> challenge] \in Edits
    BY <1>1 DEF Edits
  <2>2. ChallengeInv'
    BY <1>4, <2>1, LoadKeeps DEF DeleteChallenge
  <2> QED
    BY <1>4, <2>2 DEF DeleteChallenge, Load
<1>5. CASE AddHint(c)
  <2>1. PICK o \in Orders : Load(c, "addHint", [id |-> begun, order |-> o])
    BY <1>5 DEF AddHint
  <2>2. [op |-> "addHint", value |-> [id |-> begun, order |-> o], was |-> challenge] \in Edits
    BY <1>1 DEF Edits, Hints
  <2>3. ChallengeInv'
    BY <2>1, <2>2, LoadKeeps
  <2> QED
    BY <2>1, <2>3 DEF Load
<1>6. CASE RemoveHint(c)
  <2>1. PICK i \in DOMAIN challenge.hints : Load(c, "removeHint", i)
    BY <1>6 DEF RemoveHint
  <2>2. i \in Nat
    BY <1>1, DocFields
  <2>3. [op |-> "removeHint", value |-> i, was |-> challenge] \in Edits
    BY <1>1, <2>2 DEF Edits
  <2>4. ChallengeInv'
    BY <2>1, <2>3, LoadKeeps
  <2> QED
    BY <2>1, <2>4 DEF Load
<1>7. CASE AddAttachment(c)
  <2>1. [op |-> "addAttachment", value |-> begun, was |-> challenge] \in Edits
    BY <1>1 DEF Edits
  <2>2. ChallengeInv'
    BY <1>7, <2>1, LoadKeeps DEF AddAttachment
  <2> QED
    BY <1>7, <2>2 DEF AddAttachment, Load
<1>8. CASE RemoveAttachment(c)
  <2>1. PICK a \in challenge.attachments : Load(c, "removeAttachment", a)
    BY <1>8 DEF RemoveAttachment
  <2>2. a \in Nat
    BY <1>1, DocFields
  <2>3. [op |-> "removeAttachment", value |-> a, was |-> challenge] \in Edits
    BY <1>1, <2>2 DEF Edits
  <2>4. ChallengeInv'
    BY <2>1, <2>3, LoadKeeps
  <2> QED
    BY <2>1, <2>4 DEF Load
<1>9. CASE Solve(c)
  <2>1. [op |-> "solve", value |-> FALSE, was |-> challenge] \in Edits
    BY <1>1 DEF Edits
  <2>2. ChallengeInv'
    BY <1>9, <2>1, LoadKeeps DEF Solve
  <2> QED
    BY <1>9, <2>2 DEF Solve, Load
<1> QED
  BY <1>2, <1>3, <1>4, <1>5, <1>6, <1>7, <1>8, <1>9

\* What is kept by a step that writes no array and counts no solve.
LEMMA KeptPlainly ==
    ASSUME ChallengeInv, challenge' \in Docs,
           challenge'.isActive => challenge.isActive,
           challenge'.scoring = challenge.scoring,
           challenge'.solveCount = challenge.solveCount,
           HintIds(challenge) \subseteq HintIds(challenge'),
           challenge.attachments \subseteq challenge'.attachments
    PROVE  Kept
<1>1. Value' = Value
  BY DEF Value
<1>2. Value \in Nat
  <2>1. challenge.scoring \in Scorings /\ challenge.solveCount \in Int
    BY DocFields DEF ChallengeInv
  <2> QED
    BY <2>1, PointsAreNatural DEF Value
<1> QED
  BY <1>1, <1>2 DEF Kept

LEMMA UpdateSteps ==
    ASSUME ChallengeInv, NEW c \in Slots, SaveUpdate(c) \/ SaveVisibility(c)
    PROVE  ChallengeInv' /\ Kept
<1> DEFINE k == edit[c]
<1>1. /\ k # Idle /\ k \in Edits /\ Known(k) /\ challenge \in Docs /\ Sound(challenge)
      /\ k.op \in {"points", "flag", "isVisible", "setVisibility"}
      /\ Done(c)
  BY DEF ChallengeInv, SaveUpdate, SaveVisibility, At
<1>2. \/ challenge' = challenge
      \/ /\ challenge' = UpdateWith(k, challenge)
         /\ k.op = "points" => k.value >= challenge.scoring.minPoints
  <2>1. CASE SaveUpdate(c)
    <3>1. k.op = "points" => k.value \in Nat /\ challenge.scoring.minPoints \in Nat
      BY <1>1, EditFields, DocFields, ChallengesAssumption
    <3> QED
      BY <1>1, <2>1, <3>1 DEF SaveUpdate, Valid, Known
  <2>2. CASE SaveVisibility(c)
    BY <2>2 DEF SaveVisibility, At
  <2> QED
    BY <2>1, <2>2
<1>3. /\ challenge' \in Docs /\ Sound(challenge')
      /\ challenge'.scoring.minPoints = challenge.scoring.minPoints
      /\ challenge'.scoring.isStatic = challenge.scoring.isStatic
      /\ k.op # "points" => challenge'.scoring = challenge.scoring
      /\ challenge'.solveCount = challenge.solveCount
      /\ challenge'.version = challenge.version
      /\ challenge'.hints = challenge.hints
      /\ challenge'.attachments = challenge.attachments
      /\ challenge'.isActive = challenge.isActive
  BY <1>1, <1>2, UpdateSound
<1>4. ChallengeInv'
  <2>1. challenge.version \in Nat
    BY <1>1, DocFields
  <2> QED
    BY <1>1, <1>3, <2>1, SaveKeeps
<1>5. /\ challenge.scoring \in Scorings /\ challenge'.scoring \in Scorings
      /\ challenge.solveCount \in Int
      /\ challenge.scoring.points \in Nat /\ challenge'.scoring.points \in Nat
  BY <1>1, <1>3, DocFields
<1>6. Value \in Nat /\ Value' \in Nat
  BY <1>3, <1>5, PointsAreNatural DEF Value
<1>7. challenge'.scoring.points <= challenge.scoring.points => Value' <= Value
  BY <1>3, <1>5, PointsFollowBase DEF Value
<1>8. HintIds(challenge') = HintIds(challenge)
  BY <1>3 DEF HintIds
<1>9. Kept
  BY <1>1, <1>3, <1>5, <1>6, <1>7, <1>8 DEF Kept
<1> QED
  BY <1>4, <1>9

\* What the other saves start from.
LEMMA Ending ==
    ASSUME ChallengeInv, NEW c \in Slots, NEW op, At(c, {op})
    PROVE  /\ edit[c] # Idle /\ edit[c] \in Edits /\ edit[c].op = op /\ Known(edit[c])
           /\ edit[c].was \in Docs /\ challenge \in Docs /\ Sound(challenge)
           /\ challenge.version \in Nat /\ challenge.version + 1 > challenge.version
           /\ Done(c) => edit'[c] = Idle
<1>1. edit[c] # Idle /\ edit[c] \in Edits /\ edit[c].op = op
  BY DEF ChallengeInv, At
<1> QED
  BY <1>1, EditFields, DocFields DEF ChallengeInv, Done

LEMMA DeletionStep ==
    ASSUME ChallengeInv, NEW c \in Slots, SaveDeletion(c)
    PROVE  ChallengeInv' /\ Kept
<1>1. At(c, {"delete"}) /\ Done(c)
  BY DEF SaveDeletion
<1>2. /\ challenge' \in Docs /\ Sound(challenge')
      /\ challenge'.scoring = challenge.scoring
      /\ challenge'.solveCount = challenge.solveCount
      /\ challenge'.version = challenge.version
      /\ challenge'.hints = challenge.hints
      /\ challenge'.attachments = challenge.attachments
      /\ ~challenge'.isActive
  BY <1>1, Ending DEF SaveDeletion, Docs, Sound
<1>3. HintIds(challenge') = HintIds(challenge) /\ challenge.solveCount \in Int
  BY <1>1, <1>2, Ending, DocFields DEF HintIds
<1>4. ChallengeInv'
  BY <1>1, <1>2, Ending, SaveKeeps
<1>5. Kept
  BY <1>2, <1>3, KeptPlainly
<1> QED
  BY <1>4, <1>5

LEMMA AdditionSteps ==
    ASSUME ChallengeInv, NEW c \in Slots, SaveHint(c) \/ SaveAttachment(c)
    PROVE  ChallengeInv' /\ Kept
<1>1. CASE SaveHint(c)
  <2>1. At(c, {"addHint"}) /\ Done(c)
    BY <1>1 DEF SaveHint
  <2>2. edit[c].value \in Hints /\ challenge.hints \in Seq(Hints)
    BY <2>1, Ending, EditFields, DocFields
  <2>3. Append(challenge.hints, edit[c].value) \in Seq(Hints)
    BY <2>2
  <2>4. /\ challenge' \in Docs /\ Sound(challenge')
        /\ challenge'.scoring = challenge.scoring
        /\ challenge'.solveCount = challenge.solveCount
        /\ challenge'.version = challenge.version + 1
        /\ challenge'.hints = Append(challenge.hints, edit[c].value)
        /\ challenge'.attachments = challenge.attachments
        /\ challenge'.isActive = challenge.isActive
    <3>1. challenge' = [challenge EXCEPT !.hints = Append(@, edit[c].value), !.version = @ + 1]
      BY <1>1 DEF SaveHint
    <3>2. challenge \in Docs /\ Sound(challenge) /\ challenge.version + 1 \in Nat
      BY <2>1, Ending
    <3> QED
      BY <2>3, <3>1, <3>2 DEF Docs, Sound
  <2>5. HintIds(challenge) \subseteq HintIds(challenge')
    <3>1. ASSUME NEW i \in DOMAIN challenge.hints
          PROVE  i \in DOMAIN challenge'.hints /\ challenge'.hints[i] = challenge.hints[i]
      BY <2>2, <2>4
    <3> QED
      BY <3>1 DEF HintIds
  <2>6. ChallengeInv'
    <3>1. edit[c] # Idle /\ edit[c].op # "solve" /\ challenge.version \in Nat
      BY <2>1, DocFields DEF At, ChallengeInv
    <3>2. challenge'.version > challenge.version
      BY <3>1, <2>4
    <3> QED
      BY <2>1, <2>4, <3>1, <3>2, SaveKeeps
  <2>7. challenge.solveCount \in Int
    BY <2>1, Ending, DocFields
  <2> QED
    BY <2>4, <2>5, <2>6, <2>7, KeptPlainly
<1>2. CASE SaveAttachment(c)
  <2>1. At(c, {"addAttachment"}) /\ Done(c)
    BY <1>2 DEF SaveAttachment
  <2>2. edit[c].value \in Nat /\ challenge.attachments \subseteq Nat
    BY <2>1, Ending, EditFields, DocFields
  <2>3. /\ challenge' \in Docs /\ Sound(challenge')
        /\ challenge'.scoring = challenge.scoring
        /\ challenge'.solveCount = challenge.solveCount
        /\ challenge'.version = challenge.version + 1
        /\ challenge'.hints = challenge.hints
        /\ challenge'.attachments = challenge.attachments \cup {edit[c].value}
        /\ challenge'.isActive = challenge.isActive
    <3>1. challenge' = [challenge EXCEPT !.attachments = @ \cup {edit[c].value},
                                         !.version = @ + 1]
      BY <1>2 DEF SaveAttachment
    <3>2. challenge \in Docs /\ Sound(challenge) /\ challenge.version + 1 \in Nat
      BY <2>1, Ending
    <3> QED
      BY <2>2, <3>1, <3>2 DEF Docs, Sound
  <2>4. HintIds(challenge') = HintIds(challenge) /\ challenge.solveCount \in Int
    BY <2>1, <2>3, Ending, DocFields DEF HintIds
  <2>5. ChallengeInv'
    <3>1. edit[c] # Idle /\ edit[c].op # "solve" /\ challenge.version \in Nat
      BY <2>1, DocFields DEF At, ChallengeInv
    <3>2. challenge'.version > challenge.version
      BY <3>1, <2>3
    <3> QED
      BY <2>1, <2>3, <3>1, <3>2, SaveKeeps
  <2> QED
    BY <2>3, <2>4, <2>5, KeptPlainly
<1> QED
  BY <1>1, <1>2

\* A replacement that is not refused starts from the stored array.
LEMMA RemovalSteps ==
    ASSUME ChallengeInv, NEW c \in Slots, SaveHintRemoval(c) \/ SaveAttachmentRemoval(c)
    PROVE  ChallengeInv' /\ Kept
<1>1. CASE SaveHintRemoval(c)
  <2> DEFINE k == edit[c]
  <2>1. At(c, {"removeHint"}) /\ Done(c) /\ k.op = "removeHint" /\ edit'[c] = Idle
    BY <1>1, Ending DEF SaveHintRemoval
  <2>2. CASE Refused(k)
    <3>1. challenge' = challenge
      BY <1>1, <2>2 DEF SaveHintRemoval
    <3>2. challenge.solveCount \in Int /\ HintIds(challenge') = HintIds(challenge)
      BY <2>1, <3>1, Ending, DocFields
    <3>3. challenge' \in Docs /\ Sound(challenge') /\ challenge.version \in Nat /\ k # Idle
      BY <2>1, <3>1, Ending
    <3>4. ChallengeInv'
      BY <2>1, <3>1, <3>2, <3>3, SaveKeeps
    <3>5. /\ challenge'.isActive = challenge.isActive /\ challenge'.scoring = challenge.scoring
          /\ challenge'.solveCount = challenge.solveCount
          /\ challenge'.attachments = challenge.attachments
      BY <3>1, <3>2
    <3> QED
      BY <3>2, <3>3, <3>4, <3>5, KeptPlainly
  <2>3. CASE ~Refused(k)
    <3>1. /\ k.was.hints = challenge.hints /\ k.value \in DOMAIN challenge.hints
          /\ challenge.hints \in Seq(Hints)
      BY <2>1, <2>3, Ending, DocFields DEF Refused, Known
    <3>2. Without(challenge.hints, k.value) \in Seq(Hints)
      BY <3>1, WithoutLeavesOthers
    <3>3. /\ challenge' \in Docs /\ Sound(challenge')
          /\ challenge'.scoring = challenge.scoring
          /\ challenge'.solveCount = challenge.solveCount
          /\ challenge'.version = challenge.version + 1
          /\ challenge'.hints = Without(challenge.hints, k.value)
          /\ challenge'.attachments = challenge.attachments
          /\ challenge'.isActive = challenge.isActive
      <4>1. challenge' = [challenge EXCEPT !.hints = Without(challenge.hints, k.value),
                                           !.version = @ + 1]
        BY <1>1, <2>3, <3>1 DEF SaveHintRemoval
      <4>2. challenge \in Docs /\ Sound(challenge) /\ challenge.version + 1 \in Nat
        BY <2>1, Ending
      <4> QED
        BY <3>2, <4>1, <4>2 DEF Docs, Sound
    <3>4. ASSUME NEW h \in HintIds(challenge) \ HintIds(challenge')
          PROVE  k.was.hints[k.value].id = h
      <4>1. PICK j \in DOMAIN challenge.hints : challenge.hints[j].id = h
        BY DEF HintIds
      <4>2. ASSUME j # k.value PROVE h \in HintIds(challenge')
        <5>1. PICK m \in DOMAIN Without(challenge.hints, k.value) :
                  Without(challenge.hints, k.value)[m] = challenge.hints[j]
          BY <3>1, <4>1, <4>2, WithoutLeavesOthers
        <5> QED
          BY <3>3, <4>1, <5>1 DEF HintIds
      <4> QED
        BY <3>1, <3>4, <4>1, <4>2
    <3>5. ChallengeInv'
      <4>1. k # Idle /\ challenge.version \in Nat
        BY <2>1, DocFields DEF At, ChallengeInv
      <4>2. challenge'.version > challenge.version
        BY <3>3, <4>1
      <4> QED
        BY <2>1, <3>3, <4>1, <4>2, SaveKeeps
    <3>6. challenge.solveCount \in Int
      BY <2>1, Ending, DocFields
    <3>7. Value' = Value /\ Value \in Nat
      <4>1. challenge.scoring \in Scorings
        BY <2>1, Ending, DocFields
      <4> QED
        BY <3>3, <3>6, <4>1, PointsAreNatural DEF Value
    <3> QED
      BY <2>1, <3>3, <3>4, <3>5, <3>6, <3>7 DEF Kept, Ends
  <2> QED
    BY <2>2, <2>3
<1>2. CASE SaveAttachmentRemoval(c)
  <2> DEFINE k == edit[c]
  <2>1. At(c, {"removeAttachment"}) /\ Done(c) /\ k.op = "removeAttachment" /\ edit'[c] = Idle
    BY <1>2, Ending DEF SaveAttachmentRemoval
  <2>2. CASE Refused(k)
    <3>1. challenge' = challenge
      BY <1>2, <2>2 DEF SaveAttachmentRemoval
    <3>2. challenge.solveCount \in Int /\ HintIds(challenge') = HintIds(challenge)
      BY <2>1, <3>1, Ending, DocFields
    <3>3. challenge' \in Docs /\ Sound(challenge') /\ challenge.version \in Nat /\ k # Idle
      BY <2>1, <3>1, Ending
    <3>4. ChallengeInv'
      BY <2>1, <3>1, <3>2, <3>3, SaveKeeps
    <3>5. /\ challenge'.isActive = challenge.isActive /\ challenge'.scoring = challenge.scoring
          /\ challenge'.solveCount = challenge.solveCount
          /\ challenge'.attachments = challenge.attachments
      BY <3>1, <3>2
    <3> QED
      BY <3>2, <3>3, <3>4, <3>5, KeptPlainly
  <2>3. CASE ~Refused(k)
    <3>1. k.was.attachments = challenge.attachments /\ challenge.attachments \subseteq Nat
      BY <2>1, <2>3, Ending, DocFields DEF Refused, Known
    <3>2. /\ challenge' \in Docs /\ Sound(challenge')
          /\ challenge'.scoring = challenge.scoring
          /\ challenge'.solveCount = challenge.solveCount
          /\ challenge'.version = challenge.version + 1
          /\ challenge'.hints = challenge.hints
          /\ challenge'.attachments = challenge.attachments \ {k.value}
          /\ challenge'.isActive = challenge.isActive
      <4>1. challenge' = [challenge EXCEPT !.attachments = challenge.attachments \ {k.value},
                                           !.version = @ + 1]
        BY <1>2, <2>3, <3>1 DEF SaveAttachmentRemoval
      <4>2. challenge \in Docs /\ Sound(challenge) /\ challenge.version + 1 \in Nat
        BY <2>1, Ending
      <4> QED
        BY <3>1, <4>1, <4>2 DEF Docs, Sound
    <3>3. HintIds(challenge') = HintIds(challenge) /\ challenge.solveCount \in Int
      BY <2>1, <3>2, Ending, DocFields DEF HintIds
    <3>4. ChallengeInv'
      <4>1. k # Idle /\ challenge.version \in Nat
        BY <2>1, DocFields DEF At, ChallengeInv
      <4>2. challenge'.version > challenge.version
        BY <3>2, <4>1
      <4> QED
        BY <2>1, <3>2, <4>1, <4>2, SaveKeeps
    <3>5. Value' = Value /\ Value \in Nat
      <4>1. challenge.scoring \in Scorings
        BY <2>1, Ending, DocFields
      <4> QED
        BY <3>2, <3>3, <4>1, PointsAreNatural DEF Value
    <3> QED
      BY <2>1, <3>2, <3>3, <3>4, <3>5 DEF Kept, Ends
  <2> QED
    BY <2>2, <2>3
<1> QED
  BY <1>1, <1>2

\* A solve that nothing has overtaken counts one; its value falls or stays.
LEMMA SolveStep ==
    ASSUME ChallengeInv, NEW c \in Slots, SaveSolve(c)
    PROVE  ChallengeInv' /\ Kept
<1> DEFINE k == edit[c]
<1>1. At(c, {"solve"})
  BY DEF SaveSolve
<1>2. /\ k # Idle /\ k \in Edits /\ k.op = "solve" /\ Known(k) /\ k.was \in Docs
      /\ challenge \in Docs /\ Sound(challenge)
      /\ challenge.version \in Nat /\ challenge.version + 1 > challenge.version
      /\ challenge.solveCount \in Int /\ k.was.solveCount \in Int
      /\ challenge.scoring \in Scorings /\ challenge.recent \in Nat
  BY <1>1, Ending, DocFields
<1>3. CASE UNCHANGED challenge /\ Done(c)
  <2>1. /\ challenge' \in Docs /\ Sound(challenge')
        /\ HintIds(challenge') = HintIds(challenge)
    BY <1>2, <1>3
  <2>2. ChallengeInv'
    BY <1>2, <1>3, <2>1, SaveKeeps
  <2> QED
    BY <1>3, <2>1, <2>2, KeptPlainly
<1>4. CASE /\ challenge' = Counted(k, challenge)
           /\ edit' = [Overtaken EXCEPT ![c] = Idle]
           /\ UNCHANGED begun
  <2>1. PICK recent \in Nat :
            challenge' = [challenge EXCEPT !.solveCount = k.was.solveCount + 1,
                                           !.recent = recent, !.version = @ + 1]
    <3> DEFINE room == IF k.was.recent >= RecentCap THEN RecentCap ELSE challenge.recent + 1
    <3>1. room \in Nat
      BY <1>2, ChallengesAssumption
    <3>2. challenge' = [challenge EXCEPT !.solveCount = k.was.solveCount + 1,
                                         !.recent = room, !.version = @ + 1]
      BY <1>4 DEF Counted
    <3> HIDE DEF room
    <3> QED
      BY <3>1, <3>2
  <2>2. /\ challenge' \in Docs /\ Sound(challenge')
        /\ challenge'.scoring = challenge.scoring
        /\ challenge'.solveCount = k.was.solveCount + 1
        /\ challenge'.version = challenge.version + 1
        /\ challenge'.hints = challenge.hints
        /\ challenge'.attachments = challenge.attachments
        /\ challenge'.isActive = challenge.isActive
    <3>1. k.was.solveCount + 1 \in Int /\ challenge.version + 1 \in Nat
      BY <1>2
    <3> HIDE DEF k
    <3> QED
      BY <1>2, <2>1, <3>1 DEF Docs, Sound
  <2>3. /\ edit' \in [Slots -> Edits \cup {Idle}] /\ edit'[c] = Idle
        /\ \A d \in Slots : edit'[d] # Idle => edit'[d] = Overtaken[d]
    BY <1>4, OvertakenTyped
  <2>4. challenge'.version >= challenge.version /\ begun' \in Nat
    BY <1>2, <1>4, <2>2 DEF ChallengeInv
  <2>5. ChallengeInv'
    BY <2>2, <2>3, <2>4, CountKeeps
  <2>6. Ends(c, "solve")
    BY <1>1, <2>3 DEF Ends
  <2>7. HintIds(challenge') = HintIds(challenge)
    BY <2>2 DEF HintIds
  <2>8. CASE k.value
    <3>1. \E d \in Slots : Ends(d, "solve") /\ edit[d].value
      BY <2>6, <2>8
    <3> QED
      BY <2>2, <2>5, <2>7, <3>1 DEF Kept
  <2>9. CASE ~k.value
    <3>1. k.was.solveCount = challenge.solveCount
      BY <1>2, <2>9 DEF Known
    <3>2. challenge'.solveCount = challenge.solveCount + 1
      BY <2>2, <3>1
    <3>3. Value' <= Value /\ Value \in Nat /\ Value' \in Nat
      <4>1. challenge'.solveCount \in Int /\ challenge.solveCount <= challenge'.solveCount
        BY <1>2, <3>2
      <4> QED
        BY <1>2, <2>2, <4>1, PointsDecay, PointsAreNatural DEF Value
    <3>4. ~(Value' > Value)
      BY <3>3
    <3>5. \E d \in Slots : Ends(d, "solve") /\ challenge'.solveCount = challenge.solveCount + 1
      BY <2>6, <3>2
    <3> QED
      BY <2>2, <2>5, <2>7, <3>4, <3>5 DEF Kept
  <2> QED
    BY <2>8, <2>9
<1> QED
  BY <1>3, <1>4 DEF SaveSolve

LEMMA DeleteSolveStep ==
    ASSUME ChallengeInv, DeleteSolve
    PROVE  ChallengeInv' /\ Kept
<1>1. /\ challenge \in Docs /\ Sound(challenge) /\ challenge.solveCount \in Int
      /\ challenge.version \in Nat /\ begun \in Nat
  BY DocFields DEF ChallengeInv
<1>2. /\ challenge' = [challenge EXCEPT !.solveCount = @ - 1]
      /\ begun' = begun + 1 /\ edit' = Overtaken
  BY DEF DeleteSolve
<1>3. /\ challenge' \in Docs /\ Sound(challenge')
      /\ challenge'.scoring = challenge.scoring
      /\ challenge'.solveCount = challenge.solveCount - 1
      /\ challenge'.version = challenge.version
      /\ challenge'.hints = challenge.hints
      /\ challenge'.attachments = challenge.attachments
      /\ challenge'.isActive = challenge.isActive
  BY <1>1, <1>2 DEF Docs, Sound
<1>4. begun' \in Nat /\ begun' > begun /\ challenge'.version >= challenge.version
  BY <1>1, <1>2, <1>3
<1>5. ChallengeInv'
  BY <1>2, <1>3, <1>4, OvertakenTyped, CountKeeps
<1>6. TakesBack
  BY <1>3, <1>4 DEF TakesBack
<1>7. HintIds(challenge') = HintIds(challenge)
  BY <1>3 DEF HintIds
<1> QED
  BY <1>3, <1>5, <1>6, <1>7 DEF Kept

-----------------------------------------------------------------------------
(* The specification.                                                       *)

LEMMA StartsSound == ChallengesInit => ChallengeInv
<1> SUFFICES ASSUME ChallengesInit PROVE ChallengeInv
  OBVIOUS
<1>1. PICK s \in Created, n \in Solves, f \in Flags :
        challenge = [scoring |-> s, solveCount |-> n,
                     recent |-> IF n < RecentCap THEN n ELSE RecentCap,
                     flag |-> [text |-> f, hashed |-> 1],
                     isVisible |-> n > 0, isActive |-> TRUE, dated |-> n > 0,
                     hints |-> <<>>, attachments |-> {}, version |-> n]
  BY DEF ChallengesInit
<1>2. /\ s \in Scorings /\ n \in Nat /\ (n > 0) \in BOOLEAN /\ <<>> \in Seq(Hints)
      /\ (IF n < RecentCap THEN n ELSE RecentCap) \in Nat
  BY ChallengesAssumption
<1>3. challenge \in Docs /\ Sound(challenge)
  BY <1>1, <1>2 DEF Docs, Sound
<1>4. edit = [c \in Slots |-> Idle] /\ begun = 0
  BY DEF ChallengesInit
<1>5. edit \in [Slots -> Edits \cup {Idle}] /\ \A c \in Slots : edit[c] = Idle
  BY <1>4
<1> QED
  BY <1>3, <1>4, <1>5 DEF ChallengeInv

LEMMA StepsSound ==
    ASSUME ChallengeInv, [Next]_vars
    PROVE  ChallengeInv' /\ [Kept]_challengeVars
<1>1. CASE ChallengesNext
  <2>1. CASE DeleteSolve
    BY <2>1, DeleteSolveStep
  <2>2. UNCHANGED challenge /\ ChallengeInv' => Kept
    <3> SUFFICES ASSUME UNCHANGED challenge, ChallengeInv' PROVE Kept
      OBVIOUS
    <3>1. challenge \in Docs
      BY DEF ChallengeInv
    <3>2. challenge' \in Docs /\ HintIds(challenge') = HintIds(challenge)
      BY <3>1
    <3> QED
      BY <3>1, <3>2, KeptPlainly
  <2>3. ASSUME NEW c \in Slots,
            \/ UpdateChallenge(c) \/ SaveUpdate(c)
            \/ SetVisibility(c) \/ SaveVisibility(c)
            \/ DeleteChallenge(c) \/ SaveDeletion(c)
            \/ AddHint(c) \/ SaveHint(c) \/ RemoveHint(c) \/ SaveHintRemoval(c)
            \/ AddAttachment(c) \/ SaveAttachment(c)
            \/ RemoveAttachment(c) \/ SaveAttachmentRemoval(c)
            \/ Solve(c) \/ SaveSolve(c)
        PROVE  ChallengeInv' /\ Kept
    BY <2>2, <2>3, LoadSteps, UpdateSteps, DeletionStep, AdditionSteps, RemovalSteps, SolveStep
  <2> QED
    BY <1>1, <2>1, <2>3 DEF ChallengesNext
<1>2. CASE UNCHANGED challengeVars
  BY <1>2 DEF ChallengeInv, challengeVars, Known
<1>3. ChaptersNext => UNCHANGED challengeVars
  <2> SUFFICES ASSUME NEW c \in Slots, Start(c) \/ Continue(c) PROVE UNCHANGED challengeVars
    BY DEF ChaptersNext
  <2>1. CASE Start(c)
    <3>1. CASE \E ch \in Chapters :
                CreateNode(c, ch) \/ UpdateNode(c, ch) \/ PublishChapter(c, ch)
      BY <3>1 DEF CreateNode, UpdateNode, PublishChapter, Begin
    <3>2. CASE \E ch \in Chapters : DeleteNode(c, ch) \/ DeleteChapter(c, ch)
      BY <3>2 DEF DeleteNode, DeleteChapter, Begin
    <3>3. CASE \E ch \in Chapters : ConnectEdge(c, ch)
      BY <3>3 DEF ConnectEdge, Begin
    <3>4. CASE \E ch \in Chapters : DisconnectEdge(c, ch)
      BY <3>4 DEF DisconnectEdge, Begin
    <3>5. CASE CreateChapter(c) \/ SetStoryStatus(c) \/ DeleteStory(c)
      BY <3>5 DEF CreateChapter, SetStoryStatus, DeleteStory, Begin
    <3> QED
      BY <2>1, <3>1, <3>2, <3>3, <3>4, <3>5 DEF Start
  <2>2. CASE Continue(c)
    <3>1. CASE SaveChapter(c) \/ ListChapter(c) \/ SaveStatus(c) \/ CommitDeletion(c)
      BY <3>1 DEF SaveChapter, ListChapter, SaveStatus, CommitDeletion, Finish
    <3>2. CASE InsertChapter(c) \/ FindPublished(c)
      BY <3>2 DEF InsertChapter, FindPublished, Go
    <3>3. CASE \E place \in {"chapter", "story"} : DeleteFrom(c, place)
      BY <3>3 DEF DeleteFrom, Go
    <3>4. CASE \E ch \in Chapters : CheckChapter(c, ch)
      BY <3>4 DEF CheckChapter, Go
    <3> QED
      BY <2>2, <3>1, <3>2, <3>3, <3>4 DEF Continue
  <2> QED
    BY <2>1, <2>2
<1> QED
  BY <1>1, <1>2, <1>3 DEF Next, vars, challengeVars

LEMMA ChallengeInvHolds == Spec => []ChallengeInv
<1>1. Init => ChallengeInv
  BY StartsSound DEF Init
<1>2. ChallengeInv /\ [Next]_vars => ChallengeInv'
  BY StepsSound
<1> QED
  BY <1>1, <1>2, PTL DEF Spec

\* Whatever is edited at once, minPoints stays at most points and the value between
\* them, a visible challenge is dated and a flag hashed once.
THEOREM ChallengeConsistentHolds == Spec => []ChallengeConsistent
<1>1. ChallengeInv => ChallengeConsistent
  <2> SUFFICES ASSUME ChallengeInv PROVE ChallengeConsistent
    OBVIOUS
  <2>1. challenge \in Docs /\ challenge.scoring \in Scorings /\ challenge.solveCount \in Int
    BY DocFields DEF ChallengeInv
  <2> QED
    BY <2>1, PointsInRange DEF ChallengeInv, ChallengeConsistent, Sound, Value
<1> QED
  BY <1>1, ChallengeInvHolds, PTL

\* No edit undoes what other calls wrote since it loaded the challenge, whatever
\* overlaps; of the solves, only one that another solve or a deletion has overtaken
\* moves the count by anything but one, or raises the value.
THEOREM ChallengeEditsHoldHolds == Spec => ChallengeEditsHold
<1>1. ChallengeInv /\ [Next]_vars => [Kept]_challengeVars
  BY StepsSound
<1> QED
  BY <1>1, ChallengeInvHolds, PTL DEF Spec, ChallengeEditsHold

-----------------------------------------------------------------------------
(* The chapters.  What a node call loaded stays true of the stored chapter   *)
(* as far as the version is the same: the positions of the nodes and the     *)
(* lengths of their arrays do, their plain fields need not.  The nodes that  *)
(* are to be pushed and the chapters that are to be inserted are nowhere     *)
(* else, and a chapter that a call has deleted is gone.                      *)

NodeOps == {"push", "field", "option", "array", "all", "status"}

Distinct(doc) ==
    \A i, j \in DOMAIN doc.nodes : doc.nodes[i].id = doc.nodes[j].id => i = j

SameShape(d, e) ==
    /\ Len(d.nodes) = Len(e.nodes)
    /\ \A i \in DOMAIN d.nodes :
        /\ d.nodes[i].id = e.nodes[i].id
        /\ Len(d.nodes[i].choices) = Len(e.nodes[i].choices)

\* What a save sends fits the node it is sent to, and leads to nodes that were there.
Fits(k) ==
    /\ k.op \notin {"push", "status"} => k.node \in Ids(k.was)
    /\ k.op = "push" => k.value \in NodeFields /\ k.value.id = k.node
    /\ k.op = "field" =>
        \/ k.field = "type" /\ k.value \in {"text", "choice"}
        \/ k.field \in {"entry", "optional"} /\ k.value \in BOOLEAN
        \/ k.field = "next" /\ k.value \in Ids(k.was) \cup {None}
    /\ k.op = "array" =>
        \/ k.field = "choices" /\ k.value \in Seq(Ids(k.was))
        \/ k.field = "unlockAfter" /\ k.value \in SUBSET Nodes
    /\ k.op = "option" =>
        /\ k.field \in DOMAIN k.was.nodes[Place(k.was, k.node)].choices
        /\ k.value \in Ids(k.was) \cup {None}
    /\ k.op = "all" =>
        \A i \in DOMAIN k.was.nodes : k.was.nodes[i].id # k.node =>
            k.was.nodes[i].next # k.node /\ Targets(k.was.nodes[i]) = {}

NodeCallInv(k) ==
    /\ k.chapter \in Chapters \cap minted
    /\ k.was \in ChapterDocs /\ Distinct(k.was)
    /\ Fits(k)
    /\ chapter[k.chapter] # None =>
        /\ k.was.version <= chapter[k.chapter].version
        /\ k.was.version = chapter[k.chapter].version => SameShape(k.was, chapter[k.chapter])
    /\ k.op = "push" =>
        /\ k.node \in minted
        /\ \A ch \in Chapters : chapter[ch] # None => k.node \notin Ids(chapter[ch])

\* What is to be published looks for the chapters, then checks them.
StatusCalls == [op : {"find", "check"}, chapter : Statuses, value : SUBSET Chapters]

StoryCallInv(k) ==
    /\ \/ k \in ListCalls /\ k.chapter \in minted
       \/ k \in StatusCalls
       \/ k.op = "deleteStory"
    /\ k.op = "create" => chapter[k.chapter] = None
    /\ k.op = "delete" /\ "chapter" \notin k.value => chapter[k.chapter] = None

CallInv(k) == IF k.op \in NodeOps THEN NodeCallInv(k) ELSE StoryCallInv(k)

Listing(ch) ==
    \/ story = None \/ ch \in story.chapters
    \/ \E c \in Slots : Pending(c, "list") /\ nodeEdit[c].chapter = ch
    \/ \E c \in Slots : Pending(c, "delete") /\ nodeEdit[c].chapter = ch

DocsInv ==
    \A ch \in Chapters : chapter[ch] # None =>
        Distinct(chapter[ch]) /\ Ids(chapter[ch]) \cup {ch} \subseteq minted

\* c has minted what no other call is about.
Alone(c) ==
    \A d \in Slots \ {c} :
        /\ Pending(c, "push") /\ Pending(d, "push") => nodeEdit[d].node # nodeEdit[c].node
        /\ Pending(c, "create") =>
            \A op \in NodeOps \cup {"create", "delete"} :
                Pending(d, op) => nodeEdit[d].chapter # nodeEdit[c].chapter

ChaptersInv ==
    /\ Typed /\ DocsInv
    /\ \E S : nodeEdit \in [Slots -> S]
    /\ \A c \in Slots : nodeEdit[c] # Idle => CallInv(nodeEdit[c])
    /\ \A c \in Slots : Alone(c)
    /\ \A ch \in Chapters : chapter[ch] # None => Listing(ch)

LEMMA DocIsTyped ==
    ASSUME NEW d \in ChapterDocs
    PROVE  /\ d.nodes \in Seq(NodeFields) /\ Len(d.nodes) \in Nat
           /\ DOMAIN d.nodes = 1..Len(d.nodes) /\ d.version \in Nat
           /\ \A i \in DOMAIN d.nodes : d.nodes[i] \in NodeFields /\ d.nodes[i].id \in Nodes
           /\ Ids(d) \subseteq Nodes
<1>1. d.nodes \in Seq(NodeFields) /\ d.version \in Nat
  BY DEF ChapterDocs
<1>2. Len(d.nodes) \in Nat /\ DOMAIN d.nodes = 1..Len(d.nodes)
  BY <1>1
<1>3. ASSUME NEW i \in DOMAIN d.nodes
      PROVE  d.nodes[i] \in NodeFields /\ d.nodes[i].id \in Nodes
  <2>1. d.nodes[i] \in NodeFields
    BY <1>1
  <2> QED
    BY <2>1 DEF NodeFields
<1> QED
  BY <1>1, <1>2, <1>3 DEF Ids

LEMMA PlaceIs ==
    ASSUME NEW d, NEW n \in Ids(d)
    PROVE  /\ Place(d, n) \in DOMAIN d.nodes /\ d.nodes[Place(d, n)].id = n
           /\ Distinct(d) => \A i \in DOMAIN d.nodes : d.nodes[i].id = n => i = Place(d, n)
BY DEF Ids, Place, Distinct

\* A chapter of the same shape has the same nodes in the same places.
LEMMA ShapeIs ==
    ASSUME NEW d \in ChapterDocs, NEW e \in ChapterDocs, SameShape(d, e)
    PROVE  /\ DOMAIN d.nodes = DOMAIN e.nodes /\ Ids(d) = Ids(e)
           /\ Distinct(d) => Distinct(e)
           /\ \A n \in Ids(d) : Distinct(d) => Place(d, n) = Place(e, n)
<1>1. DOMAIN d.nodes = DOMAIN e.nodes /\ \A i \in DOMAIN d.nodes : d.nodes[i].id = e.nodes[i].id
  BY DocIsTyped DEF SameShape
<1>2. Ids(d) = Ids(e) /\ (Distinct(d) => Distinct(e))
  BY <1>1 DEF Ids, Distinct
<1>3. ASSUME NEW n \in Ids(d), Distinct(d) PROVE Place(d, n) = Place(e, n)
  BY <1>1, <1>2, <1>3, PlaceIs
<1> QED
  BY <1>1, <1>2, <1>3

LEMMA ShapeTransitive ==
    ASSUME NEW d \in ChapterDocs, NEW e \in ChapterDocs, NEW f \in ChapterDocs,
           SameShape(d, e), SameShape(e, f)
    PROVE  SameShape(d, f)
<1>1. DOMAIN d.nodes = DOMAIN e.nodes
  BY ShapeIs
<1> QED
  BY <1>1 DEF SameShape

\* The calls when one of them begins or goes on.
LEMMA CallsAfter ==
    ASSUME ChaptersInv, NEW c \in Slots, NEW k, nodeEdit' = [nodeEdit EXCEPT ![c] = k]
    PROVE  /\ nodeEdit'[c] = k /\ \A d \in Slots \ {c} : nodeEdit'[d] = nodeEdit[d]
           /\ (\E S : nodeEdit \in [Slots -> S])'
<1>1. PICK S : nodeEdit \in [Slots -> S]
  BY DEF ChaptersInv
<1>2. nodeEdit' \in [Slots -> S \cup {k}]
  BY <1>1
<1> QED
  BY <1>1, <1>2

\* A call that begins.
LEMMA BeginKeeps ==
    ASSUME ChaptersInv, NEW c \in Slots, NEW k, Begin(c, k), nodeEdit[c] = Idle,
           k # Idle => CallInv(k)',
           k.op \in NodeOps \cup {"delete"} => chapter[k.chapter] # None,
           \/ minted' = minted /\ k.op \notin {"push", "create"}
           \/ k.op = "push" /\ k.node \in Nodes \ minted /\ minted' = minted \cup {k.node}
           \/ k.op = "create" /\ k.chapter \in Chapters \ minted
              /\ minted' = minted \cup {k.chapter}
    PROVE  ChaptersInv'
<1>1. /\ nodeEdit' = [nodeEdit EXCEPT ![c] = k]
      /\ story' = story /\ chapter' = chapter
      /\ minted \subseteq minted' /\ minted' \subseteq minted \cup Chapters \cup Nodes
  BY DEF Begin
<1>2. /\ nodeEdit'[c] = k /\ \A d \in Slots \ {c} : nodeEdit'[d] = nodeEdit[d]
      /\ (\E S : nodeEdit \in [Slots -> S])'
  BY <1>1, CallsAfter
<1>3. Typed' /\ DocsInv'
  <2>1. Typed /\ DocsInv
    BY DEF ChaptersInv
  <2> QED
    BY <1>1, <2>1 DEF Typed, DocsInv
<1>4. ASSUME NEW d \in Slots, nodeEdit'[d] # Idle PROVE CallInv(nodeEdit[d])'
  <2>1. CASE d = c
    BY <1>2, <1>4, <2>1
  <2>2. CASE d # c
    <3>1. nodeEdit'[d] = nodeEdit[d] /\ CallInv(nodeEdit[d])
      BY <1>2, <1>4, <2>2 DEF ChaptersInv
    <3> QED
      BY <1>1, <3>1 DEF CallInv, NodeCallInv, StoryCallInv, StatusCalls
  <2> QED
    BY <2>1, <2>2
<1>5. ASSUME NEW d \in Slots PROVE Alone(d)'
  <2> SUFFICES ASSUME NEW e \in Slots \ {d}
               PROVE  /\ (Pending(d, "push") /\ Pending(e, "push")
                             => nodeEdit[e].node # nodeEdit[d].node)'
                      /\ \A op \in NodeOps \cup {"create", "delete"} :
                             (Pending(d, "create") /\ Pending(e, op)
                                 => nodeEdit[e].chapter # nodeEdit[d].chapter)'
    BY DEF Alone
  <2>1. CASE d # c /\ e # c
    <3>1. Alone(d) /\ nodeEdit'[d] = nodeEdit[d] /\ nodeEdit'[e] = nodeEdit[e]
      BY <1>2, <2>1 DEF ChaptersInv
    <3> QED
      BY <3>1 DEF Alone, Pending
  <2>2. ASSUME NEW f \in Slots, f # c, nodeEdit[f] # Idle
        PROVE  /\ nodeEdit[f].op = "push" => nodeEdit[f].node \in minted
               /\ nodeEdit[f].op \in NodeOps \cup {"create", "delete"} =>
                      nodeEdit[f].chapter \in minted
               /\ nodeEdit[f].op = "create" => chapter[nodeEdit[f].chapter] = None
    <3>1. CallInv(nodeEdit[f])
      BY <2>2 DEF ChaptersInv
    <3> QED
      BY <3>1 DEF CallInv, NodeCallInv, StoryCallInv, StatusCalls, NodeOps
  <2>3. CASE d = c
    <3>1. e # c /\ nodeEdit'[e] = nodeEdit[e] /\ nodeEdit'[d] = k
      BY <1>2, <2>3
    <3> QED
      BY <2>2, <3>1 DEF Pending
  <2>4. CASE e = c
    <3>1. d # c /\ nodeEdit'[d] = nodeEdit[d] /\ nodeEdit'[e] = k
      BY <1>2, <2>4
    <3>2. (Pending(d, "push") /\ Pending(e, "push") => nodeEdit[e].node # nodeEdit[d].node)'
      BY <2>2, <3>1 DEF Pending
    <3>3. ASSUME Pending(d, "create")', NEW op \in NodeOps \cup {"create", "delete"},
                 Pending(e, op)'
          PROVE  nodeEdit'[e].chapter # nodeEdit'[d].chapter
      <4>1. nodeEdit[d] # Idle /\ nodeEdit[d].op = "create" /\ k # Idle /\ k.op = op
        BY <3>1, <3>3 DEF Pending
      <4>2. nodeEdit[d].chapter \in minted /\ chapter[nodeEdit[d].chapter] = None
        BY <2>2, <3>1, <4>1
      <4>3. op = "create" \/ chapter[k.chapter] # None
        BY <4>1
      <4> QED
        BY <3>1, <4>1, <4>2, <4>3
    <3> QED
      BY <3>2, <3>3
  <2> QED
    BY <2>1, <2>3, <2>4
<1>6. ASSUME NEW ch \in Chapters, chapter'[ch] # None PROVE Listing(ch)'
  <2>1. Listing(ch)
    BY <1>1, <1>6 DEF ChaptersInv
  <2>2. \A d \in Slots, op \in {"list", "delete"} : Pending(d, op) => Pending(d, op)' /\ nodeEdit'[d] = nodeEdit[d]
    BY <1>2 DEF Pending
  <2> QED
    BY <1>1, <2>1, <2>2 DEF Listing
<1> QED
  BY <1>2, <1>3, <1>4, <1>5, <1>6 DEF ChaptersInv

\* e is what one call may make of the document d, N what it may add.
Grown(d, e, N) ==
    /\ d.version <= e.version
    /\ e.version = d.version => SameShape(d, e)
    /\ Distinct(e) /\ Ids(e) \subseteq Ids(d) \cup N

Pushed(c) == IF Pending(c, "push") THEN {nodeEdit[c].node} ELSE {}

\* A call that goes on, to k, or ends.
LEMMA ContinueKeeps ==
    ASSUME ChaptersInv, NEW c \in Slots, nodeEdit[c] # Idle, NEW k,
           nodeEdit' = [nodeEdit EXCEPT ![c] = k], minted' = minted, Typed',
           \A ch \in Chapters : chapter'[ch] # None =>
               \/ chapter[ch] # None /\ Grown(chapter[ch], chapter'[ch], Pushed(c))
               \/ Pending(c, "create") /\ ch = nodeEdit[c].chapter /\ chapter'[ch] = Blank,
           k # Idle => CallInv(k)' /\ k.op \notin NodeOps \cup {"create"}
                       /\ (k.op = "delete" => Pending(c, "delete") /\ nodeEdit[c].chapter = k.chapter),
           \A ch \in Chapters : chapter'[ch] # None => Listing(ch)'
    PROVE  ChaptersInv'
<1>1. /\ nodeEdit'[c] = k /\ \A d \in Slots \ {c} : nodeEdit'[d] = nodeEdit[d]
      /\ (\E S : nodeEdit \in [Slots -> S])'
  BY CallsAfter
<1>2. CallInv(nodeEdit[c])
  BY DEF ChaptersInv
<1>3. Ids(Blank) = {} /\ Distinct(Blank)
  BY DEF Ids, Distinct, Blank
<1>4. DocsInv'
  <2> SUFFICES ASSUME NEW ch \in Chapters, chapter'[ch] # None
               PROVE  Distinct(chapter'[ch]) /\ Ids(chapter'[ch]) \cup {ch} \subseteq minted
    BY DEF DocsInv
  <2>1. CASE chapter[ch] # None /\ Grown(chapter[ch], chapter'[ch], Pushed(c))
    <3>1. Pushed(c) \subseteq minted
      BY <1>2 DEF CallInv, NodeCallInv, NodeOps, Pending, Pushed
    <3> QED
      BY <2>1, <3>1 DEF ChaptersInv, DocsInv, Grown
  <2>2. CASE Pending(c, "create") /\ ch = nodeEdit[c].chapter /\ chapter'[ch] = Blank
    <3>1. ch \in minted
      BY <1>2, <2>2 DEF CallInv, StoryCallInv, StatusCalls, NodeOps, Pending
    <3> QED
      BY <1>3, <2>2, <3>1
  <2> QED
    BY <2>1, <2>2
<1>5. ASSUME NEW d \in Slots, nodeEdit'[d] # Idle PROVE CallInv(nodeEdit[d])'
  <2>1. CASE d = c
    BY <1>1, <1>5, <2>1
  <2>2. CASE d # c
    <3> DEFINE j == nodeEdit[d]
    <3>1. nodeEdit'[d] = j /\ j # Idle /\ CallInv(j) /\ Alone(c) /\ Alone(d)
      BY <1>1, <1>5, <2>2 DEF ChaptersInv
    <3>2. ASSUME j.op \in NodeOps \cup {"create", "delete"}, j.chapter \in Chapters,
                 chapter'[j.chapter] # None
          PROVE  /\ chapter[j.chapter] # None
                 /\ Grown(chapter[j.chapter], chapter'[j.chapter], Pushed(c))
      <4>1. Pending(d, j.op)
        BY <3>1 DEF Pending
      <4>2. ~(Pending(c, "create") /\ j.chapter = nodeEdit[c].chapter)
        BY <2>2, <3>1, <3>2, <4>1 DEF Alone
      <4> QED
        BY <3>2, <4>2
    <3>3. CASE j.op \in NodeOps
      <4>1. NodeCallInv(j)
        BY <3>1, <3>3 DEF CallInv
      <4>2. ASSUME chapter'[j.chapter] # None
            PROVE  /\ j.was.version <= chapter'[j.chapter].version
                   /\ j.was.version = chapter'[j.chapter].version =>
                          SameShape(j.was, chapter'[j.chapter])
        <5> DEFINE a == chapter[j.chapter]
                   b == chapter'[j.chapter]
        <5>1. j.chapter \in Chapters /\ j.was \in ChapterDocs
          BY <4>1 DEF NodeCallInv
        <5>2. a # None /\ Grown(a, b, Pushed(c))
          BY <3>2, <3>3, <4>2, <5>1
        <5>3. a \in ChapterDocs /\ b \in ChapterDocs
          BY <4>2, <5>1, <5>2 DEF ChaptersInv, Typed
        <5>4. j.was.version <= a.version /\ (j.was.version = a.version => SameShape(j.was, a))
          BY <4>1, <5>2 DEF NodeCallInv
        <5>5. a.version <= b.version /\ (b.version = a.version => SameShape(a, b))
          BY <5>2 DEF Grown
        <5>6. j.was.version \in Nat /\ a.version \in Nat /\ b.version \in Nat
          BY <5>1, <5>3, DocIsTyped
        <5>7. CASE j.was.version = b.version
          <6>1. SameShape(j.was, a) /\ SameShape(a, b)
            BY <5>4, <5>5, <5>6, <5>7
          <6>2. SameShape(j.was, b)
            <7> HIDE DEF a, b, j
            <7> QED
              BY <5>1, <5>3, <6>1, ShapeTransitive
          <6> QED
            BY <5>6, <5>7, <6>2
        <5>8. j.was.version <= b.version
          BY <5>4, <5>5, <5>6
        <5> QED
          BY <5>7, <5>8
      <4>3. ASSUME j.op = "push", NEW ch \in Chapters, chapter'[ch] # None
            PROVE  j.node \notin Ids(chapter'[ch])
        <5>1. CASE chapter[ch] # None /\ Grown(chapter[ch], chapter'[ch], Pushed(c))
          <6>1. j.node \notin Ids(chapter[ch])
            BY <4>1, <4>3, <5>1 DEF NodeCallInv
          <6>2. j.node \notin Pushed(c)
            BY <2>2, <3>1, <4>3 DEF Alone, Pending, Pushed
          <6> QED
            BY <5>1, <6>1, <6>2 DEF Grown
        <5>2. CASE chapter'[ch] = Blank
          BY <1>3, <5>2
        <5> QED
          BY <4>3, <5>1, <5>2
      <4> QED
        BY <3>1, <3>3, <4>1, <4>2, <4>3 DEF CallInv, NodeCallInv
    <3>4. CASE j.op \notin NodeOps
      <4>1. StoryCallInv(j)
        BY <3>1, <3>4 DEF CallInv
      <4>2. j.op \in {"create", "delete"} => j.chapter \in Chapters
        BY <4>1 DEF StoryCallInv, StatusCalls, ListCalls
      <4>3. StoryCallInv(j)'
        BY <3>1, <3>2, <4>1, <4>2 DEF StoryCallInv, StatusCalls
      <4> QED
        BY <3>1, <3>4, <4>3 DEF CallInv
    <3> QED
      BY <3>3, <3>4
  <2> QED
    BY <2>1, <2>2
<1>6. ASSUME NEW d \in Slots PROVE Alone(d)'
  <2> SUFFICES ASSUME NEW e \in Slots \ {d}
               PROVE  /\ (Pending(d, "push") /\ Pending(e, "push")
                             => nodeEdit[e].node # nodeEdit[d].node)'
                      /\ \A op \in NodeOps \cup {"create", "delete"} :
                             (Pending(d, "create") /\ Pending(e, op)
                                 => nodeEdit[e].chapter # nodeEdit[d].chapter)'
    BY DEF Alone
  <2>1. Alone(d)
    BY DEF ChaptersInv
  <2>2. CASE d # c /\ e # c
    BY <1>1, <2>1, <2>2 DEF Alone, Pending
  <2>3. CASE d = c
    BY <1>1, <2>3 DEF Pending, NodeOps
  <2>4. CASE e = c
    <3>1. d # c /\ nodeEdit'[d] = nodeEdit[d] /\ nodeEdit'[e] = k
      BY <1>1, <2>4
    <3>2. k # Idle => k.op # "push" /\ k.op \notin NodeOps \cup {"create"}
                      /\ (k.op = "delete" => Pending(e, "delete") /\ nodeEdit[e].chapter = k.chapter)
      BY <2>4 DEF NodeOps
    <3> QED
      BY <2>1, <3>1, <3>2 DEF Alone, Pending
  <2> QED
    BY <2>2, <2>3, <2>4
<1> QED
  BY <1>1, <1>4, <1>5, <1>6 DEF ChaptersInv

\* The fields of a node.
LEMMA NodeIsTyped ==
    ASSUME NEW x \in NodeFields
    PROVE  /\ x.id \in Nodes /\ x.next \in Nodes \cup {None}
           /\ x.choices \in Seq(Nodes \cup {None}) /\ Len(x.choices) \in Nat
           /\ DOMAIN x.choices = 1..Len(x.choices)
BY DEF NodeFields

\* The node of a save that sends one field.
NodeAfter(k, node) ==
    IF k.op = "option" THEN [node EXCEPT !.choices[k.field] = k.value]
    ELSE [node EXCEPT ![k.field] = k.value]

Leads(node) == Targets(node) \cup ({node.next} \ {None})

\* It stays a node, with its _id, and leads to what it led to, or to nodes that were
\* there.
LEMMA NodeAfterIs ==
    ASSUME NEW k, k.op \in {"field", "option", "array"}, k.was \in ChapterDocs, Fits(k),
           NEW node \in NodeFields,
           Len(node.choices) = Len(k.was.nodes[Place(k.was, k.node)].choices)
    PROVE  /\ NodeAfter(k, node) \in NodeFields /\ NodeAfter(k, node).id = node.id
           /\ k.op # "array" => Len(NodeAfter(k, node).choices) = Len(node.choices)
           /\ Leads(NodeAfter(k, node)) \subseteq Leads(node) \cup Ids(k.was)
<1> DEFINE new == NodeAfter(k, node)
<1>0. Ids(k.was) \subseteq Nodes
  BY DocIsTyped
<1>1. CASE k.op = "field"
  <2>1. \/ k.field = "type" /\ k.value \in {"text", "choice"}
        \/ k.field \in {"entry", "optional"} /\ k.value \in BOOLEAN
        \/ k.field = "next" /\ k.value \in Ids(k.was) \cup {None}
    BY <1>1 DEF Fits
  <2>2. new = [node EXCEPT ![k.field] = k.value]
    BY <1>1 DEF NodeAfter
  <2>3. CASE k.field = "type" /\ k.value \in {"text", "choice"}
    <3>1. new = [node EXCEPT !.type = k.value]
      BY <2>2, <2>3
    <3>2. /\ new \in NodeFields /\ new.id = node.id /\ new.choices = node.choices
          /\ new.next = node.next
      BY <2>3, <3>1 DEF NodeFields
    <3> QED
      BY <1>1, <3>2 DEF Leads, Targets
  <2>4. CASE k.field = "entry" /\ k.value \in BOOLEAN
    <3>1. new = [node EXCEPT !.entry = k.value]
      BY <2>2, <2>4
    <3>2. /\ new \in NodeFields /\ new.id = node.id /\ new.choices = node.choices
          /\ new.next = node.next
      BY <2>4, <3>1 DEF NodeFields
    <3> QED
      BY <1>1, <3>2 DEF Leads, Targets
  <2>5. CASE k.field = "optional" /\ k.value \in BOOLEAN
    <3>1. new = [node EXCEPT !.optional = k.value]
      BY <2>2, <2>5
    <3>2. /\ new \in NodeFields /\ new.id = node.id /\ new.choices = node.choices
          /\ new.next = node.next
      BY <2>5, <3>1 DEF NodeFields
    <3> QED
      BY <1>1, <3>2 DEF Leads, Targets
  <2>6. CASE k.field = "next" /\ k.value \in Ids(k.was) \cup {None}
    <3>1. new = [node EXCEPT !.next = k.value] /\ k.value \in Nodes \cup {None}
      BY <1>0, <2>2, <2>6
    <3>2. /\ new \in NodeFields /\ new.id = node.id /\ new.choices = node.choices
          /\ new.next = k.value
      BY <3>1 DEF NodeFields
    <3> QED
      BY <1>1, <2>6, <3>2 DEF Leads, Targets
  <2> QED
    BY <2>1, <2>3, <2>4, <2>5, <2>6
<1>2. CASE k.op = "array"
  <2>1. new = [node EXCEPT ![k.field] = k.value]
    BY <1>2 DEF NodeAfter
  <2>2. CASE k.field = "unlockAfter" /\ k.value \in SUBSET Nodes
    <3>1. new = [node EXCEPT !.unlockAfter = k.value]
      BY <2>1, <2>2
    <3>2. /\ new \in NodeFields /\ new.id = node.id /\ new.choices = node.choices
          /\ new.next = node.next
      BY <2>2, <3>1 DEF NodeFields
    <3> QED
      BY <1>2, <3>2 DEF Leads, Targets
  <2>3. CASE k.field = "choices" /\ k.value \in Seq(Ids(k.was))
    <3>1. new = [node EXCEPT !.choices = k.value]
      BY <2>1, <2>3
    <3>2. k.value \in Seq(Nodes \cup {None}) /\ \A j \in DOMAIN k.value : k.value[j] \in Ids(k.was)
      BY <1>0, <2>3
    <3>3. /\ new \in NodeFields /\ new.id = node.id /\ new.choices = k.value
          /\ new.next = node.next
      BY <3>1, <3>2 DEF NodeFields
    <3> QED
      BY <1>2, <3>2, <3>3 DEF Leads, Targets
  <2> QED
    BY <1>2, <2>2, <2>3 DEF Fits
<1>3. CASE k.op = "option"
  <2> DEFINE list == [node.choices EXCEPT ![k.field] = k.value]
  <2>1. k.node \in Ids(k.was) /\ k.value \in Ids(k.was) \cup {None}
        /\ k.field \in DOMAIN k.was.nodes[Place(k.was, k.node)].choices
    BY <1>3 DEF Fits
  <2>2. k.was.nodes[Place(k.was, k.node)] \in NodeFields
    BY <2>1, PlaceIs, DocIsTyped
  <2>3. k.field \in DOMAIN node.choices
    BY <2>1, <2>2, NodeIsTyped
  <2>4. node.choices \in Seq(Nodes \cup {None}) /\ k.value \in Nodes \cup {None}
    BY <1>0, <2>1, NodeIsTyped
  <2>5. /\ list \in Seq(Nodes \cup {None}) /\ Len(list) = Len(node.choices)
        /\ \A j \in DOMAIN list : j \in DOMAIN node.choices /\ list[j] \in {k.value, node.choices[j]}
    BY <2>3, <2>4
  <2>6. new = [node EXCEPT !.choices = list]
    BY <1>3 DEF NodeAfter, NodeFields
  <2> HIDE DEF list
  <2>7. new \in NodeFields /\ new.id = node.id /\ new.choices = list /\ new.next = node.next
    BY <2>5, <2>6 DEF NodeFields
  <2> QED
    BY <1>3, <2>1, <2>5, <2>7 DEF Leads, Targets
<1> QED
  BY <1>1, <1>2, <1>3

\* A document in which one node is another one with the same _id.
LEMMA ReplacedIs ==
    ASSUME NEW d \in ChapterDocs, Distinct(d), NEW e \in ChapterDocs, NEW i \in DOMAIN d.nodes,
           NEW new \in NodeFields, new.id = d.nodes[i].id,
           e.nodes = [d.nodes EXCEPT ![i] = new]
    PROVE  /\ DOMAIN e.nodes = DOMAIN d.nodes /\ Len(e.nodes) = Len(d.nodes)
           /\ Ids(e) = Ids(d) /\ Distinct(e)
           /\ \A j \in DOMAIN d.nodes : j # i => e.nodes[j] = d.nodes[j]
           /\ e.nodes[i] = new
           /\ \A j \in DOMAIN d.nodes : e.nodes[j].id = d.nodes[j].id
           /\ \A n \in Ids(d) : Place(e, n) = Place(d, n)
<1>1. /\ DOMAIN e.nodes = DOMAIN d.nodes /\ Len(e.nodes) = Len(d.nodes)
      /\ \A j \in DOMAIN d.nodes : j # i => e.nodes[j] = d.nodes[j]
      /\ e.nodes[i] = new
  BY DocIsTyped
<1>2. \A j \in DOMAIN d.nodes : e.nodes[j].id = d.nodes[j].id
  BY <1>1
<1>3. Ids(e) = Ids(d) /\ Distinct(e)
  BY <1>1, <1>2 DEF Ids, Distinct
<1>4. ASSUME NEW n \in Ids(d) PROVE Place(e, n) = Place(d, n)
  BY <1>1, <1>2, <1>3, PlaceIs
<1> QED
  BY <1>1, <1>2, <1>3, <1>4

DocWith(d, list, v) == [d EXCEPT !.nodes = list, !.version = v]

LEMMA DocAfter ==
    ASSUME NEW d \in ChapterDocs, NEW list \in Seq(NodeFields), NEW v \in Nat
    PROVE  /\ DocWith(d, list, v) \in ChapterDocs /\ DocWith(d, list, v).nodes = list
           /\ DocWith(d, list, v).version = v
BY DEF ChapterDocs, DocWith

\* The save of one field, on the document d that has the loaded version.
LEMMA OneNodeSaved ==
    ASSUME NEW k, k.op \in {"field", "option", "array"}, k.was \in ChapterDocs,
           Distinct(k.was), Fits(k),
           NEW d \in ChapterDocs, SameShape(k.was, d)
    PROVE  LET i == Place(d, k.node) new == NodeAfter(k, d.nodes[i]) IN
           /\ i \in DOMAIN d.nodes /\ d.nodes[i].id = k.node /\ Ids(k.was) = Ids(d)
           /\ new \in NodeFields /\ new.id = k.node
           /\ Leads(new) \subseteq Leads(d.nodes[i]) \cup Ids(d)
           /\ Saved(k, d) \in ChapterDocs
           /\ Saved(k, d).nodes = [d.nodes EXCEPT ![i] = new]
           /\ Grown(d, Saved(k, d), {})
<1> DEFINE i == Place(d, k.node)
           new == NodeAfter(k, d.nodes[i])
           list == [d.nodes EXCEPT ![i] = new]
           e == Saved(k, d)
<1>1. k.node \in Ids(k.was)
  BY DEF Fits
<1>2. /\ Ids(k.was) = Ids(d) /\ Distinct(d) /\ Place(k.was, k.node) = i
      /\ i \in DOMAIN k.was.nodes /\ i \in DOMAIN d.nodes /\ d.nodes[i].id = k.node
  BY <1>1, ShapeIs, PlaceIs
<1>3. d.nodes[i] \in NodeFields /\ Len(d.nodes[i].choices) = Len(k.was.nodes[i].choices)
  BY <1>2, DocIsTyped DEF SameShape
<1>4. /\ new \in NodeFields /\ new.id = k.node
      /\ k.op # "array" => Len(new.choices) = Len(d.nodes[i].choices)
      /\ Leads(new) \subseteq Leads(d.nodes[i]) \cup Ids(d)
  BY <1>2, <1>3, NodeAfterIs
<1>5. d.nodes \in Seq(NodeFields) /\ d.version \in Nat
  BY DocIsTyped
<1>6. list \in Seq(NodeFields)
  BY <1>2, <1>4, <1>5
<1>7. e = IF k.op = "array" THEN [d EXCEPT !.nodes = list, !.version = @ + 1]
                            ELSE [d EXCEPT !.nodes = list]
  <2>1. CASE k.op = "field"
    BY <1>2, <2>1 DEF Saved, NodeAfter, ChapterDocs
  <2>2. CASE k.op = "option"
    BY <1>2, <2>2 DEF Saved, NodeAfter, ChapterDocs
  <2>3. CASE k.op = "array"
    BY <1>2, <2>3 DEF Saved, NodeAfter, ChapterDocs
  <2> QED
    BY <2>1, <2>2, <2>3
<1> HIDE DEF list, e
<1>8. /\ e \in ChapterDocs /\ e.nodes = list
      /\ e.version = IF k.op = "array" THEN d.version + 1 ELSE d.version
  <2>1. CASE k.op = "array"
    <3>1. e = DocWith(d, list, d.version + 1) /\ d.version + 1 \in Nat
      BY <1>5, <1>7, <2>1 DEF DocWith
    <3> QED
      BY <1>6, <2>1, <3>1, DocAfter
  <2>2. CASE k.op # "array"
    <3>1. e = DocWith(d, list, d.version)
      BY <1>7, <2>2 DEF ChapterDocs, DocWith
    <3>2. d.version \in Nat
      BY <1>5
    <3> QED
      BY <1>6, <2>2, <3>1, <3>2, DocAfter
  <2> QED
    BY <2>1, <2>2
<1>9. Grown(d, e, {})
  <2>1. /\ DOMAIN e.nodes = DOMAIN d.nodes /\ Len(e.nodes) = Len(d.nodes)
        /\ Ids(e) = Ids(d) /\ Distinct(e)
        /\ \A j \in DOMAIN d.nodes : j # i => e.nodes[j] = d.nodes[j]
        /\ e.nodes[i] = new
        /\ \A j \in DOMAIN d.nodes : e.nodes[j].id = d.nodes[j].id
    BY <1>2, <1>4, <1>8, ReplacedIs DEF list
  <2>2. ASSUME e.version = d.version PROVE SameShape(d, e)
    <3>1. k.op # "array"
      BY <1>5, <1>8, <2>2
    <3> HIDE DEF new, i
    <3> QED
      BY <1>4, <2>1, <3>1 DEF SameShape
  <2> QED
    BY <1>5, <1>8, <2>1, <2>2 DEF Grown
<1> QED
  BY <1>2, <1>4, <1>8, <1>9 DEF list, e

\* The node that createNode pushes.
LEMMA PushSaved ==
    ASSUME NEW k, k.op = "push", Fits(k),
           NEW d \in ChapterDocs, Distinct(d), k.node \notin Ids(d)
    PROVE  /\ Saved(k, d) \in ChapterDocs /\ Grown(d, Saved(k, d), {k.node})
           /\ Ids(Saved(k, d)) = Ids(d) \cup {k.node}
           /\ \A n \in Ids(d) :
                  Saved(k, d).nodes[Place(Saved(k, d), n)] = d.nodes[Place(d, n)]
<1> DEFINE e == Saved(k, d)
<1>1. k.value \in NodeFields /\ k.value.id = k.node
  BY DEF Fits
<1>2. d.nodes \in Seq(NodeFields) /\ d.version \in Nat /\ Len(d.nodes) \in Nat
      /\ DOMAIN d.nodes = 1..Len(d.nodes)
  BY DocIsTyped
<1>3. e = [d EXCEPT !.nodes = Append(@, k.value), !.version = @ + 1]
  BY DEF Saved
<1>4. /\ e \in ChapterDocs /\ e.nodes = Append(d.nodes, k.value) /\ e.version = d.version + 1
  <2> DEFINE list == Append(d.nodes, k.value)
  <2>1. e = DocWith(d, list, d.version + 1)
    BY <1>3 DEF DocWith
  <2>2. list \in Seq(NodeFields) /\ d.version + 1 \in Nat
    BY <1>1, <1>2
  <2>3. e \in ChapterDocs /\ e.nodes = list /\ e.version = d.version + 1
    <3> HIDE DEF list, e
    <3> QED
      BY <2>1, <2>2, DocAfter
  <2> QED
    BY <2>3
<1>5. /\ DOMAIN e.nodes = 1..(Len(d.nodes) + 1)
      /\ \A j \in DOMAIN d.nodes : e.nodes[j] = d.nodes[j]
      /\ e.nodes[Len(d.nodes) + 1] = k.value
  BY <1>1, <1>2, <1>4
<1> HIDE DEF e
<1>6. DOMAIN e.nodes = DOMAIN d.nodes \cup {Len(d.nodes) + 1}
  BY <1>2, <1>5
<1>7. Ids(e) = Ids(d) \cup {k.node}
  BY <1>1, <1>5, <1>6 DEF Ids
<1>8. Distinct(e)
  <2> SUFFICES ASSUME NEW x \in DOMAIN e.nodes, NEW y \in DOMAIN e.nodes,
                      e.nodes[x].id = e.nodes[y].id
               PROVE  x = y
    BY DEF Distinct
  <2>1. \A z \in DOMAIN d.nodes : e.nodes[z].id = d.nodes[z].id /\ d.nodes[z].id # k.node
    BY <1>5 DEF Ids
  <2> QED
    BY <1>1, <1>5, <1>6, <2>1 DEF Distinct
<1>9. Grown(d, e, {k.node})
  BY <1>2, <1>4, <1>7, <1>8 DEF Grown
<1>10. ASSUME NEW n \in Ids(d) PROVE e.nodes[Place(e, n)] = d.nodes[Place(d, n)]
  <2>1. Place(d, n) \in DOMAIN d.nodes /\ d.nodes[Place(d, n)].id = n
    BY PlaceIs
  <2>2. Place(d, n) \in DOMAIN e.nodes /\ e.nodes[Place(d, n)].id = n
    BY <1>5, <1>6, <2>1
  <2>3. Place(e, n) = Place(d, n)
    BY <1>7, <1>8, <2>2, PlaceIs
  <2> QED
    BY <1>5, <2>1, <2>3
<1> QED
  BY <1>4, <1>7, <1>9, <1>10 DEF e

\* The nodes that deleteNode leaves, as they were loaded.
LEMMA AllSaved ==
    ASSUME NEW k, k.op = "all", k.was \in ChapterDocs, Distinct(k.was), Fits(k),
           NEW d \in ChapterDocs, SameShape(k.was, d)
    PROVE  /\ Saved(k, d) \in ChapterDocs /\ Grown(d, Saved(k, d), {})
           /\ Ids(Saved(k, d)) = Ids(d) \ {k.node}
           /\ Ids(k.was) = Ids(d)
           /\ \A n \in Ids(d) \ {k.node} :
                  Saved(k, d).nodes[Place(Saved(k, d), n)] = k.was.nodes[Place(k.was, n)]
<1> DEFINE e == Saved(k, d)
           i == Place(k.was, k.node)
           list == Without(k.was.nodes, i)
<1>1. k.node \in Ids(k.was)
  BY DEF Fits
<1>2. i \in DOMAIN k.was.nodes /\ k.was.nodes[i].id = k.node
  BY <1>1, PlaceIs
<1>3. /\ k.was.nodes \in Seq(NodeFields) /\ Len(k.was.nodes) \in Nat
      /\ DOMAIN k.was.nodes = 1..Len(k.was.nodes) /\ d.version \in Nat
  BY DocIsTyped
<1>4. /\ list \in Seq(NodeFields) /\ Len(list) = Len(k.was.nodes) - 1
      /\ \A j \in 1..(i - 1) : list[j] = k.was.nodes[j]
      /\ \A j \in i..(Len(k.was.nodes) - 1) : list[j] = k.was.nodes[j + 1]
      /\ \A j \in DOMAIN k.was.nodes : j # i => \E m \in DOMAIN list : list[m] = k.was.nodes[j]
  BY <1>2, <1>3, WithoutLeavesOthers
<1>5. e = [d EXCEPT !.nodes = list, !.version = @ + 1]
  BY DEF Saved
<1> HIDE DEF list, e
<1>6. e \in ChapterDocs /\ e.nodes = list /\ e.version = d.version + 1
  <2>1. e = DocWith(d, list, d.version + 1) /\ d.version + 1 \in Nat
    BY <1>3, <1>5 DEF DocWith
  <2> QED
    BY <1>4, <2>1, DocAfter
<1>7. DOMAIN list = 1..(Len(k.was.nodes) - 1)
  BY <1>2, <1>3, <1>4
<1>8. \A j \in DOMAIN list : LET m == IF j < i THEN j ELSE j + 1 IN
          m \in DOMAIN k.was.nodes /\ m # i /\ list[j] = k.was.nodes[m]
  <2> SUFFICES ASSUME NEW j \in DOMAIN list
               PROVE  LET m == IF j < i THEN j ELSE j + 1 IN
                      m \in DOMAIN k.was.nodes /\ m # i /\ list[j] = k.was.nodes[m]
    OBVIOUS
  <2>1. CASE j < i
    <3>1. j \in 1..(i - 1) /\ j \in DOMAIN k.was.nodes /\ j # i
      BY <1>2, <1>3, <1>7, <2>1
    <3> QED
      BY <1>4, <2>1, <3>1
  <2>2. CASE ~(j < i)
    <3>1. j \in i..(Len(k.was.nodes) - 1) /\ j + 1 \in DOMAIN k.was.nodes /\ j + 1 # i
      BY <1>2, <1>3, <1>7, <2>2
    <3> QED
      BY <1>4, <2>2, <3>1
  <2> QED
    BY <2>1, <2>2
<1>9. Distinct(e)
  <2> SUFFICES ASSUME NEW x \in DOMAIN list, NEW y \in DOMAIN list, list[x].id = list[y].id
               PROVE  x = y
    BY <1>6 DEF Distinct
  <2> DEFINE m(j) == IF j < i THEN j ELSE j + 1
  <2>1. /\ m(x) \in DOMAIN k.was.nodes /\ m(y) \in DOMAIN k.was.nodes
        /\ list[x] = k.was.nodes[m(x)] /\ list[y] = k.was.nodes[m(y)]
    BY <1>8
  <2>2. m(x) = m(y)
    <3> HIDE DEF m
    <3> QED
      BY <2>1 DEF Distinct
  <2>3. x \in Nat /\ y \in Nat /\ i \in Nat
    BY <1>2, <1>3, <1>7
  <2> QED
    BY <2>2, <2>3
<1>10. Ids(e) = Ids(k.was) \ {k.node}
  <2>1. ASSUME NEW n \in Ids(e) PROVE n \in Ids(k.was) \ {k.node}
    <3>1. PICK j \in DOMAIN list : list[j].id = n
      BY <1>6 DEF Ids
    <3>2. PICK m \in DOMAIN k.was.nodes : m # i /\ list[j] = k.was.nodes[m]
      BY <1>8
    <3> QED
      BY <1>2, <3>1, <3>2 DEF Ids, Distinct
  <2>2. ASSUME NEW n \in Ids(k.was) \ {k.node} PROVE n \in Ids(e)
    <3>1. PICK j \in DOMAIN k.was.nodes : k.was.nodes[j].id = n
      BY DEF Ids
    <3>2. j # i
      BY <1>2, <3>1
    <3>3. PICK m \in DOMAIN list : list[m] = k.was.nodes[j]
      BY <1>4, <3>2
    <3> QED
      BY <1>6, <3>1, <3>3 DEF Ids
  <2> QED
    BY <2>1, <2>2
<1>11. Ids(k.was) = Ids(d)
  BY ShapeIs
<1>12. Grown(d, e, {})
  BY <1>3, <1>6, <1>9, <1>10, <1>11 DEF Grown
<1>13. ASSUME NEW n \in Ids(d) \ {k.node}
       PROVE  e.nodes[Place(e, n)] = k.was.nodes[Place(k.was, n)]
  <2>1. Place(k.was, n) \in DOMAIN k.was.nodes /\ k.was.nodes[Place(k.was, n)].id = n
    BY <1>11, PlaceIs
  <2>2. Place(k.was, n) # i
    BY <1>2, <2>1
  <2>3. PICK m \in DOMAIN list : list[m] = k.was.nodes[Place(k.was, n)]
    BY <1>4, <2>1, <2>2
  <2>4. n \in Ids(e) /\ m \in DOMAIN e.nodes /\ e.nodes[m].id = n
    BY <1>6, <1>10, <1>11, <2>1, <2>3
  <2>5. m = Place(e, n)
    BY <1>9, <2>4, PlaceIs
  <2> QED
    BY <1>6, <2>3, <2>5
<1> QED
  BY <1>6, <1>10, <1>11, <1>12, <1>13 DEF e

\* Publishing a chapter.
LEMMA StatusSaved ==
    ASSUME NEW k, k.op = "status", NEW d \in ChapterDocs, Distinct(d)
    PROVE  /\ Saved(k, d) \in ChapterDocs /\ Grown(d, Saved(k, d), {})
           /\ Saved(k, d).nodes = d.nodes
<1>1. Saved(k, d) = [d EXCEPT !.published = TRUE]
  BY DEF Saved
<1>2. Saved(k, d) \in ChapterDocs /\ Saved(k, d).nodes = d.nodes /\ Saved(k, d).version = d.version
  BY <1>1 DEF ChapterDocs
<1> HIDE DEF Saved
<1> QED
  BY <1>2, DocIsTyped DEF Grown, SameShape, Distinct, Ids

LEMMA GrownSelf ==
    ASSUME NEW d \in ChapterDocs, Distinct(d), NEW N
    PROVE  Grown(d, d, N)
BY DocIsTyped DEF Grown, SameShape

EditsHold(ch) == EditLands(ch) /\ EdgesHold(ch)

LEMMA UnchangedHolds ==
    ASSUME NEW ch \in Chapters, chapter'[ch] = chapter[ch]
    PROVE  EditsHold(ch)
BY DEF EditsHold, EditLands, EdgesHold

\* What a save that is not outdated makes of the chapter.
LEMMA SavedHolds ==
    ASSUME NEW c \in Slots, NEW op \in NodeOps, Pending(c, op), NodeCallInv(nodeEdit[c]),
           nodeEdit'[c] = Idle, NEW ch \in Chapters, nodeEdit[c].chapter = ch,
           chapter[ch] \in ChapterDocs, Distinct(chapter[ch]), chapter[ch] # None,
           ~Outdated(nodeEdit[c]), chapter'[ch] = Saved(nodeEdit[c], chapter[ch])
    PROVE  /\ chapter'[ch] \in ChapterDocs /\ Grown(chapter[ch], chapter'[ch], Pushed(c))
           /\ EditsHold(ch)
<1> DEFINE k == nodeEdit[c]
           d == chapter[ch]
           e == chapter'[ch]
<1>1. /\ k.op = op /\ k.was \in ChapterDocs /\ Distinct(k.was) /\ Fits(k)
      /\ op = "push" => k.node \notin Ids(d)
  BY DEF Pending, NodeCallInv
<1>2. op \notin {"push", "status"} => SameShape(k.was, d)
  BY <1>1 DEF Outdated, NodeCallInv
<1>3. e = Saved(k, d)
  OBVIOUS
<1>4. \A ops : op \in ops => Lands(c, ch, ops)
  BY DEF Lands
<1>5. CASE op = "push"
  <2>1. /\ e \in ChapterDocs /\ Grown(d, e, {k.node}) /\ Ids(e) = Ids(d) \cup {k.node}
        /\ \A n \in Ids(d) : e.nodes[Place(e, n)] = d.nodes[Place(d, n)]
    <3> HIDE DEF k, d, e
    <3> QED
      BY <1>1, <1>3, <1>5, PushSaved DEF d
  <2>2. Grown(d, e, Pushed(c))
    BY <1>5, <2>1 DEF Pushed
  <2>3. EditLands(ch)
    BY <1>4, <1>5, <2>1 DEF EditLands
  <2>4. EdgesHold(ch)
    BY <2>1 DEF EdgesHold, Lost
  <2> QED
    BY <2>1, <2>2, <2>3, <2>4 DEF EditsHold
<1>6. CASE op = "status"
  <2>1. e \in ChapterDocs /\ Grown(d, e, {}) /\ e.nodes = d.nodes
    <3> HIDE DEF k, d, e
    <3> QED
      BY <1>1, <1>3, <1>6, StatusSaved DEF d
  <2>2. Grown(d, e, Pushed(c))
    BY <2>1 DEF Grown
  <2>3. Ids(e) = Ids(d) /\ \A n : Place(e, n) = Place(d, n)
    BY <2>1 DEF Ids, Place
  <2>4. EditLands(ch) /\ EdgesHold(ch)
    BY <2>1, <2>3 DEF EditLands, EdgesHold, Lost
  <2> QED
    BY <2>1, <2>2, <2>4 DEF EditsHold
<1>7. CASE op = "all"
  <2>1. /\ e \in ChapterDocs /\ Grown(d, e, {})
        /\ Ids(e) = Ids(d) \ {k.node} /\ Ids(k.was) = Ids(d)
        /\ \A n \in Ids(d) \ {k.node} :
               e.nodes[Place(e, n)] = k.was.nodes[Place(k.was, n)]
    <3>1. SameShape(k.was, d)
      BY <1>2, <1>7
    <3> HIDE DEF k, d, e
    <3> QED
      BY <1>1, <1>3, <1>7, <3>1, AllSaved DEF d
  <2>2. Grown(d, e, Pushed(c))
    BY <2>1 DEF Grown
  <2>3. EditLands(ch)
    BY <1>4, <1>7, <2>1 DEF EditLands
  <2>4. ASSUME NEW n \in Ids(d) \ {k.node} PROVE Lost(e, n) \subseteq Lost(k.was, n)
    <3>1. /\ Place(k.was, n) \in DOMAIN k.was.nodes
          /\ k.was.nodes[Place(k.was, n)].id = n
      BY <2>1, PlaceIs
    <3>2. /\ k.was.nodes[Place(k.was, n)].next # k.node
          /\ Targets(k.was.nodes[Place(k.was, n)]) = {}
      BY <1>1, <1>7, <3>1 DEF Fits
    <3> QED
      BY <2>1, <3>2 DEF Lost
  <2>5. EdgesHold(ch)
    BY <1>4, <1>7, <2>1, <2>4 DEF EdgesHold
  <2> QED
    BY <2>1, <2>2, <2>3, <2>5 DEF EditsHold
<1>8. CASE op \in {"field", "option", "array"}
  <2> DEFINE i == Place(d, k.node)
             new == NodeAfter(k, d.nodes[i])
  <2>1. /\ i \in DOMAIN d.nodes /\ d.nodes[i].id = k.node /\ Ids(k.was) = Ids(d)
        /\ new \in NodeFields /\ new.id = k.node
        /\ Leads(new) \subseteq Leads(d.nodes[i]) \cup Ids(d)
        /\ e \in ChapterDocs
        /\ e.nodes = [d.nodes EXCEPT ![i] = new]
        /\ Grown(d, e, {})
    <3>1. SameShape(k.was, d)
      BY <1>2, <1>8
    <3>2. d \in ChapterDocs
      OBVIOUS
    <3> HIDE DEF k, d, e
    <3> QED
      BY <1>1, <1>3, <1>8, <3>1, <3>2, OneNodeSaved
  <2>2. Grown(d, e, Pushed(c))
    BY <2>1 DEF Grown
  <2>3. /\ Ids(e) = Ids(d)
        /\ \A j \in DOMAIN d.nodes : j # i => e.nodes[j] = d.nodes[j]
        /\ e.nodes[i] = new
        /\ \A n \in Ids(d) : Place(e, n) = Place(d, n)
    <3>1. d \in ChapterDocs /\ Distinct(d)
      OBVIOUS
    <3> HIDE DEF k, d, e, new, i
    <3> QED
      BY <2>1, <3>1, ReplacedIs
  <2>4. ASSUME NEW n \in Ids(d)
        PROVE  /\ Place(e, n) = Place(d, n) /\ Place(d, n) \in DOMAIN d.nodes
               /\ n # k.node => e.nodes[Place(e, n)] = d.nodes[Place(d, n)]
               /\ n = k.node => e.nodes[Place(e, n)] = new /\ Place(d, n) = i
    BY <2>1, <2>3, PlaceIs
  <2>5. EditLands(ch)
    <3>1. CASE op = "option"
      <4>1. new = [d.nodes[i] EXCEPT !.choices[k.field] = k.value]
        BY <1>1, <3>1 DEF NodeAfter
      <4> HIDE DEF new
      <4> QED
        BY <1>4, <2>3, <2>4, <3>1, <4>1 DEF EditLands
    <3>2. CASE op \in {"field", "array"}
      <4>1. new = [d.nodes[i] EXCEPT ![k.field] = k.value]
        BY <1>1, <3>2 DEF NodeAfter
      <4> HIDE DEF new
      <4> QED
        BY <1>4, <2>3, <2>4, <3>2, <4>1 DEF EditLands
    <3> QED
      BY <1>8, <3>1, <3>2
  <2>6. ASSUME NEW n \in Ids(d) PROVE Lost(e, n) \subseteq Lost(d, n)
    <3> HIDE DEF new
    <3>1. CASE n = k.node
      BY <2>1, <2>3, <2>4, <3>1 DEF Lost, Leads
    <3>2. CASE n # k.node
      BY <2>3, <2>4, <3>2 DEF Lost
    <3> QED
      BY <3>1, <3>2
  <2>7. EdgesHold(ch)
    BY <2>6 DEF EdgesHold
  <2> QED
    BY <2>1, <2>2, <2>5, <2>7 DEF EditsHold
<1> QED
  BY <1>5, <1>6, <1>7, <1>8 DEF NodeOps

LEMMA SaveStep ==
    ASSUME ChaptersInv, NEW c \in Slots, SaveChapter(c)
    PROVE  /\ ChaptersInv'
           /\ \A ch \in Chapters : chapter[ch] # None /\ chapter'[ch] # None => EditsHold(ch)
<1> DEFINE k == nodeEdit[c]
<1>1. PICK op \in NodeOps : Pending(c, op)
  BY DEF SaveChapter, NodeOps
<1>2. nodeEdit[c] # Idle /\ NodeCallInv(k) /\ k.chapter \in Chapters
  BY <1>1 DEF ChaptersInv, Pending, CallInv, NodeCallInv
<1>3. /\ nodeEdit' = [nodeEdit EXCEPT ![c] = Idle] /\ minted' = minted /\ story' = story
      /\ chapter' = IF chapter[k.chapter] = None \/ Outdated(k) THEN chapter
                    ELSE [chapter EXCEPT ![k.chapter] = Saved(k, @)]
  BY DEF SaveChapter, Finish
<1>4. nodeEdit'[c] = Idle /\ \A d \in Slots \ {c} : nodeEdit'[d] = nodeEdit[d]
  BY <1>3, CallsAfter
<1>5. \A ch \in Chapters : chapter[ch] # None => chapter[ch] \in ChapterDocs /\ Distinct(chapter[ch])
  BY DEF ChaptersInv, Typed, DocsInv
<1>6. ASSUME NEW ch \in Chapters
      PROVE  \/ chapter'[ch] = chapter[ch]
             \/ /\ chapter[ch] # None /\ ch = k.chapter /\ ~Outdated(k)
                /\ chapter'[ch] = Saved(k, chapter[ch])
  BY <1>2, <1>3
<1>7. ASSUME NEW ch \in Chapters, chapter'[ch] # None
      PROVE  /\ chapter[ch] # None
             /\ chapter'[ch] \in ChapterDocs /\ Grown(chapter[ch], chapter'[ch], Pushed(c))
             /\ EditsHold(ch)
  <2>1. CASE chapter'[ch] = chapter[ch]
    BY <1>5, <1>7, <2>1, GrownSelf, UnchangedHolds
  <2>2. CASE /\ chapter[ch] # None /\ ch = k.chapter /\ ~Outdated(k)
             /\ chapter'[ch] = Saved(k, chapter[ch])
    BY <1>1, <1>2, <1>4, <1>5, <2>2, SavedHolds
  <2> QED
    BY <1>6, <2>1, <2>2
<1>8. Typed'
  <2>1. Typed
    BY DEF ChaptersInv
  <2>2. chapter' \in [Chapters -> ChapterDocs \cup {None}]
    <3>1. /\ chapter \in [Chapters -> ChapterDocs \cup {None}]
          /\ \A ch \in Chapters : chapter'[ch] \in ChapterDocs \cup {None}
      BY <1>7, <2>1 DEF Typed
    <3> QED
      BY <1>3, <3>1
  <2> QED
    BY <1>3, <2>1, <2>2 DEF Typed
<1>9. ASSUME NEW ch \in Chapters, chapter'[ch] # None PROVE Listing(ch)'
  <2>1. Listing(ch)
    BY <1>7, <1>9 DEF ChaptersInv
  <2>2. \A d \in Slots, o \in {"list", "delete"} :
            Pending(d, o) => Pending(d, o)' /\ nodeEdit'[d] = nodeEdit[d]
    BY <1>1, <1>4 DEF Pending, NodeOps
  <2> QED
    BY <1>3, <2>1, <2>2 DEF Listing
<1>10. ChaptersInv'
  BY <1>2, <1>3, <1>7, <1>8, <1>9, ContinueKeeps
<1> QED
  BY <1>7, <1>10

\* What a call finds where the chapter it edits is there.
LEMMA Present ==
    ASSUME ChaptersInv, NEW ch \in Chapters, chapter[ch] # None
    PROVE  /\ chapter[ch] \in ChapterDocs /\ Distinct(chapter[ch])
           /\ Ids(chapter[ch]) \subseteq minted /\ ch \in minted
           /\ \A n \in Ids(chapter[ch]) :
                  /\ Place(chapter[ch], n) \in DOMAIN chapter[ch].nodes
                  /\ Node(ch, n) = chapter[ch].nodes[Place(chapter[ch], n)]
                  /\ Node(ch, n) \in NodeFields /\ Node(ch, n).id = n
<1>1. chapter[ch] \in ChapterDocs /\ Distinct(chapter[ch]) /\ Ids(chapter[ch]) \cup {ch} \subseteq minted
  BY DEF ChaptersInv, Typed, DocsInv
<1> QED
  BY <1>1, PlaceIs, DocIsTyped DEF Node

\* An edit that begins, of a chapter that is there.
LEMMA EditBegins ==
    ASSUME ChaptersInv, NEW c \in Slots, nodeEdit[c] = Idle, NEW ch \in Chapters,
           chapter[ch] # None, NEW op \in NodeOps, NEW n, NEW field, NEW value,
           Begin(c, EditOf(op, ch, n, field, value)), Fits(EditOf(op, ch, n, field, value)),
           \/ op # "push" /\ minted' = minted
           \/ op = "push" /\ n \in Nodes \ minted /\ minted' = minted \cup {n}
    PROVE  ChaptersInv'
<1>0. PICK k : k = EditOf(op, ch, n, field, value)
  OBVIOUS
<1>1. k.op = op /\ k.chapter = ch /\ k.node = n /\ k.was = chapter[ch] /\ Fits(k)
  BY <1>0 DEF EditOf
<1>2. chapter' = chapter /\ minted \subseteq minted' /\ (op = "push" => n \in minted')
  BY DEF Begin
<1>3. /\ chapter[ch] \in ChapterDocs /\ Distinct(chapter[ch]) /\ ch \in minted
      /\ chapter[ch].version \in Nat
  BY Present, DocIsTyped
<1>4. SameShape(chapter[ch], chapter[ch])
  BY DEF SameShape
<1>5. \A b \in Chapters : chapter[b] # None => Ids(chapter[b]) \subseteq minted
  BY DEF ChaptersInv, DocsInv
<1>6. NodeCallInv(k)'
  BY <1>1, <1>2, <1>3, <1>4, <1>5 DEF NodeCallInv
<1>7. CallInv(k)'
  BY <1>1, <1>6 DEF CallInv
<1>8. Begin(c, k)
  BY <1>0
<1> QED
  BY <1>1, <1>7, <1>8, BeginKeeps DEF NodeOps

LEMMA CreateNodeStep ==
    ASSUME ChaptersInv, NEW c \in Slots, nodeEdit[c] = Idle, NEW ch \in Chapters,
           CreateNode(c, ch)
    PROVE  ChaptersInv'
<1>1. PICK n \in Nodes \ minted, p \in NewNodes :
          /\ minted' = minted \cup {n}
          /\ Begin(c, EditOf("push", ch, n, "nodes", [p EXCEPT !.id = n]))
  BY DEF CreateNode
<1> DEFINE node == [p EXCEPT !.id = n]
<1>2. node \in NodeFields /\ node.id = n
  BY ChaptersAssumption
<1> HIDE DEF node
<1>3. Fits(EditOf("push", ch, n, "nodes", node))
  BY <1>2 DEF Fits, EditOf
<1>4. Begin(c, EditOf("push", ch, n, "nodes", node))
  BY <1>1 DEF node
<1>5. chapter[ch] # None
  BY DEF CreateNode
<1> QED
  BY <1>1, <1>3, <1>4, <1>5, EditBegins DEF NodeOps

LEMMA UpdateNodeStep ==
    ASSUME ChaptersInv, NEW c \in Slots, nodeEdit[c] = Idle, NEW ch \in Chapters,
           UpdateNode(c, ch)
    PROVE  ChaptersInv'
<1>1. PICK n \in Nodes, u \in Changes :
          /\ Has(ch, n)
          /\ u[1] = "next" => u[2] \in Ids(chapter[ch]) \cup {None}
          /\ u[1] = "choices" => {u[2][j] : j \in DOMAIN u[2]} \subseteq Ids(chapter[ch])
          /\ Begin(c, EditOf(IF u[1] \in {"choices", "unlockAfter"} THEN "array" ELSE "field",
                   ch, n, u[1], u[2]))
          /\ minted' = minted
  BY DEF UpdateNode
<1> DEFINE op == IF u[1] \in {"choices", "unlockAfter"} THEN "array" ELSE "field"
<1>2. \/ u[1] = "type" /\ u[2] \in {"text", "choice"}
      \/ u[1] \in {"entry", "optional"} /\ u[2] \in BOOLEAN
      \/ u[1] = "next" /\ u[2] \in Nodes \cup {None}
      \/ u[1] = "choices" /\ u[2] \in Seq(Nodes)
      \/ u[1] = "unlockAfter" /\ u[2] \in SUBSET Nodes
  BY ChaptersAssumption
<1>3. chapter[ch] # None /\ n \in Ids(chapter[ch])
  BY <1>1 DEF Has
<1>4. u[1] = "choices" => u[2] \in Seq(Ids(chapter[ch]))
  <2> SUFFICES ASSUME u[1] = "choices" PROVE u[2] \in Seq(Ids(chapter[ch]))
    OBVIOUS
  <2>1. u[2] \in Seq(Nodes) /\ \A j \in DOMAIN u[2] : u[2][j] \in Ids(chapter[ch])
    BY <1>1, <1>2
  <2> QED
    BY <2>1
<1>5. Fits(EditOf(op, ch, n, u[1], u[2]))
  BY <1>1, <1>2, <1>3, <1>4 DEF Fits, EditOf
<1>6. op \in NodeOps /\ op # "push"
  BY DEF NodeOps
<1> QED
  BY <1>1, <1>3, <1>5, <1>6, EditBegins

LEMMA DeleteNodeStep ==
    ASSUME ChaptersInv, NEW c \in Slots, nodeEdit[c] = Idle, NEW ch \in Chapters,
           DeleteNode(c, ch)
    PROVE  ChaptersInv'
<1>1. PICK n \in Nodes :
          /\ Has(ch, n) /\ ~Referenced(ch, n)
          /\ Begin(c, EditOf("all", ch, n, "nodes", None))
          /\ minted' = minted
  BY DEF DeleteNode
<1>2. chapter[ch] # None /\ n \in Ids(chapter[ch])
  BY <1>1 DEF Has
<1>3. ASSUME NEW i \in DOMAIN chapter[ch].nodes, chapter[ch].nodes[i].id # n
      PROVE  chapter[ch].nodes[i].next # n /\ Targets(chapter[ch].nodes[i]) = {}
  <2> DEFINE m == chapter[ch].nodes[i].id
  <2>1. m \in Ids(chapter[ch]) \ {n}
    BY <1>3 DEF Ids
  <2>2. Node(ch, m) = chapter[ch].nodes[i]
    BY <1>2, <2>1, Present, PlaceIs
  <2> QED
    BY <1>1, <2>1, <2>2 DEF Referenced
<1>4. Fits(EditOf("all", ch, n, "nodes", None))
  BY <1>2, <1>3 DEF Fits, EditOf
<1> QED
  BY <1>1, <1>2, <1>4, EditBegins DEF NodeOps

LEMMA EdgeSteps ==
    ASSUME ChaptersInv, NEW c \in Slots, nodeEdit[c] = Idle, NEW ch \in Chapters,
           ConnectEdge(c, ch) \/ DisconnectEdge(c, ch)
    PROVE  ChaptersInv'
<1>1. PICK n \in Nodes, op \in {"field", "option", "array"} : \E field, value :
          /\ Has(ch, n) /\ minted' = minted
          /\ Begin(c, EditOf(op, ch, n, field, value))
          /\ op = "field" => field = "next" /\ value \in Ids(chapter[ch]) \cup {None}
          /\ op = "array" => field = "unlockAfter" /\ value \in SUBSET Nodes
          /\ op = "option" =>
              field \in DOMAIN Node(ch, n).choices /\ value \in Ids(chapter[ch]) \cup {None}
  <2>1. \A n \in Nodes : Has(ch, n) => Node(ch, n) \in NodeFields /\ Node(ch, n).unlockAfter \in SUBSET Nodes
    <3> SUFFICES ASSUME NEW n \in Nodes, Has(ch, n)
                 PROVE  Node(ch, n) \in NodeFields /\ Node(ch, n).unlockAfter \in SUBSET Nodes
      OBVIOUS
    <3>1. Node(ch, n) \in NodeFields
      BY Present DEF Has
    <3> QED
      BY <3>1 DEF NodeFields
  <2>2. CASE ConnectEdge(c, ch)
    <3>1. PICK n \in Nodes, m \in Nodes :
              /\ Has(ch, n) /\ Has(ch, m)
              /\ \/ Begin(c, EditOf("field", ch, n, "next", m))
                 \/ \E j \in DOMAIN Node(ch, n).choices : Begin(c, EditOf("option", ch, n, j, m))
                 \/ Begin(c, EditOf("array", ch, m, "unlockAfter",
                                    Node(ch, m).unlockAfter \cup {n}))
              /\ minted' = minted
      BY <2>2 DEF ConnectEdge
    <3>2. m \in Ids(chapter[ch]) /\ Node(ch, m).unlockAfter \cup {n} \in SUBSET Nodes
      BY <2>1, <3>1 DEF Has
    <3> QED
      BY <3>1, <3>2
  <2>3. CASE DisconnectEdge(c, ch)
    <3>1. PICK n \in Nodes :
              /\ Has(ch, n)
              /\ \/ Begin(c, EditOf("field", ch, n, "next", None))
                 \/ \E j \in DOMAIN Node(ch, n).choices : Begin(c, EditOf("option", ch, n, j, None))
                 \/ \E m \in Node(ch, n).unlockAfter :
                        Begin(c, EditOf("array", ch, n, "unlockAfter",
                                        Node(ch, n).unlockAfter \ {m}))
              /\ minted' = minted
      BY <2>3 DEF DisconnectEdge
    <3>2. \A m : Node(ch, n).unlockAfter \ {m} \in SUBSET Nodes
      BY <2>1, <3>1
    <3> QED
      BY <3>1, <3>2
  <2> QED
    BY <2>2, <2>3
<1>2. PICK field, value :
          /\ Has(ch, n) /\ minted' = minted
          /\ Begin(c, EditOf(op, ch, n, field, value))
          /\ op = "field" => field = "next" /\ value \in Ids(chapter[ch]) \cup {None}
          /\ op = "array" => field = "unlockAfter" /\ value \in SUBSET Nodes
          /\ op = "option" =>
              field \in DOMAIN Node(ch, n).choices /\ value \in Ids(chapter[ch]) \cup {None}
  BY <1>1
<1>3. chapter[ch] # None /\ n \in Ids(chapter[ch])
  BY <1>2 DEF Has
<1>4. Fits(EditOf(op, ch, n, field, value))
  BY <1>2, <1>3 DEF Fits, EditOf, Node
<1>5. op \in NodeOps /\ op # "push"
  BY DEF NodeOps
<1> QED
  BY <1>2, <1>3, <1>4, <1>5, EditBegins

LEMMA PublishStep ==
    ASSUME ChaptersInv, NEW c \in Slots, nodeEdit[c] = Idle, NEW ch \in Chapters,
           PublishChapter(c, ch)
    PROVE  ChaptersInv'
<1>1. /\ chapter[ch] # None /\ minted' = minted
      /\ Begin(c, EditOf("status", ch, None, "published", TRUE))
  BY DEF PublishChapter
<1>2. Fits(EditOf("status", ch, None, "published", TRUE))
  BY DEF Fits, EditOf
<1> QED
  BY <1>1, <1>2, EditBegins DEF NodeOps

\* A call on the story that begins.
LEMMA StoryCallsBegin ==
    ASSUME ChaptersInv, NEW c \in Slots, nodeEdit[c] = Idle,
           \/ \E ch \in Chapters : DeleteChapter(c, ch)
           \/ CreateChapter(c) \/ SetStoryStatus(c) \/ DeleteStory(c)
    PROVE  ChaptersInv'
<1>1. \A ch \in Chapters : chapter[ch] # None => ch \in minted
  BY Present
<1>2. \A op, ch, v : /\ CallOf(op, ch, v).op = op /\ CallOf(op, ch, v).chapter = ch
                     /\ CallOf(op, ch, v).value = v
  BY DEF CallOf
<1>3. ASSUME NEW ch \in Chapters, DeleteChapter(c, ch) PROVE ChaptersInv'
  <2> DEFINE k == CallOf("delete", ch, {"chapter", "story"})
  <2>1. chapter[ch] # None /\ Begin(c, k) /\ minted' = minted
    BY <1>3 DEF DeleteChapter
  <2>2. k \in ListCalls
    BY DEF ListCalls, CallOf
  <2> HIDE DEF k
  <2>3. k.op = "delete" /\ k.chapter = ch /\ k.value = {"chapter", "story"}
    BY <1>2 DEF k
  <2>4. CallInv(k)'
    BY <1>1, <2>1, <2>2, <2>3 DEF CallInv, StoryCallInv, NodeOps
  <2> QED
    BY <2>1, <2>3, <2>4, BeginKeeps
<1>4. CASE CreateChapter(c)
  <2>1. PICK ch \in Chapters \ minted :
            /\ minted' = minted \cup {ch}
            /\ Begin(c, CallOf("create", ch, story.chapters))
    BY <1>4 DEF CreateChapter
  <2>0. PICK k : k = CallOf("create", ch, story.chapters)
    OBVIOUS
  <2>2. story.chapters \in SUBSET Chapters
    BY <1>4 DEF CreateChapter, ChaptersInv, Typed, Stories
  <2>3. k \in ListCalls
    BY <2>0, <2>2 DEF ListCalls, CallOf
  <2>4. Begin(c, k)
    BY <2>0, <2>1
  <2>5. k.op = "create" /\ k.chapter = ch
    BY <1>2, <2>0
  <2>6. chapter' = chapter /\ chapter[ch] = None
    BY <1>1, <2>4 DEF Begin
  <2>7. CallInv(k)'
    BY <2>1, <2>3, <2>5, <2>6 DEF CallInv, StoryCallInv, NodeOps
  <2> QED
    BY <2>1, <2>4, <2>5, <2>7, BeginKeeps DEF NodeOps
<1>5. CASE SetStoryStatus(c)
  <2>1. PICK s \in Statuses :
            Begin(c, CallOf(IF s = "published" THEN "find" ELSE "check", s, {}))
    BY <1>5 DEF SetStoryStatus
  <2> DEFINE op == IF s = "published" THEN "find" ELSE "check"
             k == CallOf(op, s, {})
  <2>2. Begin(c, k) /\ op \in {"find", "check"} /\ minted' = minted
    BY <1>5, <2>1 DEF SetStoryStatus
  <2> HIDE DEF op
  <2>3. k \in StatusCalls
    BY <2>2 DEF StatusCalls, CallOf
  <2> HIDE DEF k
  <2>5. k.op = op
    BY <1>2 DEF k
  <2>4. CallInv(k)'
    BY <2>2, <2>3, <2>5 DEF CallInv, StoryCallInv, NodeOps
  <2> QED
    BY <2>2, <2>4, <2>5, BeginKeeps DEF NodeOps
<1>6. CASE DeleteStory(c)
  <2> DEFINE k == CallOf("deleteStory", None, {})
  <2>1. Begin(c, k) /\ minted' = minted
    BY <1>6 DEF DeleteStory
  <2> HIDE DEF k
  <2>2. k.op = "deleteStory"
    BY <1>2 DEF k
  <2>3. CallInv(k)'
    BY <2>2 DEF CallInv, StoryCallInv, NodeOps
  <2> QED
    BY <2>1, <2>2, <2>3, BeginKeeps DEF NodeOps
<1> QED
  BY <1>3, <1>4, <1>5, <1>6

LEMMA BlankIsDoc == Blank \in ChapterDocs
<1>1. <<>> \in Seq(NodeFields)
  OBVIOUS
<1> QED
  BY <1>1 DEF Blank, ChapterDocs

\* A call on the story that goes on, to k, or ends: what it does to the story and to
\* its chapters.
LEMMA StoryCallGoesOn ==
    ASSUME ChaptersInv, NEW c \in Slots, nodeEdit[c] # Idle, NEW k,
           nodeEdit' = [nodeEdit EXCEPT ![c] = k], minted' = minted,
           story' \in Stories \cup {None},
           chapter' = chapter \/ (\E ch \in Chapters : chapter' = [chapter EXCEPT ![ch] = None])
               \/ (\E ch \in Chapters : chapter' = [chapter EXCEPT ![ch] = Blank])
               \/ chapter' = [ch \in Chapters |-> None],
           \A ch \in Chapters :
               \/ chapter'[ch] = chapter[ch] \/ chapter'[ch] = None
               \/ Pending(c, "create") /\ ch = nodeEdit[c].chapter /\ chapter'[ch] = Blank,
           k # Idle => CallInv(k)' /\ k.op \notin NodeOps \cup {"create"}
                       /\ (k.op = "delete" => Pending(c, "delete") /\ nodeEdit[c].chapter = k.chapter),
           \A ch \in Chapters : chapter'[ch] # None => Listing(ch)'
    PROVE  ChaptersInv'
<1>1. \A ch \in Chapters : chapter[ch] # None => chapter[ch] \in ChapterDocs /\ Distinct(chapter[ch])
  BY Present
<1>2. Typed'
  BY BlankIsDoc DEF Typed, ChaptersInv
<1>3. ASSUME NEW ch \in Chapters, chapter'[ch] # None
      PROVE  \/ chapter[ch] # None /\ Grown(chapter[ch], chapter'[ch], Pushed(c))
             \/ Pending(c, "create") /\ ch = nodeEdit[c].chapter /\ chapter'[ch] = Blank
  BY <1>1, <1>3, GrownSelf
<1> QED
  BY <1>2, <1>3, ContinueKeeps

\* Whoever else lists or deletes a chapter still does.
LEMMA ListingStays ==
    ASSUME ChaptersInv, NEW c \in Slots, NEW k, nodeEdit' = [nodeEdit EXCEPT ![c] = k],
           NEW ch \in Chapters, Listing(ch),
           story = None \/ ch \in story.chapters =>
               story' = None \/ ch \in story'.chapters,
           \A op \in {"list", "delete"} :
               ~(Pending(c, op) /\ nodeEdit[c].chapter = ch)
    PROVE  Listing(ch)'
<1>1. \A d \in Slots \ {c} : nodeEdit'[d] = nodeEdit[d]
  BY CallsAfter
<1> QED
  BY <1>1 DEF Listing, Pending

LEMMA InsertStep ==
    ASSUME ChaptersInv, NEW c \in Slots, InsertChapter(c)
    PROVE  ChaptersInv'
<1> DEFINE ch == nodeEdit[c].chapter
<1>0. PICK k : k = [nodeEdit[c] EXCEPT !.op = "list"]
  OBVIOUS
<1>1. /\ nodeEdit[c] # Idle /\ nodeEdit[c].op = "create"
      /\ nodeEdit' = [nodeEdit EXCEPT ![c] = k] /\ minted' = minted
      /\ story' = story /\ chapter' = [chapter EXCEPT ![ch] = Blank]
  BY <1>0 DEF InsertChapter, Go, Pending
<1>2. StoryCallInv(nodeEdit[c])
  BY <1>1 DEF ChaptersInv, CallInv, NodeOps
<1>3. nodeEdit[c] \in ListCalls /\ ch \in Chapters \cap minted /\ chapter[ch] = None
  BY <1>1, <1>2 DEF StoryCallInv, StatusCalls, ListCalls
<1>4. k \in ListCalls /\ k.op = "list" /\ k.chapter = ch
  BY <1>0, <1>1, <1>3 DEF ListCalls
<1>5. k # Idle /\ CallInv(k)'
  BY <1>1, <1>3, <1>4, IdleIsNoCall DEF CallInv, StoryCallInv, StatusCalls, NodeOps
<1>6. story' \in Stories \cup {None}
  BY <1>1 DEF ChaptersInv, Typed
<1>7. \A b \in Chapters : \/ chapter'[b] = chapter[b]
                          \/ Pending(c, "create") /\ b = ch /\ chapter'[b] = Blank
  BY <1>1, <1>3 DEF Pending
<1>8. ASSUME NEW b \in Chapters, chapter'[b] # None PROVE Listing(b)'
  <2>1. CASE b = ch
    <3>1. nodeEdit'[c] = k
      BY <1>1, CallsAfter
    <3> QED
      BY <1>4, <1>5, <2>1, <3>1 DEF Listing, Pending
  <2>2. CASE b # ch
    <3>1. Listing(b)
      BY <1>7, <1>8, <2>2 DEF ChaptersInv
    <3> QED
      BY <1>1, <3>1, ListingStays DEF Pending
  <2> QED
    BY <2>1, <2>2
<1>9. \E b \in Chapters : chapter' = [chapter EXCEPT ![b] = Blank]
  BY <1>1, <1>3
<1>10. k.op \notin NodeOps \cup {"create"} /\ k.op # "delete"
  BY <1>4 DEF NodeOps
<1> QED
  BY <1>1, <1>5, <1>6, <1>7, <1>8, <1>9, <1>10, StoryCallGoesOn

LEMMA ListStep ==
    ASSUME ChaptersInv, NEW c \in Slots, ListChapter(c)
    PROVE  ChaptersInv'
<1> DEFINE ch == nodeEdit[c].chapter
<1>1. /\ nodeEdit[c] # Idle /\ nodeEdit[c].op = "list"
      /\ nodeEdit' = [nodeEdit EXCEPT ![c] = Idle] /\ minted' = minted
      /\ chapter' = chapter
      /\ story' = IF story = None THEN None ELSE [story EXCEPT !.chapters = @ \cup {ch}]
  BY DEF ListChapter, Finish, Pending, Listed
<1>2. StoryCallInv(nodeEdit[c])
  BY <1>1 DEF ChaptersInv, CallInv, NodeOps
<1>3. ch \in Chapters
  BY <1>1, <1>2 DEF StoryCallInv, StatusCalls, ListCalls
<1>4. /\ story' \in Stories \cup {None}
      /\ story = None => story' = None
      /\ story # None => story' # None /\ story'.chapters = story.chapters \cup {ch}
  <2>1. story \in Stories \cup {None}
    BY DEF ChaptersInv, Typed
  <2> QED
    BY <1>1, <1>3, <2>1, IdleIsNoCall DEF Stories
<1>5. ASSUME NEW b \in Chapters, chapter'[b] # None PROVE Listing(b)'
  <2>1. CASE b = ch
    BY <1>4, <2>1 DEF Listing
  <2>2. CASE b # ch
    <3>1. Listing(b)
      BY <1>1, <1>5 DEF ChaptersInv
    <3> QED
      BY <1>1, <1>4, <2>2, <3>1, ListingStays
  <2> QED
    BY <2>1, <2>2
<1> QED
  BY <1>1, <1>4, <1>5, StoryCallGoesOn

LEMMA DeleteFromStep ==
    ASSUME ChaptersInv, NEW c \in Slots, NEW place \in {"chapter", "story"},
           DeleteFrom(c, place)
    PROVE  ChaptersInv'
<1> DEFINE ch == nodeEdit[c].chapter
<1>0. PICK k : k = IF nodeEdit[c].value = {place} THEN Idle
                   ELSE [nodeEdit[c] EXCEPT !.value = @ \ {place}]
  OBVIOUS
<1>1. /\ nodeEdit[c] # Idle /\ nodeEdit[c].op = "delete" /\ place \in nodeEdit[c].value
      /\ nodeEdit' = [nodeEdit EXCEPT ![c] = k] /\ minted' = minted
      /\ \/ place = "chapter" /\ chapter' = [chapter EXCEPT ![ch] = None] /\ story' = story
         \/ /\ place = "story" /\ chapter' = chapter
            /\ story' = IF story = None THEN None ELSE [story EXCEPT !.chapters = @ \ {ch}]
  BY <1>0 DEF DeleteFrom, Go, Pending
<1>2. StoryCallInv(nodeEdit[c])
  BY <1>1 DEF ChaptersInv, CallInv, NodeOps
<1>3. nodeEdit[c] \in ListCalls /\ ch \in Chapters \cap minted
      /\ ("chapter" \notin nodeEdit[c].value => chapter[ch] = None)
  BY <1>1, <1>2 DEF StoryCallInv, StatusCalls, ListCalls
<1>4. /\ story' \in Stories \cup {None}
      /\ \A b \in Chapters : b # ch => (story = None \/ b \in story.chapters =>
                                             story' = None \/ b \in story'.chapters)
  <2>1. story \in Stories \cup {None}
    BY DEF ChaptersInv, Typed
  <2> QED
    BY <1>1, <2>1, IdleIsNoCall DEF Stories
<1>5. /\ \A b \in Chapters : chapter'[b] = chapter[b] \/ chapter'[b] = None
      /\ place = "chapter" => chapter'[ch] = None
      /\ place = "story" => chapter'[ch] = chapter[ch]
  <2>1. CASE place = "story"
    BY <1>1, <2>1
  <2>2. CASE place = "chapter"
    <3>1. chapter' = [chapter EXCEPT ![ch] = None]
      BY <1>1, <2>2
    <3>2. \A b \in Chapters : chapter'[b] = chapter[b] \/ chapter'[b] = None
      BY <3>1
    <3>3. chapter'[ch] = None
      BY <1>3, <3>1 DEF ChaptersInv, Typed
    <3> QED
      BY <2>2, <3>2, <3>3
  <2> QED
    BY <2>1, <2>2
<1>6. ASSUME k # Idle
      PROVE  /\ k.op = "delete" /\ k.chapter = ch /\ CallInv(k)'
             /\ k \in ListCalls
  <2>1. k = [nodeEdit[c] EXCEPT !.value = @ \ {place}]
    BY <1>0, <1>6
  <2>2. /\ k \in ListCalls /\ k.op = "delete" /\ k.chapter = ch
        /\ k.value = nodeEdit[c].value \ {place}
    BY <1>1, <1>3, <2>1 DEF ListCalls
  <2>3. "chapter" \notin k.value => chapter'[ch] = None
    BY <1>3, <1>5, <2>2
  <2> QED
    BY <1>1, <1>3, <2>2, <2>3 DEF CallInv, StoryCallInv, StatusCalls, NodeOps
<1>7. ASSUME NEW b \in Chapters, chapter'[b] # None PROVE Listing(b)'
  <2>1. CASE b = ch
    <3>1. place = "story" /\ chapter[ch] # None
      BY <1>5, <1>7, <2>1
    <3>2. "chapter" \in nodeEdit[c].value
      BY <1>3, <3>1
    <3>3. nodeEdit[c].value # {place} /\ nodeEdit[c].value \ {place} # {}
      BY <3>1, <3>2
    <3>4. k = [nodeEdit[c] EXCEPT !.value = @ \ {place}]
      BY <1>0, <3>3
    <3>5. k \in ListCalls /\ k.op = "delete" /\ k.chapter = ch
      BY <1>1, <1>3, <3>4 DEF ListCalls
    <3>6. nodeEdit'[c] = k /\ k # Idle
      BY <1>1, <3>5, CallsAfter, IdleIsNoCall
    <3> QED
      BY <2>1, <3>5, <3>6 DEF Listing, Pending
  <2>2. CASE b # ch
    <3>1. Listing(b)
      BY <1>5, <1>7 DEF ChaptersInv
    <3> QED
      BY <1>1, <1>4, <2>2, <3>1, ListingStays
  <2> QED
    BY <2>1, <2>2
<1>8. chapter' = chapter \/ \E b \in Chapters : chapter' = [chapter EXCEPT ![b] = None]
  BY <1>1, <1>3
<1>9. Pending(c, "delete")
  BY <1>1 DEF Pending
<1>10. k # Idle => /\ CallInv(k)' /\ k.op \notin NodeOps \cup {"create"}
                   /\ Pending(c, "delete") /\ nodeEdit[c].chapter = k.chapter
  BY <1>6, <1>9 DEF NodeOps
<1> QED
  BY <1>1, <1>4, <1>5, <1>7, <1>8, <1>10, StoryCallGoesOn

LEMMA StatusSteps ==
    ASSUME ChaptersInv, NEW c \in Slots,
           \/ FindPublished(c) \/ SaveStatus(c)
           \/ \E ch \in Chapters : CheckChapter(c, ch)
    PROVE  ChaptersInv'
<1>1. PICK k :
        /\ nodeEdit[c] # Idle /\ nodeEdit[c].op \in {"find", "check"}
        /\ nodeEdit' = [nodeEdit EXCEPT ![c] = k] /\ minted' = minted /\ chapter' = chapter
        /\ k # Idle => k \in StatusCalls
        /\ \/ story' = story
           \/ /\ nodeEdit[c].op = "check"
              /\ story' = IF story = None THEN None
                          ELSE [story EXCEPT !.status = nodeEdit[c].chapter]
  <2>1. nodeEdit[c] # Idle /\ nodeEdit[c].op \in {"find", "check"}
    BY DEF FindPublished, SaveStatus, CheckChapter, Pending
  <2>2. StoryCallInv(nodeEdit[c])
    BY <2>1 DEF ChaptersInv, CallInv, NodeOps
  <2>3. nodeEdit[c].chapter \in Statuses /\ nodeEdit[c].value \in SUBSET Chapters
    BY <2>1, <2>2 DEF StoryCallInv, ListCalls, StatusCalls
  <2>4. CASE FindPublished(c)
    <3> DEFINE found == {ch \in Chapters : chapter[ch] # None /\ chapter[ch].published}
    <3>1. PICK k : k = IF found = {} THEN Idle ELSE CallOf("check", nodeEdit[c].chapter, found)
      OBVIOUS
    <3>2. k # Idle => k \in StatusCalls
      BY <2>3, <3>1 DEF CallOf, StatusCalls
    <3> QED
      BY <2>1, <2>4, <3>1, <3>2 DEF FindPublished, Go
  <2>5. CASE SaveStatus(c)
    BY <2>1, <2>5 DEF SaveStatus, Finish, Pending
  <2>6. ASSUME NEW ch \in Chapters, CheckChapter(c, ch)
        PROVE  \E k :
                /\ nodeEdit' = [nodeEdit EXCEPT ![c] = k] /\ minted' = minted
                /\ chapter' = chapter /\ story' = story
                /\ k # Idle => k \in StatusCalls
    <3> DEFINE fine == chapter[ch] = None \/ ValidDoc(ch, chapter[ch])
    <3>1. PICK k : k = IF fine THEN [nodeEdit[c] EXCEPT !.value = @ \ {ch}] ELSE Idle
      OBVIOUS
    <3>2. nodeEdit[c] \in StatusCalls
      BY <2>2, <2>6 DEF StoryCallInv, StatusCalls, CheckChapter, Pending, ListCalls
    <3> HIDE DEF fine
    <3>3. k # Idle => k \in StatusCalls
      BY <3>1, <3>2 DEF StatusCalls
    <3> QED
      BY <2>6, <3>1, <3>3 DEF CheckChapter, Go, fine
  <2> QED
    BY <2>1, <2>4, <2>5, <2>6
<1>2. StoryCallInv(nodeEdit[c])
  BY <1>1 DEF ChaptersInv, CallInv, NodeOps
<1>3. /\ story' \in Stories \cup {None}
      /\ story = None => story' = None
      /\ story # None => story' # None /\ story'.chapters = story.chapters
  <2>1. story \in Stories \cup {None}
    BY DEF ChaptersInv, Typed
  <2>2. nodeEdit[c].op = "check" => nodeEdit[c].chapter \in Statuses
    BY <1>2 DEF StoryCallInv, ListCalls, StatusCalls
  <2> QED
    BY <1>1, <2>1, <2>2, IdleIsNoCall DEF Stories
<1>4. ASSUME NEW b \in Chapters, chapter'[b] # None PROVE Listing(b)'
  <2>1. Listing(b)
    BY <1>1, <1>4 DEF ChaptersInv
  <2> QED
    BY <1>1, <1>3, <2>1, ListingStays DEF Pending
<1>5. k # Idle => CallInv(k)' /\ k.op \notin NodeOps \cup {"create", "delete"}
  BY <1>1 DEF CallInv, StoryCallInv, NodeOps, StatusCalls
<1> QED
  BY <1>1, <1>3, <1>4, <1>5, StoryCallGoesOn

LEMMA CommitStep ==
    ASSUME ChaptersInv, NEW c \in Slots, CommitDeletion(c)
    PROVE  ChaptersInv'
<1>1. /\ nodeEdit[c] # Idle /\ nodeEdit' = [nodeEdit EXCEPT ![c] = Idle] /\ minted' = minted
      /\ story' = None /\ chapter' = [ch \in Chapters |-> None]
  BY DEF CommitDeletion, Finish, Pending
<1>2. \A ch \in Chapters : chapter'[ch] = None
  BY <1>1
<1> QED
  BY <1>1, <1>2, StoryCallGoesOn

-----------------------------------------------------------------------------
(* The chapters, in the specification.                                      *)

LEMMA ChaptersStart == ChaptersInit => ChaptersInv
<1> SUFFICES ASSUME ChaptersInit PROVE ChaptersInv
  OBVIOUS
<1>1. PICK d \in Drafts :
        /\ story = [status |-> "draft", chapters |-> DOMAIN d]
        /\ chapter = [ch \in Chapters |->
                IF ch \in DOMAIN d THEN [Blank EXCEPT !.nodes = d[ch]] ELSE None]
        /\ minted = DOMAIN d \cup UNION {Ids(chapter[ch]) : ch \in DOMAIN d}
  BY DEF ChaptersInit
<1>2. /\ DOMAIN d \subseteq Chapters
      /\ \A ch \in DOMAIN d :
          /\ d[ch] \in Seq(NodeFields)
          /\ \A i, j \in DOMAIN d[ch] : d[ch][i].id = d[ch][j].id => i = j
  BY ChaptersAssumption
<1>3. \A ch \in Chapters : chapter[ch] # None =>
        ch \in DOMAIN d /\ chapter[ch] = [published |-> FALSE, nodes |-> d[ch], version |-> 0]
  BY <1>1 DEF Blank
<1>4. \A ch \in Chapters : chapter[ch] # None =>
        chapter[ch] \in ChapterDocs /\ Distinct(chapter[ch])
  <2> SUFFICES ASSUME NEW ch \in Chapters, chapter[ch] # None
               PROVE  chapter[ch] \in ChapterDocs /\ Distinct(chapter[ch])
    OBVIOUS
  <2>1. ch \in DOMAIN d /\ d[ch] \in Seq(NodeFields)
        /\ chapter[ch] = [published |-> FALSE, nodes |-> d[ch], version |-> 0]
    BY <1>2, <1>3
  <2>2. chapter[ch] \in ChapterDocs
    BY <2>1 DEF ChapterDocs
  <2>3. chapter[ch].nodes = d[ch]
    BY <2>1
  <2> QED
    BY <1>2, <2>1, <2>2, <2>3 DEF Distinct
<1>5. \A ch \in DOMAIN d : chapter[ch] # None
  <2> SUFFICES ASSUME NEW ch \in DOMAIN d PROVE chapter[ch] # None
    OBVIOUS
  <2>1. chapter[ch] = [published |-> FALSE, nodes |-> d[ch], version |-> 0]
    BY <1>1, <1>2 DEF Blank
  <2>2. chapter[ch] \in ChapterDocs
    BY <1>2, <2>1 DEF ChapterDocs
  <2> QED
    BY <2>2, IdleIsNoCall
<1>6. Typed
  <2>1. story \in Stories
    BY <1>1, <1>2 DEF Stories, Statuses
  <2>2. \A ch \in DOMAIN d : Ids(chapter[ch]) \subseteq Nodes
    BY <1>2, <1>4, <1>5, DocIsTyped
  <2>3. minted \subseteq Chapters \cup Nodes
    BY <1>1, <1>2, <2>2
  <2>4. \A ch \in Chapters : chapter[ch] \in ChapterDocs \cup {None}
    BY <1>4
  <2>5. chapter \in [Chapters -> ChapterDocs \cup {None}]
    BY <1>1, <2>4
  <2> QED
    BY <2>1, <2>3, <2>5 DEF Typed
<1>7. DocsInv
  BY <1>1, <1>3, <1>4 DEF DocsInv
<1>8. /\ \E S : nodeEdit \in [Slots -> S]
      /\ \A c \in Slots : nodeEdit[c] = Idle
  <2>1. nodeEdit = [c \in Slots |-> Idle]
    BY DEF ChaptersInit
  <2>2. nodeEdit \in [Slots -> {Idle}]
    BY <2>1
  <2> QED
    BY <2>1, <2>2
<1>9. \A ch \in Chapters : chapter[ch] # None => Listing(ch)
  BY <1>1, <1>3 DEF Listing
<1> QED
  BY <1>6, <1>7, <1>8, <1>9 DEF ChaptersInv, Alone, Pending

\* Of all the calls only a save edits a chapter that was there and still is.
LEMMA ChapterSteps ==
    ASSUME ChaptersInv, NEW c \in Slots, (Free(c) /\ Start(c)) \/ Continue(c)
    PROVE  /\ ChaptersInv'
           /\ \A ch \in Chapters : chapter[ch] # None /\ chapter'[ch] # None => EditsHold(ch)
<1>1. CASE Free(c) /\ Start(c)
  <2>1. nodeEdit[c] = Idle
    BY <1>1 DEF Free
  <2>2. ASSUME NEW ch \in Chapters,
               \/ CreateNode(c, ch) \/ UpdateNode(c, ch) \/ DeleteNode(c, ch)
               \/ ConnectEdge(c, ch) \/ DisconnectEdge(c, ch) \/ PublishChapter(c, ch)
        PROVE  ChaptersInv' /\ chapter' = chapter
    <3>1. ChaptersInv'
      BY <2>1, <2>2, CreateNodeStep, UpdateNodeStep, DeleteNodeStep, EdgeSteps, PublishStep
    <3>2. CreateNode(c, ch) => chapter' = chapter
      BY DEF CreateNode, Begin
    <3>5. UpdateNode(c, ch) \/ DeleteNode(c, ch) \/ PublishChapter(c, ch) => chapter' = chapter
      BY DEF UpdateNode, DeleteNode, PublishChapter, Begin
    <3>3. ConnectEdge(c, ch) => chapter' = chapter
      BY DEF ConnectEdge, Begin
    <3>4. DisconnectEdge(c, ch) => chapter' = chapter
      BY DEF DisconnectEdge, Begin
    <3> QED
      BY <2>2, <3>1, <3>2, <3>3, <3>4, <3>5
  <2>3. ASSUME \/ \E ch \in Chapters : DeleteChapter(c, ch)
               \/ CreateChapter(c) \/ SetStoryStatus(c) \/ DeleteStory(c)
        PROVE  ChaptersInv' /\ chapter' = chapter
    <3>1. ChaptersInv'
      BY <2>1, <2>3, StoryCallsBegin
    <3>2. chapter' = chapter
      BY <2>3 DEF DeleteChapter, CreateChapter, SetStoryStatus, DeleteStory, Begin
    <3> QED
      BY <3>1, <3>2
  <2>4. ChaptersInv' /\ chapter' = chapter
    BY <1>1, <2>2, <2>3 DEF Start
  <2> QED
    BY <2>4, UnchangedHolds
<1>2. CASE SaveChapter(c)
  BY <1>2, SaveStep
<1>3. CASE \/ InsertChapter(c) \/ ListChapter(c)
           \/ \E place \in {"chapter", "story"} : DeleteFrom(c, place)
           \/ FindPublished(c) \/ (\E ch \in Chapters : CheckChapter(c, ch)) \/ SaveStatus(c)
           \/ CommitDeletion(c)
  <2>1. ChaptersInv'
    BY <1>3, InsertStep, ListStep, DeleteFromStep, StatusSteps, CommitStep
  <2>2. ASSUME NEW ch \in Chapters, chapter[ch] # None, chapter'[ch] # None
        PROVE  chapter'[ch] = chapter[ch]
    <3>1. CASE InsertChapter(c)
      <4>1. nodeEdit[c] # Idle /\ nodeEdit[c].op = "create"
            /\ chapter' = [chapter EXCEPT ![nodeEdit[c].chapter] = Blank]
        BY <3>1 DEF InsertChapter, Pending
      <4>2. chapter[nodeEdit[c].chapter] = None
        BY <4>1 DEF ChaptersInv, CallInv, StoryCallInv, StatusCalls, NodeOps
      <4> QED
        BY <2>2, <4>1, <4>2
    <3>2. CASE \E place \in {"chapter", "story"} : DeleteFrom(c, place)
      <4>1. PICK b : chapter' = chapter \/ chapter' = [chapter EXCEPT ![b] = None]
        BY <3>2 DEF DeleteFrom
      <4>2. chapter \in [Chapters -> ChapterDocs \cup {None}]
        BY DEF ChaptersInv, Typed
      <4>3. ASSUME chapter' = [chapter EXCEPT ![b] = None] PROVE chapter'[ch] = chapter[ch]
        BY <2>2, <4>2, <4>3
      <4> QED
        BY <4>1, <4>3
    <3>3. CASE CommitDeletion(c)
      BY <2>2, <3>3 DEF CommitDeletion
    <3>4. CASE \/ ListChapter(c) \/ FindPublished(c)
               \/ (\E b \in Chapters : CheckChapter(c, b)) \/ SaveStatus(c)
      BY <3>4 DEF ListChapter, FindPublished, CheckChapter, SaveStatus
    <3> QED
      BY <1>3, <3>1, <3>2, <3>3, <3>4
  <2> QED
    BY <2>1, <2>2, UnchangedHolds
<1> QED
  BY <1>1, <1>2, <1>3 DEF Continue

LEMMA ChapterNextKeeps ==
    ASSUME ChaptersInv, [Next]_vars
    PROVE  /\ ChaptersInv'
           /\ \A ch \in Chapters : chapter[ch] # None /\ chapter'[ch] # None => EditsHold(ch)
<1>1. CASE ChaptersNext
  BY <1>1, ChapterSteps DEF ChaptersNext
<1>2. CASE UNCHANGED chapterVars
  <2>1. ChaptersInv' /\ chapter' = chapter
    BY <1>2 DEF chapterVars, ChaptersInv, Typed, DocsInv, CallInv, NodeCallInv, StoryCallInv, StatusCalls,
                Alone, Listing, Pending
  <2> QED
    BY <2>1, UnchangedHolds
<1> QED
  BY <1>1, <1>2 DEF Next, vars

LEMMA ChaptersInvHolds == Spec => []ChaptersInv
<1>1. Init => ChaptersInv
  BY ChaptersStart DEF Init
<1>2. ChaptersInv /\ [Next]_vars => ChaptersInv'
  BY ChapterNextKeeps
<1> QED
  BY <1>1, <1>2, PTL DEF Spec

\* As many _ids as nodes.
LEMMA DistinctCounts ==
    ASSUME NEW d \in ChapterDocs, Distinct(d)
    PROVE  Cardinality(Ids(d)) = Len(d.nodes)
<1> DEFINE n == Len(d.nodes)
           f == [i \in 1..n |-> d.nodes[i].id]
<1>1. n \in Nat /\ DOMAIN d.nodes = 1..n
  BY DocIsTyped
<1>2. f \in [1..n -> Ids(d)] /\ \A m \in Ids(d) : \E i \in 1..n : f[i] = m
  BY <1>1 DEF Ids
<1>3. \A i, j \in 1..n : f[i] = f[j] => i = j
  BY <1>1 DEF Distinct
<1> HIDE DEF f, n
<1>4. ExistsBijection(1..n, Ids(d))
  <2>1. f \in Injection(1..n, Ids(d))
    BY <1>2, <1>3 DEF Injection, IsInjective
  <2>2. f \in Surjection(1..n, Ids(d))
    BY <1>2 DEF Surjection
  <2> QED
    BY <2>1, <2>2 DEF ExistsBijection, Bijection
<1>5. IsFiniteSet(1..n) /\ Cardinality(1..n) = n
  BY <1>1, FS_Interval
<1> QED
  BY <1>4, <1>5, FS_Bijection DEF n

\* Whatever is edited at once, the nodes of a chapter have different _ids and a
\* chapter is listed in its story, but for the calls that create or delete it: for
\* any number of calls, chapters and nodes.
THEOREM ChaptersConsistentHolds == Spec => []ChaptersConsistent
<1>1. ASSUME ChaptersInv PROVE ChaptersConsistent
  <2>1. Typed
    BY <1>1 DEF ChaptersInv
  <2>2. ASSUME NEW ch \in Chapters, chapter[ch] # None
        PROVE  Cardinality(Ids(chapter[ch])) = Len(chapter[ch].nodes) /\ Listing(ch)
    <3>1. Listing(ch)
      BY <1>1, <2>2 DEF ChaptersInv
    <3> QED
      BY <1>1, <2>2, <3>1, Present, DistinctCounts
  <2> QED
    BY <2>1, <2>2 DEF ChaptersConsistent, Listing
<1> QED
  BY <1>1, ChaptersInvHolds, PTL

\* An edit lands on the node it was meant for and changes nothing else of it, and an
\* edge loses its end only where a deletion overtook the copy it was made from.
THEOREM NodeEditsHoldHolds == Spec => NodeEditsHold
<1>1. ChaptersInv /\ [Next]_vars =>
        [\A ch \in Chapters : chapter[ch] # None /\ chapter'[ch] # None =>
             EditLands(ch) /\ EdgesHold(ch)]_chapter
  BY ChapterNextKeeps DEF EditsHold
<1> QED
  BY <1>1, ChaptersInvHolds, PTL DEF Spec, NodeEditsHold
-----------------------------------------------------------------------------
(* Playing a story.  Where a player stands (InPlace), what is behind and      *)
(* ahead (Apart, AheadOf), which chapters are complete (Ended), and what is   *)
(* left of the story (StoryDone): together PlayerSound, about a progress p in a    *)
(* story with the nodes g, of which the chapters pub are published.           *)

Follow(g, n) == Reach(Forward(g), n)

InPlace(g, pub, p) ==
    /\ p.chapter \in pub
    /\ g[p.current].chapter = p.chapter
    /\ \A n \in p.completed \cup p.bypassed : g[n].chapter \in p.chapters \cup {p.chapter}

Apart(g, p) ==
    /\ p.completed \cap p.bypassed = {}
    /\ Follow(g, p.current) \cap p.bypassed = {}
    /\ \A n \in p.completed : g[n].chapter = p.chapter => p.current \in Follow(g, n)

HiddenIn(g, n) ==
    \A e \in Entries(g, g[n].chapter) :
        /\ n \notin Follow(g, e)
        /\ g[n].unlockAfter # {} \/ n \in Reach(Edges(g), e)

AheadOf(g, p) ==
    p.chapter \notin p.chapters =>
        \A n \in NodesOf(g, p.chapter) :
            \/ g[n].optional \/ HiddenIn(g, n)
            \/ n \in p.completed \cup p.bypassed
            \/ p.current \notin p.completed /\ n \in Follow(g, p.current)

Ended(g, p) ==
    /\ \A ch \in p.chapters : ChapterComplete(g, ch, p.completed, p.bypassed)
    /\ p.current \in p.completed /\ p.chapter \notin p.chapters =>
        ~ ChapterComplete(g, p.chapter, p.completed, p.bypassed)

StoryDone(g, pub, late, p) ==
    /\ p.current \in p.completed /\ p.chapter \in p.chapters /\ ~ g[p.current].optional =>
        \A ch \in pub \ p.chapters : Order[ch] <= Order[p.chapter] \/ ch \in late
    /\ p.status = "completed" => p.chapter \in p.chapters
    /\ pub \subseteq p.chapters => p.status = "completed"
    /\ p.status = "completed" => pub \subseteq p.chapters \cup late

PlayerSound(g, pub, late, p) ==
    /\ InPlace(g, pub, p) /\ Apart(g, p) /\ AheadOf(g, p) /\ Ended(g, p)
    /\ StoryDone(g, pub, late, p)

\* What the caller of _commitNodeCompletion computed.
Chosen(g, k) ==
    IF g[k.node].type = "choice"
    THEN k.next \in g[k.node].choices /\ k.bypassing = Bypassed(g, k.node, k.next)
    ELSE k.next = g[k.node].next /\ k.bypassing = {}

\* A call whose node is not completed works on the node its player stands on.
CallSound(g, pub, p, k) ==
    /\ Chosen(g, k)
    /\ k.stage # "notified" => p # None /\ (k.node \notin p.completed => k.node = p.current)
    /\ k.stage = "open" =>
        k.progress \in Progress /\ k.node \notin k.progress.completed /\ k.published \subseteq pub

StoryInv ==
    /\ TypeOK
    /\ \A ch \in published : ValidChapter(graph, ch)
    /\ \A u \in Users : progress[u] # None =>
        PlayerSound(graph, published, unseen[u], progress[u])
    /\ \A c \in Calls : call[c] # None =>
        CallSound(graph, published, progress[call[c].user], call[c])
    /\ BonusPaidOnce

-----------------------------------------------------------------------------
(* Reach is the least set that contains a node and is closed under edges.     *)

EdgeMaps == [Nodes -> SUBSET Nodes]

LEMMA ReachTyped ==
    ASSUME NEW edges \in EdgeMaps, NEW n \in Nodes
    PROVE  Reach(edges, n) \subseteq Nodes /\ n \in Reach(edges, n)
BY DEF Reach

LEMMA ReachWithin ==
    ASSUME NEW edges \in EdgeMaps, NEW S \in SUBSET Nodes, NEW n \in S,
           \A k \in S : edges[k] \subseteq S
    PROVE  Reach(edges, n) \subseteq S
BY DEF Reach

LEMMA ReachClosed ==
    ASSUME NEW edges \in EdgeMaps, NEW n \in Nodes, NEW m \in Reach(edges, n)
    PROVE  edges[m] \subseteq Reach(edges, n)
<1> SUFFICES ASSUME NEW k \in edges[m] PROVE k \in Reach(edges, n)
  OBVIOUS
<1>1. m \in Nodes /\ k \in Nodes
  BY DEF Reach, EdgeMaps
<1>2. ASSUME NEW S \in SUBSET Nodes, n \in S, \A x \in S : edges[x] \subseteq S
      PROVE  k \in S
  BY <1>2 DEF Reach
<1> QED
  BY <1>1, <1>2 DEF Reach

LEMMA ReachOnward ==
    ASSUME NEW edges \in EdgeMaps, NEW n \in Nodes, NEW m \in Reach(edges, n)
    PROVE  Reach(edges, m) \subseteq Reach(edges, n)
<1>1. Reach(edges, n) \in SUBSET Nodes
  BY ReachTyped
<1>2. \A k \in Reach(edges, n) : edges[k] \subseteq Reach(edges, n)
  BY ReachClosed
<1>3. PICK S \in SUBSET Nodes : S = Reach(edges, n)
  BY <1>1
<1> QED
  BY <1>2, <1>3, ReachWithin

\* Whatever is reached from n but n itself is reached from where an edge leads.
LEMMA ReachStep ==
    ASSUME NEW edges \in EdgeMaps, NEW n \in Nodes, NEW m \in Reach(edges, n), m # n
    PROVE  \E t \in edges[n] : m \in Reach(edges, t)
<1>1. PICK S : S = {n} \cup UNION {Reach(edges, t) : t \in edges[n]}
  OBVIOUS
<1>2. edges[n] \subseteq Nodes
  BY DEF EdgeMaps
<1>3. S \in SUBSET Nodes /\ n \in S
  BY <1>1, <1>2, ReachTyped
<1>4. \A k \in S : edges[k] \subseteq S
  <2> SUFFICES ASSUME NEW k \in S PROVE edges[k] \subseteq S
    OBVIOUS
  <2>1. CASE k = n
    BY <1>1, <1>2, <2>1, ReachTyped
  <2>2. CASE k # n
    <3>1. PICK t \in edges[n] : k \in Reach(edges, t)
      BY <1>1, <2>2
    <3>2. edges[k] \subseteq Reach(edges, t)
      BY <1>2, <3>1, ReachClosed
    <3> QED
      BY <1>1, <3>2
  <2> QED
    BY <2>1, <2>2
<1>5. m \in S
  BY <1>3, <1>4, ReachWithin
<1> QED
  BY <1>1, <1>5

\* Fewer edges reach less.
LEMMA ReachLess ==
    ASSUME NEW few \in EdgeMaps, NEW many \in EdgeMaps, NEW n \in Nodes,
           \A k \in Nodes : few[k] \subseteq many[k]
    PROVE  Reach(few, n) \subseteq Reach(many, n)
<1>1. PICK S : S = Reach(many, n)
  OBVIOUS
<1>2. S \in SUBSET Nodes /\ n \in S
  BY <1>1, ReachTyped
<1>3. \A k \in S : many[k] \subseteq S
  BY <1>1, ReachClosed
<1>4. \A k \in S : few[k] \subseteq S
  BY <1>2, <1>3
<1> QED
  BY <1>1, <1>2, <1>4, ReachWithin

-----------------------------------------------------------------------------
(* The nodes of a story, and what validateGraph makes sure of.                *)

LEMMA NodeTypes ==
    ASSUME NEW g \in [Nodes -> NodeDocs], NEW n \in Nodes
    PROVE  /\ g[n].chapter \in Chapters /\ g[n].type \in {"text", "challenge", "choice"}
           /\ g[n].entry \in BOOLEAN /\ g[n].optional \in BOOLEAN
           /\ g[n].next \in Nodes \cup {None} /\ g[n].choices \in SUBSET Nodes
           /\ g[n].unlockAfter \in SUBSET Nodes
BY DEF NodeDocs

LEMMA EdgesTyped ==
    ASSUME NEW g \in [Nodes -> NodeDocs]
    PROVE  /\ Forward(g) \in EdgeMaps /\ Edges(g) \in EdgeMaps
           /\ \A n \in Nodes : Forward(g)[n] \subseteq Edges(g)[n]
<1>1. \A n \in Nodes : /\ g[n].next \in Nodes \cup {None}
                       /\ g[n].choices \in SUBSET Nodes
  BY NodeTypes
<1>2. Forward(g) \in EdgeMaps
  BY <1>1 DEF Forward, EdgeMaps
<1>3. Edges(g) \in EdgeMaps
  BY <1>1 DEF Edges, EdgeMaps
<1>4. \A n \in Nodes : Forward(g)[n] \subseteq Edges(g)[n]
  BY DEF Forward, Edges
<1> QED
  BY <1>2, <1>3, <1>4

LEMMA FollowLess ==
    ASSUME NEW g \in [Nodes -> NodeDocs], NEW n \in Nodes
    PROVE  Follow(g, n) \subseteq Reach(Edges(g), n)
BY EdgesTyped, ReachLess DEF Follow

\* What a player follows stays in the chapter, and never comes back.
LEMMA FollowValid ==
    ASSUME NEW g \in [Nodes -> NodeDocs], NEW ch \in Chapters, ValidChapter(g, ch),
           NEW n \in NodesOf(g, ch)
    PROVE  /\ n \in Follow(g, n)
           /\ Follow(g, n) \subseteq NodesOf(g, ch)
           /\ Forward(g)[n] \subseteq NodesOf(g, ch) /\ Forward(g)[n] \subseteq Follow(g, n)
           /\ \A t \in Edges(g)[n] : t \in Nodes /\ n \notin Follow(g, t)
           /\ \A m \in Follow(g, n) : Follow(g, m) \subseteq Follow(g, n)
           /\ \A m \in Follow(g, n) \ {n} : \E t \in Forward(g)[n] : m \in Follow(g, t)
<1>1. n \in Nodes /\ NodesOf(g, ch) \in SUBSET Nodes /\ \A k \in NodesOf(g, ch) : g[k].chapter = ch
  BY DEF NodesOf
<1>2. Forward(g) \in EdgeMaps /\ Edges(g) \in EdgeMaps
  BY EdgesTyped
<1>3. \A k \in NodesOf(g, ch) : Edges(g)[k] \subseteq NodesOf(g, ch)
  <2> SUFFICES ASSUME NEW k \in NodesOf(g, ch) PROVE Edges(g)[k] \subseteq NodesOf(g, ch)
    OBVIOUS
  <2>1. ValidNode(g, k) /\ k \in Nodes /\ g[k].chapter = ch
    BY <1>1 DEF ValidChapter
  <2>2. g[k].choices \subseteq NodesOf(g, ch) /\ g[k].next \in NodesOf(g, ch) \cup {None}
    BY <2>1 DEF ValidNode
  <2>3. Edges(g)[k] = g[k].choices \cup ({g[k].next} \ {None})
    BY <2>1 DEF Edges
  <2> QED
    BY <2>2, <2>3
<1>4. \A k \in NodesOf(g, ch) : Forward(g)[k] \subseteq NodesOf(g, ch)
  BY <1>1, <1>3, EdgesTyped
<1>5. n \in Follow(g, n)
  BY <1>1, <1>2, ReachTyped DEF Follow
<1>6. Follow(g, n) \subseteq NodesOf(g, ch)
  <2>1. PICK S \in SUBSET Nodes : S = NodesOf(g, ch)
    BY <1>1
  <2> QED
    BY <1>2, <1>4, <2>1, ReachWithin DEF Follow
<1>7. Forward(g)[n] \subseteq Follow(g, n)
  BY <1>1, <1>2, <1>5, ReachClosed DEF Follow
<1>8. ASSUME NEW t \in Edges(g)[n] PROVE t \in Nodes /\ n \notin Follow(g, t)
  <2>1. t \in Nodes
    BY <1>1, <1>3
  <2>2. n \notin Reach(Edges(g), t)
    BY DEF ValidChapter
  <2> QED
    BY <2>1, <2>2, FollowLess
<1>9. \A m \in Follow(g, n) : Follow(g, m) \subseteq Follow(g, n)
  BY <1>1, <1>2, ReachOnward DEF Follow
<1>10. \A m \in Follow(g, n) \ {n} : \E t \in Forward(g)[n] : m \in Follow(g, t)
  BY <1>1, <1>2, ReachStep DEF Follow
<1> QED
  BY <1>4, <1>5, <1>6, <1>7, <1>8, <1>9, <1>10

\* A valid chapter has one entry.
LEMMA OneEntry ==
    ASSUME NEW g \in [Nodes -> NodeDocs], NEW ch \in Chapters, ValidChapter(g, ch),
           NEW e \in Entries(g, ch)
    PROVE  Entries(g, ch) = {e}
<1>1. Entries(g, ch) \subseteq Nodes
  BY DEF Entries, NodesOf
<1>2. IsFiniteSet(Entries(g, ch))
  BY <1>1, StoryAssumption, FS_Subset
<1>3. Cardinality(Entries(g, ch)) = 1
  BY DEF ValidChapter
<1>4. \E x : Entries(g, ch) = {x}
  BY <1>2, <1>3, FS_Singleton
<1> QED
  BY <1>4

LEMMA ProgressTypes ==
    ASSUME NEW p \in Progress
    PROVE  /\ p.status \in {"in_progress", "completed"} /\ p.chapter \in Chapters
           /\ p.current \in Nodes /\ p.completed \in SUBSET Nodes /\ p.bypassed \in SUBSET Nodes
           /\ p.chapters \in SUBSET Chapters
BY DEF Progress

\* A player who comes to a chapter has the whole of it ahead.
LEMMA AtEntry ==
    ASSUME NEW g \in [Nodes -> NodeDocs], NEW p \in Progress, ValidChapter(g, p.chapter),
           p.current \in Entries(g, p.chapter), p.chapter \notin p.chapters,
           p.completed \cap p.bypassed = {},
           \A n \in p.completed \cup p.bypassed : g[n].chapter # p.chapter
    PROVE  /\ Apart(g, p) /\ AheadOf(g, p) /\ p.current \notin p.completed
           /\ g[p.current].chapter = p.chapter
<1>1. /\ p.chapter \in Chapters /\ p.completed \in SUBSET Nodes /\ p.bypassed \in SUBSET Nodes
  BY ProgressTypes
<1>2. PICK ch, e : ch = p.chapter /\ e = p.current
  OBVIOUS
<1>3. e \in NodesOf(g, ch) /\ g[e].chapter = ch
  BY <1>2 DEF Entries, NodesOf
<1>4. Follow(g, e) \subseteq NodesOf(g, ch)
  BY <1>1, <1>2, <1>3, FollowValid
<1>5. \A n \in NodesOf(g, ch) : n \in Nodes /\ g[n].chapter = ch
  BY DEF NodesOf
<1>6. Apart(g, p)
  BY <1>1, <1>2, <1>4, <1>5 DEF Apart
<1>7. e \notin p.completed
  BY <1>2, <1>3
<1>8. ASSUME NEW n \in NodesOf(g, ch), ~ g[n].optional, n \notin Follow(g, e)
      PROVE  HiddenIn(g, n)
  <2>1. g[n].unlockAfter # {} \/ \E d \in Entries(g, ch) : n \in Reach(Edges(g), d)
    BY <1>2, <1>8 DEF ValidChapter
  <2>2. Entries(g, ch) = {e}
    BY <1>1, <1>2, OneEntry
  <2> QED
    BY <1>5, <1>8, <2>1, <2>2 DEF HiddenIn
<1>9. AheadOf(g, p)
  BY <1>2, <1>7, <1>8 DEF AheadOf
<1> QED
  BY <1>2, <1>3, <1>6, <1>7, <1>9

\* What a node opens and closes.
LEMMA NodeOpens ==
    ASSUME NEW g \in [Nodes -> NodeDocs], NEW ch \in Chapters, ValidChapter(g, ch),
           NEW k, k.node \in NodesOf(g, ch), Chosen(g, k)
    PROVE  /\ k.bypassing \subseteq NodesOf(g, ch) /\ k.node \notin k.bypassing
           /\ \A m \in k.bypassing : k.node \notin Follow(g, m)
           /\ k.next # None =>
                /\ k.next \in Forward(g)[k.node] /\ k.bypassing \cap Follow(g, k.next) = {}
                /\ Follow(g, k.node) \subseteq {k.node} \cup Follow(g, k.next) \cup k.bypassing
           /\ k.next = None => k.bypassing = {} /\ Follow(g, k.node) = {k.node}
<1>1. PICK n, t : n = k.node /\ t = k.next
  OBVIOUS
<1>2. n \in NodesOf(g, ch) /\ n \in Nodes /\ g[n].chapter = ch
  BY <1>1 DEF NodesOf
<1>3. /\ n \in Follow(g, n)
      /\ Forward(g)[n] \subseteq NodesOf(g, ch)
      /\ \A m \in Edges(g)[n] : m \in Nodes /\ n \notin Follow(g, m)
      /\ \A m \in Follow(g, n) \ {n} : \E x \in Forward(g)[n] : m \in Follow(g, x)
  BY <1>2, FollowValid
<1>4. \A x \in NodesOf(g, ch) :
        /\ x \in Nodes
        /\ Follow(g, x) \subseteq NodesOf(g, ch)
        /\ \A m \in Follow(g, x) : Follow(g, m) \subseteq Follow(g, x)
  BY FollowValid DEF NodesOf
<1>5. g[n].choices \subseteq Edges(g)[n]
  BY <1>2 DEF Edges
<1>6. CASE g[n].type = "choice"
  <2>1. t \in g[n].choices /\ k.bypassing = Bypassed(g, n, t)
    BY <1>1, <1>6 DEF Chosen
  <2>2. Forward(g)[n] = g[n].choices
    BY <1>2, <1>6, <2>1 DEF Forward
  <2>3. t # None
    BY <1>2, <2>1, NodeTypes, NoneIsNoNode
  <2>4. PICK B : B = k.bypassing
    OBVIOUS
  <2>5. \A m \in B : /\ m \notin Follow(g, t)
                     /\ \E x \in g[n].choices \ {t} : m \in Follow(g, x)
    BY <2>1, <2>4 DEF Bypassed, Follow
  <2>6. \A m, x : x \in g[n].choices \ {t} /\ m \in Follow(g, x) => m \in Follow(g, t) \/ m \in B
    BY <2>1, <2>4 DEF Bypassed, Follow
  <2>7. \A m \in B : m \in NodesOf(g, ch) /\ n \notin Follow(g, m)
    <3> SUFFICES ASSUME NEW m \in B PROVE m \in NodesOf(g, ch) /\ n \notin Follow(g, m)
      OBVIOUS
    <3>1. PICK x \in g[n].choices : m \in Follow(g, x)
      BY <2>5
    <3>2. x \in NodesOf(g, ch) /\ n \notin Follow(g, x)
      BY <1>3, <1>5, <2>2, <3>1
    <3> QED
      BY <1>4, <3>1, <3>2
  <2>8. n \notin B
    BY <1>3, <1>5, <2>5
  <2>9. Follow(g, n) \subseteq {n} \cup Follow(g, t) \cup B
    BY <1>3, <2>2, <2>6
  <2> QED
    BY <1>1, <2>1, <2>2, <2>3, <2>4, <2>5, <2>7, <2>8, <2>9
<1>7. CASE g[n].type # "choice"
  <2>1. t = g[n].next /\ k.bypassing = {}
    BY <1>1, <1>7 DEF Chosen
  <2>2. Forward(g)[n] = {t} \ {None}
    BY <1>2, <1>7, <2>1 DEF Forward
  <2>3. t # None => t \in Forward(g)[n] /\ Follow(g, n) \subseteq {n} \cup Follow(g, t)
    BY <1>3, <2>2
  <2>4. t = None => Follow(g, n) = {n}
    BY <1>3, <2>2
  <2> QED
    BY <1>1, <2>1, <2>3, <2>4
<1> QED
  BY <1>6, <1>7

-----------------------------------------------------------------------------
(* What _commitNodeCompletion makes of the progress p, given the call k and   *)
(* the published chapters seen by its transaction.                            *)

JustCompleted(g, p, q) ==
    p.chapter \notin p.chapters /\ ChapterComplete(g, p.chapter, q.completed, q.bypassed)

Passed(g, seen, p, q, k) ==
    /\ q.completed = p.completed \cup {p.current}
    /\ q.bypassed = p.bypassed \cup k.bypassing
    /\ q.chapters = p.chapters \cup (IF JustCompleted(g, p, q) THEN {p.chapter} ELSE {})
    /\ q.status = IF JustCompleted(g, p, q) /\ p.status # "completed" /\ seen \subseteq q.chapters
                  THEN "completed" ELSE p.status
    /\ \/ k.next # None /\ q.chapter = p.chapter /\ q.current = k.next
       \/ /\ k.next = None /\ JustCompleted(g, p, q)
          /\ q.chapter \in seen \ q.chapters /\ q.current \in Entries(g, q.chapter)
       \/ /\ k.next = None /\ q.chapter = p.chapter /\ q.current = p.current
          /\ JustCompleted(g, p, q) =>
                \A ch \in seen \ q.chapters : Order[ch] <= Order[p.chapter]

\* A player who completes the node to stand on, with the chapters pub published.
Completes(g, pub, seen, p, q, k) ==
    /\ g \in [Nodes -> NodeDocs] /\ p \in Progress /\ q \in Progress
    /\ \A ch \in pub : ValidChapter(g, ch)
    /\ pub \subseteq Chapters /\ seen \subseteq pub
    /\ k.node = p.current /\ p.current \notin p.completed /\ Chosen(g, k)
    /\ Passed(g, seen, p, q, k)

LEMMA PassedApart ==
    ASSUME NEW g, NEW pub, NEW seen, NEW p, NEW q, NEW k, Completes(g, pub, seen, p, q, k),
           InPlace(g, pub, p), Apart(g, p), AheadOf(g, p)
    PROVE  /\ InPlace(g, pub, q) /\ Apart(g, q) /\ AheadOf(g, q)
           /\ q.current \in q.completed => k.next = None /\ q.current = p.current /\ q.chapter = p.chapter
<1>1. /\ p.chapter \in Chapters /\ p.current \in Nodes /\ p.completed \in SUBSET Nodes
      /\ p.bypassed \in SUBSET Nodes /\ p.chapters \in SUBSET Chapters
      /\ q.chapter \in Chapters /\ q.current \in Nodes
  BY ProgressTypes DEF Completes
<1>2. PICK ch, n, t, B : ch = p.chapter /\ n = p.current /\ t = k.next /\ B = k.bypassing
  OBVIOUS
<1>3. /\ g \in [Nodes -> NodeDocs] /\ ch \in Chapters /\ ValidChapter(g, ch)
      /\ n \in NodesOf(g, ch) /\ k.node = n /\ Chosen(g, k) /\ n \notin p.completed
  BY <1>1, <1>2 DEF Completes, InPlace, NodesOf
<1>4. /\ B \subseteq NodesOf(g, ch) /\ n \notin B
      /\ \A m \in B : n \notin Follow(g, m)
      /\ t # None => /\ t \in Forward(g)[n] /\ B \cap Follow(g, t) = {}
                     /\ Follow(g, n) \subseteq {n} \cup Follow(g, t) \cup B
      /\ t = None => B = {} /\ Follow(g, n) = {n}
  BY <1>2, <1>3, NodeOpens
<1>5. /\ n \in Follow(g, n)
      /\ Forward(g)[n] \subseteq NodesOf(g, ch) /\ Forward(g)[n] \subseteq Follow(g, n)
      /\ Forward(g)[n] \subseteq Edges(g)[n]
      /\ \A m \in Edges(g)[n] : m \in Nodes /\ n \notin Follow(g, m)
      /\ \A m \in Follow(g, n) : Follow(g, m) \subseteq Follow(g, n)
  BY <1>3, FollowValid, EdgesTyped DEF NodesOf
<1>6. \A m \in NodesOf(g, ch) :
        /\ m \in Nodes /\ g[m].chapter = ch /\ m \in Follow(g, m)
        /\ \A x \in Follow(g, m) : Follow(g, x) \subseteq Follow(g, m)
  BY <1>3, FollowValid DEF NodesOf
<1>7. /\ q.completed = p.completed \cup {n} /\ q.bypassed = p.bypassed \cup B
      /\ p.chapters \subseteq q.chapters /\ q.chapters \subseteq p.chapters \cup {ch}
      /\ JustCompleted(g, p, q) => ch \in q.chapters
  BY <1>2 DEF Completes, Passed
<1>8. /\ p.completed \cap p.bypassed = {} /\ Follow(g, n) \cap p.bypassed = {}
      /\ \A m \in p.completed : g[m].chapter = ch => n \in Follow(g, m)
      /\ \A m \in p.completed \cup p.bypassed : g[m].chapter \in p.chapters \cup {ch}
      /\ ch \in pub /\ g[n].chapter = ch
  BY <1>2 DEF Apart, InPlace
<1>9. q.completed \cap q.bypassed = {}
  <2>1. n \notin p.bypassed
    BY <1>5, <1>8
  <2>2. ASSUME NEW m \in p.completed PROVE m \notin B
    BY <1>4, <1>6, <1>8
  <2> QED
    BY <1>4, <1>7, <1>8, <2>1, <2>2
<1>10. \A m \in q.completed \cup q.bypassed : g[m].chapter \in p.chapters \cup {ch}
  BY <1>4, <1>6, <1>7, <1>8
<1>11. CASE t # None
  <2>1. q.chapter = ch /\ q.current = t
    BY <1>2, <1>11 DEF Completes, Passed
  <2>2. t \in NodesOf(g, ch) /\ t \in Follow(g, n) /\ t # n /\ n \notin Follow(g, t)
    BY <1>4, <1>5, <1>6, <1>11
  <2>3. t \notin p.completed
    BY <1>6, <1>8, <2>2
  <2>4. InPlace(g, pub, q)
    BY <1>6, <1>7, <1>8, <1>10, <2>1, <2>2 DEF InPlace
  <2>5. Follow(g, t) \cap q.bypassed = {}
    BY <1>4, <1>5, <1>7, <1>8, <1>11, <2>2
  <2>6. ASSUME NEW m \in q.completed, g[m].chapter = ch PROVE t \in Follow(g, m)
    <3>1. m \in NodesOf(g, ch) /\ n \in Follow(g, m)
      BY <1>1, <1>3, <1>5, <1>7, <1>8, <2>6 DEF NodesOf
    <3> QED
      BY <1>6, <2>2, <3>1
  <2>7. Apart(g, q)
    BY <1>9, <2>1, <2>5, <2>6 DEF Apart
  <2>8. ASSUME ch \notin q.chapters, NEW m \in NodesOf(g, ch)
        PROVE  \/ g[m].optional \/ HiddenIn(g, m) \/ m \in q.completed \cup q.bypassed
               \/ m \in Follow(g, t)
    <3>1. \/ g[m].optional \/ HiddenIn(g, m) \/ m \in p.completed \cup p.bypassed
          \/ m \in Follow(g, n)
      BY <1>2, <1>7, <2>8 DEF AheadOf
    <3> QED
      BY <1>4, <1>7, <1>11, <3>1
  <2>9. AheadOf(g, q)
    BY <1>7, <2>1, <2>2, <2>3, <2>8 DEF AheadOf
  <2> QED
    BY <1>7, <2>1, <2>2, <2>3, <2>4, <2>7, <2>9
<1>12. CASE t = None /\ JustCompleted(g, p, q) /\ q.chapter \in seen \ q.chapters
                     /\ q.current \in Entries(g, q.chapter)
  <2>1. q \in Progress /\ ValidChapter(g, q.chapter) /\ q.chapter \in pub
    BY <1>12 DEF Completes
  <2>2. \A m \in q.completed \cup q.bypassed : g[m].chapter \in q.chapters
    BY <1>7, <1>10, <1>12
  <2>3. /\ Apart(g, q) /\ AheadOf(g, q) /\ q.current \notin q.completed
        /\ g[q.current].chapter = q.chapter
    BY <1>3, <1>9, <1>12, <2>1, <2>2, AtEntry
  <2>4. InPlace(g, pub, q)
    BY <2>1, <2>2, <2>3 DEF InPlace
  <2> QED
    BY <2>3, <2>4
<1>13. CASE t = None /\ q.chapter = ch /\ q.current = n
  <2>1. B = {} /\ Follow(g, n) = {n}
    BY <1>4, <1>13
  <2>2. InPlace(g, pub, q)
    BY <1>7, <1>8, <1>10, <1>13 DEF InPlace
  <2>3. Apart(g, q)
    BY <1>5, <1>7, <1>8, <1>9, <1>13, <2>1 DEF Apart
  <2>4. ASSUME ch \notin q.chapters, NEW m \in NodesOf(g, ch)
        PROVE  g[m].optional \/ HiddenIn(g, m) \/ m \in q.completed \cup q.bypassed
    <3>1. \/ g[m].optional \/ HiddenIn(g, m) \/ m \in p.completed \cup p.bypassed
          \/ m \in Follow(g, n)
      BY <1>2, <1>7, <2>4 DEF AheadOf
    <3> QED
      BY <1>7, <2>1, <3>1
  <2>5. AheadOf(g, q)
    BY <1>13, <2>4 DEF AheadOf
  <2> QED
    BY <1>2, <1>13, <2>2, <2>3, <2>5
<1> QED
  BY <1>2, <1>11, <1>12, <1>13 DEF Completes, Passed

LEMMA PassedEnded ==
    ASSUME NEW g, NEW pub, NEW seen, NEW p, NEW q, NEW k, Completes(g, pub, seen, p, q, k),
           InPlace(g, pub, p), Apart(g, p), AheadOf(g, p), Ended(g, p)
    PROVE  Ended(g, q)
<1>1. /\ q.completed = p.completed \cup {p.current} /\ q.bypassed = p.bypassed \cup k.bypassing
      /\ q.chapters = p.chapters \cup (IF JustCompleted(g, p, q) THEN {p.chapter} ELSE {})
  BY DEF Completes, Passed
<1>2. ASSUME NEW ch \in q.chapters PROVE ChapterComplete(g, ch, q.completed, q.bypassed)
  <2>1. CASE ch \in p.chapters
    BY <1>1, <2>1 DEF Ended, ChapterComplete
  <2>2. CASE ch \notin p.chapters
    BY <1>1, <2>2 DEF JustCompleted
  <2> QED
    BY <2>1, <2>2
<1>3. ASSUME q.current \in q.completed, q.chapter \notin q.chapters
      PROVE  ~ ChapterComplete(g, q.chapter, q.completed, q.bypassed)
  <2>1. q.chapter = p.chapter
    BY <1>3, PassedApart
  <2> QED
    BY <1>1, <1>3, <2>1 DEF JustCompleted
<1> QED
  BY <1>2, <1>3 DEF Ended

LEMMA PassedDone ==
    ASSUME NEW g, NEW pub, NEW seen, NEW p, NEW q, NEW k, Completes(g, pub, seen, p, q, k),
           InPlace(g, pub, p), Apart(g, p), AheadOf(g, p), Ended(g, p),
           NEW late, StoryDone(g, pub, late, p),
           NEW after, after = IF JustCompleted(g, p, q) THEN pub \ seen ELSE late
    PROVE  StoryDone(g, pub, after, q)
<1>1. /\ q.completed = p.completed \cup {p.current} /\ q.bypassed = p.bypassed \cup k.bypassing
      /\ q.chapters = p.chapters \cup (IF JustCompleted(g, p, q) THEN {p.chapter} ELSE {})
      /\ q.status = IF JustCompleted(g, p, q) /\ p.status # "completed" /\ seen \subseteq q.chapters
                    THEN "completed" ELSE p.status
      /\ p.current \notin p.completed
  BY DEF Completes, Passed
<1>2. /\ p.status = "completed" => p.chapter \in p.chapters
      /\ pub \subseteq p.chapters => p.status = "completed"
      /\ p.status = "completed" => pub \subseteq p.chapters \cup late
  BY DEF StoryDone
<1>3. p.status = "completed" => ~ JustCompleted(g, p, q)
  BY <1>2 DEF JustCompleted
<1>4. \/ q.chapter = p.chapter
      \/ JustCompleted(g, p, q) /\ q.chapter \in seen \ q.chapters
  BY DEF Completes, Passed
<1>5. ASSUME q.current \in q.completed, q.chapter \in q.chapters, ~ g[q.current].optional,
             NEW ch \in pub \ q.chapters
      PROVE  Order[ch] <= Order[q.chapter] \/ ch \in after
  <2>1. k.next = None /\ q.current = p.current /\ q.chapter = p.chapter
    BY <1>5, PassedApart
  <2>2. JustCompleted(g, p, q)
    <3> SUFFICES ASSUME ~ JustCompleted(g, p, q) PROVE FALSE
      OBVIOUS
    <3>1. p.chapter \in p.chapters
      BY <1>1, <1>5, <2>1
    <3>2. p.current \in NodesOf(g, p.chapter) /\ p.current \notin p.bypassed
      <4>1. p.current \in Nodes /\ p.chapter \in Chapters
        BY ProgressTypes DEF Completes
      <4>2. p.current \in NodesOf(g, p.chapter)
        BY <4>1 DEF InPlace, NodesOf
      <4>3. p.current \in Follow(g, p.current)
        BY <4>1, <4>2, FollowValid DEF Completes, InPlace
      <4> QED
        BY <4>2, <4>3 DEF Apart
    <3>3. ChapterComplete(g, p.chapter, p.completed, p.bypassed)
      BY <3>1 DEF Ended
    <3> QED
      BY <1>1, <1>5, <2>1, <3>2, <3>3 DEF ChapterComplete
  <2>3. \A d \in seen \ q.chapters : Order[d] <= Order[p.chapter]
    BY <1>5, <2>1, <2>2 DEF Completes, Passed
  <2> QED
    BY <1>5, <2>1, <2>2, <2>3
<1>6. q.status = "completed" => q.chapter \in q.chapters
  <2>1. CASE p.status = "completed"
    BY <1>1, <1>2, <1>3, <1>4, <2>1
  <2>2. CASE p.status # "completed"
    BY <1>1, <1>4, <2>2
  <2> QED
    BY <2>1, <2>2
<1>7. pub \subseteq q.chapters => q.status = "completed"
  <2>1. seen \subseteq pub
    BY DEF Completes
  <2> QED
    BY <1>1, <1>2, <2>1
<1>8. q.status = "completed" => pub \subseteq q.chapters \cup after
  <2>1. CASE p.status = "completed"
    BY <1>1, <1>2, <1>3, <2>1
  <2>2. CASE p.status # "completed"
    BY <1>1, <2>2
  <2> QED
    BY <2>1, <2>2
<1> QED
  BY <1>5, <1>6, <1>7, <1>8 DEF StoryDone

\* The commit of a call is such a completion.
LEMMA CommitCompletes ==
    ASSUME graph \in [Nodes -> NodeDocs], published \subseteq Chapters,
           \A ch \in published : ValidChapter(graph, ch),
           NEW k \in CallRecord, NEW p \in Progress, k.progress = p, k.node = p.current,
           k.node \notin p.completed, Chosen(graph, k), k.published \subseteq published,
           InPlace(graph, published, p), NEW place \in NextPlace(k)
    PROVE  \E q \in Progress :
               /\ q = NewProgress(k, place)
               /\ Completes(graph, published, k.published, p, q, k)
               /\ ChapterJustCompleted(k) <=> JustCompleted(graph, p, q)
               /\ q.status = IF StoryCompleted(k) THEN "completed" ELSE p.status
               /\ StoryCompleted(k) => ChapterJustCompleted(k) /\ p.status # "completed"
<1>1. /\ p.status \in {"in_progress", "completed"} /\ p.chapter \in Chapters
      /\ p.current \in Nodes /\ p.completed \in SUBSET Nodes /\ p.bypassed \in SUBSET Nodes
      /\ p.chapters \in SUBSET Chapters
  BY ProgressTypes
<1>2. /\ k.bypassing \in SUBSET Nodes /\ k.next \in Nodes \cup {None}
      /\ k.published \in SUBSET Chapters
  BY DEF CallRecord
<1>3. PICK ch, done, passed, ended :
          /\ ch = p.chapter /\ done = p.completed \cup {p.current}
          /\ passed = p.bypassed \cup k.bypassing /\ ended = ChaptersNow(k)
  OBVIOUS
<1>4. /\ graph[k.node].chapter = ch /\ Completed(k) = done /\ BypassedNow(k) = passed
  BY <1>3 DEF InPlace, Completed, BypassedNow
<1>5. ChapterJustCompleted(k) <=> ch \notin p.chapters /\ ChapterComplete(graph, ch, done, passed)
  BY <1>4 DEF ChapterJustCompleted
<1>6. ended = p.chapters \cup (IF ChapterJustCompleted(k) THEN {ch} ELSE {})
  BY <1>3, <1>4 DEF ChaptersNow
<1>7. done \in SUBSET Nodes /\ passed \in SUBSET Nodes /\ ended \in SUBSET Chapters
  BY <1>1, <1>2, <1>3, <1>6
<1>8. LaterChapters(k) = {d \in k.published \ ended : Order[d] > Order[ch]}
  BY <1>3, <1>4 DEF LaterChapters
<1>9. /\ place.chapter \in Chapters /\ place.current \in Nodes
      /\ \/ k.next # None /\ place.chapter = ch /\ place.current = k.next
         \/ /\ k.next = None /\ ChapterJustCompleted(k)
            /\ place.chapter \in k.published \ ended /\ place.current \in Entries(graph, place.chapter)
         \/ /\ k.next = None /\ place.chapter = ch /\ place.current = p.current
            /\ ChapterJustCompleted(k) => LaterChapters(k) = {}
  <2>1. CASE k.next # None
    <3>1. place = [chapter |-> ch, current |-> k.next]
      BY <1>3, <2>1 DEF NextPlace
    <3> QED
      BY <1>1, <1>2, <1>3, <2>1, <3>1
  <2>2. CASE k.next = None /\ ChapterJustCompleted(k) /\ LaterChapters(k) # {}
    <3>1. place \in UNION {{[chapter |-> d, current |-> e] : e \in Entries(graph, d)} :
                              d \in {x \in Chapters : IsFirst(x, LaterChapters(k))}}
      BY <2>2 DEF NextPlace
    <3>2. PICK d, e : /\ d \in Chapters /\ IsFirst(d, LaterChapters(k))
                      /\ e \in Entries(graph, d) /\ place = [chapter |-> d, current |-> e]
      BY <3>1
    <3>3. d \in k.published \ ended /\ e \in Nodes
      BY <1>8, <3>2 DEF IsFirst, Entries, NodesOf
    <3> QED
      BY <2>2, <3>2, <3>3
  <2>3. CASE k.next = None /\ ~ (ChapterJustCompleted(k) /\ LaterChapters(k) # {})
    <3>1. place = [chapter |-> ch, current |-> p.current]
      BY <1>3, <2>3 DEF NextPlace
    <3> QED
      BY <1>1, <1>3, <2>3, <3>1
  <2> QED
    BY <2>1, <2>2, <2>3
<1>10. PICK status \in {"in_progress", "completed"} :
           status = IF StoryCompleted(k) THEN "completed" ELSE p.status
  BY <1>1
<1>11. PICK q : q = [status |-> status, chapter |-> place.chapter, current |-> place.current,
                     completed |-> done, bypassed |-> passed, chapters |-> ended]
  OBVIOUS
<1>12. q = NewProgress(k, place)
  BY <1>3, <1>4, <1>10, <1>11 DEF NewProgress
<1>13. q \in Progress
  BY <1>7, <1>9, <1>11 DEF Progress
<1>14. /\ q.status = status /\ q.chapter = place.chapter /\ q.current = place.current
       /\ q.completed = done /\ q.bypassed = passed /\ q.chapters = ended
  BY <1>11
<1>15. ChapterJustCompleted(k) <=> JustCompleted(graph, p, q)
  BY <1>3, <1>5, <1>14 DEF JustCompleted
<1>16. StoryCompleted(k) <=>
          ChapterJustCompleted(k) /\ p.status # "completed" /\ k.published \subseteq ended
  BY <1>3 DEF StoryCompleted
<1>17. ASSUME LaterChapters(k) = {}, NEW d \in k.published \ ended PROVE Order[d] <= Order[ch]
  <2>1. Order[d] \in Nat /\ Order[ch] \in Nat
    BY <1>1, <1>2, <1>3, StoryAssumption
  <2>2. ~ (Order[d] > Order[ch])
    BY <1>8, <1>17
  <2> QED
    BY <2>1, <2>2
<1>18. Passed(graph, k.published, p, q, k)
  <2>1. \/ k.next # None /\ q.chapter = p.chapter /\ q.current = k.next
        \/ /\ k.next = None /\ JustCompleted(graph, p, q)
           /\ q.chapter \in k.published \ q.chapters /\ q.current \in Entries(graph, q.chapter)
        \/ /\ k.next = None /\ q.chapter = p.chapter /\ q.current = p.current
           /\ JustCompleted(graph, p, q) =>
                 \A d \in k.published \ q.chapters : Order[d] <= Order[p.chapter]
    BY <1>3, <1>9, <1>14, <1>15, <1>17
  <2>2. q.status = IF JustCompleted(graph, p, q) /\ p.status # "completed"
                      /\ k.published \subseteq q.chapters
                   THEN "completed" ELSE p.status
    BY <1>10, <1>14, <1>15, <1>16
  <2>3. q.chapters = p.chapters \cup (IF JustCompleted(graph, p, q) THEN {p.chapter} ELSE {})
    BY <1>3, <1>6, <1>14, <1>15
  <2> QED
    BY <1>3, <1>14, <2>1, <2>2, <2>3 DEF Passed
<1>19. Completes(graph, published, k.published, p, q, k)
  BY <1>13, <1>18 DEF Completes
<1> QED
  BY <1>10, <1>12, <1>13, <1>14, <1>15, <1>16, <1>19

-----------------------------------------------------------------------------
(* Every action keeps StoryInv.                                               *)

LEMMA StoryTypes ==
    ASSUME TypeOK
    PROVE  /\ graph \in [Nodes -> NodeDocs] /\ published \in SUBSET Chapters
           /\ \A u \in Users : /\ progress[u] # None => progress[u] \in Progress
                               /\ solved[u] \in SUBSET Nodes /\ bonus[u] \in Nat
                               /\ unseen[u] \in SUBSET Chapters
           /\ \A c \in Calls : call[c] # None =>
                /\ call[c] \in CallRecord /\ call[c].user \in Users /\ call[c].node \in Nodes
                /\ call[c].stage \in {"notified", "decided", "open"}
<1>1. graph \in [Nodes -> NodeDocs] /\ published \in SUBSET Chapters
  BY StoryAssumption DEF TypeOK
<1>2. \A u \in Users : /\ progress[u] # None => progress[u] \in Progress
                       /\ solved[u] \in SUBSET Nodes /\ bonus[u] \in Nat
                       /\ unseen[u] \in SUBSET Chapters
  BY DEF TypeOK
<1>3. \A c \in Calls : call[c] # None => call[c] \in CallRecord
  BY DEF TypeOK
<1>4. \A k \in CallRecord : /\ k.user \in Users /\ k.node \in Nodes
                            /\ k.stage \in {"notified", "decided", "open"}
  BY DEF CallRecord
<1> QED
  BY <1>1, <1>2, <1>3, <1>4

LEMMA PublishedSound ==
    ASSUME NEW g, NEW pub, NEW late, NEW p, NEW ch, PlayerSound(g, pub, late, p)
    PROVE  PlayerSound(g, pub \cup {ch}, late \cup {ch}, p)
<1>1. InPlace(g, pub \cup {ch}, p)
  BY DEF PlayerSound, InPlace
<1>2. StoryDone(g, pub \cup {ch}, late \cup {ch}, p)
  BY DEF PlayerSound, StoryDone
<1> QED
  BY <1>1, <1>2 DEF PlayerSound

LEMMA PublishKeeps ==
    ASSUME StoryInv, NEW ch \in Chapters, Publish(ch)
    PROVE  StoryInv'
<1>1. /\ published' = published \cup {ch} /\ ValidChapter(graph, ch)
      /\ unseen' = [u \in Users |-> unseen[u] \cup {ch}]
      /\ UNCHANGED <<graph, progress, solved, bonus, completionCount, call>>
  BY DEF Publish
<1>2. TypeOK'
  BY <1>1 DEF StoryInv, TypeOK
<1>3. \A d \in published' : ValidChapter(graph, d)
  BY <1>1 DEF StoryInv
<1>4. ASSUME NEW u \in Users, progress[u] # None
      PROVE  PlayerSound(graph, published', unseen'[u], progress[u])
  BY <1>1, <1>4, PublishedSound DEF StoryInv
<1>5. ASSUME NEW c \in Calls, call[c] # None
      PROVE  CallSound(graph, published', progress[call[c].user], call[c])
  BY <1>1, <1>5 DEF StoryInv, CallSound
<1>6. BonusPaidOnce'
  BY <1>1 DEF StoryInv, BonusPaidOnce, Playing
<1> QED
  BY <1>1, <1>2, <1>3, <1>4, <1>5, <1>6 DEF StoryInv

LEMMA StartKeeps ==
    ASSUME StoryInv, NEW u \in Users, StartStory(u)
    PROVE  StoryInv'
<1>1. TypeOK /\ BonusPaidOnce /\ progress \in [Users -> Progress \cup {None}]
  BY DEF StoryInv, TypeOK
<1>2. UNCHANGED <<graph, published, solved, bonus, completionCount, call, unseen>>
  BY DEF StartStory
<1>3. PICK ch \in Chapters : \E e \in Entries(graph, ch) :
        /\ IsFirst(ch, published \ Gated)
        /\ progress' = [progress EXCEPT ![u] =
                [status |-> "in_progress", chapter |-> ch, current |-> e,
                 completed |-> {}, bypassed |-> {}, chapters |-> {}]]
  BY DEF StartStory
<1>4. PICK e \in Entries(graph, ch) :
        progress' = [progress EXCEPT ![u] =
                [status |-> "in_progress", chapter |-> ch, current |-> e,
                 completed |-> {}, bypassed |-> {}, chapters |-> {}]]
  BY <1>3
<1>5. PICK p : p = [status |-> "in_progress", chapter |-> ch, current |-> e,
                    completed |-> {}, bypassed |-> {}, chapters |-> {}]
  OBVIOUS
<1>6. /\ p.status = "in_progress" /\ p.chapter = ch /\ p.current = e
      /\ p.completed = {} /\ p.bypassed = {} /\ p.chapters = {}
  BY <1>5
<1>7. ch \in published /\ ValidChapter(graph, ch) /\ graph \in [Nodes -> NodeDocs]
  BY <1>1, <1>3, StoryTypes DEF IsFirst, StoryInv
<1>8. p \in Progress
  BY <1>5 DEF Progress, Entries, NodesOf
<1>9. /\ progress' \in [Users -> Progress \cup {None}] /\ progress'[u] = p
      /\ \A v \in Users : v # u => progress'[v] = progress[v]
  BY <1>1, <1>4, <1>5, <1>8
<1>10. p # None
  BY <1>8, NoneIsNoProgress
<1>11. TypeOK'
  BY <1>1, <1>2, <1>9 DEF TypeOK
<1>12. PlayerSound(graph, published, unseen[u], p)
  <2>1. Apart(graph, p) /\ AheadOf(graph, p) /\ p.current \notin p.completed
        /\ graph[p.current].chapter = p.chapter
    BY <1>6, <1>7, <1>8, AtEntry
  <2>2. InPlace(graph, published, p)
    BY <1>6, <1>7, <2>1 DEF InPlace
  <2>3. Ended(graph, p)
    BY <1>6, <2>1 DEF Ended
  <2>4. StoryDone(graph, published, unseen[u], p)
    BY <1>6, <1>7, <2>1 DEF StoryDone
  <2> QED
    BY <2>1, <2>2, <2>3, <2>4 DEF PlayerSound
<1>13. ASSUME NEW v \in Users, progress'[v] # None
       PROVE  PlayerSound(graph, published, unseen[v], progress'[v])
  BY <1>9, <1>12, <1>13 DEF StoryInv
<1>14. ASSUME NEW c \in Calls, call[c] # None
       PROVE  CallSound(graph, published, progress'[call[c].user], call[c])
  <2>1. CallSound(graph, published, progress[call[c].user], call[c]) /\ call[c].user \in Users
    BY <1>1, <1>14, StoryTypes DEF StoryInv
  <2>2. CASE call[c].user = u
    <3>1. call[c].stage = "notified"
      BY <2>1, <2>2 DEF CallSound, StartStory
    <3> QED
      BY <2>1, <3>1 DEF CallSound
  <2>3. CASE call[c].user # u
    BY <1>9, <2>1, <2>3
  <2> QED
    BY <2>2, <2>3
<1>15. BonusPaidOnce'
  <2>1. \A v \in Users : (progress'[v] # None /\ progress'[v].status = "completed")
                    <=> (progress[v] # None /\ progress[v].status = "completed")
    BY <1>6, <1>9 DEF StartStory
  <2>2. {v \in Users : progress'[v] # None /\ progress'[v].status = "completed"}
          = {v \in Users : progress[v] # None /\ progress[v].status = "completed"}
    BY <2>1
  <2>3. \A v \in Users :
          bonus[v] = IF progress[v] # None /\ progress[v].status = "completed" THEN 1 ELSE 0
    BY <1>1 DEF BonusPaidOnce, Playing
  <2>4. completionCount =
          Cardinality({v \in Users : progress[v] # None /\ progress[v].status = "completed"})
    BY <1>1 DEF BonusPaidOnce, Playing
  <2>5. \A v \in Users :
          bonus[v] = IF progress'[v] # None /\ progress'[v].status = "completed" THEN 1 ELSE 0
    BY <2>1, <2>3
  <2> QED
    BY <1>2, <2>2, <2>4, <2>5 DEF BonusPaidOnce, Playing
<1> QED
  BY <1>2, <1>11, <1>13, <1>14, <1>15 DEF StoryInv

\* A step that only writes one call keeps StoryInv when the call is sound.
LEMMA CallKeeps ==
    ASSUME StoryInv, NEW c \in Calls, NEW k, k # None => k \in CallRecord,
           call' = [call EXCEPT ![c] = k],
           k # None => CallSound(graph, published, progress[k.user], k),
           solved' \in [Users -> SUBSET Nodes],
           UNCHANGED <<graph, published, progress, bonus, completionCount, unseen>>
    PROVE  StoryInv'
<1>1. call \in [Calls -> CallRecord \cup {None}]
  BY DEF StoryInv, TypeOK
<1>2. /\ call' \in [Calls -> CallRecord \cup {None}] /\ call'[c] = k
      /\ \A d \in Calls : d # c => call'[d] = call[d]
  BY <1>1
<1>3. TypeOK'
  BY <1>2 DEF StoryInv, TypeOK
<1>4. ASSUME NEW d \in Calls, call'[d] # None
      PROVE  CallSound(graph, published, progress[call'[d].user], call'[d])
  BY <1>2, <1>4 DEF StoryInv
<1>5. BonusPaidOnce'
  BY DEF StoryInv, BonusPaidOnce, Playing
<1> QED
  BY <1>3, <1>4, <1>5 DEF StoryInv

LEMMA NewCallKeeps ==
    ASSUME StoryInv, NEW c \in Calls, NEW u \in Users, NEW n \in Nodes,
           NEW next \in Nodes \cup {None}, NEW bypassing \in SUBSET Nodes,
           NEW stage \in {"notified", "decided"},
           call' = [call EXCEPT ![c] = NewCall(stage, u, n, bypassing, next)],
           IF graph[n].type = "choice"
           THEN next \in graph[n].choices /\ bypassing = Bypassed(graph, n, next)
           ELSE next = graph[n].next /\ bypassing = {},
           stage = "notified" \/ IsCurrent(u, n),
           solved' \in [Users -> SUBSET Nodes],
           UNCHANGED <<graph, published, progress, bonus, completionCount, unseen>>
    PROVE  StoryInv'
<1>1. PICK k : k = NewCall(stage, u, n, bypassing, next)
  OBVIOUS
<1>2. k = [stage |-> stage, user |-> u, node |-> n, bypassing |-> bypassing, next |-> next,
           progress |-> None, published |-> {}, count |-> 0]
  BY <1>1 DEF NewCall
<1>3. /\ k.stage = stage /\ k.user = u /\ k.node = n /\ k.bypassing = bypassing /\ k.next = next
      /\ k.progress = None /\ k.published = {} /\ k.count = 0
  BY <1>2
<1>4. k \in CallRecord
  BY <1>2 DEF CallRecord
<1>5. Chosen(graph, k)
  BY <1>3 DEF Chosen
<1>6. k.stage # "notified" => progress[u] # None /\ k.node = progress[u].current
  BY <1>3 DEF IsCurrent
<1>7. CallSound(graph, published, progress[k.user], k)
  BY <1>3, <1>5, <1>6 DEF CallSound
<1> QED
  BY <1>1, <1>4, <1>7, CallKeeps

LEMMA AdvanceKeeps ==
    ASSUME StoryInv, NEW c \in Calls, NEW u \in Users, NEW n \in Nodes, AdvanceNode(c, u, n)
    PROVE  StoryInv'
<1>1. graph \in [Nodes -> NodeDocs] /\ solved \in [Users -> SUBSET Nodes]
  BY StoryAssumption DEF StoryInv, TypeOK
<1>2. graph[n].next \in Nodes \cup {None}
  BY <1>1, NodeTypes
<1>3. graph[n].type # "choice" /\ IsCurrent(u, n)
      /\ call' = [call EXCEPT ![c] = NewCall("decided", u, n, {}, graph[n].next)]
      /\ UNCHANGED <<graph, published, progress, solved, bonus, completionCount, unseen>>
  BY DEF AdvanceNode
<1> QED
  BY <1>1, <1>2, <1>3, NewCallKeeps

LEMMA ChoiceKeeps ==
    ASSUME StoryInv, NEW c \in Calls, NEW u \in Users, NEW n \in Nodes, NEW target \in Nodes,
           MakeChoice(c, u, n, target)
    PROVE  StoryInv'
<1>1. graph \in [Nodes -> NodeDocs] /\ solved \in [Users -> SUBSET Nodes]
  BY StoryAssumption DEF StoryInv, TypeOK
<1>2. graph[n].type = "choice" /\ IsCurrent(u, n) /\ target \in graph[n].choices
      /\ call' = [call EXCEPT ![c] =
                    NewCall("decided", u, n, Bypassed(graph, n, target), target)]
      /\ UNCHANGED <<graph, published, progress, solved, bonus, completionCount, unseen>>
  BY DEF MakeChoice
<1>3. Bypassed(graph, n, target) \in SUBSET Nodes
  BY DEF Bypassed, Reach
<1> QED
  BY <1>1, <1>2, <1>3, NewCallKeeps

LEMMA SolveKeeps ==
    ASSUME StoryInv, NEW c \in Calls, NEW u \in Users, NEW n \in Nodes, SolveChallenge(c, u, n)
    PROVE  StoryInv'
<1>1. graph \in [Nodes -> NodeDocs] /\ solved \in [Users -> SUBSET Nodes]
  BY StoryAssumption DEF StoryInv, TypeOK
<1>2. graph[n].next \in Nodes \cup {None}
  BY <1>1, NodeTypes
<1>3. graph[n].type # "choice" /\ solved' = [solved EXCEPT ![u] = @ \cup {n}]
      /\ call' = [call EXCEPT ![c] = NewCall("notified", u, n, {}, graph[n].next)]
      /\ UNCHANGED <<graph, published, progress, bonus, completionCount, unseen>>
  BY DEF SolveChallenge
<1>4. solved' \in [Users -> SUBSET Nodes]
  BY <1>1, <1>3
<1> QED
  BY <1>1, <1>2, <1>3, <1>4, NewCallKeeps

LEMMA NotifyKeeps ==
    ASSUME StoryInv, NEW c \in Calls, NotifyChallengeSolved(c)
    PROVE  StoryInv'
<1>1. TypeOK /\ solved \in [Users -> SUBSET Nodes]
  BY DEF StoryInv, TypeOK
<1>2. /\ call[c] # None /\ call[c].stage = "notified"
      /\ UNCHANGED <<graph, published, progress, solved, bonus, completionCount, unseen>>
  BY DEF NotifyChallengeSolved
<1>3. PICK k \in CallRecord : k = call[c]
  BY <1>1, <1>2, StoryTypes
<1>4. \/ call' = [call EXCEPT ![c] = None]
      \/ /\ call' = [call EXCEPT ![c] = [k EXCEPT !.stage = "decided"]]
         /\ IsCurrent(k.user, k.node)
  BY <1>1, <1>3 DEF NotifyChallengeSolved, TypeOK
<1>5. CASE call' = [call EXCEPT ![c] = None]
  BY <1>1, <1>2, <1>5, CallKeeps
<1>6. CASE /\ call' = [call EXCEPT ![c] = [k EXCEPT !.stage = "decided"]]
           /\ IsCurrent(k.user, k.node)
  <2>1. PICK j : j = [k EXCEPT !.stage = "decided"]
    OBVIOUS
  <2>2. j \in CallRecord /\ j.stage = "decided" /\ j.user = k.user /\ j.node = k.node
        /\ j.next = k.next /\ j.bypassing = k.bypassing
    BY <1>3, <2>1 DEF CallRecord
  <2>3. Chosen(graph, k)
    BY <1>2, <1>3 DEF StoryInv, CallSound
  <2>4. Chosen(graph, j)
    BY <2>2, <2>3 DEF Chosen
  <2>5. CallSound(graph, published, progress[j.user], j)
    BY <1>6, <2>2, <2>4 DEF CallSound, IsCurrent
  <2> QED
    BY <1>1, <1>2, <1>6, <2>1, <2>2, <2>5, CallKeeps
<1> QED
  BY <1>4, <1>5, <1>6

LEMMA OpenKeeps ==
    ASSUME StoryInv, NEW c \in Calls, Open(c)
    PROVE  StoryInv'
<1>1. TypeOK /\ solved \in [Users -> SUBSET Nodes] /\ published \in SUBSET Chapters
      /\ completionCount \in Nat
  BY DEF StoryInv, TypeOK
<1>2. /\ call[c] # None /\ call[c].stage = "decided"
      /\ UNCHANGED <<graph, published, progress, solved, bonus, completionCount, unseen>>
  BY DEF Open
<1>3. PICK k \in CallRecord : k = call[c]
  BY <1>1, <1>2, StoryTypes
<1>4. k.user \in Users /\ progress[k.user] # None /\ Chosen(graph, k)
      /\ (k.node \notin progress[k.user].completed => k.node = progress[k.user].current)
  BY <1>1, <1>2, <1>3, StoryTypes DEF StoryInv, CallSound
<1>5. PICK p \in Progress : p = progress[k.user]
  BY <1>1, <1>4, StoryTypes
<1>6. \/ call' = [call EXCEPT ![c] = None]
      \/ /\ call' = [call EXCEPT ![c] = [k EXCEPT !.stage = "open", !.progress = p,
                          !.published = published, !.count = completionCount]]
         /\ k.node \notin p.completed
  BY <1>1, <1>3, <1>5 DEF Open, TypeOK
<1>7. CASE call' = [call EXCEPT ![c] = None]
  BY <1>1, <1>2, <1>7, CallKeeps
<1>8. CASE /\ call' = [call EXCEPT ![c] = [k EXCEPT !.stage = "open", !.progress = p,
                          !.published = published, !.count = completionCount]]
           /\ k.node \notin p.completed
  <2>1. PICK j : j = [k EXCEPT !.stage = "open", !.progress = p,
                          !.published = published, !.count = completionCount]
    OBVIOUS
  <2>2. j.stage = "open" /\ j.user = k.user /\ j.node = k.node
        /\ j.next = k.next /\ j.bypassing = k.bypassing /\ j.progress = p
        /\ j.published = published
    BY <1>3, <2>1 DEF CallRecord
  <2>3. j \in CallRecord
    BY <1>1, <1>3, <2>1 DEF CallRecord
  <2>4. Chosen(graph, j)
    BY <1>4, <2>2 DEF Chosen
  <2>5. CallSound(graph, published, progress[j.user], j)
    BY <1>4, <1>5, <1>8, <2>2, <2>4 DEF CallSound
  <2> QED
    BY <1>1, <1>2, <1>8, <2>1, <2>3, <2>5, CallKeeps
<1> QED
  BY <1>6, <1>7, <1>8

LEMMA AbortKeeps ==
    ASSUME StoryInv, NEW c \in Calls, Abort(c)
    PROVE  StoryInv'
<1>1. solved \in [Users -> SUBSET Nodes]
  BY DEF StoryInv, TypeOK
<1> QED
  BY <1>1, CallKeeps DEF Abort

\* A commit is the completion of the node its player stands on, by one call.
LEMMA CommitMoves ==
    ASSUME StoryInv, NEW c \in Calls, Commit(c),
           NEW k \in CallRecord, k = call[c], NEW u \in Users, u = k.user,
           NEW p \in Progress, p = progress[u]
    PROVE  \E q \in Progress :
               /\ progress' = [progress EXCEPT ![u] = q]
               /\ Completes(graph, published, k.published, p, q, k)
               /\ unseen' = IF JustCompleted(graph, p, q)
                            THEN [unseen EXCEPT ![u] = published \ k.published]
                            ELSE unseen
               /\ \E one \in {0, 1} :
                    /\ one = 1 <=> p.status # "completed" /\ q.status = "completed"
                    /\ one = 0 => q.status = p.status
                    /\ bonus' = [bonus EXCEPT ![u] = @ + one]
                    /\ completionCount' = completionCount + one
<1>1. TypeOK /\ call[c] # None /\ call[c].stage = "open" /\ progress[k.user] = k.progress
  BY DEF StoryInv, Commit, Conflict
<1>2. /\ graph \in [Nodes -> NodeDocs] /\ published \subseteq Chapters
      /\ \A ch \in published : ValidChapter(graph, ch)
  BY <1>1, StoryTypes DEF StoryInv
<1>3. p # None
  BY NoneIsNoProgress
<1>4. CallSound(graph, published, p, k)
  BY <1>1 DEF StoryInv
<1>5. /\ k.progress = p /\ k.node \notin p.completed /\ k.node = p.current
      /\ Chosen(graph, k) /\ k.published \subseteq published
  BY <1>1, <1>4 DEF CallSound
<1>6. InPlace(graph, published, p)
  BY <1>3 DEF StoryInv, PlayerSound
<1>7. PICK one \in {0, 1} : one = IF StoryCompleted(k) THEN 1 ELSE 0
  OBVIOUS
<1>8. \E place \in NextPlace(k) : progress' = [progress EXCEPT ![u] = NewProgress(k, place)]
  BY DEF Commit
<1>9. /\ bonus' = [bonus EXCEPT ![u] = @ + one] /\ completionCount' = completionCount + one
      /\ unseen' = IF ChapterJustCompleted(k)
                   THEN [unseen EXCEPT ![u] = published \ k.published] ELSE unseen
  BY <1>7 DEF Commit
<1>10. PICK place \in NextPlace(k) : progress' = [progress EXCEPT ![u] = NewProgress(k, place)]
  BY <1>8
<1>11. PICK q \in Progress :
           /\ q = NewProgress(k, place)
           /\ Completes(graph, published, k.published, p, q, k)
           /\ ChapterJustCompleted(k) <=> JustCompleted(graph, p, q)
           /\ q.status = IF StoryCompleted(k) THEN "completed" ELSE p.status
           /\ StoryCompleted(k) => ChapterJustCompleted(k) /\ p.status # "completed"
  BY <1>2, <1>5, <1>6, CommitCompletes
<1>12. one = 1 <=> p.status # "completed" /\ q.status = "completed"
  BY <1>7, <1>11
<1>13. one = 0 => q.status = p.status
  BY <1>7, <1>11
<1> QED
  BY <1>9, <1>10, <1>11, <1>12, <1>13

\* The one who has just completed the story is one more of those who have.
LEMMA BonusKept ==
    ASSUME TypeOK, BonusPaidOnce, NEW u \in Users, NEW q \in Progress, NEW one \in {0, 1},
           progress[u] # None,
           one = 1 <=> progress[u].status # "completed" /\ q.status = "completed",
           one = 0 => q.status = progress[u].status,
           progress' = [progress EXCEPT ![u] = q],
           bonus' = [bonus EXCEPT ![u] = @ + one],
           completionCount' = completionCount + one
    PROVE  BonusPaidOnce'
<1>1. progress \in [Users -> Progress \cup {None}] /\ bonus \in [Users -> Nat]
  BY DEF TypeOK
<1>2. /\ progress'[u] = q /\ \A v \in Users : v # u => progress'[v] = progress[v]
      /\ bonus'[u] = bonus[u] + one /\ \A v \in Users : v # u => bonus'[v] = bonus[v]
      /\ q # None
  BY <1>1, NoneIsNoProgress
<1>3. PICK old, now : /\ old = {v \in Users : progress[v] # None /\ progress[v].status = "completed"}
                      /\ now = {v \in Users : progress'[v] # None /\ progress'[v].status = "completed"}
  OBVIOUS
<1>4. \A v \in Users : bonus[v] = IF v \in old THEN 1 ELSE 0
  BY <1>3 DEF BonusPaidOnce, Playing
<1>5. completionCount = Cardinality(old)
  BY <1>3 DEF BonusPaidOnce, Playing
<1>6. IsFiniteSet(old)
  BY <1>3, StoryAssumption, FS_Subset
<1>7. CASE one = 1
  <2>1. u \notin old /\ now = old \cup {u}
    BY <1>2, <1>3, <1>7
  <2>2. Cardinality(now) = Cardinality(old) + 1
    BY <1>6, <2>1, FS_AddElement
  <2>3. completionCount' = Cardinality(now)
    BY <1>5, <1>7, <2>2
  <2>4. \A v \in Users : bonus'[v] = IF v \in now THEN 1 ELSE 0
    BY <1>2, <1>4, <1>7, <2>1
  <2> QED
    BY <1>3, <2>3, <2>4 DEF BonusPaidOnce, Playing
<1>8. CASE one = 0
  <2>1. now = old
    BY <1>2, <1>3, <1>8
  <2>2. completionCount' = Cardinality(now)
    BY <1>5, <1>8, <2>1 DEF TypeOK
  <2>3. \A v \in Users : bonus'[v] = IF v \in now THEN 1 ELSE 0
    BY <1>1, <1>2, <1>4, <1>8, <2>1
  <2> QED
    BY <1>3, <2>2, <2>3 DEF BonusPaidOnce, Playing
<1> QED
  BY <1>7, <1>8

LEMMA CommitKeeps ==
    ASSUME StoryInv, NEW c \in Calls, Commit(c)
    PROVE  StoryInv'
<1>1. /\ TypeOK /\ BonusPaidOnce /\ call[c] # None /\ call[c].stage = "open"
      /\ progress \in [Users -> Progress \cup {None}] /\ bonus \in [Users -> Nat]
      /\ unseen \in [Users -> SUBSET Chapters] /\ completionCount \in Nat
      /\ call \in [Calls -> CallRecord \cup {None}] /\ published \in SUBSET Chapters
  BY DEF StoryInv, TypeOK, Commit
<1>2. /\ call' = [call EXCEPT ![c] = None] /\ UNCHANGED <<graph, published, solved>>
  BY DEF Commit
<1>3. PICK k \in CallRecord : k = call[c]
  BY <1>1, StoryTypes
<1>4. PICK u \in Users : u = k.user
  BY <1>1, <1>3, StoryTypes
<1>5. progress[u] # None
  BY <1>1, <1>3, <1>4 DEF StoryInv, CallSound
<1>6. PICK p \in Progress : p = progress[u]
  BY <1>1, <1>5, StoryTypes
<1>7. PICK q \in Progress :
        /\ progress' = [progress EXCEPT ![u] = q]
        /\ Completes(graph, published, k.published, p, q, k)
        /\ unseen' = IF JustCompleted(graph, p, q)
                     THEN [unseen EXCEPT ![u] = published \ k.published] ELSE unseen
        /\ \E one \in {0, 1} :
             /\ one = 1 <=> p.status # "completed" /\ q.status = "completed"
             /\ one = 0 => q.status = p.status
             /\ bonus' = [bonus EXCEPT ![u] = @ + one]
             /\ completionCount' = completionCount + one
  BY <1>3, <1>4, <1>6, CommitMoves
<1>8. PICK one \in {0, 1} :
        /\ one = 1 <=> p.status # "completed" /\ q.status = "completed"
        /\ one = 0 => q.status = p.status
        /\ bonus' = [bonus EXCEPT ![u] = @ + one]
        /\ completionCount' = completionCount + one
  BY <1>7
<1>9. /\ progress' \in [Users -> Progress \cup {None}] /\ progress'[u] = q
      /\ \A v \in Users : v # u => progress'[v] = progress[v]
      /\ call' \in [Calls -> CallRecord \cup {None}] /\ call'[c] = None
      /\ \A d \in Calls : d # c => call'[d] = call[d]
  BY <1>1, <1>2, <1>7
<1>10. /\ unseen' \in [Users -> SUBSET Chapters]
       /\ unseen'[u] = IF JustCompleted(graph, p, q) THEN published \ k.published ELSE unseen[u]
       /\ \A v \in Users : v # u => unseen'[v] = unseen[v]
  BY <1>1, <1>7
<1>11. TypeOK'
  <2>1. bonus' \in [Users -> Nat] /\ completionCount' \in Nat
    BY <1>1, <1>8
  <2> QED
    BY <1>2, <1>9, <1>10, <2>1 DEF StoryInv, TypeOK
<1>12. BonusPaidOnce'
  BY <1>1, <1>5, <1>6, <1>7, <1>8, BonusKept
<1>13. PlayerSound(graph, published, unseen'[u], q)
  <2>1. PlayerSound(graph, published, unseen[u], p)
    BY <1>5, <1>6 DEF StoryInv
  <2>2. InPlace(graph, published, q) /\ Apart(graph, q) /\ AheadOf(graph, q)
    BY <1>7, <2>1, PassedApart DEF PlayerSound
  <2>3. Ended(graph, q)
    BY <1>7, <2>1, PassedEnded DEF PlayerSound
  <2>4. StoryDone(graph, published, unseen'[u], q)
    BY <1>7, <1>10, <2>1, PassedDone DEF PlayerSound
  <2> QED
    BY <2>2, <2>3, <2>4 DEF PlayerSound
<1>14. ASSUME NEW v \in Users, progress'[v] # None
       PROVE  PlayerSound(graph, published, unseen'[v], progress'[v])
  BY <1>9, <1>10, <1>13, <1>14 DEF StoryInv
<1>15. ASSUME NEW d \in Calls, call'[d] # None
       PROVE  CallSound(graph, published, progress'[call'[d].user], call'[d])
  <2>1. d # c /\ call'[d] = call[d]
    BY <1>9, <1>15
  <2>2. CallSound(graph, published, progress[call[d].user], call[d]) /\ call[d].user \in Users
    BY <1>1, <1>15, <2>1, StoryTypes DEF StoryInv
  <2>3. CASE call[d].user # u
    BY <1>9, <2>1, <2>2, <2>3
  <2>4. CASE call[d].user = u
    <3>1. q # None /\ q.completed = p.completed \cup {p.current}
      BY <1>7, NoneIsNoProgress DEF Completes, Passed
    <3> QED
      BY <1>6, <1>9, <2>1, <2>2, <2>4, <3>1 DEF CallSound
  <2> QED
    BY <2>3, <2>4
<1> QED
  <2>1. \A ch \in published' : ValidChapter(graph', ch)
    BY <1>2 DEF StoryInv
  <2>2. \A v \in Users : progress'[v] # None =>
            PlayerSound(graph', published', unseen'[v], progress'[v])
    BY <1>2, <1>14
  <2>3. \A d \in Calls : call'[d] # None =>
            CallSound(graph', published', progress'[call'[d].user], call'[d])
    BY <1>2, <1>15
  <2> QED
    BY <1>11, <1>12, <2>1, <2>2, <2>3 DEF StoryInv

-----------------------------------------------------------------------------

LEMMA StoryInvStarts ==
    ASSUME StoryInit
    PROVE  StoryInv
<1>1. TypeOK
  BY DEF StoryInit, TypeOK
<1>2. completionCount = 0 /\ {v \in Users : progress[v] # None /\ progress[v].status = "completed"} = {}
  BY DEF StoryInit
<1>3. BonusPaidOnce
  BY <1>2, FS_EmptySet DEF BonusPaidOnce, Playing, StoryInit
<1> QED
  BY <1>1, <1>3 DEF StoryInit, StoryInv

LEMMA StoryInvStays ==
    ASSUME StoryInv, [StoryNext]_storyVars
    PROVE  StoryInv'
<1>1. CASE UNCHANGED storyVars
  <2>1. UNCHANGED <<graph, published, progress, solved, bonus, completionCount, call, unseen>>
    BY <1>1 DEF storyVars
  <2>2. TypeOK' /\ BonusPaidOnce'
    BY <2>1 DEF StoryInv, TypeOK, BonusPaidOnce, Playing
  <2> QED
    BY <2>1, <2>2 DEF StoryInv
<1>2. CASE \E ch \in Chapters : Publish(ch)
  BY <1>2, PublishKeeps
<1>3. CASE \E u \in Users : StartStory(u)
  BY <1>3, StartKeeps
<1>4. CASE \E c \in Calls, u \in Users, n \in Nodes : AdvanceNode(c, u, n)
  BY <1>4, AdvanceKeeps
<1>5. CASE \E c \in Calls, u \in Users, n \in Nodes, target \in Nodes : MakeChoice(c, u, n, target)
  BY <1>5, ChoiceKeeps
<1>6. CASE \E c \in Calls, u \in Users, n \in Nodes : SolveChallenge(c, u, n)
  BY <1>6, SolveKeeps
<1>7. CASE \E c \in Calls : NotifyChallengeSolved(c)
  BY <1>7, NotifyKeeps
<1>8. CASE \E c \in Calls : Open(c)
  BY <1>8, OpenKeeps
<1>9. CASE \E c \in Calls : Commit(c)
  BY <1>9, CommitKeeps
<1>10. CASE \E c \in Calls : Abort(c)
  BY <1>10, AbortKeeps
<1> QED
  BY <1>1, <1>2, <1>3, <1>4, <1>5, <1>6, <1>7, <1>8, <1>9, <1>10 DEF StoryNext

\* StoryInv holds in every state of every story: a player stands on a node of a
\* published chapter, on no branch not taken, with all that is required done or
\* ahead, and what the calls under way decided still fits the node they complete.
THEOREM StoryInvHolds == StorySpec => []StoryInv
BY StoryInvStarts, StoryInvStays, PTL DEF StorySpec

-----------------------------------------------------------------------------
(* What it is for.                                                            *)

LEMMA SoundTypes ==
    ASSUME StoryInv, NEW u \in Users, Playing(u)
    PROVE  /\ PlayerSound(graph, published, unseen[u], progress[u])
           /\ progress[u] \in Progress /\ progress[u].chapter \in Chapters
           /\ progress[u].current \in Nodes
           /\ progress[u].status \in {"in_progress", "completed"}
           /\ graph \in [Nodes -> NodeDocs] /\ ValidChapter(graph, progress[u].chapter)
           /\ progress[u].current \in NodesOf(graph, progress[u].chapter)
           /\ progress[u].current \in Follow(graph, progress[u].current)
<1>1. TypeOK /\ progress[u] # None
  BY DEF StoryInv, Playing
<1>2. PICK p \in Progress : p = progress[u]
  BY <1>1, StoryTypes
<1>3. PlayerSound(graph, published, unseen[u], p)
  BY <1>1, <1>2 DEF StoryInv
<1>4. /\ p.chapter \in Chapters /\ p.current \in Nodes
      /\ p.status \in {"in_progress", "completed"} /\ graph \in [Nodes -> NodeDocs]
  BY <1>1, ProgressTypes, StoryTypes
<1>5. ValidChapter(graph, p.chapter) /\ p.current \in NodesOf(graph, p.chapter)
  BY <1>3, <1>4 DEF StoryInv, PlayerSound, InPlace, NodesOf
<1>6. p.current \in Follow(graph, p.current)
  BY <1>4, <1>5, FollowValid
<1> QED
  BY <1>2, <1>3, <1>4, <1>5, <1>6

LEMMA ConsistentFromInv ==
    ASSUME StoryInv
    PROVE  StoryConsistent
<1>1. TypeOK /\ BonusPaidOnce
  BY DEF StoryInv
<1>2. FinishedExactlyWhenDone
  BY SoundTypes DEF FinishedExactlyWhenDone, PlayerSound, StoryDone
<1> QED
  BY <1>1, <1>2 DEF StoryConsistent

LEMMA WayThroughFromInv ==
    ASSUME StoryInv
    PROVE  WayThrough
<1>1. BranchesApart
  BY SoundTypes DEF BranchesApart, PlayerSound, Apart
<1>2. NothingRequiredLeftBehind
  <2> SUFFICES ASSUME NEW u \in Users, NEW n \in Nodes, Playing(u),
                      progress[u].chapter \notin progress[u].chapters,
                      graph[n].chapter = progress[u].chapter
               PROVE  \/ graph[n].optional \/ Hidden(n)
                      \/ n \in progress[u].completed \cup progress[u].bypassed
                      \/ /\ progress[u].current \notin progress[u].completed
                         /\ n \in Reach(Forward(graph), progress[u].current)
    BY DEF NothingRequiredLeftBehind
  <2>1. AheadOf(graph, progress[u]) /\ n \in NodesOf(graph, progress[u].chapter)
    BY SoundTypes DEF PlayerSound, NodesOf
  <2>2. HiddenIn(graph, n) => Hidden(n)
    BY DEF HiddenIn, Hidden, Follow
  <2> QED
    BY <2>1, <2>2 DEF AheadOf, Follow
<1> QED
  BY <1>1, <1>2 DEF WayThrough

LEMMA StuckFromInv ==
    ASSUME StoryInv
    PROVE  StuckForAReason
<1> SUFFICES ASSUME NEW u \in Users, Playing(u), progress[u].status = "in_progress", ~ CanGoOn(u)
             PROVE  ReasonToBeStuck(u)
  BY DEF StuckForAReason
<1>1. PICK p, n : p = progress[u] /\ n = p.current
  OBVIOUS
<1>2. /\ PlayerSound(graph, published, unseen[u], p) /\ p \in Progress /\ p.chapter \in Chapters
      /\ graph \in [Nodes -> NodeDocs] /\ n \in NodesOf(graph, p.chapter) /\ n \in Follow(graph, n)
  BY <1>1, SoundTypes
<1>3. CASE n \notin p.completed
  <2>1. n \notin p.bypassed
    BY <1>1, <1>2 DEF PlayerSound, Apart
  <2> QED
    BY <1>1, <1>3, <2>1 DEF CanGoOn, PrerequisitesMet, ReasonToBeStuck
<1>4. CASE n \in p.completed /\ p.chapter \notin p.chapters
  <2>1. ~ ChapterComplete(graph, p.chapter, p.completed, p.bypassed)
    BY <1>1, <1>2, <1>4 DEF PlayerSound, Ended
  <2>2. PICK m \in NodesOf(graph, p.chapter) :
          ~ graph[m].optional /\ m \notin p.completed \cup p.bypassed
    BY <2>1 DEF ChapterComplete
  <2>3. HiddenIn(graph, m)
    BY <1>1, <1>2, <1>4, <2>2 DEF PlayerSound, AheadOf
  <2>4. Hidden(m)
    BY <2>3 DEF HiddenIn, Hidden, Follow
  <2> QED
    BY <1>1, <1>4, <2>2, <2>4 DEF ReasonToBeStuck
<1>5. CASE n \in p.completed /\ p.chapter \in p.chapters
  <2>1. ~ graph[n].optional =>
          \A ch \in published \ p.chapters : Order[ch] <= Order[p.chapter] \/ ch \in unseen[u]
    BY <1>1, <1>2, <1>5 DEF PlayerSound, StoryDone
  <2> QED
    BY <1>1, <1>5, <2>1 DEF ReasonToBeStuck
<1> QED
  BY <1>3, <1>4, <1>5

\* In every story, whatever calls overlap: the bonus is paid once to each who
\* completed the story, completionCount counts them, and who is completed lacks
\* only chapters published behind the back of a transaction, or later
\* (_commitNodeCompletion).
THEOREM StoryConsistentHolds == StorySpec => []StoryConsistent
BY StoryInvHolds, ConsistentFromInv, PTL

\* In every story that validateGraph lets through: what computeBypassedNodes
\* hides is never led to again, and no required node is left behind.
THEOREM WayThroughHolds == StorySpec => []WayThrough
BY StoryInvHolds, WayThroughFromInv, PTL

\* In every story, a player who can complete nothing has one of the reasons that
\* the code leaves open.
THEOREM StuckForAReasonHolds == StorySpec => []StuckForAReason
BY StoryInvHolds, StuckFromInv, PTL
=============================================================================
