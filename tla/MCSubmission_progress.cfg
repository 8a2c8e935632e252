SPECIFICATION FairSpec
CONSTANTS
    Users = {u1}
    Teams = {t1}
    Challenges = {c1}
    NoUser = NoUser
    NoTeam = NoTeam
    NoSubmission = NoSubmission
    u1 = u1
    u2 = u2
    u3 = u3
    t1 = t1
    c1 = c1
    r1 = r1
    r2 = r2
    r3 = r3
    d1 = d1
    d2 = d2
    MaxDecay <- MCMaxDecay
    Decay <- MCDecay
    Scoring <- MCScoring
    TeamOf <- PairInTeam
    Calls <- AnyCalls
    Requests = {r1, r2, r3}
    Deletions = {d1, d2}
    Batches <- RequestsOrDeletions
    MaxAttempts = 2
    RecentCap = 1
    TeamIndexBuilt = FALSE
    MaxCrashes = 1
INVARIANT ScoreNotNegativeAtRest
PROPERTY LockoutEnds
CHECK_DEADLOCK FALSE
