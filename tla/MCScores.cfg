SPECIFICATION Spec
CONSTANTS
    p1 = p1
    t1 = t1
    Accounts = {s1, s2, a1, p1}
    Seeded = {s1, s2}
    Registered = {p1}
    RoleCalls = {r1, r2}
    Players = {p1}
    Teams = {t1}
    TeamOf <- OneInATeam
    Challenges = {h1, h2}
    Value = 2
    HintCost = 1
    Bonus = 1
    Deltas <- TwoDeltas
    ScoreCalls = {c1, c2, c3}
    MaxCalls = 4
    None = None
SYMMETRY Symmetry
INVARIANTS ScoresConsistent SuperadminsGoneOnlyLate
CHECK_DEADLOCK FALSE
