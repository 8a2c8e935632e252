SPECIFICATION Spec
CONSTANTS
    Players = {p1, p2, p3}
    Teams = {t1, t2}
    Calls = {c1, c2}
    Limits = {1, 2}
    Limit0 = 2
    MaxInvites = 1
    MaxCalls = 6
    None = None
SYMMETRY Symmetry
INVARIANTS UsersAndTeamsAgree OwnerIsInTeam
PROPERTIES NobodyJoinsBeyondLimit ImplementsRoster
CHECK_DEADLOCK FALSE
