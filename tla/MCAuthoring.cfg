SPECIFICATION AuthoringSpec
CONSTANTS
    MaxDecay <- MCMaxDecay
    Decay <- MCDecay
    k1 = k1
    n1 = n1
    n2 = n2
    n3 = n3
    n4 = n4
    Slots = {c1, c2}
    None = None
    Idle = Idle
    Chapters = {k1, k2, k3}
    Nodes = {n1, n2, n3, n4}
    Created <- MCCreated
    Solves = {0, 9}
    Points = {333, 470}
    Flags = {f1}
    Orders = {1, 2}
    RecentCap = 10
    MaxEdits = 5
    MaxNodeEdits = 4
    Drafts <- MCDrafts
    NewNodes <- MCNewNodes
    Changes <- MCChanges
SYMMETRY Symmetry
INVARIANTS ChallengeConsistent ChaptersConsistent
PROPERTIES ChallengeEditsHold NodeEditsHold
CHECK_DEADLOCK FALSE
