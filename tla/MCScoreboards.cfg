SPECIFICATION BoardsSpec
CONSTANTS
    Challenges = {h1}
    Calls = {c1, c2}
    Kinds <- BoardKinds
    Capacities = {0}
    MaxTime = 1
    MaxCalls = 2
    Solves = {s1}
    ChallengeOf <- EverySolveOfIt
    Boards = {b1, b2}
    Jobs = {j1, j2}
    MaxJobs = 2
    None = None
SYMMETRY Symmetry
INVARIANTS BoardsConsistent FreshUnlessOvertaken
CHECK_DEADLOCK FALSE
