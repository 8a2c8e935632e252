SPECIFICATION StorySpec
CONSTANTS
    ch1 = ch1
    ch2 = ch2
    None = None
    Users = {u1, u2}
    Calls = {c1, c2}
    Nodes <- MCNodes
    Chapters <- MCChapters
    Graphs <- MCGraphs
    Order <- MCOrder
    Gated = {}
SYMMETRY Symmetry
INVARIANTS StoryConsistent WayThrough StuckForAReason
CHECK_DEADLOCK FALSE
