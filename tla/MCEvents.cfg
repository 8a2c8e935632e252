SPECIFICATION Spec
CONSTANTS
    Challenges = {h1, h2}
    Calls = {c1, c2}
    Kinds <- EveryKind
    Capacities = {1}
    MaxTime = 1
    MaxCalls = 3
    None = None
SYMMETRY Symmetry
INVARIANTS EventConsistent
PROPERTIES EventEditsHold
CHECK_DEADLOCK FALSE
