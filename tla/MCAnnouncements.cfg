SPECIFICATION Spec
CONSTANTS
    Users = {u1, u2}
    Everyone = everyone
    Audiences = {"all", "teams", "specific"}
    Lengths = {FALSE, TRUE}
    PostCalls = {c1, c2}
    ReadCalls = {r1}
    MaxCalls = 4
    None = None
SYMMETRY Symmetry
INVARIANTS PostConsistent NotifiedOnce NobodyMissed
PROPERTIES NothingReturns
CHECK_DEADLOCK FALSE
