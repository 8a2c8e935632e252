SPECIFICATION Spec
CONSTANTS
    Users = {u1}
    Tokens = {t1, t2, t3}
    Requests = {r1, r2, r3, r4}
    Calls <- AllKinds
    NoUser = NoUser
    NoToken = NoToken
    NoDoc = NoDoc
SYMMETRY Symmetry
INVARIANTS NoAccessWhileShut ForksOnlyByDoubleExchange OldSessionsEndUnlessOvertaken ReusedFamilyDeadUnlessOvertaken
PROPERTIES ImplementsLedger
CHECK_DEADLOCK FALSE
