SPECIFICATION IdentitiesSpec
CONSTANTS
    Emails = {e1, e2}
    Ids = {i1}
    MaxDocs = 3
    MaxIdCalls = 3
    Nothing = Nothing
SYMMETRY Symmetry
INVARIANTS IdentitiesConsistent PasswordsWork
CHECK_DEADLOCK FALSE
