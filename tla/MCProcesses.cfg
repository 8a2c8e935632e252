SPECIFICATION ProcessesSpec
CONSTANTS
    Calls = {a, b, c}
    MaxExpiries = 2
    Personal = {p1}
    Broadcasts = {b1}
    MaxNotices = 1
    None = None
    Clients = {c1, c2}
    Signals = {s1, s2}
    MaxRetries = 2
INVARIANTS OneRefreshServesAll InboxConsistent ServerConsistent
PROPERTIES SettledUnlessRefused ServerEndsSomehow
CHECK_DEADLOCK FALSE
