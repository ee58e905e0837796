\* Three clients on one request left pending: every overlap of up to two operations.
CONSTANTS
    Client = {c1, c2, c3}
    ApprovalId = {a1, a2}
    Capability = {danger}
    Scope = {s1}
    NoScope = NoScope
    Left = {a1}
    MaxInFlight = 2
SPECIFICATION StoreSpec
SYMMETRY Symmetry
INVARIANTS
    GrantBeforeUse
    HistoryRooted
    OverlapBounded
CHECK_DEADLOCK FALSE
