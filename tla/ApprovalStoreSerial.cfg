\* Store operations that never overlap: the file is an approval ledger.
CONSTANTS
    Client = {c1, c2}
    ApprovalId = {a1, a2, a3}
    Capability = {danger, harmless}
    Scope = {s1}
    NoScope = NoScope
    Left = {a1}
    MaxInFlight = 1
SPECIFICATION StoreSpec
INVARIANTS
    HistoryComplete
PROPERTIES
    ImplementsLedger
CHECK_DEADLOCK FALSE
