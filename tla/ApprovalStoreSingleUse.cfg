\* Two overlapping operations consume one approval twice.
CONSTANTS
    Client = {c1, c2}
    ApprovalId = {a1}
    Capability = {danger}
    Scope = {s1}
    NoScope = NoScope
    Left = {a1}
    MaxInFlight = 2
SPECIFICATION StoreSpec
INVARIANTS
    SingleUse
CHECK_DEADLOCK FALSE
