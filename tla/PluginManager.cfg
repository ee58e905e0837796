CONSTANTS
    Op = {o1, o2}
    OwnManifest <- MCOwnManifest
    Windows = TRUE
    Free = Free
    MaxChanges = 1
SYMMETRY Symmetry
SPECIFICATION Spec
INVARIANTS
    UpdatesPullTrusted
    CompletedInstallsCanUpdate
    ReportsAgree
    CatalogIsSafe
CHECK_DEADLOCK FALSE
