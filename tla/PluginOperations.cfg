\* Three operations on one plugin, of any kind: install, update, repair.
CONSTANTS
    Op = {o1, o2, o3}
    NoOp = NoOp
    Plan <- MCPlan
SPECIFICATION FairSpec
INVARIANTS
    OneAtATime
    HolderIsAtWork
    InstallsLeaveClones
    NothingOverwritten
    FilesBelongTogether
PROPERTY
    OperationsEnd
CHECK_DEADLOCK FALSE
