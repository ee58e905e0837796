\* A clone cut short is taken for the repository by the next install.
CONSTANTS
    Op = {o1, o2}
    NoOp = NoOp
    Plan <- MCPlanInstall
SPECIFICATION Spec
INVARIANTS
    SkippedCloneIsWhole
CHECK_DEADLOCK FALSE
