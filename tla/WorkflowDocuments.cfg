\* Every document of up to three tasks, well formed or not, run once; and a workflow
\* whose approvals are decided and written into it, run three times by two sessions.
SPECIFICATION MixedSpec
CONSTANTS
    Session = {s1, s2}
    TaskId = {1, 2, 3}
    Flow <- MixedFlow
    Value = {v, w}
    NoApproval = NoApproval
    Modes <- AllModes
    Outcomes = {"completed", "failed", "setup_required"}
    MaxRuns = 3
    MaxTasks = 3
SYMMETRY Interchangeable
INVARIANTS TypeOK EffectsAreApproved OrderIsExact NeedsCompleteFirst ReportsAddUp
CHECK_DEADLOCK FALSE
