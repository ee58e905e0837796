\* An operator does what each blocked run asks for, until the workflow is done.
SPECIFICATION DiligentSpec
CONSTANTS
    Session = {s1}
    TaskId = {1, 2, 3, 4}
    Flow <- RerunFlow
    Value = {v}
    NoApproval = NoApproval
    Modes <- AllModes
    Outcomes = {"completed"}
    MaxRuns = 17
    MaxTasks = 4
INVARIANT RerunsDouble
PROPERTY RerunsComplete
CHECK_DEADLOCK FALSE
