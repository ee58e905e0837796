\* Every call ends, on every transport and whatever its command does, and an adapter
\* that returns tells what happened.
CONSTANTS
    Call = {c1, c2}
    Followed = c1
    PipeSize = 1
    Decider = {d1}
    ApprovalId = {a1, a2}
    Left = {}
    MaxInFlight = 3
    MaxEdits = 0
    Confirmations = {FALSE, TRUE}
    Manifest <- MCManifest
    OutputSets <- MCOutputSets
    Capability = {deploy}
    Argv = {x}
    NoScope = NoScope
    NoManifest = NoManifest
    NoApproval = NoApproval
    Client <- MCClient
    Scope <- MCScope
SPECIFICATION MCAdaptedSpec
INVARIANTS
    ResultsAreTrue
PROPERTIES
    CallsEnd
CHECK_DEADLOCK FALSE
