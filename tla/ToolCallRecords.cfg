\* Two calls while a manifest is edited: every policy outcome, every way to finish or
\* to be cut short, every record; and two that may present the same request of an
\* earlier session, or each other's.
CONSTANTS
    Call = {c1, c2}
    Decider = {d1}
    ApprovalId = {a1, a2, a3}
    Left = {a1}
    MaxInFlight = 3
    MaxEdits = 1
    Confirmations = {FALSE, TRUE}
    Manifest <- MCManifest
    OutputSets <- MCOutputSets
    Capability = {deploy}
    Argv = {x}
    NoScope = NoScope
    NoManifest = NoManifest
    NoApproval = NoApproval
    Client <- MCClient
    Scope <- MCScope
SPECIFICATION MixedSpec
SYMMETRY Symmetry
INVARIANTS
    RunsAreApproved
    EffectsAreAudited
    EventsFollowRecords
    RefusalsAskAnew
    UsesAreAccounted
CHECK_DEADLOCK FALSE
