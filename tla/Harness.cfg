CONSTANTS
    Name <- MCName
    Query <- MCQuery
    NoQuery = NoQuery
    Capability = {"c1", "c2"}
    CapOf <- MCCapOf
    Module = {"smokes", "imports", "absent"}
    Importable = {"smokes", "imports"}
    Runnable = {"smokes"}
    Target <- MCTarget
    MainModule <- MCMain
    Market <- MCMarket
    Answers <- MCAnswers
    Shipped <- MCShipped
    ShippedFixtures <- MCShippedFixtures
    NoRecord = NoRecord
    NoManifest = NoManifest
    NoModule = "none"
    NoWork = NoWork
    MaxChanges = 2
SPECIFICATION Spec
INVARIANTS
    VerifiedIsCovered
    QueueIsInstallable
    BlockedIsExplained
    VerifiedRuns
    PlansAreActionable
CHECK_DEADLOCK FALSE
