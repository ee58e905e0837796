CONSTANTS
    Capability = {"cat", "tool"}
    Task <- MCTask
    Uses <- MCUses
    Manifest <- MCManifest
    Mix <- MCMix
    Server = {"mcp1", "acp1"}
    Protocol <- MCProtocol
    Reader = {"cat"}
    Request = {1, 2, 3}
    NoEnv = NoEnv
    Job = {1, 2, 3}
    Nothing = Nothing
    Torn = Torn
    Mappings <- MCMappings
    Raised = Raised
SPECIFICATION Spec
INVARIANTS
    RepliesMatch
    VerdictsAreTrue
    SecretsAreKept
    RunsAsCompiled
    SchemaFailuresAreStale
    AcceptanceIsEarned
CHECK_DEADLOCK FALSE
