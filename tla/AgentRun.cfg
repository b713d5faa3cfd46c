SPECIFICATION Spec
CONSTANTS
    Agents = {"meta", "deploy", "domain"}
    Tools = {"genesis_call", "github_tool", "file_write", "search", "conduit"}
    HumanOnly = {}
    Specialists = {"domain"}
    NoAgent = NoAgent
    Risk <- MCRisk
    Prohibited <- MCProhibited
    Allowed <- MCAllowed
    Advertised <- MCAdvertised
    Targets <- MCTargets
    MaxDepth = 3
    MaxTurns = 2
    MaxCalls = 2
    MaxTokens = 1
    MaxFiles = 1
    MaxRuns = 2
    MaxAsked = 2
    MaxUsage = 1
    MaxFaults = 1
INVARIANTS TypeOK EffectsAnnounced OkHasEvidence DeploymentAuthorized SessionTellsOutcome
CHECK_DEADLOCK FALSE
