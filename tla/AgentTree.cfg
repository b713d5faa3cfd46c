SPECIFICATION FairSpec
CONSTANTS
    Agents = {"meta", "research", "deploy", "domain"}
    Tools = {"genesis_call"}
    HumanOnly = {}
    Specialists = {}
    NoAgent = NoAgent
    Risk <- MCRisk
    Prohibited <- MCProhibited
    Allowed <- MCOrchestrators
    Advertised <- MCDelegating
    Targets <- MCCyclic
    MaxDepth = 2
    MaxTurns = 1
    MaxCalls = 1
    MaxTokens = 0
    MaxFiles = 1
    MaxRuns = 4
    MaxAsked = 2
    MaxUsage = 0
    MaxFaults = 0
INVARIANTS  ChainSound
PROPERTIES RunEnds
CHECK_DEADLOCK FALSE
