SPECIFICATION LibrarySpec
CONSTANTS
    Keys = {"k1", "k2", "k3", "k4"}
    Values = {1, 2}
    Nodes = {n1, n2, n3, n4}
    NULL = NULL
    buckets = 2
    hash_func <- MCHashFunc
    Configs <- MCConfigs
    Roles = {"prelogin", "postlogin", "one_process", "broker"}
    TracerConfigs <- MCTracerConfigs
    TracedCalls <- MCTracedCalls
    NoCall = NoCall
    Patterns <- MCPatterns
    Names <- MCNames
    Trees <- MCTrees
    VSFTP_MATCHITERS_MAX = 3
    Sessions = {local, guest}
    Guests = {guest}
    FileConfigs <- MCFileConfigs
    MaxSuffix = 1
    MaxInodes = 2
    MaxBlocks = 2
    MaxCommands = 3
INVARIANTS HashIsMap FilterDecides SandboxServes TracerGuards FilterAdmits TransfersIsolated GuestsHarmless CompletedKept
CHECK_DEADLOCK FALSE
