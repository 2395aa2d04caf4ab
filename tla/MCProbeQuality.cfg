SPECIFICATION QualitySpec
CONSTANTS
    kcp = kcp
    noPath = noPath
    never = never
    Kinds = {kcp}
    NoPath = noPath
    Never = never
    TIMEOUT = 2
    WINDOW = 5
    ClockMod = 17
    Start = 12
    Horizon = 8
    MaxFaults = 3
INVARIANTS ReportsTrue SilenceNoticed RecoveryPrompt
PROPERTY OutageEarned
CHECK_DEADLOCK FALSE
