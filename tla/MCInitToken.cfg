CONSTANTS
    MaxOps <- MCMaxOps
    MaxEnv <- MCMaxEnv
SPECIFICATION Spec
PROPERTY EnsureEstablishes
PROPERTY DryRunSound
CHECK_DEADLOCK FALSE
