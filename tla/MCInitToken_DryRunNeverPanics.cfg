CONSTANTS
    MaxOps <- MCMaxOps
    MaxEnv <- MCMaxEnv
SPECIFICATION Spec
INVARIANT DryRunNeverPanics
CHECK_DEADLOCK FALSE
