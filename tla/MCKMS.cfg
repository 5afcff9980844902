CONSTANTS
    r1 = r1
    r2 = r2
    r3 = r3
    k1 = k1
    k2 = k2
    k3 = k3
    NoKey = NoKey
    Runs <- MCRuns
    Keys <- MCKeys
SPECIFICATION Spec
INVARIANT NoOrphanOnSuccess
INVARIANT ProviderKeyAgreed
CHECK_DEADLOCK FALSE
