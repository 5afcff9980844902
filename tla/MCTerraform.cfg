CONSTANTS
    MaxOps <- MCMaxOps
    MaxSockets <- MCMaxSockets
SPECIFICATION FairSpec
INVARIANT TypeOK
INVARIANT GatedApply
INVARIANT NoApplyAfterCancel
PROPERTY CancelledOpReturns
