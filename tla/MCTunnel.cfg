CONSTANTS
    MaxDialErrors <- MCMaxDialErrors
    MaxDials <- MCMaxDials
    MaxStops <- MCMaxStops
SPECIFICATION FairSpec
INVARIANT TypeOK
INVARIANT ReaperWaitsForAllIdle
PROPERTY HandleExitsAfterStop
CHECK_DEADLOCK FALSE
