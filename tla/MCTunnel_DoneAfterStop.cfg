CONSTANTS
    MaxDialErrors <- MCMaxDialErrors
    MaxDials <- MCMaxDials
    MaxStops <- MCMaxStops
SPECIFICATION FairSpec
PROPERTY DoneAfterStop
CHECK_DEADLOCK FALSE
