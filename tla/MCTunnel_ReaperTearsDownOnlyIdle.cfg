CONSTANTS
    MaxDialErrors <- MCMaxDialErrors
    MaxDials <- MCMaxDials
    MaxStops <- MCMaxStops
SPECIFICATION Spec
PROPERTY ReaperTearsDownOnlyIdle
CHECK_DEADLOCK FALSE
