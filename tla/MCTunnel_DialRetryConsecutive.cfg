CONSTANTS
    MaxDialErrors <- MCMaxDialErrors
    MaxDials <- MCMaxDials
    MaxStops <- MCMaxStops
SPECIFICATION Spec
INVARIANT DialRetryConsecutive
CHECK_DEADLOCK FALSE
