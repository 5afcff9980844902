CONSTANTS
    c1 = c1
    c2 = c2
    Calls <- MCCalls
    Retries <- MCRetries
SPECIFICATION Spec
INVARIANT TypeOK
INVARIANT ReplyContract
CHECK_DEADLOCK FALSE
