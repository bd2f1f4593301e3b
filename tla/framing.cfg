SPECIFICATION FairSpec
CONSTANTS
    a = a  b = b  newline = newline
    None = None  Unavailable = Unavailable
    NL = newline
    Letter = {a, b}
    Message <- MCMessage
    BUFFER_SIZE = 2
    Capacity = 3
    Faults = {"timeout", "crash"}
CHECK_DEADLOCK FALSE
INVARIANT TypeOK
PROPERTIES KeepsCallPromise BothEndsFinish
