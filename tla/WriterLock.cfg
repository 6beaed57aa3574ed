SPECIFICATION LockSpec
CONSTANTS
    Processes = {p1, p2, p3}
    NoProc = NoProc
    MaxDepth = 3
INVARIANT PidNamesWriter
PROPERTIES ImplementsMutex InnerReleaseKeepsLock
CHECK_DEADLOCK FALSE
