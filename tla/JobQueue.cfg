SPECIFICATION Spec
CONSTANTS
    MaxJobs = 3
    Keys = {k1, k2}
    NoKey = NoKey
    Hashes = {h1}
    NoHash = NoHash
    MaxAttempts = 2
    KeepFinished = 1
    Ceiling = 2
    Fetchers = {f1, f2}
    Writer = w
INVARIANTS HandedOutOnce OneLiveJobPerKey GaveUpForCause
 
CHECK_DEADLOCK FALSE
