SPECIFICATION FairSpec
CONSTANTS
    k1 = k1
    h1 = h1
    s1 = s1
    s2 = s2
    root = root
    NoValue = NoValue
    Broken = Broken
    MaxJobs = 1
    Keys = {k1}
    NoKey = NoKey
    Hashes = {h1}
    NoHash = NoHash
    MaxAttempts = 2
    KeepFinished = 2
    Ceiling = 2
    Procs = {p1, p2}
    Fetchers = {f1}
    Writer = w
    Posts <- PostOneFetch
    Lines <- MCLines
    NoFile = NoFile
    MaxStarts = 3
    MaxManual = 1
INVARIANTS PhaseTwoExclusive
PROPERTY EveryJobSettles
CHECK_DEADLOCK FALSE
