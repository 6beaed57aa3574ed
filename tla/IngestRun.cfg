SPECIFICATION Spec
CONSTANTS
    k1 = k1
    h1 = h1
    s1 = s1
    s2 = s2
    root = root
    NoValue = NoValue
    Broken = Broken
    MaxJobs = 2
    Keys = {k1}
    NoKey = NoKey
    Hashes = {h1}
    NoHash = NoHash
    MaxAttempts = 2
    KeepFinished = 2
    Ceiling = 2
    Procs = {p1}
    Fetchers = {f1}
    Writer = w
    Posts <- PostBoth
    Lines <- MCLines
    NoFile = NoFile
    MaxStarts = 2
    MaxManual = 0
INVARIANTS TypeOK OkHasLeaf StagedKeepsItsWork OkFetchOffered RunningIsHeld
CHECK_DEADLOCK FALSE
