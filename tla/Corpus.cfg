SPECIFICATION FairSpec
CONSTANTS
    t1 = t1
    t2 = t2
    Torn = Torn
    Sources = {s1, s2}
    Texts = {t1, t2}
    Parses <- MCParses
    Server = server
    Procs = {server}
    Runs = {s1}
    MaxPhase1 = 2
    MaxStops = 1
INVARIANTS CursorSkipsNothing NothingLost
PROPERTY EveryLineIsOffered
