SPECIFICATION FairSpec
CONSTANTS
    l1 = l1
    l2 = l2
    l3 = l3
    None = None
    Leaves = {l1, l2, l3}
    Refused = {}
    LastSource = 2
    SourceOf <- MCSourceOf
    Ideas = {i1, i2}
    Texts = {a, b}
    MaxLeaves = 2
    RederiveEvery = 2
    TrustPerPass = 1
    Backfills = TRUE
    MaxEdits = 1
    MaxAborts = 1
INVARIANTS CleanMeansJudged CounterNotAhead DriftNeedsRace WeightIsEarned
PROPERTY EveryIdeaIsJudged
