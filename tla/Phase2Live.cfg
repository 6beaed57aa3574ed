SPECIFICATION FairSpec
CONSTANTS
    s1 = s1
    s2 = s2
    a = a
    b = b
    c = c
    synth = synth
    Staging <- ShortStaging
    Syntheses <- OneSynthesis
    Ideas = {i1, i2, i3}
    NoIdea = NoIdea
    NoSource = NoSource
    MaxLeaves = 1
    MaxAborts = 2
PROPERTIES Drained IndexHeals
