SPECIFICATION Spec
CONSTANTS
    s1 = s1
    s2 = s2
    a = a
    b = b
    c = c
    synth = synth
    Staging <- MCStaging
    Syntheses <- OneSynthesis
    Ideas = {i1, i2, i3, i4}
    NoIdea = NoIdea
    NoSource = NoSource
    MaxLeaves = 2
    MaxAborts = 2
SYMMETRY Symmetry
INVARIANTS IndexHoldsNoGhost CursorMeansDone SourceIsCited LinkSeesTheStore
