SPECIFICATION Spec
CONSTANTS
    s1 = s1
    s2 = s2
    s3 = s3
    i1 = i1
    i2 = i2
    l1 = l1
    l2 = l2
    l3 = l3
    None = None
    Old = Old
    Stranger = Stranger
    Exports = {tool, server}
    Entries <- MCEntries
    Sources = {s1, s2, s3}
    Ideas = {i1, i2}
    Leaves = {l1, l2, l3}
    Lake <- MCLake
    Page = 1
    MaxWrites = 2
    MaxRuns = 1
    MaxDeaths = 1
SYMMETRY Symmetry
INVARIANTS OneSwap VaultIsWhole SwapsInTheLake
PROPERTY ForeignStays
