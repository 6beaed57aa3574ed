SPECIFICATION Spec
CONSTANTS
    l1 = l1
    l2 = l2
    l3 = l3
    l4 = l4
    i1 = i1
    i2 = i2
    i3 = i3
    i4 = i4
    None = None
    Leaves = {l1, l2, l3}
    Ideas = {i1, i2, i3}
    Links <- MCLinks
    Ks = {1, 2, 3}
    TopK = 2
    QuotaDivisor = 2
    MaxWrites = 2
INVARIANTS TypeOK RecallFirst QuotaGivesWay LogIsTheAnswer NoGhost
