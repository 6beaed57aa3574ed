SPECIFICATION Spec
CONSTANTS
    lake = lake
    tool = tool
    t1 = t1
    t2 = t2
    Procs = {lake, tool}
    Repairers = {lake, tool}
    Leaves = {t1, t2}
    Batches <- MCBatches
    Snapshots <- MCSnapshots
SYMMETRY Symmetry
INVARIANTS CountsTell HitIsWhatWasRanked MatrixIsFresh
