SPECIFICATION Spec
CONSTANTS
    lake = lake
    tool = tool
    t1 = t1
    t2 = t2
    Procs = {lake}
    Repairers = {lake}
    Leaves = {t1, t2}
    Batches <- MCBatches
    Snapshots <- MCSnapshots
INVARIANT RepairKeepsOldIndex
