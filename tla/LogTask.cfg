SPECIFICATION Spec
CONSTANTS
    Tasks = {t1, t2}
    BaseTasks = {}
    Pids = {p1, p2}
    Clients = {c1}
    CpuUseLimit = 1
    Batches = 1
    MaxEpoch = 2
    WorkerMayDie = FALSE
    ListenerMayOutlive = FALSE
    NoPid = NoPid
    NoTask = NoTask
SYMMETRY Symmetry
INVARIANTS
    InductiveInv
    StopKills
PROPERTIES
    ServicePromise
