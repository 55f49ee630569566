SPECIFICATION Spec
CONSTANTS
    Tasks = {t1}
    BaseTasks = {}
    Pids = {p1, p2, p3, p4}
    Clients = {c1}
    CpuUseLimit = 1
    Batches = 1
    MaxEpoch = 2
    WorkerMayDie = FALSE
    ListenerMayOutlive = TRUE
    NoPid = NoPid
    NoTask = NoTask
SYMMETRY Symmetry
INVARIANTS
    
    LaunchOnce
PROPERTIES
    DeleteIsFinal
