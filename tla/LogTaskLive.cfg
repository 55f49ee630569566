SPECIFICATION LiveSpec
CONSTANTS
    Tasks = {t1, t2}
    BaseTasks = {}
    Pids = {p1, p2}
    Clients = {c1}
    CpuUseLimit = 1
    Batches = 1
    MaxEpoch = 1
    WorkerMayDie = TRUE
    ListenerMayOutlive = FALSE
    NoPid = NoPid
    NoTask = NoTask
PROPERTIES
    PendingRemoveIsSwept
    OnlyLostSlotsStarve
