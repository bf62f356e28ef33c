SPECIFICATION FairSpec
CONSTANTS
    Loops = {l1}
    Users = {u1, u2}
    Tasks = {x1, x2}
    Channels = {c1, c2}
    Wakeup = Wakeup
    None = None
INVARIANTS
    TypeOK
    NoLostWakeup
    QuitWakesPoll
    DispatchIsSafe
PROPERTIES
    TaskQueueSpec
    PendingTasksRun
    QuitStopsLoop
