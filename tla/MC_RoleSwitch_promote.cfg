CONSTANTS
    a1 = a1  a2 = a2  cl1 = cl1  kl1 = kl1  kl2 = kl2  wk1 = wk1  wk2 = wk2  NoTask = NoTask  NoWorker = NoWorker
    Admins = {a1, a2}
    Clients = {cl1}
    Workers = {wk1, wk2}
    WorkerOf <- OneWorker
    MaxWrites = 2
    Killers = {}
    InboxCap = 1
SPECIFICATION Spec
PROPERTY WriteOnlyAfterStreamStops
CHECK_DEADLOCK FALSE
