CONSTANTS
    k1 = k1  k2 = k2  c1 = c1  c2 = c2  c3 = c3  wr1 = wr1  wr2 = wr2
    wk1 = wk1  wk2 = wk2  NoTask = NoTask
    Keys = {k1, k2}
    Clients = {c1, c2, c3}
    Writers = {wr1}
    Workers = {wk1}
    WorkerOf <- OneWorker
    BlockKeys <- OneWorkerBlockKeys
    TimedClients = {c2}
    MaxPushes = 3
    MaxBatch = 2
SPECIFICATION Spec
INVARIANT TypeOK
INVARIANT NoStrandedWaiter
INVARIANT WaiterRegistered
INVARIANT SendNeverWaits
PROPERTY WaiterEventuallyServed
CHECK_DEADLOCK FALSE
