CONSTANTS
    a1 = a1  a2 = a2  cl1 = cl1  kl1 = kl1  kl2 = kl2  wk1 = wk1  wk2 = wk2  NoTask = NoTask  NoWorker = NoWorker
    Admins = {a1, a2}
    Clients = {cl1}
    Workers = {wk1, wk2}
    WorkerOf <- OneAdminWorker
    MaxWrites = 2
    Killers = {kl1, kl2}
    InboxCap = 1
SPECIFICATION Spec
INVARIANT RoleAgreement
PROPERTY BroadcastCompletes
CHECK_DEADLOCK FALSE
