----------------------------- MODULE RoleSwitch -----------------------------
(***************************************************************************)
(* Server role transitions and the cross-worker broadcast of sabledb      *)
(* (ServerState in server.rs).                                             *)
(*                                                                         *)
(* The role lives in three places: the AtomicBool `role_primary` that the  *)
(* dispatcher reads to refuse writes on a replica, the replication config  *)
(* file read at startup (set_server_options), and the replicator thread,   *)
(* which streams from a primary or not.  REPLICAOF host port runs          *)
(* connect_to_primary: write the file, send ConnectToPrimary to the        *)
(* replicator, then set_replica.  REPLICAOF NO ONE runs                    *)
(* switch_role_to_primary: write the file, send PrimaryMode, then          *)
(* set_primary.  Each of the three is its own step; tasks on one worker    *)
(* thread run between await points without interruption, tasks on         *)
(* different workers and the replicator thread interleave freely.          *)
(*                                                                         *)
(* The replicator thread and the dispatcher's READONLY check are not in    *)
(* this source tree and are modelled from the spec (sections 4.2, 4.5):    *)
(* the replicator handles its messages in order, and a write command is    *)
(* accepted only while role_primary is set.  The server is built with a    *)
(* replicator (Server::new), so replicator_context is always present.      *)
(*                                                                         *)
(* broadcast_msg walks worker_tx_channels, the bounded inbox of every      *)
(* worker (its own included), and awaits each send; a send to a full inbox *)
(* suspends the task until that worker's receive loop takes a message.    *)
(* CLIENT KILL for a client of another worker is its caller, and each     *)
(* worker's receive loop is a task of its own that handles one message    *)
(* between awaits; both come from the spec (section 5).                   *)
(***************************************************************************)
EXTENDS Naturals, Sequences

CONSTANTS
    Admins,     \* connections issuing one REPLICAOF each
    Clients,    \* connections issuing write commands
    Workers,    \* worker threads
    WorkerOf,   \* the worker thread that owns each connection
    MaxWrites,  \* bound on the number of accepted writes
    Killers,    \* connections issuing one CLIENT KILL of a remote client
    InboxCap,   \* capacity of each worker's message channel
    NoWorker,   \* no send in progress
    NoTask      \* marks an idle worker

Tasks == Admins \cup Clients \cup Killers

ASSUME
    /\ Admins \cap Clients = {} /\ Killers \cap (Admins \cup Clients) = {}
    /\ InboxCap \in Nat \ {0}
    /\ NoWorker \notin Workers
    /\ WorkerOf \in [Tasks -> Workers]
    /\ MaxWrites \in Nat
    /\ NoTask \notin Tasks

Primary == "primary"
Replica == "replica"
Roles == {Primary, Replica}

\* ReplicationWorkerMessage
ConnectToPrimary == "ConnectToPrimary"
PrimaryMode == "PrimaryMode"

VARIABLES
    rolePrimary,  \* ServerState::role_primary
    fileRole,     \* role in the persisted replication config
    replMode,     \* Primary: replicator idle; Replica: streaming from a primary
    inbox,        \* messages sent to the replicator, not yet handled
    apc,          \* admin connection state
    accepted,     \* write commands accepted so far
    running,      \* running[w]: the task worker w executes, or NoTask
    wtx,          \* wtx[w]: messages queued in worker w's channel
    kpc,          \* CLIENT KILL connection state
    pending,      \* pending[k]: workers broadcast_msg has still to send to
    cur           \* cur[k]: the worker whose send k awaits, or NoWorker

roleVars == <<rolePrimary, fileRole, replMode, inbox, apc, accepted>>
bcastVars == <<wtx, kpc, pending, cur>>
vars == <<rolePrimary, fileRole, replMode, inbox, apc, accepted, running,
          wtx, kpc, pending, cur>>

AdminStates == {"idle", "sendConnect", "setReplica", "sendPrimary",
                "setPrimary", "done"}

CanRun(t) == running[WorkerOf[t]] \in {NoTask, t}

Run(t, yields) ==
    running' = [running EXCEPT ![WorkerOf[t]] = IF yields THEN NoTask ELSE t]

Step(a, from, to, yields) ==
    /\ apc[a] = from
    /\ CanRun(a)
    /\ apc' = [apc EXCEPT ![a] = to]
    /\ Run(a, yields)
    /\ UNCHANGED bcastVars

-----------------------------------------------------------------------------
(* ServerState::set_replica / set_primary: relaxed stores to role_primary. *)
SetReplica == rolePrimary' = FALSE
SetPrimary == rolePrimary' = TRUE

(* connect_to_primary (REPLICAOF host port).                               *)

ConnectWriteFile(a) ==
    /\ Step(a, "idle", "sendConnect", FALSE)
    /\ fileRole' = Replica
    /\ UNCHANGED <<rolePrimary, replMode, inbox, accepted>>

ConnectSend(a) ==
    /\ Step(a, "sendConnect", "setReplica", FALSE)
    /\ inbox' = Append(inbox, ConnectToPrimary)
    /\ UNCHANGED <<rolePrimary, fileRole, replMode, accepted>>

ConnectSetReplica(a) ==
    /\ Step(a, "setReplica", "done", TRUE)
    /\ SetReplica
    /\ UNCHANGED <<fileRole, replMode, inbox, accepted>>

(* switch_role_to_primary (REPLICAOF NO ONE).                              *)

PrimaryWriteFile(a) ==
    /\ Step(a, "idle", "sendPrimary", FALSE)
    /\ fileRole' = Primary
    /\ UNCHANGED <<rolePrimary, replMode, inbox, accepted>>

PrimarySend(a) ==
    /\ Step(a, "sendPrimary", "setPrimary", FALSE)
    /\ inbox' = Append(inbox, PrimaryMode)
    /\ UNCHANGED <<rolePrimary, fileRole, replMode, accepted>>

\* Seeded fault: the primary switch ends with set_replica (copy-paste slip).
PrimarySetRoleSwapped(a) ==
    /\ Step(a, "setPrimary", "done", TRUE)
    /\ SetReplica
    /\ UNCHANGED <<fileRole, replMode, inbox, accepted>>

PrimarySetPrimary(a) ==
    /\ Step(a, "setPrimary", "done", TRUE)
    /\ SetPrimary
    /\ UNCHANGED <<fileRole, replMode, inbox, accepted>>

-----------------------------------------------------------------------------
(* The replicator thread handles the next message (spec 4.5): PrimaryMode  *)
(* stops the replica loop, ConnectToPrimary (re)connects and streams.      *)
ReplicatorHandle ==
    /\ inbox # <<>>
    /\ replMode' = IF Head(inbox) = PrimaryMode THEN Primary ELSE Replica
    /\ inbox' = Tail(inbox)
    /\ UNCHANGED <<rolePrimary, fileRole, apc, accepted, running>>
    /\ UNCHANGED bcastVars

(* A write command: the dispatcher replies READONLY unless role_primary    *)
(* is set (spec 4.2 step 4); an accepted write is applied locally.         *)
WriteCommand(c) ==
    /\ CanRun(c)
    /\ rolePrimary
    /\ accepted < MaxWrites
    /\ accepted' = accepted + 1
    /\ Run(c, TRUE)
    /\ UNCHANGED <<rolePrimary, fileRole, replMode, inbox, apc>>
    /\ UNCHANGED bcastVars

-----------------------------------------------------------------------------
(* terminate_client (CLIENT KILL): Client::terminate_client tries the      *)
(* worker's own client table; on a hit it returns Ok, on a miss it calls   *)
(* broadcast_msg(KillClient).  Which clients are local is not modelled.    *)
KillStart(k) ==
    /\ kpc[k] = "idle"
    /\ CanRun(k)
    /\ \/ /\ kpc' = [kpc EXCEPT ![k] = "done"]
          /\ Run(k, TRUE)
          /\ UNCHANGED pending
       \/ /\ kpc' = [kpc EXCEPT ![k] = "bcast"]
          /\ pending' = [pending EXCEPT ![k] = Workers]
          /\ Run(k, FALSE)
    /\ UNCHANGED <<wtx, cur>>

(* broadcast_msg: `for item in &self.worker_tx_channels` takes the next    *)
(* worker (DashMap order, unspecified) and its send is polled: with room   *)
(* the message is queued and the loop goes on, on a full channel the task *)
(* suspends until a slot frees.  After the last worker it returns Ok.     *)
BroadcastNext(k) ==
    /\ kpc[k] = "bcast" /\ cur[k] = NoWorker /\ pending[k] # {}
    /\ CanRun(k)
    /\ \E w \in pending[k] : cur' = [cur EXCEPT ![k] = w]
    /\ Run(k, FALSE)
    /\ UNCHANGED <<wtx, kpc, pending>>

\* Seeded fault: the send blocks the worker thread (blocking_send) instead
\* of suspending the task while the channel is full.
BroadcastSendBlocking(k) ==
    LET w == cur[k] IN
    /\ kpc[k] = "bcast" /\ w # NoWorker
    /\ CanRun(k)
    /\ IF wtx[w] < InboxCap
       THEN /\ wtx' = [wtx EXCEPT ![w] = @ + 1]
            /\ pending' = [pending EXCEPT ![k] = @ \ {w}]
            /\ cur' = [cur EXCEPT ![k] = NoWorker]
       ELSE UNCHANGED <<wtx, pending, cur>>
    /\ Run(k, FALSE)
    /\ UNCHANGED kpc

BroadcastSend(k) ==
    LET w == cur[k] IN
    /\ kpc[k] = "bcast" /\ w # NoWorker
    /\ CanRun(k)
    /\ IF wtx[w] < InboxCap
       THEN /\ wtx' = [wtx EXCEPT ![w] = @ + 1]
            /\ pending' = [pending EXCEPT ![k] = @ \ {w}]
            /\ cur' = [cur EXCEPT ![k] = NoWorker]
            /\ Run(k, FALSE)
       ELSE /\ UNCHANGED <<wtx, pending, cur>>
            /\ Run(k, TRUE)
    /\ UNCHANGED kpc

BroadcastDone(k) ==
    /\ kpc[k] = "bcast" /\ cur[k] = NoWorker /\ pending[k] = {}
    /\ CanRun(k)
    /\ kpc' = [kpc EXCEPT ![k] = "done"]
    /\ Run(k, TRUE)
    /\ UNCHANGED <<wtx, pending, cur>>

(* A worker's receive loop takes one message and tries its own client      *)
(* table (spec 5), then awaits the next one; it runs when the worker is    *)
(* between two tasks.                                                      *)
WorkerReceive(w) ==
    /\ wtx[w] > 0
    /\ running[w] = NoTask
    /\ wtx' = [wtx EXCEPT ![w] = @ - 1]
    /\ UNCHANGED <<kpc, pending, cur, running>>

KillStep(k) ==
    \/ BroadcastNext(k) \/ BroadcastSend(k) \/ BroadcastDone(k)

-----------------------------------------------------------------------------
(* A fresh server: ServerState::new sets role_primary, and                 *)
(* set_server_options copies the role of the default config (primary).     *)
Init ==
    /\ rolePrimary = TRUE
    /\ fileRole = Primary
    /\ replMode = Primary
    /\ inbox = <<>>
    /\ apc = [a \in Admins |-> "idle"]
    /\ accepted = 0
    /\ running = [w \in Workers |-> NoTask]
    /\ wtx = [w \in Workers |-> 0]
    /\ kpc = [k \in Killers |-> "idle"]
    /\ pending = [k \in Killers |-> {}]
    /\ cur = [k \in Killers |-> NoWorker]

AdminStep(a) ==
    \/ ConnectSend(a) \/ ConnectSetReplica(a)
    \/ PrimarySend(a) \/ PrimarySetPrimary(a)

Next ==
    \/ \E a \in Admins : ConnectWriteFile(a) \/ PrimaryWriteFile(a) \/ AdminStep(a)
    \/ ReplicatorHandle
    \/ \E c \in Clients : WriteCommand(c)
    \/ \E k \in Killers : (KillStart(k) \/ KillStep(k)) /\ UNCHANGED roleVars
    \/ \E w \in Workers : WorkerReceive(w) /\ UNCHANGED roleVars

(* A started REPLICAOF runs to its end and the replicator thread drains    *)
(* its channel; issuing commands is up to the clients.                     *)
Fairness ==
    /\ \A a \in Admins : WF_vars(AdminStep(a))
    /\ WF_vars(ReplicatorHandle)
    /\ \A k \in Killers : WF_vars(KillStep(k) /\ UNCHANGED roleVars)
    /\ \A w \in Workers : WF_vars(WorkerReceive(w) /\ UNCHANGED roleVars)

Spec == Init /\ [][Next]_vars /\ Fairness

-----------------------------------------------------------------------------
(* Properties.                                                             *)

TypeOK ==
    /\ rolePrimary \in BOOLEAN
    /\ fileRole \in Roles
    /\ replMode \in Roles
    /\ inbox \in Seq({ConnectToPrimary, PrimaryMode})
    /\ apc \in [Admins -> AdminStates]
    /\ accepted \in 0 .. MaxWrites
    /\ wtx \in [Workers -> 0 .. InboxCap]
    /\ kpc \in [Killers -> {"idle", "bcast", "done"}]
    /\ pending \in [Killers -> SUBSET Workers]
    /\ cur \in [Killers -> Workers \cup {NoWorker}]

FlagRole == IF rolePrimary THEN Primary ELSE Replica

(* Once every REPLICAOF has returned and the replicator has handled its    *)
(* messages, role_primary, the persisted config and the replicator agree   *)
(* on the role (connect_to_primary against switch_role_to_primary).        *)
RoleAgreement ==
    (\A a \in Admins : apc[a] \in {"idle", "done"}) /\ inbox = <<>>
        => FlagRole = fileRole /\ fileRole = replMode

(* REPLICAOF NO ONE: a write command is accepted only once the replicator *)
(* has stopped streaming from the old primary (spec 4.5: on PrimaryMode    *)
(* the replica loop stops and the node switches to primary).              *)
(* switch_role_to_primary sets role_primary right after queueing           *)
(* PrimaryMode, before the replicator thread has handled it.               *)
WriteOnlyAfterStreamStops ==
    [][accepted' > accepted => replMode = Primary]_vars

(* Every CLIENT KILL that starts a broadcast returns: broadcast_msg awaits  *)
(* each worker's bounded channel, its own worker's included, while every  *)
(* other task of every worker, the receive loops among them, may be busy  *)
(* with broadcasts of their own; a suspended send lets its worker's       *)
(* receive loop drain the channel it waits on.                            *)
BroadcastCompletes ==
    \A k \in Killers : kpc[k] = "bcast" ~> kpc[k] = "done"

=============================================================================
