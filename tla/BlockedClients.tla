--------------------------- MODULE BlockedClients ---------------------------
(***************************************************************************)
(* Blocked-client coordination of sabledb.                                 *)
(*                                                                         *)
(* ServerState keeps `blocked_clients`, a DashMap from a user key to a     *)
(* lock-free FIFO (SegQueue) of channel senders (server.rs).  A client     *)
(* whose BLPOP finds every list empty creates a channel whose capacity is  *)
(* the number of its keys and pushes one sender per key (block_client).   *)
(* A writer that pushed n elements on key k pops senders of k and sends a  *)
(* one-byte signal until n sends succeeded or the queue is empty, then     *)
(* removes the map entry when the queue is empty (wakeup_clients).         *)
(*                                                                         *)
(* Every DashMap operation (get, insert, remove, is_empty) and every queue *)
(* pop is its own step, so that tasks on different worker threads         *)
(* interleave between them.  `get` returns a guard holding the shard's     *)
(* read lock: wakeup_clients keeps it across its whole pop loop, which     *)
(* keeps insert and remove of that key (write lock) out meanwhile.         *)
(*                                                                         *)
(* Tasks on one worker are scheduled cooperatively (tokio current-thread   *)
(* runtime per worker): a task runs without interruption until it awaits   *)
(* something that is not ready.  `running[w]` is the task that worker w is *)
(* executing between two of its await points.                              *)
(*                                                                         *)
(* The list handlers (BLPOP, LPUSH) and the client's wait loop are not in  *)
(* this source tree; they are modelled from the spec (sections 4.2-4.4):   *)
(* each list read-modify-write runs under the key lock and is one step,    *)
(* the lock is released before the client registers, and a client resumed *)
(* by a signal re-runs the command.                                        *)
(***************************************************************************)
EXTENDS Naturals, Sequences, SequencesExt, FiniteSets

CONSTANTS
    Keys,          \* user keys (model values)
    Clients,       \* connections issuing one BLPOP each
    Writers,       \* connections issuing LPUSH commands
    Workers,       \* worker threads
    WorkerOf,      \* the worker thread that owns each connection
    BlockKeys,     \* BlockKeys[c]: the keys of c's BLPOP, in argument order
    TimedClients,  \* clients whose BLPOP has a finite timeout
    MaxPushes,     \* bound on the total number of elements pushed
    MaxBatch,      \* bound on the number of elements of one LPUSH
    NoTask         \* marks an idle worker

Tasks == Clients \cup Writers

ASSUME
    /\ Clients \cap Writers = {}
    /\ WorkerOf \in [Tasks -> Workers]
    /\ BlockKeys \in [Clients -> Seq(Keys) \ {<<>>}]
    /\ TimedClients \subseteq Clients
    /\ MaxPushes \in Nat /\ MaxBatch \in Nat \ {0}
    /\ NoTask \notin Tasks

(* Every re-block follows a wakeup, and every wakeup consumes a signal     *)
(* sent for a pushed element, so a client opens at most MaxPushes + 1      *)
(* channels.                                                               *)
MaxChan == MaxPushes + 1
ChanIds == Clients \X (1 .. MaxChan)

VARIABLES
    len,      \* len[k]: number of elements of list k
    table,    \* blocked_clients: a function from the keys present to their queue
    guard,    \* guard[k]: writers holding a `get` guard (shard read lock) on k
    sig,      \* sig[c]: signals buffered in c's current channel
    nchan,    \* nchan[c]: number of channels c created; <<c, nchan[c]>> is current
    pc,       \* client state
    idx,      \* idx[c]: index in BlockKeys[c] of the key c registers next
    wpc,      \* writer state
    wkey,     \* key of the writer's LPUSH
    wleft,    \* num_clients: wakeups the writer still owes
    pushed,   \* elements pushed so far (bounded by MaxPushes)
    running   \* running[w]: the task worker w executes, or NoTask

vars == <<len, table, guard, sig, nchan, pc, idx, wpc, wkey, wleft, pushed,
          running>>

ClientStates == {"idle", "blocking", "inserting", "waiting", "done"}
WriterStates == {"idle", "checkEmpty", "get", "pop", "remove"}

-----------------------------------------------------------------------------
(* Cooperative scheduling on a worker thread.                              *)

CanRun(t) == running[WorkerOf[t]] \in {NoTask, t}

\* A step of t; `yields` when t ends it at an await that is not ready.
Run(t, yields) ==
    running' = [running EXCEPT ![WorkerOf[t]] = IF yields THEN NoTask ELSE t]

-----------------------------------------------------------------------------
(* Channels.  The receiver of channel <<c, n>> is alive while it is c's    *)
(* current channel and c has not resumed or timed out: a send to any other *)
(* channel fails.                                                          *)

Ch(c) == <<c, nchan[c]>>

Open(ch) ==
    /\ ch[2] = nchan[ch[1]]
    /\ pc[ch[1]] \in {"blocking", "inserting", "waiting"}

\* Seeded fault: the channel is created one slot short.
CapacityOneShort(c) == Len(BlockKeys[c]) - 1

\* tokio::sync::mpsc::channel(keys.len())
Capacity(c) == Len(BlockKeys[c])

-----------------------------------------------------------------------------
(* The BLPOP handler under the key locks (spec 4.3): pop from the first    *)
(* non-empty key, or report the client blocked and open a new channel      *)
(* (block_client creates the channel before registering).                 *)

FirstNonEmpty(c) == SelectInSeq(BlockKeys[c], LAMBDA k : len[k] > 0)

Serve(c) ==
    /\ FirstNonEmpty(c) > 0
    /\ len' = [len EXCEPT ![BlockKeys[c][FirstNonEmpty(c)]] = @ - 1]
    /\ pc' = [pc EXCEPT ![c] = "done"]
    /\ Run(c, TRUE)
    /\ UNCHANGED <<table, sig, nchan, idx>>

NewChannel(c) ==
    /\ nchan[c] < MaxChan
    /\ nchan' = [nchan EXCEPT ![c] = @ + 1]
    /\ sig' = [sig EXCEPT ![c] = 0]

Block(c) ==
    /\ FirstNonEmpty(c) = 0
    /\ NewChannel(c)
    /\ pc' = [pc EXCEPT ![c] = "blocking"]
    /\ idx' = [idx EXCEPT ![c] = 1]
    /\ Run(c, FALSE)
    /\ UNCHANGED <<len, table>>

Start(c) ==
    /\ pc[c] = "idle"
    /\ CanRun(c)
    /\ Serve(c) \/ Block(c)
    /\ UNCHANGED <<guard, wpc, wkey, wleft, pushed>>

-----------------------------------------------------------------------------
(* block_client: push the sender on the queue of every key, in order.  If  *)
(* `get` finds the key it pushes under the read guard; otherwise it builds *)
(* a new queue and inserts it later, replacing whatever is there by then.  *)

AdvanceKey(c) ==
    IF idx[c] = Len(BlockKeys[c])
    THEN /\ pc' = [pc EXCEPT ![c] = "waiting"]
         /\ idx' = idx
         /\ Run(c, TRUE)
    ELSE /\ pc' = [pc EXCEPT ![c] = "blocking"]
         /\ idx' = [idx EXCEPT ![c] = @ + 1]
         /\ Run(c, FALSE)

RegisterKey(c) ==
    LET k == BlockKeys[c][idx[c]] IN
    /\ pc[c] = "blocking"
    /\ CanRun(c)
    /\ \/ /\ k \in DOMAIN table
          /\ table' = [table EXCEPT ![k] = Append(@, Ch(c))]
          /\ AdvanceKey(c)
       \/ /\ k \notin DOMAIN table
          /\ pc' = [pc EXCEPT ![c] = "inserting"]
          /\ Run(c, FALSE)
          /\ UNCHANGED <<table, idx>>
    /\ UNCHANGED <<len, guard, sig, nchan, wpc, wkey, wleft, pushed>>

InsertQueue(c) ==
    LET k == BlockKeys[c][idx[c]] IN
    /\ pc[c] = "inserting"
    /\ CanRun(c)
    /\ guard[k] = {}
    /\ table' = (k :> <<Ch(c)>>) @@ table
    /\ AdvanceKey(c)
    /\ UNCHANGED <<len, guard, sig, nchan, wpc, wkey, wleft, pushed>>

-----------------------------------------------------------------------------
(* The client's wait on its receiver.                                      *)

\* A signal arrived: the receiver is dropped and the command runs again.
Resume(c) ==
    /\ pc[c] = "waiting"
    /\ sig[c] > 0
    /\ CanRun(c)
    /\ Serve(c) \/ Block(c)
    /\ UNCHANGED <<guard, wpc, wkey, wleft, pushed>>

\* The timer fired with nothing received: reply nil, drop the receiver.
Timeout(c) ==
    /\ c \in TimedClients
    /\ pc[c] = "waiting"
    /\ sig[c] = 0
    /\ CanRun(c)
    /\ pc' = [pc EXCEPT ![c] = "done"]
    /\ Run(c, TRUE)
    /\ UNCHANGED <<len, table, guard, sig, nchan, idx, wpc, wkey, wleft, pushed>>

-----------------------------------------------------------------------------
(* LPUSH k e1..en (spec 4.2 step 7): the push under the key lock, then     *)
(* wakeup_clients(k, n).                                                   *)

Push(w) ==
    /\ wpc[w] = "idle"
    /\ CanRun(w)
    /\ \E k \in Keys, n \in 1 .. MaxBatch :
          /\ pushed + n <= MaxPushes
          /\ len' = [len EXCEPT ![k] = @ + n]
          /\ pushed' = pushed + n
          /\ wkey' = [wkey EXCEPT ![w] = k]
          /\ wleft' = [wleft EXCEPT ![w] = n]
    /\ wpc' = [wpc EXCEPT ![w] = "checkEmpty"]
    /\ Run(w, FALSE)
    /\ UNCHANGED <<table, guard, sig, nchan, pc, idx>>

\* if self.blocked_clients.is_empty() { return; }
WakeCheckEmpty(w) ==
    /\ wpc[w] = "checkEmpty"
    /\ CanRun(w)
    /\ \/ /\ DOMAIN table = {}
          /\ wpc' = [wpc EXCEPT ![w] = "idle"]
          /\ Run(w, TRUE)
       \/ /\ DOMAIN table # {}
          /\ wpc' = [wpc EXCEPT ![w] = "get"]
          /\ Run(w, FALSE)
    /\ UNCHANGED <<len, table, guard, sig, nchan, pc, idx, wkey, wleft, pushed>>

\* self.blocked_clients.get(key): absent ends the wakeup, present takes the guard.
WakeGet(w) ==
    LET k == wkey[w] IN
    /\ wpc[w] = "get"
    /\ CanRun(w)
    /\ \/ /\ k \notin DOMAIN table
          /\ wpc' = [wpc EXCEPT ![w] = "idle"]
          /\ Run(w, TRUE)
          /\ UNCHANGED guard
       \/ /\ k \in DOMAIN table
          /\ guard' = [guard EXCEPT ![k] = @ \cup {w}]
          /\ wpc' = [wpc EXCEPT ![w] = "pop"]
          /\ Run(w, FALSE)
    /\ UNCHANGED <<len, table, sig, nchan, pc, idx, wkey, wleft, pushed>>

\* Seeded fault: the loop ignores num_clients and its decrement is not
\* saturating.
WakePopIgnoringCount(w) ==
    LET k  == wkey[w]
        ch == Head(table[k])
    IN
    /\ wpc[w] = "pop"
    /\ CanRun(w)
    /\ table[k] # <<>>
    /\ table' = [table EXCEPT ![k] = Tail(@)]
    /\ \/ /\ Open(ch)
          /\ sig' = [sig EXCEPT ![ch[1]] = @ + 1]
          /\ wleft' = [wleft EXCEPT ![w] = @ - 1]
       \/ /\ ~Open(ch)
          /\ UNCHANGED <<sig, wleft>>
    /\ Run(w, FALSE)
    /\ UNCHANGED <<len, guard, nchan, pc, idx, wpc, wkey, pushed>>

\* Seeded fault: a failed send (receiver of a timed-out client) is counted
\* as a wakeup.
WakePopCountingFailedSends(w) ==
    LET k  == wkey[w]
        ch == Head(table[k])
    IN
    /\ wpc[w] = "pop"
    /\ CanRun(w)
    /\ wleft[w] > 0
    /\ table[k] # <<>>
    /\ table' = [table EXCEPT ![k] = Tail(@)]
    /\ sig' = IF Open(ch) THEN [sig EXCEPT ![ch[1]] = @ + 1] ELSE sig
    /\ wleft' = [wleft EXCEPT ![w] = @ - 1]
    /\ Run(w, FALSE)
    /\ UNCHANGED <<len, guard, nchan, pc, idx, wpc, wkey, pushed>>

\* One iteration of `while num_clients > 0`: pop a sender and send on it;
\* a failed send (receiver dropped) does not count.
WakePop(w) ==
    LET k  == wkey[w]
        ch == Head(table[k])
    IN
    /\ wpc[w] = "pop"
    /\ CanRun(w)
    /\ wleft[w] > 0
    /\ table[k] # <<>>
    /\ table' = [table EXCEPT ![k] = Tail(@)]
    /\ \/ /\ Open(ch)
          /\ sig' = [sig EXCEPT ![ch[1]] = @ + 1]
          /\ wleft' = [wleft EXCEPT ![w] = @ - 1]
       \/ /\ ~Open(ch)
          /\ UNCHANGED <<sig, wleft>>
    /\ Run(w, FALSE)
    /\ UNCHANGED <<len, guard, nchan, pc, idx, wpc, wkey, pushed>>

\* Seeded fault: the map entry is removed whether or not the queue is empty.
WakeEndLoopAlwaysRemove(w) ==
    LET k == wkey[w] IN
    /\ wpc[w] = "pop"
    /\ CanRun(w)
    /\ wleft[w] = 0 \/ table[k] = <<>>
    /\ guard' = [guard EXCEPT ![k] = @ \ {w}]
    /\ wpc' = [wpc EXCEPT ![w] = "remove"]
    /\ Run(w, FALSE)
    /\ UNCHANGED <<len, table, sig, nchan, pc, idx, wkey, wleft, pushed>>

\* The loop ends: remove_key = channel_queue.is_empty(), and the guard drops.
WakeEndLoop(w) ==
    LET k == wkey[w] IN
    /\ wpc[w] = "pop"
    /\ CanRun(w)
    /\ wleft[w] = 0 \/ table[k] = <<>>
    /\ guard' = [guard EXCEPT ![k] = @ \ {w}]
    /\ \/ /\ table[k] = <<>>
          /\ wpc' = [wpc EXCEPT ![w] = "remove"]
          /\ Run(w, FALSE)
       \/ /\ table[k] # <<>>
          /\ wpc' = [wpc EXCEPT ![w] = "idle"]
          /\ Run(w, TRUE)
    /\ UNCHANGED <<len, table, sig, nchan, pc, idx, wkey, wleft, pushed>>

\* self.blocked_clients.remove(key), which needs the shard's write lock.
WakeRemove(w) ==
    LET k == wkey[w] IN
    /\ wpc[w] = "remove"
    /\ CanRun(w)
    /\ guard[k] = {}
    /\ table' = Restrict(table, DOMAIN table \ {k})
    /\ wpc' = [wpc EXCEPT ![w] = "idle"]
    /\ Run(w, TRUE)
    /\ UNCHANGED <<len, guard, sig, nchan, pc, idx, wkey, wleft, pushed>>

-----------------------------------------------------------------------------
Init ==
    /\ len = [k \in Keys |-> 0]
    /\ table = [k \in {} |-> <<>>]
    /\ guard = [k \in Keys |-> {}]
    /\ sig = [c \in Clients |-> 0]
    /\ nchan = [c \in Clients |-> 0]
    /\ pc = [c \in Clients |-> "idle"]
    /\ idx = [c \in Clients |-> 1]
    /\ wpc = [w \in Writers |-> "idle"]
    /\ wkey = [w \in Writers |-> CHOOSE k \in Keys : TRUE]
    /\ wleft = [w \in Writers |-> 0]
    /\ pushed = 0
    /\ running = [x \in Workers |-> NoTask]

ClientStep(c) ==
    RegisterKey(c) \/ InsertQueue(c) \/ Resume(c)

WriterStep(w) ==
    WakeCheckEmpty(w) \/ WakeGet(w) \/ WakePop(w) \/ WakeEndLoop(w) \/ WakeRemove(w)

Next ==
    \/ \E c \in Clients : Start(c) \/ ClientStep(c) \/ Timeout(c)
    \/ \E w \in Writers : Push(w) \/ WriterStep(w)

(* The worker runtimes poll every ready task (weak fairness of the steps a *)
(* task takes once it runs).  Issuing a command and a timer firing are up  *)
(* to the client and are not fair.                                         *)
Fairness ==
    /\ \A c \in Clients : WF_vars(ClientStep(c))
    /\ \A w \in Writers : WF_vars(WriterStep(w))

Spec == Init /\ [][Next]_vars /\ Fairness

-----------------------------------------------------------------------------
(* Properties.                                                             *)

TypeOK ==
    /\ len \in [Keys -> Nat]
    /\ DOMAIN table \subseteq Keys
    /\ \A k \in DOMAIN table : table[k] \in Seq(ChanIds)
    /\ guard \in [Keys -> SUBSET Writers]
    /\ sig \in [Clients -> Nat]
    /\ nchan \in [Clients -> 0 .. MaxChan]
    /\ pc \in [Clients -> ClientStates]
    /\ wpc \in [Writers -> WriterStates]
    /\ wleft \in [Writers -> 0 .. MaxBatch]
    /\ running \in [Workers -> Tasks \cup {NoTask}]

(* No command is in progress: writers are between commands and clients     *)
(* either have not issued BLPOP, are finished, or wait with no signal.     *)
Quiescent ==
    /\ \A w \in Writers : wpc[w] = "idle"
    /\ \A c \in Clients :
          \/ pc[c] \in {"idle", "done"}
          \/ pc[c] = "waiting" /\ sig[c] = 0

(* No lost wakeup (BLPOP against LPUSH, server.rs wakeup_clients): once    *)
(* every command has finished, no client is still blocked on a key whose  *)
(* list holds an element.                                                  *)
NoStrandedWaiter ==
    Quiescent =>
        \A c \in Clients :
            pc[c] = "waiting" => \A k \in Range(BlockKeys[c]) : len[k] = 0

(* Registration survives concurrent map updates (server.rs block_client    *)
(* and wakeup_clients): a client that waits without a signal has its       *)
(* current sender in the queue of every one of its keys.                   *)
WaiterRegistered ==
    \A c \in Clients :
        pc[c] = "waiting" /\ sig[c] = 0 =>
            \A k \in Range(BlockKeys[c]) :
                k \in DOMAIN table /\ Ch(c) \in Range(table[k])

(* The signal send in wakeup_clients never has to wait for channel space:  *)
(* it is awaited while the DashMap read guard is held, so a full channel   *)
(* would park the writer with the shard locked.                            *)
SendNeverWaits ==
    \A w \in Writers :
        LET k == wkey[w] IN
        (wpc[w] = "pop" /\ wleft[w] > 0 /\ table[k] # <<>> /\ Open(Head(table[k])))
            => sig[Head(table[k])[1]] < Capacity(Head(table[k])[1])

(* A client blocked on a non-empty list is eventually served, times out,   *)
(* or sees the list emptied by someone else.                               *)
WaiterEventuallyServed ==
    \A c \in Clients, k \in Keys :
        (pc[c] = "waiting" /\ k \in Range(BlockKeys[c]) /\ len[k] > 0)
            ~> (pc[c] = "done" \/ len[k] = 0)

=============================================================================
