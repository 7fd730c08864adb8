# TLA+ models of sabledb

These modules model the parts of sabledb (`src/libsabledb/src`) where
correctness depends on interleavings, message order or failures: the
blocked-client registry, the server role, the replication change-stream,
the command table the dispatcher relies on, and the generic key-space
commands. A definition is translated from the source where the code is
in this source tree. Where it is not (the replicator thread, the BLPOP and
LPUSH handlers, GenericDb and Expiration, the worker loops), the definition
is modelled from spec.md, and `PROJECT.json` marks it `spec_modelled`.
`PROJECT.json` maps each definition to the lines it models
and lists the runs, the mutants, the findings and the hazards.

## The system and its parts

sabledb is a Redis-compatible server on RocksDB. A fixed set of worker
threads each runs a single-threaded cooperative (tokio) scheduler that
multiplexes client connections (spec §5). The process-wide `ServerState`
(`server.rs`) is shared by every worker and holds:

* the **blocked-client registry**: a `DashMap` from a user key to a lock-free
  `SegQueue` of channel senders. BLPOP and its kin call `block_client`, which
  creates one mpsc channel of capacity `keys.len()` and pushes a sender on
  every key's queue. A writer calls `wakeup_clients(key, n)`, which pops
  senders and signals up to `n` live waiters, then removes the entry once the
  queue is empty;
* the **role**: the `role_primary` flag that the dispatcher reads, the
  persisted replication config, and the replicator thread.
  `connect_to_primary` and `switch_role_to_primary` update all three, with
  `await` points in between;
* the **worker channels** (`worker_tx_channels`), one bounded mpsc channel
  per worker. `broadcast_msg` walks them, its own worker's included, and
  awaits each send; CLIENT KILL calls it when the client is not local.

Storage goes through `StorageRocksDb` (`storage/storage_rocksdb.rs`). Every
put, delete and `apply_batch` is one RocksDB write batch and takes one
sequence number per record. Replication reads the write-ahead log through
`storage_updates_since(cursor, memory_limit, changes_count_limit)`, which
packs whole batches into a `StorageUpdates` message until a limit is reached.
The replica applies the message and acknowledges `end_seq_number`.
`iterate(prefix, callback)` seeks to `prefix` and walks the keys, stopping at
the first key without the prefix or when the callback returns false.

The dispatcher looks each command up in `CommandsManager`
(`commands/commander.rs`). It checks the arity, derives the keys to lock from
`first_key`, `last_key` and `step`, and refuses writes on a replica.

Several parts are not in this source tree and are modelled from `spec.md`:
* the dispatcher, the list handlers and the scheduling model;
* the replicator thread;
* the replication producer and consumer loops.

The `PROJECT.json` map marks each such definition `spec_modelled`.

## Modules

| Module | Models | State | Actions |
|---|---|---|---|
| `BlockedClients` | `block_client`, `wakeup_clients` (server.rs 125-179); the BLPOP and LPUSH handlers from spec §4.3-4.4 | `table` (key → queue of channel ids), `guard` (DashMap read guards held), `sig` (signals in each client's channel), `nchan` (channel generation), `pc`/`idx` (client progress through its keys), `wpc`/`wkey`/`wleft` (writer progress, remaining `num_clients`), `len` (list lengths), `running` (the task each worker runs) | `Start` (serve or block), `RegisterKey` (get + push), `InsertQueue` (insert of a new queue), `Resume`, `Timeout`; `Push`, `WakeCheckEmpty`, `WakeGet`, `WakePop` (one loop iteration), `WakeEndLoop`, `WakeRemove` |
| `RoleSwitch` | `connect_to_primary`, `switch_role_to_primary`, `set_primary`/`set_replica`, `set_server_options`, `broadcast_msg`, `terminate_client` (server.rs 64-226); the worker receive loops from spec §5 | `rolePrimary`, `fileRole`, `replMode`, `inbox` (replicator channel), `apc` (REPLICAOF progress), `accepted`; `wtx` (messages in each worker channel), `kpc`, `pending` (workers still to send to), `cur` (the send in progress) | `ConnectWriteFile`, `ConnectSend`, `ConnectSetReplica`, `PrimaryWriteFile`, `PrimarySend`, `PrimarySetPrimary`, `ReplicatorHandle`, `WriteCommand`; `KillStart`, `BroadcastNext`, `BroadcastSend` (sends, or suspends on a full channel), `BroadcastDone`, `WorkerReceive` |
| `ReplicationStream` | `put_internal`, `delete`, `apply_batch`, `UpdateBatchIterator`, `storage_updates_since` (storage_rocksdb.rs); producer/consumer loop from spec §4.5 | `wal` (batches with start sequence and records), `cursor`, `awaiting`, `msgs`, `acks`, `rkv`, `rcursor`, `conn`, `breaks`, `timeouts` | `PrimaryWrite` (put with its three flags, delete, apply_batch), `Send`, `ReplicaApply`, `RecvAck`, `Timeout`, `Break`, `Reconnect`; `iterate` is the recursive operator `Iterate` (`Seek`, `IterateLoop`) over either store |
| `AbstractReplication` | What replication promises (spec §4.5): no code | `log` (committed batches), `applied` (length of the prefix the replica reflects), `replica` | `Commit` (append a non-empty batch), `CatchUp` (move to a later prefix) |
| `Keyspace` | `del`, `ttl`, `exists`, `expire`, `handle_command` (generic_commands.rs); GenericDb, Expiration, lazy expiry and the SET/LPUSH/HSET writers from spec §3 and §4.3 | `prim` (each key's primary record: type, absolute expiry, field count), `fields` (hash field records), `now` (clock in ticks), `loop` (DEL/EXISTS argument loop), `out` (last reply) | `Ttl`, `Expire`, `LoopStart`, `DelKey`, `ExistsKey`; `Writer` (`SetString`, `LPush`, `HSet`), `Tick`, `Evict` |
| `CommandRegistry` | `CommandsManager::default`, `CommandMetadata::new` and builders, `metadata`, `is_write_command` (commander.rs); dispatcher steps 1-4 from spec §4.2 | one request: `cmd`, `argc`, `role`, `reply`, `keys` | `Dispatch` |

Each `MC_*` module instantiates a model with model values and named
configurations. Each `.cfg` picks one configuration.

### How the models abstract the code

* **Scheduling.** A task on a worker thread runs until it reaches an
  `await` that is not ready. `running[w]` holds the task that worker `w`
  runs, and `Run(t, yields)` releases the worker at such an await. Tasks on
  different workers, and the replicator thread, interleave freely.
* **DashMap.** `get` holds a read guard on the key's shard until the guard is
  dropped (`guard[k]`), and `insert`/`remove` wait for it (`guard[k] = {}`).
  Shards are modelled per key, which is finer than the code. A race found at
  this granularity is a race in the code.
* **Channels.** Each `block_client` call opens a new channel, `<<c, n>>`. Its
  receiver is alive until the client resumes or times out. A send to a dead
  receiver fails, which is the `Err` branch at server.rs 138.
* **WAL and records.** Keys and values are model values. A record's
  serialised size is two units for a put and one for a delete. `StateAt(s)`
  replays the log up to the batch that starts at `s`.
* **Refinement.** `ReplicationStream` maps onto `AbstractReplication` with
  `log` the WAL's record sequences, `applied` the number of WAL batches that
  start at or before `rcursor`, and `replica` the store `rkv`. Each
  `ReplicaApply` is a `CatchUp` (a retransmitted suffix is a `CatchUp` to the
  same or a later prefix), each committed write is a `Commit`, and every
  other step stutters.
* **Raw keys and iterate.** In the `stream` run, raw keys are byte strings
  (`<<1>>` and `<<1, 2>>`, one a proper prefix of the other) in RocksDB's
  bytewise order (`KeyLess`). The raw iterator reads the store as of its
  creation and the loop never awaits, so one call is a pure function of one
  store. All the loop sees of the `FnMut` callback is the call on which it
  first returns false (`stopAt`).
* **Broadcast.** Each worker's receive loop is a task of its own that takes
  one message between two awaits (spec §5). A send to a full channel
  suspends the sending task, and its worker runs other tasks meanwhile.
  DashMap iteration order is unspecified, so the next worker is any one not
  yet sent to.
* **Key space.** A handler holds the user key's lock around all its work
  on that key, and no other handler touches the key meanwhile, so that work
  is one step. DEL and EXISTS take one step per argument, and other
  connections, the clock and lazy expiry act between them. The clock runs
  at two ticks per second, so a TTL can be half a second away. Values and
  list elements are not tracked; hash fields are, because DEL treats them
  differently.
* **Command table.** It is transcribed entry by entry. A request is a name
  and a token count, because the keys and values in it do not matter to
  arity or key positions.

## Runs

| Run | Expect | What it shows |
|---|---|---|
| `blocked_single` | pass | Waiters on one worker (three clients, two keys, one timed-out client, c3 naming `k2` twice, three pushed elements in batches of up to two). `NoStrandedWaiter`: when everything is quiet, no waiting client has an element on one of its keys. `WaiterRegistered`: an unsignalled waiter is in the queue of every key it waits on. `SendNeverWaits`: a send never finds the channel full. `WaiterEventuallyServed`: liveness. |
| `blocked_capacity` | pass | Waiters on two keys and on a repeated key, on two workers. The channel capacity `keys.len()` is enough: a send never awaits under the map guard. |
| `blocked_multikey` | violation | A waiter on `k1, k2` is signalled by pushes to both keys. The second signal uses up the pushing writer's budget, and a waiter on `k2` stays blocked while `k2` holds an element. |
| `blocked_workers` | violation | Two clients on two workers both insert a new queue for the same absent key, and one of them is lost. |
| `role_single` | pass | Two REPLICAOF commands and a writer on one worker: once all has settled, the flag, the config file and the replicator agree (`RoleAgreement`). Two CLIENT KILL broadcasts, one on each of two workers, over channels of capacity 1: `BroadcastCompletes`, every broadcast returns, although each worker's own channel can be full when it sends to it. |
| `role_workers` | violation | The same commands on two workers: flag=replica, file=primary, replicator=primary. |
| `role_promote` | violation | `REPLICAOF host`, then `REPLICAOF NO ONE`, on one worker. `WriteOnlyAfterStreamStops` (spec §4.5: the node switches to primary on the `PrimaryMode` message, once the replica loop has stopped) fails in 9 steps. `switch_role_to_primary` sets `role_primary` as soon as `PrimaryMode` is queued. The replicator then handles the earlier `ConnectToPrimary` and starts streaming, and a write is accepted meanwhile. |
| `stream` | pass | The primary commits up to 3 batches: puts with every flag, deletes, and `apply_batch` with a delete and a put. Limits: memory 3, changes 2. One timeout and one transport break. `ReplicationRefinement`: the stream implements `AbstractReplication` (below), so the replica is always the primary as of its cursor and that prefix never shrinks. `ReplicaConverges`: the replica catches up once writes stop. `IterateIsPrefixScan`: on the primary's and the replica's store in every reached state, for six prefixes (empty, below, at, between and above the keys) and every callback, iterate hands the callback exactly the keys with the prefix, in order, up to the one on which the callback returns false. |
| `keyspace` | pass | Two keys, one field, EXPIRE of 0 to 2 seconds with every option, DEL and EXISTS of one or two arguments, a clock of 3 ticks. `ExpireKeepsDirection`: an EXPIRE GT that replies 1 never brings the expiry forward, and LT never puts it back, although both compare with the rounded-up remaining time. |
| `keyspace_del_hash` | violation | HSET k f1, DEL k, HSET k f2: DEL removes only the hash's primary record, so the new hash counts one field but has two field records, and f1 is readable again. Keys with an expiration are not explored (`WithoutExpiry`), so the trace goes through DEL. |
| `registry` | pass | Every command (and an unknown one), with 1 to 6 tokens, on a primary or a replica. `KeysWithinArgv`: admitted requests have their key positions inside argv. |
| `registry_usage` | violation | `LINDEX key index` and `CLIENT SETNAME name` fail the arity check. |

Every property of a passing run has a mutant in `PROJECT.json`, a plausible
coding error in a mapped definition, and TLC finds the property violated
when the mutant replaces that definition.

### Bounds

* **Blocked clients.** Three clients and two keys give FIFO order within a
  queue and a second key; one timed-out client gives a dead sender in a
  queue; three pushed elements with batches of two give a wakeup count
  larger than one. Every action fires, including both branches of
  `RegisterKey`, `WakeCheckEmpty`, `WakeGet`, `WakePop` and `WakeEndLoop`.
  `MaxChan = MaxPushes + 1` bounds how often a client re-blocks, since each
  re-block needs a signal, and a signal needs a push.
* **Role switch.** Two admins and one writer, `MaxWrites = 2`. Two CLIENT
  KILL connections on two workers and channels of capacity 1: a channel is
  full when the second broadcast reaches it, including the sender's own.
* **Replication stream.** Three batches, two keys and two values. This
  reaches:
  * multi-batch messages under both limits;
  * a batch whose delete and put touch the same key;
  * a retransmit after a timeout, while the replica has already applied the
    newer data;
  * a break that loses a message and an ack.
* **Key space.** Two keys let DEL and EXISTS take two different arguments
  or the same one twice; 2 ticks per second and EXPIRE up to 2 seconds give
  a remaining time of half a second, an expiry exactly at the clock, and
  GT/LT on both sides of the current TTL. The violation run uses two fields
  and one key, the least that shows a leftover field.
* **Registry.** Six tokens covers every arity in the table (the largest is
  BLMOVE's 6).

### Fairness

* **Blocked clients.** Weak fairness on every client and writer step that
  follows a started command. A tokio worker keeps polling ready tasks, and a
  task that has started a command runs it to its end. The environment's
  choices (whether to push, whether a timeout fires) are not fair.
* **Role switch.** A started REPLICAOF finishes, and the replicator drains
  its channel. A started broadcast is polled again once its channel has
  room, and a worker's receive loop runs whenever its channel holds a
  message and the worker is between tasks: tokio polls every ready task.
* **Replication stream.** The producer polls, the replica applies, and acks
  and reconnects are processed. Writes, timeouts and breaks are not fair, and
  timeouts and breaks are bounded.
* **Key space.** No fairness: its properties are safety properties.

Every configuration except the `Keyspace` ones sets `CHECK_DEADLOCK FALSE`
(the key space can always take another command). These are servers whose
loops wait forever for the next request, so a state where nothing is left to
do is their normal resting state, not a deadlock.

Observations that are not runs:

* `broadcast_msg` sends `KillClient` to every worker, the sender's own
  included, where spec §5 says "every other worker". The extra message makes
  the sender's worker look its own table up a second time.
* With `c3` moved alone to a second worker in `blocked_single`, TLC reports
  `NoStrandedWaiter`. `c3`'s `get` misses, a push on the other worker finds no
  queue and wakes nobody, then `c3` inserts its queue. It sleeps until its
  deadline while `k2` holds an element.
* `iterate` ends when the iterator turns invalid and returns `Ok` without
  `iter.status()`: a read error mid-scan gives a truncated scan that looks
  complete. The model's reads never fail.

* `expire` parses the seconds, then returns 0 for an absent key, and only
  then looks at the option. `EXPIRE missing 10 BOGUS` therefore replies 0,
  where spec §4.3 says an unknown option is an error.
* `UpdateBatchIterator::update` adds one to `changes_count` per write batch,
  so `changes_count_limit` caps batches. Spec §4.5 says records, but the
  repository's test expects 10 changes for 20 records, so the code is
  intended.
* `get_updates_since(s)` is modelled as yielding the batches after the one
  that starts at `s`. That is the binding's behaviour that
  `test_get_updates_since` asserts (storage_rocksdb.rs 384-415): it
  restarts from `end_seq_number` and finds no key twice.
* In `RoleSwitch`, `switch_role_to_primary` sets the flag once
  `PrimaryMode` is queued. A write can be accepted while the replicator
  still handles an earlier `ConnectToPrimary`. Spec §4.5 says the node
  switches to primary on the `PrimaryMode` message, once the replica loop
  has stopped. The `role_promote` run shows the trace.
* CLIENT is built as `CommandMetadata::new(..).connection()`, so it keeps
  `first_key 1`. A dispatcher that locks keys by position therefore takes
  the subcommand (`ID`, `LIST`, ...) as a key.
* `EXPIRE n GT` compares `n` with the remaining time rounded up to a whole
  second. With 1.5 s left, `EXPIRE k 2 GT` replies 0 although 2 s is later.
  Spec §4.3's "current TTL" may mean the TTL reply, and under that reading
  the code agrees. Either way the rounding never reverses the option's
  direction; `ExpireKeepsDirection` checks that.

## Not modelled

* **The kill itself.** The client table is not in this source tree.
  `KillStart` therefore makes `terminate_client`'s local lookup a free
  choice between a hit and a miss. Send failures
  (a worker loop that has ended) are not modelled.
* **Failures of the RocksDB calls.** The discarded error in `put_internal`
  and a failed send to the replicator after the config file is written are
  listed as hazards without a property.
* **Starting as a replica.** `set_server_options` sets the flag from the
  config file. `Init` takes the default config, a primary: how the
  replicator starts on a node whose file says replica is not in this
  source tree.
* **Crash of a node.** Persistence of the replica's cursor is not in this
  source tree.
* **`to_resp_v2` / `cmmand_output`** (output formatting), `temp_file.rs`,
  `open`, `flush`, `get`, and backup/restore.
* **Type-replacing writes and the rest of the string, list and hash
  commands.** Their handlers are not in this source tree; `Keyspace` keeps
  the three writers the generic commands need to meet every key type.

## Plan for later work

1. Compose `RoleSwitch` with `ReplicationStream` to ask whether a replica that
   turns primary and back resumes from a valid cursor.
2. Check the cross-worker lost wakeup of `BlockedClients` as a violation run
   of its own, with `c3` on a second worker.
3. Model send failures in `broadcast_msg` (a receiver whose loop has ended),
   and read errors in `iterate`, to check how a failed step surfaces.
