-------------------------- MODULE ReplicationStream --------------------------
(***************************************************************************)
(* The replication change-stream of sabledb (storage_rocksdb.rs).          *)
(*                                                                         *)
(* The primary writes through StorageRocksDb (put, delete, apply_batch);   *)
(* each call is one RocksDB write batch that takes the next sequence       *)
(* numbers, one per record, and lands in the write-ahead log.  The         *)
(* replication producer calls storage_updates_since(cursor, memory_limit,  *)
(* changes_count_limit), which walks RocksDB's get_updates_since iterator  *)
(* and copies whole write batches into one StorageUpdates message until a  *)
(* limit is reached.  The replica applies the message and acknowledges     *)
(* end_seq_number; the producer then advances its cursor.                  *)
(*                                                                         *)
(* The producer and consumer loops (replication_server.rs,                 *)
(* replication_client.rs) are not in this source tree and are modelled     *)
(* from the spec (section 4.5): one TCP connection, a message is applied   *)
(* as a whole, the cursor advances on an acknowledgement, a transport      *)
(* error drops what is in flight and the handshake restarts the stream     *)
(* from the replica's own cursor.  A read timeout on the producer side     *)
(* retransmits from the last acknowledged cursor on the same connection.   *)
(*                                                                         *)
(* Keys and values are model values; a record's serialised length is       *)
(* abstracted to PutSize or DelSize units.                                 *)
(***************************************************************************)
EXTENDS Naturals, Sequences, SequencesExt, FiniteSets

CONSTANTS
    Keys,          \* raw keys
    Values,        \* values stored under a key
    MaxBatches,    \* bound on the write batches the primary commits
    MaxBreaks,     \* bound on transport errors
    MaxTimeouts,   \* bound on producer read timeouts
    MemoryLimit,   \* memory_limit argument, or NoLimit
    ChangesLimit,  \* changes_count_limit argument, or NoLimit
    ScanPrefixes,  \* prefixes passed to iterate
    NoLimit,
    None           \* a deleted / absent key

ASSUME
    /\ None \notin Values
    /\ MaxBatches \in Nat /\ MaxBreaks \in Nat /\ MaxTimeouts \in Nat
    /\ MemoryLimit \in Nat \cup {NoLimit}
    /\ ChangesLimit \in Nat \cup {NoLimit}

PutSize == 2   \* length-prefixed key and value
DelSize == 1   \* length-prefixed key

PutRec(k, v) == [op |-> "put", key |-> k, val |-> v]
DelRec(k) == [op |-> "del", key |-> k, val |-> None]
Records == {PutRec(k, v) : k \in Keys, v \in Values} \cup {DelRec(k) : k \in Keys}

VARIABLES
    wal,       \* RocksDB write-ahead log: <<[start, recs]>> in commit order
    cursor,    \* producer: last acknowledged end_seq_number
    awaiting,  \* producer: a message was sent and its ack is outstanding
    msgs,      \* primary -> replica messages in flight on the connection
    acks,      \* replica -> primary acknowledgements in flight
    rkv,       \* replica key/value store
    rcursor,   \* replica: end_seq_number of the last message it applied
    conn,      \* "up" or "down"
    breaks,    \* transport errors so far
    timeouts   \* producer read timeouts so far

vars == <<wal, cursor, awaiting, msgs, acks, rkv, rcursor, conn, breaks, timeouts>>

-----------------------------------------------------------------------------
(* Key/value semantics of a record and of a log prefix.                    *)

ApplyRecord(kv, r) == [kv EXCEPT ![r.key] = r.val]

Replay(kv, recs) == FoldLeft(ApplyRecord, kv, recs)

EmptyKV == [k \in Keys |-> None]

\* RocksDB's latest sequence number: one per record, the first batch gets 1.
LastSeq == IF wal = <<>> THEN 0 ELSE Last(wal).start + Len(Last(wal).recs) - 1

\* The store's state after every batch that starts at or before s.
StateAt(s) ==
    FoldLeft(LAMBDA kv, b : IF b.start <= s THEN Replay(kv, b.recs) ELSE kv, EmptyKV, wal)

PrimaryKV == StateAt(LastSeq)

-----------------------------------------------------------------------------
(* Primary writes.  Each commits one write batch to the log.               *)

Commit(recs) ==
    /\ Len(wal) < MaxBatches
    /\ wal' = Append(wal, [start |-> LastSeq + 1, recs |-> recs])

\* apply_batch: deletes are added to the WriteBatch before the puts.
ApplyBatch(dels, puts) ==
    Commit([i \in 1 .. Cardinality(dels) |-> DelRec(SetToSeq(dels)[i])]
           \o [i \in 1 .. Cardinality(DOMAIN puts) |->
                 PutRec(SetToSeq(DOMAIN puts)[i], puts[SetToSeq(DOMAIN puts)[i]])])

\* get: the value stored under k, or None.
Get(k) == PrimaryKV[k]

\* put / put_internal: PutIfNotExists and PutIfExists read the key first
\* and return Ok without writing when the condition fails.
Put(k, v, flag) ==
    \/ /\ flag = "Override"
       /\ Commit(<<PutRec(k, v)>>)
    \/ /\ flag = "PutIfNotExists"
       /\ IF Get(k) # None THEN UNCHANGED wal ELSE Commit(<<PutRec(k, v)>>)
    \/ /\ flag = "PutIfExists"
       /\ IF Get(k) = None THEN UNCHANGED wal ELSE Commit(<<PutRec(k, v)>>)

\* delete: a RocksDB delete writes a tombstone whether or not k exists.
Delete(k) == Commit(<<DelRec(k)>>)

PrimaryWrite ==
    /\ Len(wal) < MaxBatches
    /\ \/ \E k \in Keys, v \in Values, f \in {"Override", "PutIfNotExists", "PutIfExists"} :
             Put(k, v, f)
       \/ \E k \in Keys : Delete(k)
       \/ \E d \in Keys, k \in Keys, v \in Values : ApplyBatch({d}, k :> v)
    /\ UNCHANGED <<cursor, awaiting, msgs, acks, rkv, rcursor, conn, breaks, timeouts>>
-----------------------------------------------------------------------------
(* storage_updates_since and UpdateBatchIterator.                          *)

\* UpdateBatchIterator::new: StorageUpdates::from_seq_number(from_seq).
FromSeqNumber(s) == [start |-> s, end |-> s, count |-> 0, body |-> <<>>]

\* WriteBatchIterator::put / delete append the batch's records to the
\* body; update(seq) then records the batch's sequence number and counts
\* one change per batch.
AddBatch(u, b) ==
    [u EXCEPT !.body = @ \o b.recs, !.end = b.start, !.count = @ + 1]

BodySize(body) ==
    FoldLeft(LAMBDA n, r : n + IF r.op = "put" THEN PutSize ELSE DelSize, 0, body)

LimitReached(u) ==
    \/ MemoryLimit # NoLimit /\ BodySize(u.body) >= MemoryLimit
    \/ ChangesLimit # NoLimit /\ u.count >= ChangesLimit

\* get_updates_since(s): the batches committed after the batch that starts
\* at s, in commit order (the contract test_get_updates_since relies on).
UpdatesSince(s) == SelectSeq(wal, LAMBDA b : b.start > s)

\* Seeded fault: update(seq) and the limit checks run before
\* write_batch.iterate, so the batch that reaches a limit is counted in
\* end_seq_number but its records are not shipped.
RECURSIVE CollectCountBeforeCopy(_, _)
CollectCountBeforeCopy(batches, u) ==
    IF batches = <<>> THEN u
    ELSE LET counted == [u EXCEPT !.end = Head(batches).start, !.count = @ + 1]
         IN IF LimitReached(counted) THEN counted
            ELSE CollectCountBeforeCopy(Tail(batches),
                                        [counted EXCEPT !.body = @ \o Head(batches).recs])

\* Seeded fault: the loop stops before a batch that would reach
\* memory_limit instead of after it.
RECURSIVE CollectStopBeforeLimit(_, _)
CollectStopBeforeLimit(batches, u) ==
    IF batches = <<>> THEN u
    ELSE LET u2 == AddBatch(u, Head(batches))
         IN IF MemoryLimit # NoLimit /\ BodySize(u2.body) >= MemoryLimit THEN u
            ELSE IF LimitReached(u2) THEN u2 ELSE CollectStopBeforeLimit(Tail(batches), u2)

\* The loop over the iterator: append, count, then break on a limit.
RECURSIVE Collect(_, _)
Collect(batches, u) ==
    IF batches = <<>> THEN u
    ELSE LET u2 == AddBatch(u, Head(batches))
         IN IF LimitReached(u2) THEN u2 ELSE Collect(Tail(batches), u2)

StorageUpdatesSince(s) == Collect(UpdatesSince(s), FromSeqNumber(s))

-----------------------------------------------------------------------------
(* StorageRocksDb::iterate(prefix, callback).  Raw keys are byte strings   *)
(* (sequences of byte values) in RocksDB's bytewise order.  The raw        *)
(* iterator reads the store as of its creation, and the loop never        *)
(* awaits, so a call is one read of one store.  The callback is any FnMut; *)
(* all the loop sees of it is the call on which it first returns false,   *)
(* stopAt (a number above the range size: it never does).                 *)

\* RocksDB's bytewise comparator: a proper prefix sorts first.
RECURSIVE KeyLess(_, _)
KeyLess(a, b) ==
    IF a = <<>> \/ b = <<>> THEN a = <<>> /\ b # <<>>
    ELSE IF Head(a) # Head(b) THEN Head(a) < Head(b)
    ELSE KeyLess(Tail(a), Tail(b))

\* The live keys of a store in iterator order.
SortedKeys(kv) == SetToSortSeq({k \in Keys : kv[k] # None}, KeyLess)

\* iter.seek(prefix): the iterator is on the first key not below prefix and
\* iter.next() walks the rest in order.
Seek(kv, prefix) == SelectSeq(SortedKeys(kv), LAMBDA k : ~KeyLess(k, prefix))

\* Seeded fault: the starts_with check is missing, so the loop runs on past
\* the keys that carry the prefix.
RECURSIVE IterateLoopIgnoringPrefix(_, _, _, _)
IterateLoopIgnoringPrefix(kv, rest, prefix, stopAt) ==
    IF rest = <<>> THEN <<>>
    ELSE <<[key |-> Head(rest), val |-> kv[Head(rest)]]>>
         \o (IF stopAt = 1 THEN <<>>
             ELSE IterateLoopIgnoringPrefix(kv, Tail(rest), prefix, stopAt - 1))

\* The loop: break when the iterator is not valid (past the last key), when
\* the key does not start with prefix, or after the callback returned
\* false; the result is the sequence of (key, value) pairs passed to the
\* callback.
RECURSIVE IterateLoop(_, _, _, _)
IterateLoop(kv, rest, prefix, stopAt) ==
    IF rest = <<>> \/ ~IsPrefix(prefix, Head(rest)) THEN <<>>
    ELSE <<[key |-> Head(rest), val |-> kv[Head(rest)]]>>
         \o (IF stopAt = 1 THEN <<>>
             ELSE IterateLoop(kv, Tail(rest), prefix, stopAt - 1))

Iterate(kv, prefix, stopAt) == IterateLoop(kv, Seek(kv, prefix), prefix, stopAt)

-----------------------------------------------------------------------------
(* The producer and consumer loops (spec 4.5).                             *)

\* The producer polls from its cursor and sends a non-empty result.
Send ==
    /\ conn = "up"
    /\ ~awaiting
    /\ StorageUpdatesSince(cursor).count > 0
    /\ msgs' = Append(msgs, StorageUpdatesSince(cursor))
    /\ awaiting' = TRUE
    /\ UNCHANGED <<wal, cursor, acks, rkv, rcursor, conn, breaks, timeouts>>

\* The replica applies the records in the order received and acknowledges.
ReplicaApply ==
    /\ msgs # <<>>
    /\ rkv' = Replay(rkv, Head(msgs).body)
    /\ rcursor' = Head(msgs).end
    /\ msgs' = Tail(msgs)
    /\ acks' = Append(acks, Head(msgs).end)
    /\ UNCHANGED <<wal, cursor, awaiting, conn, breaks, timeouts>>

\* The producer advances its cursor to the acknowledged end_seq_number.
RecvAck ==
    /\ acks # <<>>
    /\ cursor' = Head(acks)
    /\ acks' = Tail(acks)
    /\ awaiting' = FALSE
    /\ UNCHANGED <<wal, msgs, rkv, rcursor, conn, breaks, timeouts>>

\* A read timeout while waiting: retransmit from the acknowledged cursor.
Timeout ==
    /\ awaiting
    /\ timeouts < MaxTimeouts
    /\ awaiting' = FALSE
    /\ timeouts' = timeouts + 1
    /\ UNCHANGED <<wal, cursor, msgs, acks, rkv, rcursor, conn, breaks>>

\* A transport error: everything in flight is lost.
Break ==
    /\ conn = "up"
    /\ breaks < MaxBreaks
    /\ conn' = "down"
    /\ msgs' = <<>>
    /\ acks' = <<>>
    /\ awaiting' = FALSE
    /\ breaks' = breaks + 1
    /\ UNCHANGED <<wal, cursor, rkv, rcursor, timeouts>>

\* Reconnect and handshake: the stream restarts from the replica's cursor.
Reconnect ==
    /\ conn = "down"
    /\ conn' = "up"
    /\ cursor' = rcursor
    /\ UNCHANGED <<wal, awaiting, msgs, acks, rkv, rcursor, breaks, timeouts>>

-----------------------------------------------------------------------------
Init ==
    /\ wal = <<>>
    /\ cursor = 0
    /\ awaiting = FALSE
    /\ msgs = <<>>
    /\ acks = <<>>
    /\ rkv = EmptyKV
    /\ rcursor = 0
    /\ conn = "up"
    /\ breaks = 0
    /\ timeouts = 0

Next ==
    \/ PrimaryWrite
    \/ Send \/ ReplicaApply \/ RecvAck \/ Reconnect
    \/ Timeout \/ Break

\* The loops run whenever they can; writes, timeouts and errors need not occur.
Fairness ==
    /\ WF_vars(Send) /\ WF_vars(ReplicaApply)
    /\ WF_vars(RecvAck) /\ WF_vars(Reconnect)

Spec == Init /\ [][Next]_vars /\ Fairness

-----------------------------------------------------------------------------
(* Properties.                                                             *)

TypeOK ==
    /\ wal \in Seq([start : Nat, recs : Seq(Records)])
    /\ cursor \in Nat /\ rcursor \in Nat
    /\ awaiting \in BOOLEAN
    /\ rkv \in [Keys -> Values \cup {None}]
    /\ conn \in {"up", "down"}

(* Once the primary stops writing, the replica catches up with it: every   *)
(* message storage_updates_since builds carries at least one batch, so the *)
(* cursor always moves, whatever the limits.                               *)
ReplicaConverges == <>[](rkv = PrimaryKV)

\* What a prefix scan means: the live keys that start with prefix, in
\* bytewise order, up to the stopAt-th of them.
PrefixScan(kv, prefix, stopAt) ==
    LET inRange == SelectSeq(SortedKeys(kv), LAMBDA k : IsPrefix(prefix, k))
        n == IF stopAt < Len(inRange) THEN stopAt ELSE Len(inRange)
    IN [i \in 1 .. n |-> [key |-> inRange[i], val |-> kv[inRange[i]]]]

(* iterate hands the callback exactly a prefix scan: the live keys that    *)
(* start with prefix, in order, with their current values, up to the one  *)
(* on which the callback returns false, and nothing after, on the         *)
(* primary's store and the replica's in every state replication reaches.  *)
(* The loop only checks starts_with and never the end of the range, so it  *)
(* relies on the keys with a prefix forming one run from seek(prefix).     *)
IterateIsPrefixScan ==
    \A kv \in {PrimaryKV, rkv}, p \in ScanPrefixes, n \in 1 .. Cardinality(Keys) + 1 :
        Iterate(kv, p, n) = PrefixScan(kv, p, n)

(* ReplicationStream implements AbstractReplication: the log is the WAL's   *)
(* record sequences, and the replica's store is always the primary's store *)
(* as of the batch its cursor names (storage_updates_since never leaves a  *)
(* gap between the records it ships and the end_seq_number it reports),   *)
(* and that prefix never shrinks across retransmits, timeouts and          *)
(* reconnects.                                                             *)
AR == INSTANCE AbstractReplication
          WITH log <- [i \in 1 .. Len(wal) |-> wal[i].recs],
               applied <- Len(SelectSeq(wal, LAMBDA b : b.start <= rcursor)),
               replica <- rkv

ReplicationRefinement == AR!Spec

=============================================================================
