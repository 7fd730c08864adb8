------------------------- MODULE AbstractReplication -------------------------
(***************************************************************************)
(* What replication promises (spec 4.5): the primary's commits form a log *)
(* of write batches; the replica's store is always the result of a prefix *)
(* of that log, and the prefix only grows.  Replication order equals the   *)
(* commit order; a replica never observes a state the primary never had,  *)
(* and never goes back to an older one.                                    *)
(***************************************************************************)
EXTENDS Naturals, Sequences, SequencesExt

CONSTANTS Keys, Values, None

VARIABLES
    log,      \* committed write batches, each a sequence of records
    applied,  \* how many batches the replica's store reflects
    replica   \* the replica's key/value store

vars == <<log, applied, replica>>

Put(kv, r) == [kv EXCEPT ![r.key] = r.val]

\* The store after the first n batches of the log.
PrefixState(n) ==
    FoldLeft(LAMBDA kv, recs : FoldLeft(Put, kv, recs),
             [k \in Keys |-> None], SubSeq(log, 1, n))

Init ==
    /\ log = <<>>
    /\ applied = 0
    /\ replica = [k \in Keys |-> None]

\* The primary commits one more non-empty batch.
Commit ==
    /\ Len(log') = Len(log) + 1
    /\ SubSeq(log', 1, Len(log)) = log
    /\ Last(log') # <<>>
    /\ UNCHANGED <<applied, replica>>

\* The replica moves to a later (or the same) prefix of the log.
CatchUp ==
    /\ applied' \in applied .. Len(log)
    /\ replica' = PrefixState(applied')
    /\ UNCHANGED log

Next == Commit \/ CatchUp

Spec == Init /\ [][Next]_vars

=============================================================================
