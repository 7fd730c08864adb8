------------------------- MODULE MC_BlockedClients -------------------------
(* Instances of BlockedClients for TLC.                                    *)
EXTENDS BlockedClients, TLC

CONSTANTS k1, k2, c1, c2, c3, wr1, wr2, wk1, wk2

\* One worker thread; c1 and c2 contend on k1, c3 names k2 twice.
OneWorkerBlockKeys == (c1 :> <<k1>>) @@ (c2 :> <<k1>>) @@ (c3 :> <<k2, k2>>)
OneWorker == [t \in {c1, c2, c3, wr1} |-> wk1]

\* One worker thread; c1 blocks on two keys, c2 on the second of them.
MultiKeyBlockKeys == (c1 :> <<k1, k2>>) @@ (c2 :> <<k2>>)
OneWorkerTwoClients == [t \in {c1, c2, wr1} |-> wk1]

\* Two worker threads: the clients on one, the writer on the other.
SplitWorkers == (c1 :> wk1) @@ (c2 :> wk2) @@ (wr1 :> wk2)
TwoClientsOneKey == (c1 :> <<k1>>) @@ (c2 :> <<k1>>)

\* Two worker threads; c1 names k1 twice, c2 blocks on two keys.
RepeatedKeyBlockKeys == (c1 :> <<k1, k1>>) @@ (c2 :> <<k2, k1>>)

=============================================================================
