--------------------------- MODULE MC_RoleSwitch ---------------------------
(* Instances of RoleSwitch for TLC.                                        *)
EXTENDS RoleSwitch, TLC

CONSTANTS a1, a2, cl1, kl1, kl2, wk1, wk2

\* Every connection on one worker thread.
OneWorker == [t \in {a1, a2, cl1} |-> wk1]

\* The REPLICAOF and write connections on one worker thread, and a CLIENT
\* KILL connection on each of two worker threads.
OneAdminWorker == [t \in {a1, a2, cl1, kl1} |-> wk1] @@ (kl2 :> wk2)

\* The two REPLICAOF connections on different worker threads.
SplitAdmins == (a1 :> wk1) @@ (a2 :> wk2) @@ (cl1 :> wk1)

=============================================================================
