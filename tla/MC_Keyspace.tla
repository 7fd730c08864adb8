------------------------------ MODULE MC_Keyspace ------------------------------
(* Model values for the keys and fields of the Keyspace configurations.     *)
EXTENDS Keyspace

CONSTANTS k1, k2, f1, f2

\* Explore only keys without an expiration, so that a primary record goes
\* away through DEL and not through lazy expiry.
WithoutExpiry == \A k \in Keys : prim[k] = Absent \/ prim[k].exp = NoTtl

=============================================================================
