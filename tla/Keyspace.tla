------------------------------- MODULE Keyspace -------------------------------
(***************************************************************************)
(* The generic commands of sabledb (generic_commands.rs: DEL, TTL, EXISTS, *)
(* EXPIRE) over the typed key space of spec section 3.                     *)
(*                                                                         *)
(* A user key has a primary record (type, absolute expiry, field count)    *)
(* and, for a hash, one field record per field, keyed by the user key and  *)
(* the field (spec 3: prefix | db | user key | field).  Expiry is lazy: a  *)
(* primary whose expiry has passed reads as absent (spec 3.5).  Time runs  *)
(* in ticks, TicksPerSecond to the second, so that a TTL can be a          *)
(* fraction of a second away.                                              *)
(*                                                                         *)
(* Each handler holds the user key's lock around its reads and writes of   *)
(* that key, so a handler's work on one key is one step.  DEL and EXISTS   *)
(* loop over their arguments and take one step per argument: other         *)
(* connections, and the clock, act between two of them.  GenericDb,       *)
(* Expiration and the string, list and hash writers are outside this       *)
(* source tree and are modelled from the spec.                             *)
(***************************************************************************)
EXTENDS Integers, Sequences, FiniteSets

CONSTANTS
    Keys,            \* user keys
    Fields,          \* hash fields
    TicksPerSecond,  \* clock resolution
    MaxSeconds,      \* largest EXPIRE argument
    MaxTicks,        \* bound on the clock
    MaxArgs,         \* longest DEL / EXISTS argument list
    Absent,          \* no primary record
    NoTtl,           \* expiration absent
    NotAnInt         \* an EXPIRE argument that does not parse as u64

Types == {"string", "list", "hash"}
Options == {"none", "nx", "xx", "gt", "lt", "bogus"}

VARIABLES
    prim,     \* prim[k]: the primary record of k, or Absent
    fields,   \* fields[k]: the hash field records stored under k
    now,      \* the clock, in ticks
    loop,     \* the DEL or EXISTS in progress on the connection
    out       \* the last reply

vars == <<prim, fields, now, loop, out>>

-----------------------------------------------------------------------------
(* GenericDb and Expiration (spec 3).                                      *)

\* GenericDb::get / contains: an expired primary reads as absent.
Visible(k) ==
    /\ prim[k] # Absent
    /\ IF prim[k].exp = NoTtl THEN TRUE ELSE prim[k].exp > now

HasTtl(k) == prim[k].exp # NoTtl

\* ttl_in_seconds: the remaining time rounded up to a whole second (spec
\* 4.3, TTL).  Without an expiration it reads larger than any argument.
TtlInSeconds(k) ==
    IF HasTtl(k)
    THEN (prim[k].exp - now + TicksPerSecond - 1) \div TicksPerSecond
    ELSE MaxSeconds + 1

\* Expiration::set_ttl_seconds followed by put_expiration: only the expiry
\* of the primary is rewritten (spec 3.6).
PutExpiration(k, secs) ==
    prim' = [prim EXCEPT ![k].exp = now + secs * TicksPerSecond]

NewPrimary(t, count) == [type |-> t, exp |-> NoTtl, count |-> count]

-----------------------------------------------------------------------------
(* Writers on other connections (spec 4.3), each one step under its lock.  *)

\* SET k v (no options): a new string value without expiration.  A key of
\* another type is left to the type-replacing path, which is not modelled.
SetString(k) ==
    /\ Visible(k) => prim[k].type = "string"
    /\ prim' = [prim EXCEPT ![k] = NewPrimary("string", 0)]
    /\ UNCHANGED fields

\* LPUSH k e: creates the list when k is absent; the elements themselves
\* are not tracked.
LPush(k) ==
    /\ ~Visible(k)
    /\ prim' = [prim EXCEPT ![k] = NewPrimary("list", 0)]
    /\ UNCHANGED fields

\* HSET k f v: writes f's field record; the field count grows when the
\* record was not there.  A new hash starts with the field it is created by.
HSet(k, f) ==
    /\ Visible(k) => prim[k].type = "hash"
    /\ fields' = [fields EXCEPT ![k] = @ \cup {f}]
    /\ IF Visible(k)
       THEN prim' = [prim EXCEPT ![k].count = @ + (IF f \in fields[k] THEN 0 ELSE 1)]
       ELSE prim' = [prim EXCEPT ![k] = NewPrimary("hash", 1)]

Writer ==
    /\ \E k \in Keys :
          \/ SetString(k) \/ LPush(k)
          \/ \E f \in Fields : HSet(k, f)
    /\ UNCHANGED <<now, loop, out>>

Tick ==
    /\ now < MaxTicks
    /\ now' = now + 1
    /\ UNCHANGED <<prim, fields, loop, out>>

\* Opportunistic removal of an expired primary (spec 3.5).  Field records
\* may linger (spec 3.1).
Evict(k) ==
    /\ prim[k] # Absent
    /\ ~Visible(k)
    /\ prim' = [prim EXCEPT ![k] = Absent]
    /\ UNCHANGED <<fields, now, loop, out>>

-----------------------------------------------------------------------------
(* The generic commands on one connection: one command at a time.        *)

Idle == [cmd |-> "idle", argv |-> <<>>, i |-> 0, n |-> 0]

Reply(cmd, k, val) == [cmd |-> cmd, key |-> k, val |-> val]

\* The reply 1 of an EXPIRE that changed the expiry also names the option
\* it was given.  An error reply is
\* Reply("error", k, 0).
ExpireApplied(k, opt) == [cmd |-> "expire", key |-> k, opt |-> opt, val |-> 1]

\* ttl: -2 when absent, -1 without expiration, else the seconds left.
Ttl(k) ==
    /\ loop = Idle
    /\ out' = Reply("ttl", k, IF ~Visible(k) THEN -2
                             ELSE IF ~HasTtl(k) THEN -1
                             ELSE TtlInSeconds(k))
    /\ UNCHANGED <<prim, fields, now, loop>>

\* Seeded fault: LT also accepts a new TTL equal to the rounded remaining
\* time.
ExpireConditionLtInclusive(k, secs, opt) ==
    CASE opt = "none" -> TRUE
      [] opt = "nx"   -> ~HasTtl(k)
      [] opt = "xx"   -> HasTtl(k)
      [] opt = "gt"   -> secs > TtlInSeconds(k)
      [] opt = "lt"   -> secs <= TtlInSeconds(k)

\* The condition each EXPIRE option puts on the current expiration.
ExpireCondition(k, secs, opt) ==
    CASE opt = "none" -> TRUE
      [] opt = "nx"   -> ~HasTtl(k)
      [] opt = "xx"   -> HasTtl(k)
      [] opt = "gt"   -> secs > TtlInSeconds(k)
      [] opt = "lt"   -> secs < TtlInSeconds(k)

\* expire: the seconds are parsed first, then the key's expiration is read
\* (absent: 0), and only then is the option looked at.
Expire(k, secs, opt) ==
    /\ loop = Idle
    /\ \/ /\ secs = NotAnInt
          /\ out' = Reply("error", k, 0)
          /\ UNCHANGED prim
       \/ /\ secs # NotAnInt /\ ~Visible(k)
          /\ out' = Reply("expire", k, 0)
          /\ UNCHANGED prim
       \/ /\ secs # NotAnInt /\ Visible(k) /\ opt = "bogus"
          /\ out' = Reply("error", k, 0)
          /\ UNCHANGED prim
       \/ /\ secs # NotAnInt /\ Visible(k) /\ opt # "bogus"
          /\ IF ExpireCondition(k, secs, opt)
             THEN PutExpiration(k, secs) /\ out' = ExpireApplied(k, opt)
             ELSE UNCHANGED prim /\ out' = Reply("expire", k, 0)
    /\ UNCHANGED <<fields, now, loop>>

Args == UNION {[1 .. n -> Keys] : n \in 1 .. MaxArgs}

\* del and exists: the argument loop starts.
LoopStart(cmd, argv) ==
    /\ loop = Idle
    /\ loop' = [cmd |-> cmd, argv |-> argv, i |-> 1, n |-> 0]
    /\ UNCHANGED <<prim, fields, now, out>>

\* The next argument, or the reply after the last one.
Advance(n) ==
    IF loop.i = Len(loop.argv)
    THEN loop' = Idle /\ out' = Reply(loop.cmd, "none", n)
    ELSE loop' = [loop EXCEPT !.i = @ + 1, !.n = n] /\ UNCHANGED out

\* One iteration of del: lock the key, query_key_type, then delete.  A
\* string and an unknown type (a hash) go through GenericDb::delete, which
\* removes the primary record only; a list through List::remove, which
\* removes every element and with the last one the primary.
DelKey ==
    LET k == loop.argv[loop.i] IN
    /\ loop.cmd = "del"
    /\ IF Visible(k)
       THEN /\ prim' = [prim EXCEPT ![k] = Absent]
            /\ Advance(loop.n + 1)
       ELSE UNCHANGED prim /\ Advance(loop.n)
    /\ UNCHANGED <<fields, now>>

\* One iteration of exists: GenericDb::contains, without a lock.
ExistsKey ==
    LET k == loop.argv[loop.i] IN
    /\ loop.cmd = "exists"
    /\ Advance(loop.n + IF Visible(k) THEN 1 ELSE 0)
    /\ UNCHANGED <<prim, fields, now>>

Command ==
    \/ \E k \in Keys : Ttl(k)
    \/ \E k \in Keys, opt \in Options :
          \/ Expire(k, NotAnInt, opt)
          \/ \E secs \in 0 .. MaxSeconds : Expire(k, secs, opt)
    \/ \E argv \in Args : LoopStart("del", argv) \/ LoopStart("exists", argv)
    \/ DelKey \/ ExistsKey

-----------------------------------------------------------------------------
Init ==
    /\ prim = [k \in Keys |-> Absent]
    /\ fields = [k \in Keys |-> {}]
    /\ now = 0
    /\ loop = Idle
    /\ out = Reply("none", "none", 0)

Next == Writer \/ Tick \/ (\E k \in Keys : Evict(k)) \/ Command

Spec == Init /\ [][Next]_vars

-----------------------------------------------------------------------------
(* Properties.                                                             *)

TypeOK ==
    /\ \A k \in Keys : prim[k] = Absent \/ prim[k].type \in Types
    /\ fields \in [Keys -> SUBSET Fields]
    /\ now \in 0 .. MaxTicks
    /\ loop.cmd \in {"idle", "del", "exists"}

(* EXPIRE GT never brings a key's expiry forward and EXPIRE LT never puts  *)
(* it back (spec 4.3), although both compare the new seconds with the     *)
(* remaining time rounded up to a whole second: the expiry instant after  *)
(* an EXPIRE that replies 1 is at least (GT) or at most (LT) the one      *)
(* before, and LT on a key without expiration gives it one.  Only an      *)
(* EXPIRE step changes the reply.                                         *)
ExpireKeepsDirection ==
    [][out' # out /\ out'.cmd = "expire" /\ out'.val = 1 =>
         LET k == out'.key IN
         /\ out'.opt = "gt" => prim[k].exp # NoTtl /\ prim'[k].exp >= prim[k].exp
         /\ out'.opt = "lt" => prim[k].exp = NoTtl \/ prim'[k].exp <= prim[k].exp]_vars

(* The field count of a visible hash equals its field records (spec 3.4   *)
(* and 8: HLEN equals the number of distinct field raw keys).  DEL, lazy *)
(* expiry and HSET on the same user key must keep them in step.           *)
HashCountIsFields ==
    \A k \in Keys : Visible(k) /\ prim[k].type = "hash" =>
        prim[k].count = Cardinality(fields[k])

=============================================================================
