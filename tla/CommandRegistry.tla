--------------------------- MODULE CommandRegistry ---------------------------
(***************************************************************************)
(* The command table of sabledb (commander.rs) and the dispatcher's use of *)
(* it.  CommandsManager::default builds a map from the lowercased command  *)
(* name to CommandMetadata (flags, arity, first_key, last_key, step);      *)
(* CommandMetadata::new gives arity 2, first_key 1, last_key 1, step 1 and *)
(* the builder methods override them.                                      *)
(*                                                                         *)
(* The dispatcher is not in this source tree and is modelled from the      *)
(* spec (section 4.2, steps 1-4): look the name up, check the arity,       *)
(* compute the key positions from (first_key, last_key, step), and refuse  *)
(* a WRITE command while the server is a replica.  A request is its name   *)
(* and its token count; the tokens themselves do not matter here.          *)
(***************************************************************************)
EXTENDS Integers, FiniteSets, TLC

CONSTANTS
    MaxArgc,  \* largest request, in tokens, name included
    Unknown,  \* a name that is not in the table
    Usage     \* documented request shapes <<name, token count>>

Flags == {"read", "write", "admin", "connection", "blocking"}
Roles == {"primary", "replica"}

-----------------------------------------------------------------------------
(* CommandMetadata::new and the builder methods.                          *)

New == [flags |-> {}, arity |-> 2, first |-> 1, last |-> 1, step |-> 1]

Md(flags, arity) == [New EXCEPT !.flags = flags, !.arity = arity]

\* Seeded fault: with_last_key stores the position one past the argument.
WithLastKeyOffByOne(md, last) == [md EXCEPT !.last = last + 1]

WithLastKey(md, last) == [md EXCEPT !.last = last]

WithStep(md, step) == [md EXCEPT !.step = step]

\* .with_first_key(0).with_last_key(0).with_step(0)
NoKeys(md) == [md EXCEPT !.first = 0, !.last = 0, !.step = 0]

R == {"read"}
W == {"write"}
WB == {"write", "blocking"}

\* is_write_command
IsWrite(md) == "write" \in md.flags

-----------------------------------------------------------------------------
(* CommandsManager::default, in the order of the source.                   *)

ServerAndStringCommands ==
    [config |-> NoKeys(Md(R, -2)), info |-> NoKeys(Md(R, -1)),
     append |-> Md(W, 3), decr |-> Md(W, 2), decrby |-> Md(W, 3),
     incr |-> Md(W, 2), incrby |-> Md(W, 3), incrbyfloat |-> Md(W, 3),
     set |-> Md(W, 3), get |-> Md(R, 2), getdel |-> Md(W, 2),
     getset |-> Md(W, 3), getex |-> Md(W, -2), getrange |-> Md(R, 4),
     lcs |-> WithLastKey(Md(R, -3), 2),
     mget |-> WithLastKey(Md(R, -2), -1),
     mset |-> WithStep(WithLastKey(Md(W, -3), -1), 2),
     msetnx |-> WithStep(WithLastKey(Md(W, -3), -1), 2),
     psetex |-> Md(W, 4), setex |-> Md(W, 4), setnx |-> Md(W, 3),
     setrange |-> Md(W, 4), strlen |-> Md(R, 2), substr |-> Md(R, 4)]

ListCommands ==
    [lpush |-> Md(W, -3), lpushx |-> Md(W, -3), rpush |-> Md(W, -3),
     rpushx |-> Md(W, -3), lpop |-> Md(W, -2), rpop |-> Md(W, -2),
     llen |-> Md(R, 2), lindex |-> Md(R, 4), linsert |-> Md(W, 5),
     lset |-> Md(W, 4), lpos |-> Md(R, -3), ltrim |-> Md(W, 4),
     lrange |-> Md(R, 4), lrem |-> Md(W, 4),
     lmove |-> WithLastKey(Md(W, 5), 2),
     rpoplpush |-> WithLastKey(Md(W, 3), 2),
     lmpop |-> NoKeys(Md(W, -4)),
     brpoplpush |-> WithLastKey(Md(WB, 4), 2),
     blpop |-> WithLastKey(Md(WB, -3), -2),
     blmove |-> WithLastKey(Md(WB, 6), 2),
     blmpop |-> NoKeys(Md(WB, -5)),
     brpop |-> WithLastKey(Md(WB, -3), -2)]

\* "client" is CommandMetadata::new(..).connection(): the defaults stay.
ClientServerGenericCommands ==
    [client |-> Md({"connection"}, 2),
     select |-> NoKeys(Md({"connection"}, 2)),
     replicaof |-> NoKeys(Md({"admin"}, 3)),
     slaveof |-> NoKeys(Md({"admin"}, 3)),
     ping |-> NoKeys(Md(R, -1)), command |-> NoKeys(Md({}, -1)),
     ttl |-> Md(R, 2), del |-> WithLastKey(Md(W, -2), -1),
     exists |-> WithLastKey(Md(R, -2), -1), expire |-> Md(W, -3)]

HashCommands ==
    [hset |-> Md(W, -4), hmset |-> Md(W, -4), hget |-> Md(R, 3),
     hdel |-> Md(W, -3), hlen |-> Md(R, 2), hexists |-> Md(R, 3),
     hgetall |-> Md(R, 2), hincrbyfloat |-> Md(W, 4),
     hincrby |-> Md(W, 4), hkeys |-> Md(R, 2), hvals |-> Md(R, 2),
     hmget |-> Md(R, -3), hrandfield |-> Md(R, -2)]

Table == ServerAndStringCommands @@ ListCommands
            @@ ClientServerGenericCommands @@ HashCommands

Names == DOMAIN Table

ASSUME Unknown \notin Names

\* CommandsManager::metadata: a miss yields NotSupported with the defaults.
Metadata(name) == IF name \in Names THEN Table[name] ELSE New

-----------------------------------------------------------------------------
(* The dispatcher (spec 4.2).                                              *)

\* Positive arity: exactly that many tokens; negative: at least |arity|.
ArityOK(md, argc) ==
    IF md.arity >= 0 THEN argc = md.arity ELSE argc >= -md.arity

\* first_key 0: no keys; a negative last_key counts from the end of argv.
KeyPositions(md, argc) ==
    LET last == IF md.last < 0 THEN argc + md.last ELSE md.last
    IN IF md.first = 0 THEN {}
       ELSE {i \in md.first .. last : (i - md.first) % md.step = 0}

Reply(name, argc, role) ==
    CASE name \notin Names -> "unknown"
      [] ~ArityOK(Metadata(name), argc) -> "arity"
      [] role = "replica" /\ IsWrite(Metadata(name)) -> "readonly"
      [] OTHER -> "ok"

VARIABLES cmd, argc, role, reply, keys

vars == <<cmd, argc, role, reply, keys>>

Init ==
    /\ cmd = Unknown /\ argc = 0 /\ role = "primary"
    /\ reply = "none" /\ keys = {}

\* One request on one connection; requests are independent of each other.
Dispatch ==
    \E name \in Names \cup {Unknown}, n \in 1 .. MaxArgc, r \in Roles :
        /\ cmd' = name /\ argc' = n /\ role' = r
        /\ reply' = Reply(name, n, r)
        /\ keys' = IF Reply(name, n, r) = "ok"
                   THEN KeyPositions(Metadata(name), n) ELSE {}

Next == Dispatch

Spec == Init /\ [][Next]_vars
-----------------------------------------------------------------------------
(* Properties.                                                             *)

TypeOK ==
    /\ cmd \in Names \cup {Unknown}
    /\ argc \in 0 .. MaxArgc
    /\ reply \in {"none", "unknown", "arity", "readonly", "ok"}
    /\ keys \subseteq 1 .. MaxArgc

(* Every request the table admits has its key positions inside argv: the   *)
(* arity of each entry is large enough for its first_key and last_key, so *)
(* the dispatcher never locks a position past the end of the request, and  *)
(* a command with a first_key names at least one key.                      *)
KeysWithinArgv ==
    reply = "ok" =>
        /\ keys \subseteq 1 .. argc - 1
        /\ Metadata(cmd).first > 0 => keys # {}

(* Every documented request shape passes the arity check (LINDEX key       *)
(* index; CLIENT SETNAME name, CLIENT ID).                                 *)
UsageAdmitted == reply = "arity" => <<cmd, argc>> \notin Usage

=============================================================================
