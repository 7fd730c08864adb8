------------------------ MODULE MC_ReplicationStream ------------------------
EXTENDS ReplicationStream, TLC

CONSTANTS x, y, v1, v2

\* Two raw keys, one a proper prefix of the other.
ByteKeys == {<<1>>, <<1, 2>>}

\* Prefixes below, at, between and above the keys, and the empty prefix.
Prefixes6 == {<<>>, <<0>>, <<1>>, <<1, 1>>, <<1, 2>>, <<2>>}
====
