------------------------- MODULE MC_CommandRegistry -------------------------
EXTENDS CommandRegistry

CONSTANTS nosuchcmd

\* Request shapes from the Redis command documentation the spec follows.
DocumentedUsage ==
    {<<"lindex", 3>>, <<"client", 2>>, <<"client", 3>>, <<"lrange", 4>>,
     <<"blpop", 3>>, <<"mset", 3>>, <<"lmove", 5>>}
====
