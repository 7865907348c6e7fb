---------------------------- MODULE MCRelayLoads ----------------------------
\* Small instances of RelayLoads: a rod that follows the surplus, one with a daily
\* minimum, one with a minimum and a latest start, and a heat pump.
EXTENDS RelayLoads

Never == -1
Dev(kind, minDay, deadline) == [kind |-> kind, minDay |-> minDay, deadline |-> deadline]

Rod == {Dev("rod", 0, Never)}
RodsAndPump ==
    Rod \cup {Dev("rod", 11, Never), Dev("rod", 3, 3), Dev("pump", 0, Never)}

\* in units of half a stage: import, one stage, more than all of them
Levels == {-1, 2, 7}
=============================================================================
