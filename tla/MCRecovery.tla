------------------------------ MODULE MCRecovery ------------------------------
EXTENDS Recovery

CONSTANTS first, second, stop, limit

MCRuns == {first, second}
MCOrders == {stop, limit}
MCProtective == {stop}

\* Every script on the exchange, and one run of each kind without it.
MCCommands ==
    [r \in MCRuns |->
        IF r = first
        THEN (Scripts \X {"private"}) \cup {<<"recover", "simulated">>, <<"sync", "local_only">>}
        ELSE {<<"service", "local_only">>}]
MCIterations == [r \in MCRuns |-> IF r = first THEN 2 ELSE 1]
===============================================================================
