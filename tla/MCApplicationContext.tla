------------------------ MODULE MCApplicationContext ------------------------
\* Two hooks: server needs pool.
EXTENDS ApplicationContext, TLC

CONSTANTS server, pool, t1, t2

MCMeta ==
  server :> [priority |-> FALSE, order |-> 0, name |-> 2] @@
  pool   :> [priority |-> FALSE, order |-> 0, name |-> 1]

MCHookDeps == server :> {pool} @@ pool :> {}

All == {"Refresh", "Start", "Stop", "Close"}
AnyCall == [t \in Thread |-> All]
RefreshAndClose == t1 :> {"Refresh"} @@ t2 :> {"Close"}
StartAndClose == t1 :> {"Refresh", "Start"} @@ t2 :> {"Close"}
=============================================================================
