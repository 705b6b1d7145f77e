--------------------------- MODULE MCNrkReadyList ---------------------------
(* Two data structures of the kernel that share no state: the ready list,  *)
(* with the priorities of the accelerometer node (imu and tx equal, the    *)
(* radio task above them) and as many nodes as tasks, one fewer than       *)
(* _nrk_readyQ has, so that a full pool is reached without duplicates too; *)
(* and the system time with the software watchdogs.  A behaviour is one of *)
(* the list or one of the clock; the other stands still.                   *)
EXTENDS NrkReadyList, NrkSwWdt, TLC

VARIABLE component

MCPrio == (0 :> 0) @@ (1 :> 1) @@ (2 :> 1) @@ (3 :> 2)

\* A watchdog of three seconds and a tick, at three ticks a second.  The lower
\* bytes of the seconds have two or three values: a carry between two bytes,
\* every 256 s on the node, is met within the bound.
MCWdtPeriod == {[secs |-> 3, nanos |-> 1]}

MCInit == component \in {"list", "clock"} /\ Init /\ WdtInit

MCNext == /\ UNCHANGED component
          /\ \/ component = "list" /\ Next /\ UNCHANGED wdtVars
             \/ component = "clock" /\ WdtNext /\ UNCHANGED vars

MCSpec == MCInit /\ [][MCNext]_<<component, vars, wdtVars>>
=============================================================================
