---------------------------- MODULE MCNrkKernel ----------------------------
EXTENDS NrkKernelClaims, TLC

MCPrio == (0 :> 0) @@ (1 :> 1) @@ (2 :> 2)
MCPeriod == (0 :> 0) @@ (1 :> 4) @@ (2 :> 3)
MCOffset == (0 :> 0) @@ (1 :> 0) @@ (2 :> 2)
NoReserve == [t \in Task |-> 0]
NoOffset == [t \in Task |-> 0]
NoMasks == [t \in Task |-> {}]
NoSem == [s \in {} |-> 0]
TimedCalls == (0 :> {}) @@ (1 :> {"wait_until_next_period", "wait_ticks", "wait_until_ticks"})
   @@ (2 :> {"wait_until_next_period", "wait_until_next_n_periods", "wait"})
   @@ (3 :> {"wait_until_next_period"})
\* Two tasks of one priority and one above them, as on the accelerometer node.
TimedPrio == (0 :> 0) @@ (1 :> 1) @@ (2 :> 2) @@ (3 :> 1)
TimedPeriod == (0 :> 0) @@ (1 :> 4) @@ (2 :> 3) @@ (3 :> 4)
TimedOffset == (0 :> 0) @@ (1 :> 0) @@ (2 :> 2) @@ (3 :> 0)
EventCalls == (0 :> {}) @@ (1 :> {"signal_register", "event_wait"})
   @@ (2 :> {"wait_until_next_period", "event_signal"})
EventMasks == (0 :> {}) @@ (1 :> {{1}, {0, 1}}) @@ (2 :> {})
SemCalls == (0 :> {}) @@ (1 :> {"sem", "wait_ticks"})
   @@ (2 :> {"wait_until_next_period", "sem"})
OneSem == [s \in {0} |-> 1]
CeilSem == [s \in {0} |-> 3]

FaultCalls == (0 :> {})
   @@ (1 :> {"set_next_wakeup", "signal_register", "signal_unregister", "event_wait"})
   @@ (2 :> {"terminate", "wait_until_next_period", "signal_create", "signal_delete"})
FaultReserve == (0 :> 0) @@ (1 :> 0) @@ (2 :> 3)
FaultPeriod == (0 :> 0) @@ (1 :> 3) @@ (2 :> 3)
FaultMasks == (0 :> {}) @@ (1 :> {{1}}) @@ (2 :> {})
=============================================================================
