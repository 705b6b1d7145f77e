----------------------------- MODULE MCTdmaNode -----------------------------
(* The sensor nodes in three views that share no state: the tasks of a     *)
(* node (TdmaNode), the I2C driver that task_imu reads the sensors with    *)
(* (TwiMaster), and the slots of the nodes on the air, where a packet has  *)
(* no contents (TdmaCycle).  A behaviour is one of one view, the two       *)
(* others stand still.                                                     *)
EXTENDS TdmaNode, TwiMaster, TdmaCycle, TLC

CONSTANTS cadence, wheel1, wheel2

VARIABLE view

\* The cadence node's slot is 0, the wheels' 1 and 2.
MCTxSched == (cadence :> 0) @@ (wheel1 :> 1) @@ (wheel2 :> 2)

MCInit == view \in {"tasks", "driver", "air"} /\ Init /\ TwiInit /\ CycleInit

MCNext == /\ UNCHANGED view
          /\ \/ view = "tasks" /\ Next /\ UNCHANGED <<twiVars, cycleVars>>
             \/ view = "driver" /\ TwiNext /\ UNCHANGED <<vars, cycleVars>>
             \/ view = "air" /\ CycleNext /\ UNCHANGED <<vars, twiVars>>

\* The fairness of the three modules, each for the behaviours of its view.
MCFairness ==
    /\ WF_vars(view = "tasks" /\ ImuDue) /\ WF_vars(view = "tasks" /\ HearBeacon)
    /\ WF_vars(view = "tasks" /\ Slot) /\ WF_vars(view = "tasks" /\ CycleEnd)
    /\ WF_vars(view = "tasks" /\ SwWatchdog) /\ WF_vars(view = "tasks" /\ AppStep)
    /\ WF_twiVars(view = "driver" /\ Working)
    /\ WF_cycleVars(view = "air" /\ TimeGoesOn)

MCSpec == MCInit /\ [][MCNext]_<<view, vars, twiVars, cycleVars>> /\ MCFairness

\* The data of the three views keep their types, in particular the handler of
\* the I2C unit writes inside TWI_buf (TWI_Master.c:237-257).
TypesOK == TypeOK /\ TwiTypeOK /\ CycleTypeOK

\* Whatever the interleaving of the tasks, a node that does not miss beacons
\* for ever goes on transmitting: TransmitsAgain of the behaviours of the
\* tasks (tdma_client/main.c:256-281, nrk_sw_wdt.c:35-55).
NodeTransmitsAgain == view = "tasks" => TransmitsAgain

\* Sampling goes on after the last fault of the bus, unless that hangs the bus
\* in the first round: SamplingGoesOn of the behaviours of the driver
\* (TWI_Master.c:110, 131, 186, 270-282).
NodeSamplesAgain == view = "driver" => SamplingGoesOn

\* Each client goes on sending in its slot of the host's cycle, if no stray
\* frames keep it from that for ever: SendsInSlot of the behaviours on the air
\* (pcf_tdma.c:585-592).
NodesSendInSlot == view = "air" => SendsInSlot
=============================================================================
