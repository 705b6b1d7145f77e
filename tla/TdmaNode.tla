------------------------------ MODULE TdmaNode ------------------------------
(***************************************************************************)
(* A sensor node of the bicycle: task_imu and tx_task of tdma_client, the  *)
(* network task of the TDMA link layer in client mode, and the software    *)
(* watchdog.  The network task has priority 20 and takes the CPU from the  *)
(* two application tasks at any point of theirs; these have priority 1     *)
(* both, so that one runs until it waits.  A sample is its number modulo   *)
(* SeqMod (a byte in the code); a packet has a part that holds the number  *)
(* and a part that holds the measurements, copied one after the other.     *)
(***************************************************************************)
EXTENDS Naturals, Sequences

CONSTANTS
    SeqMod,     \* sequence numbers are counted modulo this, 256 in the code
    WdtLimit    \* TDMA cycles until the software watchdog expires, for 5 s

ASSUME NodeAssumption == SeqMod \in Nat \ {0, 1} /\ WdtLimit \in Nat \ {0}

VARIABLES
    nw,           \* the network task: "sync", "slot" or "cycle"
    ready,        \* the READY application tasks, in the order they run
    pc,           \* where each application task is
    sends,        \* the tdma_send call tx_task is in, of three
    sequenceNo,
    txBuf,        \* tx_buf, the sample task_imu has built
    pkt, packetReady,
    frame,        \* tdma_tx_buf and the length set with it
    txDataReady,  \* tx_data_ready
    wdt,          \* cycles since nrk_sw_wdt_update, or Inactive
    ran,          \* an application task has run in this cycle
    air,          \* the last frame on the air
    damaged       \* frames of this life that were not one whole sample

imuVars  == <<sequenceNo, txBuf, pkt, packetReady>>
linkVars == <<frame, txDataReady>>
airVars  == <<air, damaged>>
vars     == <<nw, ready, pc, sends, imuVars, linkVars, wdt, ran, airVars>>

Inactive == SeqMod + WdtLimit + 1
App      == {"imu", "tx"}
Number   == 0..SeqMod - 1
Packet   == [seq : Number, data : Number]
Frame    == [seq : Number, data : Number, length : {"none", "full"}]

Blank      == [seq |-> 0, data |-> 0]
BlankFrame == [seq |-> 0, data |-> 0, length |-> "none"]

Whole(f) == f.length = "full" /\ f.seq = f.data

\* Faulty variant: tx_task is activated first.
TxFirst == <<"tx", "imu">>

\* The order in which nrk_create_taskset activates the tasks; their offsets
\* end together.
ActivationOrder == <<"imu", "tx">>

\* The node one second after nrk_start: every task has become READY.
Init ==
    /\ nw = "sync"
    /\ ready = ActivationOrder
    /\ pc = [imu |-> "build", tx |-> "start"]
    /\ sends = 1
    /\ sequenceNo = 0
    /\ txBuf = Blank /\ pkt = Blank /\ packetReady = FALSE
    /\ frame = BlankFrame /\ txDataReady = FALSE
    /\ wdt = Inactive /\ ran = FALSE
    /\ air = BlankFrame /\ damaged = 0

-----------------------------------------------------------------------------
(* The application tasks run while the network task sleeps.                *)

NwSleeps == nw \in {"slot", "cycle"}

\* Faulty variant: task_imu has a higher priority than tx_task.
ImuFirst(t) ==
    /\ NwSleeps /\ t \in {ready[i] : i \in DOMAIN ready}
    /\ t # "imu" => "imu" \notin {ready[i] : i \in DOMAIN ready}

MayRun(t) == NwSleeps /\ ready # <<>> /\ Head(ready) = t

At(t, point) == MayRun(t) /\ pc[t] = point /\ ran' = TRUE
Goto(t, point) == pc' = [pc EXCEPT ![t] = point]

\* The queue, of two tasks at most, when one of them waits.
Without(t) == IF Head(ready) = t THEN Tail(ready) ELSE <<Head(ready)>>

\* The 25 ms period of task_imu begins.
ImuDue ==
    /\ pc["imu"] = "asleep"
    /\ Goto("imu", "build")
    /\ ready' = Append(ready, "imu")
    /\ UNCHANGED <<nw, sends, imuVars, linkVars, wdt, ran, airVars>>

\* The sensors are read into tx_buf and the copy to pkt begins ...
ImuBuild ==
    /\ At("imu", "build")
    /\ txBuf' = [seq |-> sequenceNo, data |-> sequenceNo]
    /\ sequenceNo' = (sequenceNo + 1) % SeqMod
    /\ packetReady' = FALSE
    /\ pkt' = [pkt EXCEPT !.seq = sequenceNo]
    /\ Goto("imu", "copy")
    /\ UNCHANGED <<nw, ready, sends, linkVars, wdt, airVars>>

\* ... and ends; the task waits for its next period.
ImuPublish ==
    /\ At("imu", "copy")
    /\ pkt' = [pkt EXCEPT !.data = txBuf.data]
    /\ packetReady' = TRUE
    /\ Goto("imu", "asleep")
    /\ ready' = Without("imu")
    /\ UNCHANGED <<nw, sends, sequenceNo, txBuf, linkVars, wdt, airVars>>

\* tx_task starts the watchdog once.
TxStart ==
    /\ At("tx", "start")
    /\ wdt' = 0
    /\ Goto("tx", "loop")
    /\ UNCHANGED <<nw, ready, sends, imuVars, linkVars, airVars>>

\* The head of its loop: the watchdog is updated, and the loop goes round
\* without a wait while no packet is ready.
TxLoop ==
    /\ At("tx", "loop")
    /\ wdt' = 0
    /\ IF packetReady THEN Goto("tx", "send") ELSE UNCHANGED pc
    /\ sends' = 1
    /\ UNCHANGED <<nw, ready, imuVars, linkVars, airVars>>

\* After a call of tdma_send: the next of the three, or the loop again.
AfterSend == IF sends = 3 THEN "loop" ELSE "send"
NextSend  == IF sends = 3 THEN 1 ELSE sends + 1

\* tdma_send.  The packet is announced before it is copied ...
SendBegin ==
    /\ At("tx", "send")
    /\ IF txDataReady
       THEN Goto("tx", AfterSend) /\ sends' = NextSend /\ UNCHANGED txDataReady
       ELSE Goto("tx", "fill") /\ txDataReady' = TRUE /\ UNCHANGED sends
    /\ UNCHANGED <<nw, ready, imuVars, frame, wdt, airVars>>

\* ... in two parts, the length last ...
SendFill ==
    /\ At("tx", "fill")
    /\ frame' = [frame EXCEPT !.seq = pkt.seq]
    /\ Goto("tx", "filling")
    /\ UNCHANGED <<nw, ready, sends, imuVars, txDataReady, wdt, airVars>>

SendFilled ==
    /\ At("tx", "filling")
    /\ frame' = [frame EXCEPT !.data = pkt.data, !.length = "full"]
    /\ Goto("tx", "filled")
    /\ UNCHANGED <<nw, ready, sends, imuVars, txDataReady, wdt, airVars>>

\* ... and the task waits for the signal that it has been sent.
SendWait ==
    /\ At("tx", "filled")
    /\ Goto("tx", "waiting")
    /\ ready' = Without("tx")
    /\ UNCHANGED <<nw, sends, imuVars, linkVars, wdt, airVars>>

-----------------------------------------------------------------------------
(* The network task in client mode.  While it listens for a beacon it keeps *)
(* the CPU; time passes for the watchdog.                                  *)

Older(w) == IF w = Inactive THEN w ELSE w + 1
Alive    == wdt = Inactive \/ wdt < WdtLimit

NoBeacon ==
    /\ nw = "sync" /\ Alive /\ wdt # Inactive
    /\ wdt' = Older(wdt)
    /\ UNCHANGED <<nw, ready, pc, sends, imuVars, linkVars, ran, airVars>>

HearBeacon ==
    /\ nw = "sync"
    /\ nw' = "slot"
    /\ UNCHANGED <<ready, pc, sends, imuVars, linkVars, wdt, ran, airVars>>

\* nrk_event_signal(tdma_tx_pkt_done_signal): only a task that waits for the
\* signal is told of it.
SignalDone ==
    IF pc["tx"] = "waiting"
    THEN /\ Goto("tx", AfterSend)
         /\ sends' = NextSend
         /\ ready' = Append(ready, "tx")
    ELSE UNCHANGED <<pc, sends, ready>>

\* Faulty variant: the signal is raised in an empty slot too.
SlotSignalsAlways ==
    /\ nw = "slot"
    /\ nw' = "cycle"
    /\ IF txDataReady
       THEN /\ air' = frame
            /\ damaged' = IF Whole(frame) \/ damaged = 2 THEN damaged ELSE damaged + 1
            /\ txDataReady' = FALSE
       ELSE UNCHANGED <<airVars, txDataReady>>
    /\ SignalDone
    /\ UNCHANGED <<imuVars, frame, wdt, ran>>

\* The node's slot: a pending packet is transmitted as it is.
Slot ==
    /\ nw = "slot"
    /\ nw' = "cycle"
    /\ IF txDataReady
       THEN /\ air' = frame
            /\ damaged' = IF Whole(frame) \/ damaged = 2 THEN damaged ELSE damaged + 1
            /\ txDataReady' = FALSE
            /\ SignalDone
       ELSE UNCHANGED <<airVars, txDataReady, ready, pc, sends>>
    /\ UNCHANGED <<imuVars, frame, wdt, ran>>

\* A cycle leaves the application tasks time for one step at least.
CycleEnd ==
    /\ nw = "cycle" /\ Alive
    /\ ran \/ ready = <<>>
    /\ nw' = "sync"
    /\ wdt' = Older(wdt)
    /\ ran' = FALSE
    /\ UNCHANGED <<ready, pc, sends, imuVars, linkVars, airVars>>

-----------------------------------------------------------------------------
\* Faulty variant: the watchdog restarts no node.
WatchdogIgnored == FALSE

\* _nrk_sw_wdt_check, from the scheduler: no error function is set, so that
\* nrk_halt leaves the restart to the hardware watchdog.
SwWatchdog ==
    /\ wdt = WdtLimit
    /\ nw' = "sync"
    /\ ready' = ActivationOrder
    /\ pc' = [imu |-> "build", tx |-> "start"]
    /\ sends' = 1
    /\ sequenceNo' = 0
    /\ txBuf' = Blank /\ pkt' = Blank /\ packetReady' = FALSE
    /\ frame' = BlankFrame /\ txDataReady' = FALSE
    /\ wdt' = Inactive /\ ran' = FALSE
    /\ damaged' = 0
    /\ UNCHANGED air

AppStep == \/ ImuBuild \/ ImuPublish \/ TxStart \/ TxLoop
           \/ SendBegin \/ SendFill \/ SendFilled \/ SendWait

Next ==
    \/ ImuDue \/ AppStep
    \/ NoBeacon \/ HearBeacon \/ Slot \/ CycleEnd
    \/ SwWatchdog

\* A beacon is heard in the end, the timers run, and a task at the head of
\* the queue runs when the network task sleeps.
Fairness ==
    /\ WF_vars(ImuDue) /\ WF_vars(HearBeacon) /\ WF_vars(Slot) /\ WF_vars(CycleEnd)
    /\ WF_vars(SwWatchdog) /\ WF_vars(AppStep)

Spec == Init /\ [][Next]_vars /\ Fairness

-----------------------------------------------------------------------------
Queues == {<<>>, <<"imu">>, <<"tx">>, <<"imu", "tx">>, <<"tx", "imu">>}

QueueOK == /\ ready \in Queues
           /\ pc \in [imu : {"build", "copy", "asleep"},
                      tx : {"start", "loop", "send", "fill", "filling", "filled", "waiting"}]
           /\ pc["imu"] = "asleep" <=> ready \in {<<>>, <<"tx">>}
           /\ pc["tx"] = "waiting" <=> ready \in {<<>>, <<"imu">>}
DataOK  == /\ sequenceNo \in Number /\ txBuf \in Packet /\ pkt \in Packet
           /\ frame \in Frame /\ air \in Frame
FlagsOK == packetReady \in BOOLEAN /\ txDataReady \in BOOLEAN /\ ran \in BOOLEAN
CountOK == /\ nw \in {"sync", "slot", "cycle"} /\ sends \in 1..3
           /\ wdt \in 0..WdtLimit \cup {Inactive} /\ damaged \in 0..2

\* Types; a task is queued exactly while it does not wait
\* (tdma_client/main.c:190-284, pcf_tdma.c:200-262, 548-666).
TypeOK == QueueOK /\ DataOK /\ FlagsOK /\ CountOK

\* What tdma_send hands to the network task is one sample, although task_imu
\* writes pkt without any lock: neither task can take the CPU from the other
\* (tdma_client/main.c:236-243, pcf_tdma.c:245-247).
OneSampleHandedOver ==
    pc["tx"] = "filled" \/ (pc["tx"] = "waiting" /\ txDataReady) => Whole(frame)

\* tx_task never goes round its loop without a packet: it would keep the CPU
\* from task_imu, which is to make one, and its update would keep the
\* watchdog from noticing (tdma_client/main.c:269-278, 288-318).
NeverSpins == pc["tx"] = "loop" /\ MayRun("tx") => packetReady

\* The network task may transmit a packet that is still being copied, for
\* tx_data_ready is set before the copy; but then the signal is lost, and
\* the node sends nothing more until it restarts: it puts one damaged frame
\* at most on the air in a life (pcf_tdma.c:225-253, 644-653, 825-826).
OneDamagedFrame == damaged <= 1

\* Whatever the interleaving of the tasks, a node that does not miss beacons
\* for ever goes on transmitting: the watchdog ends the wait for a signal
\* that was lost (tdma_client/main.c:256-281, nrk_sw_wdt.c:35-55).
TransmitsAgain == []<><<NoBeacon>>_vars \/ []<><<Slot /\ txDataReady>>_vars

-----------------------------------------------------------------------------
(* What a node does is what TdmaSender promises.                           *)

\* The sample task_imu publishes next; before the first it is 0 again.
NextNumber == IF pc["imu"] = "copy" THEN txBuf.data ELSE sequenceNo
HasSample  == ~(NextNumber = 0 /\ pkt.data = 0)
Newest     == IF HasSample THEN pkt.data ELSE SeqMod

InSend == pc["tx"] \in {"fill", "filling", "filled", "waiting"}
Loaded == txDataReady /\ pc["tx"] \in {"filled", "waiting"}
Mute   == ~txDataReady /\ InSend

\* The frame as it was before a copy into it began.
LastFrame ==
    IF Mute THEN BlankFrame
    ELSE IF pc["tx"] = "filling" THEN [frame EXCEPT !.seq = frame.data]
    ELSE frame

Sender == INSTANCE TdmaSender WITH
              current <- Newest,
              buffer  <- LastFrame,
              loaded  <- Loaded,
              mute    <- Mute

\* In each life a node transmits whole samples, each the newest when it was
\* handed over, and a frame that goes out half copied is its last: the two
\* tasks without a lock, the early announcement and the lost signal come to
\* no more than TdmaSender allows (tdma_client/main.c:190-284,
\* pcf_tdma.c:200-262, 637-666).
SendsSamples == Sender!Spec
=============================================================================
