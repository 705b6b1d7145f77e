-------------------------------- MODULE Bmac --------------------------------
(***************************************************************************)
(* B-MAC, the low-power-listening link layer of Nano-RK (bmac.c), with     *)
(* what uses it: a task that receives, a task that sends, and a task that  *)
(* switches the layer off and on.  The network task has a higher priority  *)
(* than these, so that it runs from one of its waits to the next as one    *)
(* step, and comes between any two steps of theirs; nrk_event_signal only  *)
(* reaches a task that waits at that moment.                               *)
(***************************************************************************)
EXTENDS Naturals

CONSTANTS Body, NoPacket    \* what a packet carries; no packet

ASSUME BmacAssumption == NoPacket \notin Body /\ Body # {}

VARIABLES
    nw,          \* where bmac_nw_task waits: "asleep", "listen", "delay", "off",
                 \* or "woken" by the enable signal
    v,           \* its v: 0 when the channel was busy
    rxBufEmpty,  \* rx_buf_empty
    rxBuf,       \* what bmac_rfRxInfo.pPayload points to
    rxReady,     \* rx_ready of the radio, with the frame
    radio,       \* "up" or "down"
    enabled,     \* is_enabled
    ccaActive,   \* cca_active
    txReady,     \* tx_data_ready
    txPayload,   \* bmac_rfTxInfo
    air,         \* the last frame on the air
    receiver,    \* the receiving task
    sender,      \* the sending task: where it is, what it sends, how
    switcher     \* the task that calls bmac_disable and bmac_enable

macVars  == <<nw, v, rxBufEmpty, rxBuf, rxReady, radio, txReady, air>>
taskVars == <<receiver, sender, switcher>>
bmacVars == <<macVars, enabled, ccaActive, txPayload, taskVars>>

\* bmac_init has returned TRUE; no buffer is set yet, which counts as full.
BmacInit ==
    /\ nw = "asleep" /\ v = 1
    /\ rxBufEmpty = FALSE /\ rxBuf = NoPacket /\ rxReady = NoPacket
    /\ radio = "up" /\ enabled = TRUE /\ ccaActive = TRUE
    /\ txReady = FALSE /\ txPayload = NoPacket /\ air = NoPacket
    /\ receiver = "start"
    /\ sender = [at |-> "idle", mine |-> NoPacket, blocking |-> FALSE]
    /\ switcher = "idle"

-----------------------------------------------------------------------------
(* The network task.                                                       *)

SignalRx == receiver' = IF receiver = "waiting" THEN "woken" ELSE receiver

\* Faulty variant: a frame that the radio's own check of the channel refuses
\* counts as sent.
TransmitIfClear(power) ==
    /\ txReady' = FALSE
    /\ air' \in {txPayload, air}
    /\ sender' = IF sender.at = "waiting" THEN [sender EXCEPT !.at = "idle"] ELSE sender

\* The end of _bmac_tx.  A radio that is asleep takes no command, which
\* rf_tx_packet_resend finds out by its own time-out.
Transmit(power) ==
    /\ txReady' = FALSE
    /\ air' = IF power = "up" THEN txPayload ELSE air
    /\ sender' = IF sender.at = "waiting" THEN [sender EXCEPT !.at = "idle"] ELSE sender

\* The rest of the loop, with the radio as it is: _bmac_tx up to its first
\* wait, or the sleep, with the radio powered down.
SendOrSleep(power) ==
    IF txReady /\ ccaActive
    THEN /\ nw' = "delay" /\ radio' = power
         /\ UNCHANGED <<txReady, air, sender>>
    ELSE /\ nw' = "asleep" /\ radio' = "down"
         /\ IF txReady THEN Transmit(power) ELSE UNCHANGED <<txReady, air, sender>>

\* Faulty variants: v is what the round before left; the signal of a packet
\* is raised once.
FullKeepsV   == v' = v /\ SignalRx
FullSilently == v' = 1 /\ UNCHANGED receiver

\* The buffer is still full: its reader is signalled again.
StillFull == v' = 1 /\ SignalRx

\* bmac_nw_task from the top of its loop, when its wait has ended.  The radio
\* is powered up before is_enabled is looked at.
Check ==
    /\ nw \in {"asleep", "woken"}
    /\ IF ~enabled
       THEN nw' = "off" /\ radio' = "up" /\ UNCHANGED <<v, receiver, txReady, air, sender>>
       ELSE /\ IF rxBufEmpty THEN v' \in {0, 1} /\ UNCHANGED receiver
                             ELSE StillFull
            /\ IF v' = 0
               THEN nw' = "listen" /\ radio' = "up" /\ UNCHANGED <<txReady, air, sender>>
               ELSE SendOrSleep("up")
    /\ UNCHANGED <<rxBufEmpty, rxBuf, rxReady, enabled, ccaActive, txPayload, switcher>>

\* TRX24_RX_END, during the 5 ms of _bmac_rx
FrameArrives(p) ==
    /\ nw = "listen" /\ radio = "up" /\ rxReady = NoPacket
    /\ rxReady' = p
    /\ UNCHANGED <<nw, v, rxBufEmpty, rxBuf, radio, txReady, air,
                   enabled, ccaActive, txPayload, taskVars>>

\* The rest of _bmac_rx: a frame that fits is copied and signalled; rf_rx_off
\* forgets any other.
ListenEnd ==
    /\ nw = "listen"
    /\ \/ /\ rxReady # NoPacket
          /\ rxBuf' = rxReady /\ rxBufEmpty' = FALSE
          /\ SignalRx
       \/ UNCHANGED <<rxBuf, rxBufEmpty, receiver>>
    /\ rxReady' = NoPacket
    /\ SendOrSleep(radio)
    /\ UNCHANGED <<v, enabled, ccaActive, txPayload, switcher>>

\* _bmac_tx after one of its delays, when the channel is clear; a busy one
\* brings another delay, in which nothing is received either.  The check of a
\* radio that is asleep yields neither 0 nor 1, which ends the loop too.
DelayClear ==
    /\ nw = "delay"
    /\ nw' = "asleep" /\ radio' = "down"
    /\ Transmit(radio)
    /\ UNCHANGED <<v, rxBufEmpty, rxBuf, rxReady, enabled, ccaActive, txPayload,
                   receiver, switcher>>

NwStep == Check \/ ListenEnd \/ DelayClear

-----------------------------------------------------------------------------
(* The receiving task: bmac_rx_pkt_set_buffer once, then for each packet   *)
(* bmac_wait_until_rx_pkt, bmac_rx_pkt_get and bmac_rx_pkt_release.        *)

Receiver(from, to) ==
    /\ receiver = from
    /\ receiver' = to
    /\ UNCHANGED <<nw, v, rxBuf, rxReady, radio, txReady, air, enabled, ccaActive,
                   txPayload, sender, switcher>>

SetBuffer == Receiver("start", "test") /\ rxBufEmpty' = TRUE

TestReady ==
    /\ Receiver("test", IF rxBufEmpty THEN "not ready" ELSE "woken")
    /\ UNCHANGED rxBufEmpty

WaitRx  == Receiver("not ready", "waiting") /\ UNCHANGED rxBufEmpty
GetPkt  == Receiver("woken", IF rxBufEmpty THEN "test" ELSE "using") /\ UNCHANGED rxBufEmpty
Release == Receiver("using", "test") /\ rxBufEmpty' = TRUE

ReceiverStep == SetBuffer \/ TestReady \/ WaitRx \/ GetPkt \/ Release

-----------------------------------------------------------------------------
(* The sending task: bmac_tx_pkt, or bmac_tx_pkt_nonblocking.              *)

Sender(from, to) ==
    /\ sender.at = from
    /\ sender' = [sender EXCEPT !.at = to]
    /\ UNCHANGED <<nw, v, rxBufEmpty, rxBuf, rxReady, radio, air, enabled, ccaActive,
                   receiver, switcher>>

\* A pending packet refuses the call.
TxPkt(p, b) ==
    /\ sender.at = "idle" /\ ~txReady
    /\ sender' = [at |-> "announce", mine |-> p, blocking |-> b]
    /\ UNCHANGED <<macVars, enabled, ccaActive, txPayload, receiver, switcher>>

\* The packet is announced before it is set ...
Announce == Sender("announce", "set") /\ txReady' = TRUE /\ UNCHANGED txPayload

SetPacket ==
    /\ Sender("set", IF sender.blocking THEN "filled" ELSE "idle")
    /\ txPayload' = sender.mine
    /\ UNCHANGED txReady

\* ... and only then the blocking call waits.
WaitDone == Sender("filled", "waiting") /\ UNCHANGED <<txReady, txPayload>>

SenderStep == Announce \/ SetPacket \/ WaitDone
-----------------------------------------------------------------------------
(* bmac_disable, bmac_enable and bmac_set_cca_active.                      *)

Switcher(from, to) ==
    /\ switcher = from
    /\ switcher' = to
    /\ UNCHANGED <<v, rxBufEmpty, rxBuf, rxReady, txReady, air, ccaActive, txPayload,
                   receiver, sender>>

Disable   == Switcher("idle", "down") /\ enabled /\ enabled' = FALSE /\ UNCHANGED <<nw, radio>>
PowerDown == Switcher("down", "idle") /\ radio' = "down" /\ UNCHANGED <<nw, enabled>>

\* Faulty variant: the network task is not told.
EnableSilently ==
    /\ Switcher("up", "idle")
    /\ radio' = "up"
    /\ UNCHANGED <<nw, enabled>>

Enable       == Switcher("idle", "up") /\ ~enabled /\ enabled' = TRUE /\ UNCHANGED <<nw, radio>>
EnableSignal ==
    /\ Switcher("up", "idle")
    /\ radio' = "up"
    /\ nw' = IF nw = "off" THEN "woken" ELSE nw
    /\ UNCHANGED enabled

SetCca(b) ==
    /\ switcher = "idle"
    /\ ccaActive' = b
    /\ UNCHANGED <<macVars, enabled, txPayload, taskVars>>

SwitcherStep == PowerDown \/ EnableSignal

BmacNext ==
    \/ NwStep \/ \E p \in Body : FrameArrives(p)
    \/ ReceiverStep
    \/ SenderStep \/ \E p \in Body, b \in BOOLEAN : TxPkt(p, b)
    \/ SwitcherStep \/ Disable \/ Enable \/ \E b \in BOOLEAN : SetCca(b)

\* Every wait ends, every task goes on with the call it is in, and the channel
\* is clear at one of the checks that are made again and again.
BmacFairness ==
    /\ WF_bmacVars(Check) /\ WF_bmacVars(ListenEnd) /\ SF_bmacVars(DelayClear)
    /\ WF_bmacVars(ReceiverStep) /\ WF_bmacVars(SenderStep) /\ WF_bmacVars(SwitcherStep)

BmacSpec == BmacInit /\ [][BmacNext]_bmacVars /\ BmacFairness

-----------------------------------------------------------------------------
Packet == Body \cup {NoPacket}

\* Types; the network task listens only while there is a buffer to receive in
\* (bmac.c:408-437).
BmacTypeOK ==
    /\ nw \in {"asleep", "listen", "delay", "off", "woken"} /\ v \in {0, 1}
    /\ rxBufEmpty \in BOOLEAN /\ rxBuf \in Packet /\ rxReady \in Packet
    /\ nw = "listen" => rxBufEmpty
    /\ radio \in {"up", "down"} /\ enabled \in BOOLEAN /\ ccaActive \in BOOLEAN
    /\ txReady \in BOOLEAN /\ txPayload \in Packet /\ air \in Packet
    /\ receiver \in {"start", "test", "not ready", "waiting", "woken", "using"}
    /\ sender \in [at : {"idle", "announce", "set", "filled", "waiting"},
                   mine : Packet, blocking : BOOLEAN]
    /\ switcher \in {"idle", "down", "up"}

\* A packet the application has got is not overwritten until it is released,
\* although the layer has one buffer and waits between the test of it and the
\* copy (bmac.c:416-437, 500-532, 352-374).
HeldPacketStable == [][receiver = "using" => rxBuf' = rxBuf]_bmacVars

\* A blocking send that returns has had its own packet transmitted, not the
\* one that was set before, unless the radio was powered down while it waited
\* for a clear channel (bmac.c:321-349, 560-627).
SentIsOwn ==
    [][sender.at = "waiting" /\ sender'.at # "waiting"
          => air' = sender.mine \/ radio = "down"]_bmacVars

LeftEnabled == <>[]enabled

\* A packet that has been received is got by the application, although the
\* signal is lost on a task that has found no packet and does not wait yet
\* (bmac.c:209-224, 417-419).
ReceivedIsGot ==
    LeftEnabled => ((~rxBufEmpty /\ receiver # "start") ~> receiver = "using")

\* A packet that is still pending when its sender waits brings the sender
\* back, in particular the network task is woken when the layer is enabled
\* again, whenever the flag was changed (bmac.c:335-341, 376-387, 450-461,
\* 639-640).
PendingSenderReturns ==
    LeftEnabled => ((sender.at = "waiting" /\ txReady) ~> sender.at = "idle")
=============================================================================
