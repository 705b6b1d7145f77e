----------------------------- MODULE SampleLog -----------------------------
(***************************************************************************)
(* From the nodes to the file: each node transmits its current sample in   *)
(* its slot, the master polls its radio once per slot into one buffer,     *)
(* rx_task copies the packet out of the buffer and sends it down the       *)
(* serial line, and the logger writes a row unless it has seen the         *)
(* sequence number.  A packet has a head, the node's address and sequence  *)
(* number, and data; a sample is known by its node, its sequence number,   *)
(* and its epoch, which ends when the number starts again from 0.          *)
(***************************************************************************)
EXTENDS Naturals, Sequences

CONSTANTS
    Mac,        \* the addresses of the nodes
    SlotNo,     \* slots of a cycle
    SlotLen,    \* their length in ms, the last byte of a beacon's header
    BeaconSum,  \* the checksum _tdma_tx writes behind that byte
    MaxNodes,   \* MAX_NODES of the logger
    SeqMod,     \* sequence numbers are counted modulo this, 256 in the code
    MaxSample,  \* bound: the last sample of each node, epochs counted too
    MaxWire     \* bound: packets on their way to the logger

\* "SLOT NUMBER: number of clients + 1" (tdma_master/main.c:38): the last
\* slot is nobody's.
ASSUME LogAssumption ==
    /\ SlotNo \in Nat /\ SlotLen \in Nat /\ BeaconSum \in Nat
    /\ MaxNodes \in Nat /\ MaxWire \in Nat
    /\ SeqMod \in Nat \ {0, 1}
    /\ Mac \subseteq Nat \ {0} /\ Mac # {}
    /\ \A m \in Mac : m < SlotNo /\ m < MaxNodes
    /\ MaxSample \in [Mac -> Nat]

VARIABLES
    current,     \* the sample in pkt of each node
    frame,       \* the packet each node has pending, or Nothing
    slot,        \* the slot of the master
    radio,       \* the frame in the transceiver's buffer, or Nothing
    rxBuf,       \* tdma_rx_buf
    rxBufEmpty,  \* tdma_rx_buf_empty
    rxTask,      \* where rx_task is
    rxCopy,      \* its rx_buf
    wire,        \* packets between slip_tx and the logger
    sequences,   \* the logger's last number of each node
    logged       \* the samples of its rows

nodeVars == <<current, frame>>
hostVars == <<slot, radio, rxBuf, rxBufEmpty>>
taskVars == <<rxTask, rxCopy>>
logVars  == <<sequences, logged>>
vars     == <<nodeVars, hostVars, taskVars, wire, logVars>>

Sample == [mac : Mac, epoch : Nat, seq : 0..SeqMod - 1]
Packet == [mac : Nat, seq : Nat, data : Sample]

Nothing == [mac |-> 0]
AnyMac  == CHOOSE m \in Mac : TRUE
First(m) == [mac |-> m, epoch |-> 0, seq |-> 0]

Packed(s) == [mac |-> s.mac, seq |-> s.seq, data |-> s]

Init ==
    /\ current = [m \in Mac |-> First(m)]
    /\ frame = [m \in Mac |-> Nothing]
    /\ slot = 0
    /\ radio = Nothing
    /\ rxBuf = Packed(First(AnyMac)) /\ rxBufEmpty = TRUE
    /\ rxTask = "poll" /\ rxCopy = Packed(First(AnyMac))
    /\ wire = <<>>
    /\ sequences = [m \in 0..MaxNodes - 1 |-> 0]
    /\ logged = {}

-----------------------------------------------------------------------------
(* A node (TdmaNode has its tasks).                                        *)

FirstOfNextEpoch(s) == [mac |-> s.mac, epoch |-> s.epoch + 1, seq |-> 0]

\* The number is a byte of the packet.
NextSample(s) == IF s.seq = SeqMod - 1 THEN FirstOfNextEpoch(s)
                 ELSE [s EXCEPT !.seq = @ + 1]

\* task_imu
NewSample(m) ==
    /\ current[m].epoch * SeqMod + current[m].seq < MaxSample[m]
    /\ current' = [current EXCEPT ![m] = NextSample(current[m])]
    /\ UNCHANGED <<frame, hostVars, taskVars, wire, logVars>>

\* tdma_send: while the sample stays, it is sent over and over.
Load(m) ==
    /\ frame[m] = Nothing
    /\ frame' = [frame EXCEPT ![m] = Packed(current[m])]
    /\ UNCHANGED <<current, hostVars, taskVars, wire, logVars>>

\* The software watchdog restarts the node, which counts from 0 again.
Restart(m) ==
    /\ (current[m].epoch + 1) * SeqMod <= MaxSample[m]
    /\ current' = [current EXCEPT ![m] = FirstOfNextEpoch(current[m])]
    /\ frame' = [frame EXCEPT ![m] = Nothing]
    /\ UNCHANGED <<hostVars, taskVars, wire, logVars>>

-----------------------------------------------------------------------------
(* The network task of the master.                                         *)

SlotOf(m) == IF m > SlotNo THEN SlotNo ELSE m

\* Frames of the nodes whose slot it is: any of them may be sent, and one
\* may be received if the buffer of the transceiver is free; an unread frame
\* is protected from the next (RX_SAFE_MODE).
Upstream(s, unread) ==
    \E sending \in SUBSET {m \in Mac : SlotOf(m) = s /\ frame[m] # Nothing} :
        /\ frame' = [m \in Mac |-> IF m \in sending THEN Nothing ELSE frame[m]]
        /\ radio' \in {unread} \cup
             (IF unread = Nothing THEN {frame[m] : m \in sending} ELSE {})

\* A slot begins with _tdma_rx_master; while rx_task has not released the
\* buffer, rf_rx_off throws an unread frame away.
Slot ==
    /\ slot < SlotNo
    /\ slot' = slot + 1
    /\ Upstream(slot + 1, Nothing)
    /\ IF rxBufEmpty /\ radio # Nothing
       THEN rxBuf' = radio /\ rxBufEmpty' = FALSE
       ELSE UNCHANGED <<rxBuf, rxBufEmpty>>
    /\ UNCHANGED <<current, taskVars, wire, logVars>>

\* The beacon is written to the buffer of the transceiver without a look at
\* it: its header ends where the payload of an unread frame begins.
Beacon ==
    /\ slot = SlotNo
    /\ slot' = 0
    /\ radio' = IF radio = Nothing THEN Nothing
                ELSE [radio EXCEPT !.mac = SlotLen, !.seq = BeaconSum]
    /\ UNCHANGED <<nodeVars, rxBuf, rxBufEmpty, taskVars, wire, logVars>>

-----------------------------------------------------------------------------
(* rx_task, which the network task may interrupt between any two steps.    *)

\* Faulty variant: the buffer is released before it is copied.
RecvHeadReleasing ==
    /\ rxTask = "poll" /\ ~rxBufEmpty
    /\ rxCopy' = [rxCopy EXCEPT !.mac = rxBuf.mac, !.seq = rxBuf.seq]
    /\ rxTask' = "copy"
    /\ rxBufEmpty' = TRUE
    /\ UNCHANGED <<nodeVars, slot, radio, rxBuf, wire, logVars>>

\* tdma_recv: the packet is copied ...
RecvHead ==
    /\ rxTask = "poll" /\ ~rxBufEmpty
    /\ rxCopy' = [rxCopy EXCEPT !.mac = rxBuf.mac, !.seq = rxBuf.seq]
    /\ rxTask' = "copy"
    /\ UNCHANGED <<nodeVars, hostVars, wire, logVars>>

RecvData ==
    /\ rxTask = "copy"
    /\ rxCopy' = [rxCopy EXCEPT !.data = rxBuf.data]
    /\ rxTask' = "copied"
    /\ UNCHANGED <<nodeVars, hostVars, wire, logVars>>

\* ... and the buffer released.
RecvDone ==
    /\ rxTask = "copied"
    /\ rxBufEmpty' = TRUE
    /\ rxTask' = "forward"
    /\ UNCHANGED <<nodeVars, slot, radio, rxBuf, rxCopy, wire, logVars>>

\* slip_tx (SlipLine has its bytes).
Forward ==
    /\ rxTask = "forward" /\ Len(wire) < MaxWire
    /\ wire' = Append(wire, rxCopy)
    /\ rxTask' = "poll"
    /\ UNCHANGED <<nodeVars, hostVars, rxCopy, logVars>>

-----------------------------------------------------------------------------
(* The logger.                                                             *)

\* A frame with a bad checksum, or a datagram nobody waits for.
LosePacket ==
    /\ wire # <<>>
    /\ wire' = Tail(wire)
    /\ UNCHANGED <<nodeVars, hostVars, taskVars, logVars>>

\* Faulty variants: the number seen last is not seen; and one number is
\* kept for all nodes.
SeenBefore(p) == p.seq < sequences[p.mac] /\ p.seq # 0
SeenFromAny(p) == (\E m \in Mac : p.seq <= sequences[m]) /\ p.seq # 0

Seen(p) == p.seq <= sequences[p.mac] /\ p.seq # 0

Accepted(p) == p.mac < MaxNodes /\ ~Seen(p)

\* unpack, and the row of an accepted packet.
LoggerReads ==
    /\ wire # <<>>
    /\ wire' = Tail(wire)
    /\ LET p == Head(wire) IN
       IF Accepted(p)
       THEN /\ sequences' = [sequences EXCEPT ![p.mac] = p.seq]
            /\ logged' = logged \cup {p.data}
       ELSE UNCHANGED logVars
    /\ UNCHANGED <<nodeVars, hostVars, taskVars>>

Next ==
    \/ \E m \in Mac : NewSample(m) \/ Load(m) \/ Restart(m)
    \/ Slot \/ Beacon
    \/ RecvHead \/ RecvData \/ RecvDone \/ Forward
    \/ LosePacket \/ LoggerReads

Spec == Init /\ [][Next]_vars

-----------------------------------------------------------------------------
Whole(p) == p.mac = p.data.mac /\ p.seq = p.data.seq

\* Types; the buffer of the link is full while rx_task copies from it
\* (pcf_tdma.c:264-320, 683-733).
TypeOK ==
    /\ current \in [Mac -> Sample]
    /\ \A m \in Mac : frame[m] = Nothing \/ frame[m] \in Packet
    /\ slot \in 0..SlotNo
    /\ radio = Nothing \/ radio \in Packet
    /\ rxBuf \in Packet /\ rxBufEmpty \in BOOLEAN
    /\ rxTask \in {"poll", "copy", "copied", "forward"} /\ rxCopy \in Packet
    /\ rxTask \in {"copy", "copied"} => ~rxBufEmpty
    /\ wire \in Seq(Packet) /\ Len(wire) <= MaxWire
    /\ sequences \in [0..MaxNodes - 1 -> Nat]
    /\ logged \subseteq Sample

\* What the master forwards is what a node sent, although one buffer of the
\* transceiver serves both directions and one buffer of the link passes
\* packets from the network task to rx_task: no packet gets the head of one
\* and the data of another, or the bytes of a beacon
\* (pcf_tdma.c:264-320, 475-545, 683-733, 812-813).
ForwardsWhole == \A i \in DOMAIN wire : Whole(wire[i])

\* A node sends each sample several times, but no sample gets a second row
\* unless its number is 0, across restarts of the nodes and wraps of the
\* number (driver_accelerometers/main.c:54-88).
NoSampleTwice ==
    \A i \in {1} \cap DOMAIN wire :
        wire[i].seq # 0 /\ wire[i].data \in logged => ~Accepted(wire[i])

Newest(p) == \A s \in logged :
    s.mac = p.mac /\ s.epoch = p.data.epoch => s.seq < p.seq

\* Once the first sample of an epoch has its row, each later sample of that
\* epoch that arrives gets one too (driver_accelerometers/main.c:70-75).
FreshIsLogged ==
    \A i \in {1} \cap DOMAIN wire :
        LET p == wire[i] IN
        [mac |-> p.mac, epoch |-> p.data.epoch, seq |-> 0] \in logged /\ Newest(p)
          => Accepted(p)

\* A packet the logger reports as "sequence seen" carries a sample that has
\* its row (driver_accelerometers/main.c:70-73).
SeenMeansSeen ==
    \A i \in {1} \cap DOMAIN wire : Seen(wire[i]) => wire[i].data \in logged
=============================================================================
