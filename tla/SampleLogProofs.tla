-------------------------- MODULE SampleLogProofs --------------------------
(***************************************************************************)
(* What the master forwards is whole, for every number of nodes, slots and *)
(* samples.  ForwardsWhole is not inductive: a packet on the wire was      *)
(* copied by rx_task from the buffer of the link, which was copied from    *)
(* the buffer of the transceiver, so Inv follows it through all of them.   *)
(* SpareSlot is what keeps the beacon off an unread frame: the last slot   *)
(* is nobody's, and the poll it begins with has emptied the buffer.        *)
(*                                                                         *)
(* What the logger makes of the samples, NoSampleTwice and FreshIsLogged,  *)
(* rests on their order: at each stage between a node and the wire there   *)
(* are samples none of which comes after those of the stage before it      *)
(* (Flow), and the samples on the wire are in order (WireOrdered).         *)
(***************************************************************************)
EXTENDS SampleLog, TLAPS

FramesWhole == \A m \in Mac : frame[m] # Nothing => Whole(frame[m])
RadioWhole  == radio # Nothing => Whole(radio)
SpareSlot   == slot = SlotNo => radio = Nothing
CopyWhole   == /\ rxTask = "copy" => rxCopy.mac = rxBuf.mac /\ rxCopy.seq = rxBuf.seq
               /\ rxTask \in {"copied", "forward"} => Whole(rxCopy)

Inv == /\ TypeOK /\ FramesWhole /\ RadioWhole /\ SpareSlot /\ Whole(rxBuf)
       /\ CopyWhole /\ ForwardsWhole

LEMMA Constants == /\ SlotNo \in Nat /\ SeqMod \in Nat /\ SeqMod > 1
                   /\ MaxNodes \in Nat /\ SlotNo # 0
<1> PICK m \in Mac : TRUE
  BY LogAssumption
<1>1. m \in Nat /\ SlotNo \in Nat /\ m < SlotNo
  BY LogAssumption
<1>2. SeqMod \in Nat /\ SeqMod > 1 /\ MaxNodes \in Nat
  BY LogAssumption
<1> QED BY <1>1, <1>2

\* A packet made of a sample is whole.
LEMMA PackedWhole == ASSUME NEW s \in Sample PROVE Packed(s) \in Packet /\ Whole(Packed(s))
<1>1. s.seq \in 0..SeqMod - 1 /\ s.mac \in Mac
  BY DEF Sample
<1>2. s.seq \in Nat
  BY <1>1, Constants
<1>3. s.mac \in Nat
  BY <1>1, LogAssumption
<1> QED BY <1>2, <1>3 DEF Packed, Packet, Whole

LEMMA FirstSample == ASSUME NEW m \in Mac PROVE First(m) \in Sample
<1>1. 0 \in 0..SeqMod - 1
  BY Constants
<1> QED BY <1>1 DEF First, Sample

\* No node transmits in the last slot.
LEMMA LastSlotFree == ASSUME NEW m \in Mac PROVE SlotOf(m) # SlotNo
<1>1. m \in Nat /\ SlotNo \in Nat /\ m < SlotNo
  BY LogAssumption
<1> QED BY <1>1 DEF SlotOf

LEMMA InitInv == Init => Inv
<1> SUFFICES ASSUME Init PROVE Inv
  OBVIOUS
<1>1. AnyMac \in Mac
  BY LogAssumption DEF AnyMac
<1>2. Packed(First(AnyMac)) \in Packet /\ Whole(Packed(First(AnyMac)))
  BY <1>1, FirstSample, PackedWhole
<1>3. TypeOK
  BY <1>2, FirstSample, LogAssumption DEF Init, TypeOK
<1> QED BY <1>2, <1>3, Constants
       DEF Init, Inv, FramesWhole, RadioWhole, SpareSlot, CopyWhole, ForwardsWhole

-----------------------------------------------------------------------------
LEMMA SampleFollows ==
    ASSUME NEW s \in Sample
    PROVE  FirstOfNextEpoch(s) \in Sample /\ NextSample(s) \in Sample
<1>1. s.mac \in Mac /\ s.epoch \in Nat /\ s.seq \in 0..SeqMod - 1
  BY DEF Sample
<1>2. s.epoch + 1 \in Nat /\ 0 \in 0..SeqMod - 1
  BY <1>1, Constants
<1>3. FirstOfNextEpoch(s) \in Sample
  BY <1>1, <1>2 DEF FirstOfNextEpoch, Sample
<1>4. CASE s.seq = SeqMod - 1
  BY <1>3, <1>4 DEF NextSample
<1>5. CASE s.seq # SeqMod - 1
  <2>1. s.seq + 1 \in 0..SeqMod - 1
    BY <1>1, <1>5, Constants
  <2>2. [s EXCEPT !.seq = s.seq + 1] \in Sample
    BY <2>1 DEF Sample
  <2> QED BY <1>3, <1>5, <2>2 DEF NextSample
<1> QED BY <1>3, <1>4, <1>5

\* The nodes.
LEMMA NewSampleInv == ASSUME Inv, NEW m \in Mac, NewSample(m) PROVE Inv'
<1>1. NextSample(current[m]) \in Sample
  BY SampleFollows DEF Inv, TypeOK
<1>2. current' \in [Mac -> Sample]
  BY <1>1 DEF NewSample, Inv, TypeOK
<1> QED BY <1>2 DEF NewSample, Inv, TypeOK, FramesWhole, RadioWhole, SpareSlot, CopyWhole,
                    ForwardsWhole, Whole, hostVars, taskVars, logVars

LEMMA LoadInv == ASSUME Inv, NEW m \in Mac, Load(m) PROVE Inv'
<1> DEFINE p == Packed(current[m])
<1>1. p \in Packet /\ Whole(p)
  BY PackedWhole DEF Inv, TypeOK
<1>2. frame' = [frame EXCEPT ![m] = p]
  BY DEF Load
<1> HIDE DEF p
<1>3. \A k \in Mac : frame'[k] = frame[k] \/ frame'[k] = p
  BY <1>2 DEF Inv, TypeOK
<1> QED BY <1>1, <1>3 DEF Load, Inv, TypeOK, FramesWhole, RadioWhole, SpareSlot, CopyWhole,
                    ForwardsWhole, Whole, hostVars, taskVars, logVars

LEMMA RestartInv == ASSUME Inv, NEW m \in Mac, Restart(m) PROVE Inv'
<1>1. FirstOfNextEpoch(current[m]) \in Sample
  BY SampleFollows DEF Inv, TypeOK
<1>2. current' \in [Mac -> Sample]
  BY <1>1 DEF Restart, Inv, TypeOK
<1>3. \A k \in Mac : frame'[k] = frame[k] \/ frame'[k] = Nothing
  BY DEF Restart, Inv, TypeOK
<1> QED BY <1>2, <1>3 DEF Restart, Inv, TypeOK, FramesWhole, RadioWhole, SpareSlot,
                    CopyWhole, ForwardsWhole, Whole, hostVars, taskVars, logVars

-----------------------------------------------------------------------------
(* The network task of the master.                                         *)

\* What the transceiver holds after a slot that began with an empty buffer.
LEMMA UpstreamWhole ==
    ASSUME Inv, NEW s \in 0..SlotNo, Upstream(s, Nothing)
    PROVE  /\ \A m \in Mac : frame'[m] = Nothing \/ frame'[m] \in Packet
           /\ FramesWhole'
           /\ radio' = Nothing \/ radio' \in Packet
           /\ RadioWhole'
           /\ s = SlotNo => radio' = Nothing
<1>1. PICK sending \in SUBSET {m \in Mac : SlotOf(m) = s /\ frame[m] # Nothing} :
          /\ frame' = [m \in Mac |-> IF m \in sending THEN Nothing ELSE frame[m]]
          /\ radio' \in {Nothing} \cup {frame[m] : m \in sending}
  BY DEF Upstream
<1>2. \A m \in Mac : frame'[m] = Nothing \/ frame'[m] = frame[m]
  BY <1>1
<1>3. radio' = Nothing \/ \E m \in sending : radio' = frame[m]
  BY <1>1
<1>4. \A m \in sending : m \in Mac /\ SlotOf(m) = s /\ frame[m] # Nothing
  OBVIOUS
<1>5. \A m \in sending : frame[m] \in Packet /\ Whole(frame[m])
  BY <1>4 DEF Inv, TypeOK, FramesWhole
<1>6. s = SlotNo => sending = {}
  BY <1>4, LastSlotFree
<1>7. radio' = Nothing \/ (radio' \in Packet /\ Whole(radio'))
  BY <1>3, <1>5 DEF Whole
<1>8. FramesWhole'
  BY <1>2 DEF FramesWhole, Inv, Whole
<1>9. \A m \in Mac : frame'[m] = Nothing \/ frame'[m] \in Packet
  BY <1>2 DEF Inv, TypeOK
<1> QED BY <1>3, <1>6, <1>7, <1>8, <1>9 DEF RadioWhole

LEMMA SlotInv == ASSUME Inv, Slot PROVE Inv'
<1>1. slot + 1 \in 0..SlotNo /\ slot' = slot + 1
  BY Constants DEF Slot, Inv, TypeOK
<1>2. Upstream(slot + 1, Nothing)
  BY DEF Slot
<1>3. /\ \A m \in Mac : frame'[m] = Nothing \/ frame'[m] \in Packet
      /\ FramesWhole'
      /\ radio' = Nothing \/ radio' \in Packet
      /\ RadioWhole'
      /\ slot + 1 = SlotNo => radio' = Nothing
  BY <1>1, <1>2, UpstreamWhole
<1>4. SpareSlot'
  BY <1>1, <1>3 DEF SpareSlot
<1>5. /\ rxBuf' \in Packet /\ Whole(rxBuf') /\ rxBufEmpty' \in BOOLEAN
      /\ rxTask \in {"copy", "copied"} => ~rxBufEmpty' /\ rxBuf' = rxBuf
  <2>1. CASE rxBufEmpty /\ radio # Nothing
    BY <2>1 DEF Slot, Inv, TypeOK, RadioWhole
  <2>2. CASE ~(rxBufEmpty /\ radio # Nothing)
    BY <2>2 DEF Slot, Inv, TypeOK
  <2> QED BY <2>1, <2>2
<1>6. UNCHANGED <<current, taskVars, wire, logVars>>
  BY DEF Slot
<1>7. CopyWhole'
  BY <1>5, <1>6 DEF CopyWhole, Inv, Whole, taskVars
<1>8. TypeOK'
  BY <1>1, <1>3, <1>5, <1>6 DEF TypeOK, Inv, taskVars, logVars
<1>9. ForwardsWhole' /\ Whole(rxBuf)'
  BY <1>5, <1>6 DEF ForwardsWhole, Inv, Whole
<1> QED BY <1>3, <1>4, <1>7, <1>8, <1>9 DEF Inv

LEMMA BeaconInv == ASSUME Inv, Beacon PROVE Inv'
<1>1. radio = Nothing /\ radio' = Nothing /\ slot' = 0
  BY DEF Beacon, Inv, SpareSlot
<1> QED BY <1>1, Constants DEF Beacon, Inv, TypeOK, FramesWhole, RadioWhole, SpareSlot,
                    CopyWhole, ForwardsWhole, Whole, nodeVars, taskVars, logVars

-----------------------------------------------------------------------------
(* rx_task and the logger.                                                 *)

LEMMA RecvHeadInv == ASSUME Inv, RecvHead PROVE Inv'
<1>1. rxCopy' \in Packet /\ rxCopy'.mac = rxBuf.mac /\ rxCopy'.seq = rxBuf.seq
  BY DEF RecvHead, Inv, TypeOK, Packet
<1> QED BY <1>1 DEF RecvHead, Inv, TypeOK, FramesWhole, RadioWhole, SpareSlot, CopyWhole,
                    ForwardsWhole, Whole, nodeVars, hostVars, logVars

LEMMA RecvDataInv == ASSUME Inv, RecvData PROVE Inv'
<1>1. rxTask = "copy" /\ rxCopy.mac = rxBuf.mac /\ rxCopy.seq = rxBuf.seq
  BY DEF RecvData, Inv, CopyWhole
<1>2. /\ rxCopy' \in Packet /\ rxCopy'.data = rxBuf.data
      /\ rxCopy'.mac = rxCopy.mac /\ rxCopy'.seq = rxCopy.seq
  BY DEF RecvData, Inv, TypeOK, Packet
<1>3. Whole(rxCopy)'
  BY <1>1, <1>2 DEF Inv, Whole
<1> QED BY <1>1, <1>2, <1>3 DEF RecvData, Inv, TypeOK, FramesWhole, RadioWhole, SpareSlot,
                    CopyWhole, ForwardsWhole, Whole, nodeVars, hostVars, logVars

LEMMA RecvDoneInv == ASSUME Inv, RecvDone PROVE Inv'
BY DEF RecvDone, Inv, TypeOK, FramesWhole, RadioWhole, SpareSlot, CopyWhole, ForwardsWhole,
       Whole, nodeVars, logVars

LEMMA ForwardInv == ASSUME Inv, Forward PROVE Inv'
<1>1. rxTask = "forward" /\ Whole(rxCopy) /\ rxCopy \in Packet
  BY DEF Forward, Inv, CopyWhole, TypeOK
<1>2. wire \in Seq(Packet) /\ Len(wire) < MaxWire /\ wire' = Append(wire, rxCopy)
  BY DEF Forward, Inv, TypeOK
<1>3. wire' \in Seq(Packet) /\ Len(wire') <= MaxWire
  BY <1>1, <1>2, LogAssumption
<1>4. ASSUME NEW i \in DOMAIN wire' PROVE Whole(wire'[i])
  <2>1. i \in 1..Len(wire) + 1 /\ DOMAIN wire = 1..Len(wire)
    BY <1>1, <1>2
  <2>2. CASE i \in 1..Len(wire)
    BY <1>1, <1>2, <2>1, <2>2 DEF Inv, ForwardsWhole
  <2>3. CASE i = Len(wire) + 1
    BY <1>1, <1>2, <2>3
  <2> QED BY <1>2, <2>1, <2>2, <2>3
<1>5. ForwardsWhole'
  BY <1>4 DEF ForwardsWhole, Whole
<1> QED BY <1>1, <1>3, <1>5 DEF Forward, Inv, TypeOK, FramesWhole, RadioWhole, SpareSlot,
                    CopyWhole, Whole, nodeVars, hostVars, logVars

\* The wire without its first packet.
LEMMA TailWhole ==
    ASSUME Inv, wire # <<>>, wire' = Tail(wire)
    PROVE  /\ wire' \in Seq(Packet) /\ Len(wire') <= MaxWire
           /\ ForwardsWhole'
           /\ Head(wire) \in Packet
<1>1. wire \in Seq(Packet) /\ Len(wire) <= MaxWire /\ MaxWire \in Nat
  BY LogAssumption DEF Inv, TypeOK
<1>2. wire' \in Seq(Packet) /\ Len(wire') <= MaxWire /\ Head(wire) \in Packet
  BY <1>1
<1>3. \A i \in DOMAIN wire' : i + 1 \in DOMAIN wire /\ wire'[i] = wire[i + 1]
  BY <1>1
<1>4. ForwardsWhole'
  BY <1>3 DEF ForwardsWhole, Whole, Inv
<1> QED BY <1>2, <1>4

LEMMA LosePacketInv == ASSUME Inv, LosePacket PROVE Inv'
<1>1. wire' \in Seq(Packet) /\ Len(wire') <= MaxWire /\ ForwardsWhole'
  BY TailWhole DEF LosePacket
<1> QED BY <1>1 DEF LosePacket, Inv, TypeOK, FramesWhole, RadioWhole, SpareSlot, CopyWhole,
                    Whole, nodeVars, hostVars, taskVars, logVars

LEMMA LoggerReadsInv == ASSUME Inv, LoggerReads PROVE Inv'
<1>1. /\ wire' \in Seq(Packet) /\ Len(wire') <= MaxWire /\ ForwardsWhole'
      /\ Head(wire) \in Packet
  BY TailWhole DEF LoggerReads
<1>2. sequences' \in [0..MaxNodes - 1 -> Nat] /\ logged' \subseteq Sample
  <2>1. Head(wire).seq \in Nat /\ Head(wire).data \in Sample
    BY <1>1 DEF Packet
  <2>2. CASE Accepted(Head(wire))
    <3>1. /\ sequences' = [sequences EXCEPT ![Head(wire).mac] = Head(wire).seq]
          /\ logged' = logged \cup {Head(wire).data}
      BY <2>2 DEF LoggerReads
    <3> QED BY <2>1, <3>1 DEF Inv, TypeOK
  <2>3. CASE ~Accepted(Head(wire))
    BY <2>3 DEF LoggerReads, logVars, Inv, TypeOK
  <2> QED BY <2>2, <2>3
<1> QED BY <1>1, <1>2 DEF LoggerReads, Inv, TypeOK, FramesWhole, RadioWhole, SpareSlot,
                    CopyWhole, Whole, nodeVars, hostVars, taskVars

LEMMA NextInv == Inv /\ [Next]_vars => Inv'
<1> SUFFICES ASSUME Inv, [Next]_vars PROVE Inv'
  OBVIOUS
<1>1. CASE \E m \in Mac : NewSample(m) \/ Load(m) \/ Restart(m)
  BY <1>1, NewSampleInv, LoadInv, RestartInv
<1>2. CASE Slot \/ Beacon
  BY <1>2, SlotInv, BeaconInv
<1>3. CASE RecvHead \/ RecvData \/ RecvDone \/ Forward
  BY <1>3, RecvHeadInv, RecvDataInv, RecvDoneInv, ForwardInv
<1>4. CASE LosePacket \/ LoggerReads
  BY <1>4, LosePacketInv, LoggerReadsInv
<1>5. CASE UNCHANGED vars
  BY <1>5 DEF vars, nodeVars, hostVars, taskVars, logVars, Inv, TypeOK, FramesWhole,
              RadioWhole, SpareSlot, CopyWhole, ForwardsWhole, Whole
<1> QED BY <1>1, <1>2, <1>3, <1>4, <1>5 DEF Next

\* The types, and the buffer of the link kept full while rx_task copies from
\* it (pcf_tdma.c:264-320, 683-733).
THEOREM TypeCorrect == Spec => []TypeOK
<1>1. Inv => TypeOK
  BY DEF Inv
<1> QED BY <1>1, InitInv, NextInv, PTL DEF Spec

\* However many nodes there are, as long as the last slot is nobody's, the
\* master forwards what a node sent and never a mixture
\* (pcf_tdma.c:264-320, 475-545, 683-733).
THEOREM AlwaysForwardsWhole == Spec => []ForwardsWhole
<1>1. Inv => ForwardsWhole
  BY DEF Inv
<1> QED BY <1>1, InitInv, NextInv, PTL DEF Spec

-----------------------------------------------------------------------------
(* Order.  The samples of a node pass the stages between the node and the  *)
(* file in the order they were made: what is at a stage is not after what  *)
(* is at a stage behind it.  That holds although nodes restart, packets    *)
(* are lost and a sample is sent many times, because no stage but the wire *)
(* holds two packets of a node.                                            *)

NotAfter(s, t) ==
    s.mac = t.mac => s.epoch < t.epoch \/ (s.epoch = t.epoch /\ s.seq <= t.seq)

OnWire   == {wire[i].data : i \in DOMAIN wire}
InTask   == IF rxTask \in {"copied", "forward"} THEN {rxCopy.data} ELSE {}
InBuffer == IF rxBufEmpty THEN {} ELSE {rxBuf.data}
InRadio  == IF radio = Nothing THEN {} ELSE {radio.data}
InFrames == {frame[m].data : m \in {k \in Mac : frame[k] # Nothing}}
Currents == {current[m] : m \in Mac}

Stages == <<logged, OnWire, InTask, InBuffer, InRadio, InFrames, Currents>>

Ordered(S) == \A i, j \in 1..7 : i < j => \A s \in S[i], t \in S[j] : NotAfter(s, t)

\* A stage that holds one sample of a node at a time.
Single(S) == \A s, t \in S : s.mac = t.mac => s = t

WireOrdered  == \A i, j \in DOMAIN wire : i < j => NotAfter(wire[i].data, wire[j].data)
OwnSamples   == \A m \in Mac : /\ current[m].mac = m
                               /\ frame[m] # Nothing => frame[m].data.mac = m
\* The logger remembers the number of the last sample it filed.
Remembered   == \A s \in logged : \E l \in logged :
                    /\ l.mac = s.mac /\ l.seq = sequences[s.mac]
                    /\ \A r \in logged : NotAfter(r, l)

OrderInv == Ordered(Stages) /\ WireOrdered /\ OwnSamples /\ Remembered

LEMMA SampleFields ==
    ASSUME NEW s \in Sample
    PROVE  s.mac \in Mac /\ s.mac \in Nat /\ s.epoch \in Nat /\ s.seq \in Nat
<1>1. s.mac \in Mac /\ s.epoch \in Nat /\ s.seq \in 0..SeqMod - 1
  BY DEF Sample
<1>2. s.seq \in Nat
  BY <1>1, Constants
<1>3. s.mac \in Nat
  BY <1>1, LogAssumption
<1> QED BY <1>1, <1>2, <1>3

LEMMA NotAfterSelf == ASSUME NEW s \in Sample PROVE NotAfter(s, s)
BY SampleFields DEF NotAfter

LEMMA NotAfterTransitive ==
    ASSUME NEW r \in Sample, NEW s \in Sample, NEW t \in Sample, s.mac = t.mac,
           NotAfter(r, s), NotAfter(s, t)
    PROVE  NotAfter(r, t)
<1>1. /\ r.epoch \in Nat /\ s.epoch \in Nat /\ t.epoch \in Nat
      /\ r.seq \in Nat /\ s.seq \in Nat /\ t.seq \in Nat
  BY SampleFields
<1> QED BY <1>1 DEF NotAfter

\* Each sample stays where it is, leaves, or goes one stage on.
LEMMA Flow ==
    ASSUME NEW S, NEW T, Ordered(S),
           \A k \in 1..7 : S[k] \subseteq Sample,
           \A k \in 3..7 : Single(S[k]),
           T[1] \subseteq S[1], T[7] \subseteq S[7],
           \A k \in 2..6 : T[k] \subseteq S[k] \cup S[k + 1]
    PROVE  Ordered(T)
<1> SUFFICES ASSUME NEW i \in 1..7, NEW j \in 1..7, i < j, NEW s \in T[i], NEW t \in T[j]
             PROVE  NotAfter(s, t)
  BY DEF Ordered
<1>1. s \in S[i] \/ (i # 1 /\ i + 1 \in 3..7 /\ s \in S[i + 1])
  <2>1. i = 1 \/ i \in 2..6
    OBVIOUS
  <2> QED BY <2>1
<1>2. t \in S[j] \/ (j + 1 \in 1..7 /\ t \in S[j + 1])
  <2>1. j = 7 \/ j \in 2..6
    OBVIOUS
  <2> QED BY <2>1
<1>3. CASE s \in S[i]
  BY <1>2, <1>3 DEF Ordered
<1>4. CASE i + 1 \in 3..7 /\ s \in S[i + 1]
  <2>1. CASE t \in S[j] /\ i + 1 = j
    <3>1. s.mac = t.mac => s = t
      BY <1>4, <2>1 DEF Single
    <3>2. s \in Sample
      BY <1>4, <2>1
    <3> QED BY <3>1, <3>2, NotAfterSelf DEF NotAfter
  <2>2. CASE t \in S[j] /\ i + 1 # j
    BY <1>4, <2>2 DEF Ordered
  <2>3. CASE j + 1 \in 1..7 /\ t \in S[j + 1]
    <3>1. i + 1 \in 1..7 /\ i + 1 < j + 1
      OBVIOUS
    <3> QED BY <1>4, <2>3, <3>1 DEF Ordered
  <2> QED BY <1>2, <2>1, <2>2, <2>3
<1> QED BY <1>1, <1>3, <1>4

LEMMA StagesTyped ==
    ASSUME Inv, OwnSamples
    PROVE  /\ \A k \in 1..7 : Stages[k] \subseteq Sample
           /\ \A k \in 3..7 : Single(Stages[k])
<1>1. logged \subseteq Sample
  BY DEF Inv, TypeOK
<1>2. OnWire \subseteq Sample
  <2>1. \A i \in DOMAIN wire : wire[i] \in Packet
    BY DEF Inv, TypeOK
  <2> QED BY <2>1 DEF OnWire, Packet
<1>3. InTask \subseteq Sample /\ Single(InTask)
  BY DEF InTask, Single, Inv, TypeOK, Packet
<1>4. InBuffer \subseteq Sample /\ Single(InBuffer)
  BY DEF InBuffer, Single, Inv, TypeOK, Packet
<1>5. InRadio \subseteq Sample /\ Single(InRadio)
  BY DEF InRadio, Single, Inv, TypeOK, Packet
<1>6. InFrames \subseteq Sample /\ Single(InFrames)
  <2>1. \A m \in Mac : frame[m] # Nothing => frame[m].data \in Sample /\ frame[m].data.mac = m
    BY DEF Inv, TypeOK, Packet, OwnSamples
  <2> QED BY <2>1 DEF InFrames, Single
<1>7. Currents \subseteq Sample /\ Single(Currents)
  BY DEF Currents, Single, Inv, TypeOK, OwnSamples
<1>8. /\ Stages[1] = logged /\ Stages[2] = OnWire /\ Stages[3] = InTask
      /\ Stages[4] = InBuffer /\ Stages[5] = InRadio /\ Stages[6] = InFrames
      /\ Stages[7] = Currents
  BY DEF Stages
<1> HIDE DEF Stages
<1>9. ASSUME NEW k \in 1..7 PROVE Stages[k] \subseteq Sample
  <2>1. k = 1 \/ k = 2 \/ k = 3 \/ k = 4 \/ k = 5 \/ k = 6 \/ k = 7
    OBVIOUS
  <2> QED BY <1>1, <1>2, <1>3, <1>4, <1>5, <1>6, <1>7, <1>8, <2>1
<1>10. ASSUME NEW k \in 3..7 PROVE Single(Stages[k])
  <2>1. k = 3 \/ k = 4 \/ k = 5 \/ k = 6 \/ k = 7
    OBVIOUS
  <2> QED BY <1>3, <1>4, <1>5, <1>6, <1>7, <1>8, <2>1
<1> QED BY <1>9, <1>10

\* The form in which the actions use it.
LEMMA StepOrdered ==
    ASSUME Inv, OwnSamples, Ordered(Stages),
           logged' \subseteq logged, OnWire' \subseteq OnWire \cup InTask,
           InTask' \subseteq InTask \cup InBuffer, InBuffer' \subseteq InBuffer \cup InRadio,
           InRadio' \subseteq InRadio \cup InFrames, InFrames' \subseteq InFrames \cup Currents,
           Currents' \subseteq Currents
    PROVE  Ordered(Stages)'
<1>1. PICK S, T : S = Stages /\ T = Stages'
  OBVIOUS
<1>2. /\ S[1] = logged /\ S[2] = OnWire /\ S[3] = InTask
      /\ S[4] = InBuffer /\ S[5] = InRadio /\ S[6] = InFrames
      /\ S[7] = Currents
  BY <1>1 DEF Stages
<1>3. /\ T[1] = logged' /\ T[2] = OnWire' /\ T[3] = InTask'
      /\ T[4] = InBuffer' /\ T[5] = InRadio' /\ T[6] = InFrames'
      /\ T[7] = Currents'
  BY <1>1 DEF Stages
<1>4. /\ T[1] \subseteq S[1] /\ T[7] \subseteq S[7]
      /\ \A k \in 2..6 : T[k] \subseteq S[k] \cup S[k + 1]
  <2>1. \A k \in 2..6 : k = 2 \/ k = 3 \/ k = 4 \/ k = 5 \/ k = 6
    OBVIOUS
  <2>2. /\ T[2] \subseteq S[2] \cup S[2 + 1] /\ T[3] \subseteq S[3] \cup S[3 + 1]
        /\ T[4] \subseteq S[4] \cup S[4 + 1] /\ T[5] \subseteq S[5] \cup S[5 + 1]
        /\ T[6] \subseteq S[6] \cup S[6 + 1]
    BY <1>2, <1>3
  <2> QED BY <1>2, <1>3, <2>1, <2>2
<1>5. /\ Ordered(S)
      /\ \A k \in 1..7 : S[k] \subseteq Sample
      /\ \A k \in 3..7 : Single(S[k])
  BY <1>1, StagesTyped
<1>6. Ordered(T)
  BY <1>4, <1>5, Flow
<1> QED BY <1>1, <1>6

\* A node makes a later sample.
LEMMA Advance ==
    ASSUME NEW S, NEW T, Ordered(S),
           \A k \in 1..7 : S[k] \subseteq Sample,
           \A k \in 1..6 : T[k] \subseteq S[k],
           \A t \in T[7] : t \in Sample /\ \E u \in S[7] : u.mac = t.mac /\ NotAfter(u, t)
    PROVE  Ordered(T)
<1> SUFFICES ASSUME NEW i \in 1..7, NEW j \in 1..7, i < j, NEW s \in T[i], NEW t \in T[j]
             PROVE  NotAfter(s, t)
  BY DEF Ordered
<1>1. i \in 1..6 /\ s \in S[i] /\ s \in Sample
  <2>1. i \in 1..6
    OBVIOUS
  <2> QED BY <2>1
<1>2. CASE j \in 1..6
  BY <1>1, <1>2 DEF Ordered
<1>3. CASE j = 7
  <2>1. PICK u \in S[7] : u.mac = t.mac /\ NotAfter(u, t)
    BY <1>3
  <2>2. t \in Sample /\ u \in Sample /\ NotAfter(s, u)
    BY <1>1, <1>3 DEF Ordered
  <2> QED BY <1>1, <2>1, <2>2, NotAfterTransitive
<1> QED BY <1>2, <1>3

LEMMA AdvanceOrder ==
    ASSUME Inv, OrderInv, NEW m \in Mac, NEW n \in Sample, n.mac = m, NotAfter(current[m], n),
           current' = [current EXCEPT ![m] = n],
           \A k \in Mac : frame'[k] = frame[k] \/ frame'[k] = Nothing,
           UNCHANGED <<hostVars, taskVars, wire, logVars>>
    PROVE  OrderInv'
<1>1. current \in [Mac -> Sample] /\ OwnSamples
  BY DEF Inv, TypeOK, OrderInv
<1>2. OwnSamples'
  BY <1>1 DEF OwnSamples
<1>3. PICK S, T : S = Stages /\ T = Stages'
  OBVIOUS
<1>4. /\ \A k \in 1..6 : T[k] \subseteq S[k]
      /\ S[7] = Currents /\ T[7] = Currents'
  <2>1. InFrames' \subseteq InFrames
    BY DEF InFrames
  <2>2. /\ logged' = logged /\ OnWire' = OnWire /\ InTask' = InTask
        /\ InBuffer' = InBuffer /\ InRadio' = InRadio
    BY DEF OnWire, InTask, InBuffer, InRadio, hostVars, taskVars, logVars
  <2>3. /\ S[1] = logged /\ S[2] = OnWire /\ S[3] = InTask
        /\ S[4] = InBuffer /\ S[5] = InRadio /\ S[6] = InFrames
        /\ S[7] = Currents
    BY <1>3 DEF Stages
  <2>4. /\ T[1] = logged' /\ T[2] = OnWire' /\ T[3] = InTask'
        /\ T[4] = InBuffer' /\ T[5] = InRadio' /\ T[6] = InFrames'
        /\ T[7] = Currents'
    BY <1>3 DEF Stages
  <2>5. \A k \in 1..6 : k = 1 \/ k = 2 \/ k = 3 \/ k = 4 \/ k = 5 \/ k = 6
    OBVIOUS
  <2> QED BY <2>1, <2>2, <2>3, <2>4, <2>5
<1>5. \A t \in T[7] : t \in Sample /\ \E u \in S[7] : u.mac = t.mac /\ NotAfter(u, t)
  <2> SUFFICES ASSUME NEW k \in Mac
               PROVE  /\ current'[k] \in Sample /\ current[k] \in Currents
                      /\ current[k].mac = current'[k].mac /\ NotAfter(current[k], current'[k])
    BY <1>4 DEF Currents
  <2>1. CASE k = m
    BY <1>1, <2>1 DEF OwnSamples, Currents
  <2>2. CASE k # m
    BY <1>1, <2>2, NotAfterSelf DEF Currents
  <2> QED BY <2>1, <2>2
<1>6. Ordered(S) /\ \A k \in 1..7 : S[k] \subseteq Sample
  BY <1>1, <1>3, StagesTyped DEF OrderInv
<1>7. Ordered(T)
  BY <1>4, <1>5, <1>6, Advance
<1> QED BY <1>2, <1>3, <1>7 DEF OrderInv, WireOrdered, Remembered, logVars

LEMMA NextSampleLater ==
    ASSUME NEW s \in Sample
    PROVE  /\ NextSample(s) \in Sample /\ NextSample(s).mac = s.mac
           /\ NotAfter(s, NextSample(s))
           /\ FirstOfNextEpoch(s) \in Sample /\ FirstOfNextEpoch(s).mac = s.mac
           /\ NotAfter(s, FirstOfNextEpoch(s))
<1>1. s.mac \in Mac /\ s.epoch \in Nat /\ s.seq \in Nat
  BY SampleFields
<1>2. FirstOfNextEpoch(s).mac = s.mac /\ NotAfter(s, FirstOfNextEpoch(s))
  BY <1>1 DEF FirstOfNextEpoch, NotAfter
<1>3. NextSample(s).mac = s.mac /\ NotAfter(s, NextSample(s))
  <2>1. CASE s.seq = SeqMod - 1
    BY <1>2, <2>1 DEF NextSample
  <2>2. CASE s.seq # SeqMod - 1
    <3>1. NextSample(s) = [s EXCEPT !.seq = s.seq + 1]
      BY <2>2 DEF NextSample
    <3>2. NextSample(s).mac = s.mac /\ NextSample(s).epoch = s.epoch
          /\ NextSample(s).seq = s.seq + 1
      BY <3>1 DEF Sample
    <3> QED BY <1>1, <3>2 DEF NotAfter
  <2> QED BY <2>1, <2>2
<1> QED BY <1>2, <1>3, SampleFollows

LEMMA NodeOrder ==
    ASSUME Inv, OrderInv, NEW m \in Mac, NewSample(m) \/ Load(m) \/ Restart(m)
    PROVE  OrderInv'
<1>1. current[m] \in Sample /\ current[m].mac = m
  BY DEF Inv, TypeOK, OrderInv, OwnSamples
<1>2. CASE NewSample(m)
  BY <1>1, <1>2, NextSampleLater, AdvanceOrder DEF NewSample
<1>3. CASE Restart(m)
  <2>1. \A k \in Mac : frame'[k] = frame[k] \/ frame'[k] = Nothing
    BY <1>3 DEF Restart, Inv, TypeOK
  <2> QED BY <1>1, <1>3, <2>1, NextSampleLater, AdvanceOrder DEF Restart
<1>4. CASE Load(m)
  <2> DEFINE p == Packed(current[m])
  <2>1. p.data = current[m]
    BY DEF Packed
  <2>2. frame' = [frame EXCEPT ![m] = p] /\ UNCHANGED <<current, hostVars, taskVars, wire, logVars>>
    BY <1>4 DEF Load
  <2> HIDE DEF p
  <2>3. \A k \in Mac : frame'[k] = frame[k] \/ (k = m /\ frame'[k] = p)
    BY <2>2 DEF Inv, TypeOK
  <2>4. InFrames' \subseteq InFrames \cup Currents
    BY <2>1, <2>3 DEF InFrames, Currents
  <2>5. OwnSamples'
    BY <1>1, <2>1, <2>2, <2>3 DEF OrderInv, OwnSamples
  <2>6. /\ logged' = logged /\ OnWire' = OnWire /\ InTask' = InTask
        /\ InBuffer' = InBuffer /\ InRadio' = InRadio /\ Currents' = Currents
    BY <2>2 DEF OnWire, InTask, InBuffer, InRadio, Currents, hostVars, taskVars, logVars
  <2>7. Ordered(Stages)'
    BY <2>4, <2>6, StepOrdered DEF OrderInv
  <2> QED BY <2>2, <2>5, <2>7 DEF OrderInv, WireOrdered, Remembered, logVars
<1> QED BY <1>2, <1>3, <1>4

LEMMA SlotOrder == ASSUME Inv, OrderInv, Slot PROVE OrderInv'
<1>1. Upstream(slot + 1, Nothing)
  BY DEF Slot
<1>2. PICK sending \in SUBSET {m \in Mac : SlotOf(m) = slot + 1 /\ frame[m] # Nothing} :
          /\ frame' = [m \in Mac |-> IF m \in sending THEN Nothing ELSE frame[m]]
          /\ radio' \in {Nothing} \cup {frame[m] : m \in sending}
  BY <1>1 DEF Upstream
<1>3. \A m \in Mac : frame'[m] = Nothing \/ frame'[m] = frame[m]
  BY <1>2
<1>4. radio' = Nothing \/ \E m \in Mac : radio' = frame[m] /\ frame[m] # Nothing
  BY <1>2
<1>5. UNCHANGED <<current, taskVars, wire, logVars>>
  BY DEF Slot
<1>6. InBuffer' \subseteq InBuffer \cup InRadio
  <2>1. CASE rxBufEmpty /\ radio # Nothing
    BY <2>1 DEF Slot, InBuffer, InRadio
  <2>2. CASE ~(rxBufEmpty /\ radio # Nothing)
    BY <2>2 DEF Slot, InBuffer
  <2> QED BY <2>1, <2>2
<1>7. InRadio' \subseteq InRadio \cup InFrames
  BY <1>4 DEF InRadio, InFrames
<1>8. InFrames' \subseteq InFrames \cup Currents
  BY <1>3 DEF InFrames
<1>9. logged' = logged /\ OnWire' = OnWire /\ InTask' = InTask /\ Currents' = Currents
  BY <1>5 DEF OnWire, InTask, Currents, taskVars, logVars
<1>10. Ordered(Stages)'
  BY <1>6, <1>7, <1>8, <1>9, StepOrdered DEF OrderInv
<1>11. OwnSamples'
  BY <1>3, <1>5 DEF OrderInv, OwnSamples
<1> QED BY <1>5, <1>10, <1>11 DEF OrderInv, WireOrdered, Remembered, logVars

LEMMA BeaconOrder == ASSUME Inv, OrderInv, Beacon PROVE OrderInv'
<1>1. radio = Nothing /\ radio' = Nothing
  BY DEF Beacon, Inv, SpareSlot
<1>2. UNCHANGED <<nodeVars, rxBuf, rxBufEmpty, taskVars, wire, logVars>>
  BY DEF Beacon
<1>3. Stages' = Stages
  BY <1>1, <1>2 DEF Stages, OnWire, InTask, InBuffer, InRadio, InFrames, Currents,
                    nodeVars, taskVars, logVars
<1> QED BY <1>2, <1>3 DEF OrderInv, WireOrdered, OwnSamples, Remembered, nodeVars, logVars

LEMMA TaskOrder ==
    ASSUME Inv, OrderInv, RecvHead \/ RecvData \/ RecvDone
    PROVE  OrderInv'
<1>1. UNCHANGED <<nodeVars, radio, wire, logVars>>
  BY DEF RecvHead, RecvData, RecvDone, hostVars
<1>2. /\ logged' = logged /\ OnWire' = OnWire /\ InRadio' = InRadio
      /\ InFrames' = InFrames /\ Currents' = Currents
  BY <1>1 DEF OnWire, InRadio, InFrames, Currents, nodeVars, logVars
<1>3. InBuffer' \subseteq InBuffer
  BY DEF RecvHead, RecvData, RecvDone, InBuffer, hostVars
<1>4. InTask' \subseteq InTask \cup InBuffer
  <2>1. CASE RecvHead
    BY <2>1 DEF RecvHead, InTask
  <2>2. CASE RecvData
    <3>1. rxCopy'.data = rxBuf.data /\ rxTask' = "copied" /\ ~rxBufEmpty
      BY <2>2 DEF RecvData, Inv, TypeOK, Packet
    <3> QED BY <3>1 DEF InTask, InBuffer
  <2>3. CASE RecvDone
    BY <2>3 DEF RecvDone, InTask
  <2> QED BY <2>1, <2>2, <2>3
<1>5. Ordered(Stages)'
  BY <1>2, <1>3, <1>4, StepOrdered DEF OrderInv
<1> QED BY <1>1, <1>5 DEF OrderInv, WireOrdered, OwnSamples, Remembered, nodeVars, logVars

LEMMA ForwardOrder == ASSUME Inv, OrderInv, Forward PROVE OrderInv'
<1>1. /\ rxTask = "forward" /\ rxTask' = "poll" /\ wire' = Append(wire, rxCopy)
      /\ rxCopy \in Packet /\ wire \in Seq(Packet)
      /\ UNCHANGED <<nodeVars, hostVars, logVars>>
  BY DEF Forward, Inv, TypeOK
<1>2. DOMAIN wire = 1..Len(wire) /\ Len(wire) \in Nat /\ DOMAIN wire' = 1..Len(wire) + 1
  BY <1>1
<1>3. wire'[Len(wire) + 1] = rxCopy /\ \A i \in 1..Len(wire) : wire'[i] = wire[i]
  BY <1>1
<1>4. InTask = {rxCopy.data} /\ InTask' = {}
  BY <1>1 DEF InTask
<1>5. OnWire' \subseteq OnWire \cup InTask
  <2> SUFFICES ASSUME NEW i \in 1..Len(wire) + 1 PROVE wire'[i].data \in OnWire \cup InTask
    BY <1>2 DEF OnWire
  <2>1. i \in 1..Len(wire) \/ i = Len(wire) + 1
    BY <1>2
  <2> QED BY <1>2, <1>3, <1>4, <2>1 DEF OnWire
<1>6. /\ logged' = logged /\ InBuffer' = InBuffer /\ InRadio' = InRadio
      /\ InFrames' = InFrames /\ Currents' = Currents
  BY <1>1 DEF InBuffer, InRadio, InFrames, Currents, nodeVars, hostVars, logVars
<1>7. Ordered(Stages)'
  BY <1>4, <1>5, <1>6, StepOrdered DEF OrderInv
<1>8. WireOrdered'
  <2> SUFFICES ASSUME NEW i \in 1..Len(wire) + 1, NEW j \in 1..Len(wire) + 1, i < j
               PROVE  NotAfter(wire'[i].data, wire'[j].data)
    BY <1>2 DEF WireOrdered
  <2>1. i \in 1..Len(wire) /\ wire'[i] = wire[i]
    BY <1>2, <1>3
  <2>2. CASE j \in 1..Len(wire)
    BY <1>2, <1>3, <2>1, <2>2 DEF OrderInv, WireOrdered
  <2>3. CASE j = Len(wire) + 1
    <3>1. wire[i].data \in OnWire /\ rxCopy.data \in InTask
      BY <1>2, <1>4, <2>1 DEF OnWire
    <3>2. wire[i].data \in Stages[2] /\ rxCopy.data \in Stages[3]
      BY <3>1 DEF Stages
    <3>3. NotAfter(wire[i].data, rxCopy.data)
      BY <3>2 DEF OrderInv, Ordered
    <3> QED BY <1>3, <2>1, <2>3, <3>3
  <2> QED BY <1>2, <2>2, <2>3
<1> QED BY <1>1, <1>7, <1>8 DEF OrderInv, OwnSamples, Remembered, nodeVars, logVars

LEMMA TailOrder ==
    ASSUME Inv, OrderInv, wire # <<>>, wire' = Tail(wire)
    PROVE  /\ WireOrdered' /\ OnWire' \subseteq OnWire
           /\ Head(wire) \in Packet /\ Whole(Head(wire)) /\ Head(wire).data \in OnWire
           /\ \A t \in OnWire' : NotAfter(Head(wire).data, t)
<1>1. wire \in Seq(Packet) /\ 1 \in DOMAIN wire /\ Head(wire) = wire[1]
  BY DEF Inv, TypeOK
<1>2. \A i \in DOMAIN wire' : i \in Nat /\ i + 1 \in DOMAIN wire /\ wire'[i] = wire[i + 1] /\ 1 < i + 1
  BY <1>1
<1>3. WireOrdered'
  BY <1>2 DEF OrderInv, WireOrdered
<1>4. OnWire' \subseteq OnWire /\ \A t \in OnWire' : NotAfter(wire[1].data, t)
  BY <1>1, <1>2 DEF OrderInv, WireOrdered, OnWire
<1>5. wire[1] \in Packet /\ Whole(wire[1]) /\ wire[1].data \in OnWire
  BY <1>1 DEF Inv, ForwardsWhole, OnWire
<1> QED BY <1>1, <1>3, <1>4, <1>5

LEMMA LosePacketOrder == ASSUME Inv, OrderInv, LosePacket PROVE OrderInv'
<1>1. WireOrdered' /\ OnWire' \subseteq OnWire
  BY TailOrder DEF LosePacket
<1>2. UNCHANGED <<nodeVars, hostVars, taskVars, logVars>>
  BY DEF LosePacket
<1>3. /\ logged' = logged /\ InTask' = InTask /\ InBuffer' = InBuffer /\ InRadio' = InRadio
      /\ InFrames' = InFrames /\ Currents' = Currents
  BY <1>2 DEF InTask, InBuffer, InRadio, InFrames, Currents, nodeVars, hostVars, taskVars, logVars
<1>4. Ordered(Stages)'
  BY <1>1, <1>3, StepOrdered DEF OrderInv
<1> QED BY <1>1, <1>2, <1>4 DEF OrderInv, OwnSamples, Remembered, nodeVars, logVars

\* What the logger files is not before any row of the same node.
LEMMA LoggedFirst ==
    ASSUME OrderInv, NEW s \in logged, NEW t \in OnWire
    PROVE  NotAfter(s, t)
<1>1. s \in Stages[1] /\ t \in Stages[2]
  BY DEF Stages
<1> QED BY <1>1 DEF OrderInv, Ordered

LEMMA LoggerReadsOrder == ASSUME Inv, OrderInv, LoggerReads PROVE OrderInv'
<1> DEFINE p == Head(wire)
<1>1. /\ WireOrdered' /\ OnWire' \subseteq OnWire
      /\ p \in Packet /\ Whole(p) /\ p.data \in OnWire
      /\ \A t \in OnWire' : NotAfter(p.data, t)
  BY TailOrder DEF LoggerReads
<1>2. UNCHANGED <<nodeVars, hostVars, taskVars>>
  BY DEF LoggerReads
<1>3. /\ InTask' = InTask /\ InBuffer' = InBuffer /\ InRadio' = InRadio
      /\ InFrames' = InFrames /\ Currents' = Currents
  BY <1>2 DEF InTask, InBuffer, InRadio, InFrames, Currents, nodeVars, hostVars, taskVars
<1>4. OwnSamples'
  BY <1>2 DEF OrderInv, OwnSamples, nodeVars
<1>5. CASE ~Accepted(p)
  <2>1. UNCHANGED logVars
    BY <1>5 DEF LoggerReads
  <2>2. Ordered(Stages)'
    BY <1>1, <1>3, <2>1, StepOrdered DEF OrderInv, logVars
  <2> QED BY <1>1, <1>4, <2>1, <2>2 DEF OrderInv, Remembered, logVars
<1>6. CASE Accepted(p)
  <2>1. /\ sequences' = [sequences EXCEPT ![p.mac] = p.seq]
        /\ logged' = logged \cup {p.data}
    BY <1>6 DEF LoggerReads
  <2>2. PICK n : n = p.data
    OBVIOUS
  <2>3. n \in Sample /\ n.mac = p.mac /\ n.seq = p.seq /\ n \in OnWire
    BY <1>1, <2>2 DEF Whole, Packet
  <2>4. /\ \A s \in logged : s \in Sample /\ s.mac \in 0..MaxNodes - 1
        /\ n.mac \in 0..MaxNodes - 1
    <3>1. \A s \in Sample : s.mac \in 0..MaxNodes - 1
      BY LogAssumption, SampleFields
    <3> QED BY <2>3, <3>1 DEF Inv, TypeOK
  <2>5. \A s \in logged' : NotAfter(s, n)
    BY <2>1, <2>2, <2>3, LoggedFirst, NotAfterSelf
  <2>6. sequences \in [0..MaxNodes - 1 -> Nat]
    BY DEF Inv, TypeOK
  <2>7. sequences'[n.mac] = n.seq /\ \A k \in 0..MaxNodes - 1 : k # n.mac => sequences'[k] = sequences[k]
    BY <2>1, <2>3, <2>4, <2>6
  <2>8. Remembered'
    <3> SUFFICES ASSUME NEW s \in logged'
                 PROVE  \E l \in logged' : /\ l.mac = s.mac /\ l.seq = sequences'[s.mac]
                                           /\ \A r \in logged' : NotAfter(r, l)
      BY DEF Remembered
    <3>1. CASE s.mac = n.mac
      BY <2>1, <2>2, <2>5, <2>7, <3>1
    <3>2. CASE s.mac # n.mac
      <4>1. s \in logged
        BY <2>1, <2>2, <3>2
      <4>2. PICK l \in logged : /\ l.mac = s.mac /\ l.seq = sequences[s.mac]
                                /\ \A r \in logged : NotAfter(r, l)
        BY <4>1 DEF OrderInv, Remembered
      <4>3. l.seq = sequences'[s.mac]
        BY <2>4, <2>7, <3>2, <4>1, <4>2
      <4>4. NotAfter(n, l)
        BY <3>2, <4>2 DEF NotAfter
      <4> QED BY <2>1, <2>2, <4>2, <4>3, <4>4
    <3> QED BY <3>1, <3>2
  <2>9. Ordered(Stages)'
    <3>1. PICK S, T, U : /\ S = Stages /\ T = Stages'
                         /\ U = <<logged, OnWire', InTask', InBuffer', InRadio', InFrames', Currents'>>
      OBVIOUS
    <3>2. Ordered(U)
      <4>1. /\ S[1] = logged /\ S[2] = OnWire /\ S[3] = InTask /\ S[4] = InBuffer
            /\ S[5] = InRadio /\ S[6] = InFrames /\ S[7] = Currents
        BY <3>1 DEF Stages
      <4>2. /\ U[1] = logged /\ U[2] = OnWire' /\ U[3] = InTask' /\ U[4] = InBuffer'
            /\ U[5] = InRadio' /\ U[6] = InFrames' /\ U[7] = Currents'
        BY <3>1
      <4>3. \A k \in 1..7 : k = 1 \/ k = 2 \/ k = 3 \/ k = 4 \/ k = 5 \/ k = 6 \/ k = 7
        OBVIOUS
      <4>4. \A k \in 1..7 : U[k] \subseteq S[k]
        BY <1>1, <1>3, <4>1, <4>2, <4>3
      <4> QED BY <3>1, <4>4 DEF OrderInv, Ordered
    <3>3. T[1] = U[1] \cup {n} /\ \A k \in 2..7 : T[k] = U[k]
      <4>1. T[1] = logged \cup {n} /\ U[1] = logged
        BY <2>1, <2>2, <3>1 DEF Stages
      <4>2. \A k \in 2..7 : k = 2 \/ k = 3 \/ k = 4 \/ k = 5 \/ k = 6 \/ k = 7
        OBVIOUS
      <4>3. /\ T[2] = U[2] /\ T[3] = U[3] /\ T[4] = U[4] /\ T[5] = U[5]
            /\ T[6] = U[6] /\ T[7] = U[7]
        BY <3>1 DEF Stages
      <4> QED BY <4>1, <4>2, <4>3
    <3>4. \A k \in 2..7 : \A t \in U[k] : NotAfter(n, t)
      <4> SUFFICES ASSUME NEW k \in 2..7, NEW t \in U[k] PROVE NotAfter(n, t)
        OBVIOUS
      <4>1. CASE k = 2
        BY <1>1, <2>2, <3>1, <4>1
      <4>2. CASE k \in 3..7
        <5>1. n \in S[2]
          BY <2>3, <3>1 DEF Stages
        <5>2. t \in S[k]
          <6>1. k = 3 \/ k = 4 \/ k = 5 \/ k = 6 \/ k = 7
            BY <4>2
          <6> QED BY <1>3, <3>1, <6>1 DEF Stages
        <5> QED BY <3>1, <4>2, <5>1, <5>2 DEF OrderInv, Ordered
      <4> QED BY <4>1, <4>2
    <3>5. Ordered(T)
      <4> SUFFICES ASSUME NEW i \in 1..7, NEW j \in 1..7, i < j, NEW s \in T[i], NEW t \in T[j]
                   PROVE  NotAfter(s, t)
        BY DEF Ordered
      <4>1. j \in 2..7 /\ t \in U[j]
        BY <3>3
      <4>2. s \in U[i] \/ s = n
        <5>1. i = 1 \/ i \in 2..7
          OBVIOUS
        <5> QED BY <3>3, <5>1
      <4> QED BY <3>2, <3>4, <4>1, <4>2 DEF Ordered
    <3> QED BY <3>1, <3>5
  <2> QED BY <1>1, <1>4, <2>8, <2>9 DEF OrderInv
<1> QED BY <1>5, <1>6

LEMMA InitOrder == Init => OrderInv
<1> SUFFICES ASSUME Init PROVE OrderInv
  OBVIOUS
<1>1. /\ logged = {} /\ OnWire = {} /\ InTask = {} /\ InBuffer = {} /\ InRadio = {}
      /\ InFrames = {}
  BY DEF Init, OnWire, InTask, InBuffer, InRadio, InFrames
<1>2. \A k \in 1..6 : Stages[k] = {}
  <2>1. \A k \in 1..6 : k = 1 \/ k = 2 \/ k = 3 \/ k = 4 \/ k = 5 \/ k = 6
    OBVIOUS
  <2> QED BY <1>1, <2>1 DEF Stages
<1>3. Ordered(Stages)
  <2>1. \A i, j \in 1..7 : i < j => i \in 1..6
    OBVIOUS
  <2> HIDE DEF Stages
  <2> QED BY <1>2, <2>1 DEF Ordered
<1>4. OwnSamples /\ WireOrdered /\ Remembered
  BY DEF Init, OwnSamples, First, WireOrdered, Remembered
<1> QED BY <1>3, <1>4 DEF OrderInv

LEMMA NextOrder == Inv /\ OrderInv /\ [Next]_vars => OrderInv'
<1> SUFFICES ASSUME Inv, OrderInv, [Next]_vars PROVE OrderInv'
  OBVIOUS
<1>1. CASE \E m \in Mac : NewSample(m) \/ Load(m) \/ Restart(m)
  BY <1>1, NodeOrder
<1>2. CASE Slot \/ Beacon
  BY <1>2, SlotOrder, BeaconOrder
<1>3. CASE RecvHead \/ RecvData \/ RecvDone \/ Forward
  BY <1>3, TaskOrder, ForwardOrder
<1>4. CASE LosePacket \/ LoggerReads
  BY <1>4, LosePacketOrder, LoggerReadsOrder
<1>5. CASE UNCHANGED vars
  BY <1>5 DEF vars, nodeVars, hostVars, taskVars, logVars, OrderInv, Stages, OnWire, InTask,
              InBuffer, InRadio, InFrames, Currents, WireOrdered, OwnSamples, Remembered
<1> QED BY <1>1, <1>2, <1>3, <1>4, <1>5 DEF Next

\* A sample of a node that has rows has the number of the last one or comes
\* after it.
LEMMA OrderedLog == Inv /\ OrderInv => NoSampleTwice /\ FreshIsLogged
<1> SUFFICES ASSUME Inv, OrderInv, NEW i \in {1} \cap DOMAIN wire
             PROVE  LET p == wire[i] IN
                    /\ p.seq # 0 /\ p.data \in logged => ~Accepted(p)
                    /\ [mac |-> p.mac, epoch |-> p.data.epoch, seq |-> 0] \in logged /\ Newest(p)
                         => Accepted(p)
  BY DEF NoSampleTwice, FreshIsLogged
<1> DEFINE p == wire[i]
<1>1. PICK n : n = p.data
  OBVIOUS
<1>2. p \in Packet /\ n \in Sample /\ n.mac = p.mac /\ n.seq = p.seq /\ n \in OnWire
  <2>1. i \in DOMAIN wire /\ wire \in Seq(Packet) /\ ForwardsWhole
    BY DEF Inv, TypeOK
  <2>2. wire[i] \in Packet
    BY <2>1
  <2>3. wire[i].mac = wire[i].data.mac /\ wire[i].seq = wire[i].data.seq
    BY <2>1 DEF ForwardsWhole, Whole
  <2>4. wire[i].data \in Sample
    BY <2>2 DEF Packet
  <2>5. wire[i].data \in OnWire
    BY <2>1 DEF OnWire
  <2> QED BY <1>1, <2>2, <2>3, <2>4, <2>5
<1>3. /\ n.mac \in Mac /\ n.epoch \in Nat /\ n.seq \in Nat
      /\ p.mac < MaxNodes
  BY <1>2, SampleFields, LogAssumption
<1>4. ASSUME NEW s \in logged, s.mac = n.mac
      PROVE  \E l \in logged :
                /\ l.mac = n.mac /\ l.seq = sequences[n.mac] /\ l.epoch \in Nat /\ l.seq \in Nat
                /\ NotAfter(s, l) /\ NotAfter(l, n)
  <2>1. PICK l \in logged : /\ l.mac = s.mac /\ l.seq = sequences[s.mac]
                            /\ \A r \in logged : NotAfter(r, l)
    BY DEF OrderInv, Remembered
  <2>2. l \in Sample
    BY DEF Inv, TypeOK
  <2> QED BY <1>2, <1>4, <2>1, <2>2, LoggedFirst, SampleFields
<1>5. ASSUME p.seq # 0, p.data \in logged PROVE ~Accepted(p)
  <2>1. PICK l \in logged : /\ l.mac = n.mac /\ l.seq = sequences[n.mac]
                            /\ l.epoch \in Nat /\ l.seq \in Nat
                            /\ NotAfter(n, l) /\ NotAfter(l, n)
    BY <1>1, <1>4, <1>5
  <2>2. l.seq = n.seq
    BY <1>3, <2>1 DEF NotAfter
  <2> QED BY <1>2, <1>3, <1>5, <2>1, <2>2 DEF Accepted, Seen
<1>6. ASSUME [mac |-> p.mac, epoch |-> p.data.epoch, seq |-> 0] \in logged, Newest(p)
      PROVE  Accepted(p)
  <2> DEFINE s == [mac |-> p.mac, epoch |-> p.data.epoch, seq |-> 0]
  <2>1. s \in logged /\ s.mac = n.mac /\ s.epoch = n.epoch
    BY <1>1, <1>2, <1>6
  <2> HIDE DEF s
  <2>2. PICK l \in logged : /\ l.mac = n.mac /\ l.seq = sequences[n.mac]
                            /\ l.epoch \in Nat /\ l.seq \in Nat
                            /\ NotAfter(s, l) /\ NotAfter(l, n)
    BY <1>4, <2>1
  <2>3. l.epoch = n.epoch
    BY <1>3, <2>1, <2>2 DEF NotAfter
  <2>4. l.seq < p.seq
    BY <1>1, <1>2, <1>6, <2>2, <2>3 DEF Newest
  <2> QED BY <1>2, <1>3, <2>2, <2>4 DEF Accepted, Seen
<1> QED BY <1>5, <1>6

\* Across restarts of the nodes, wraps of the number, repeated and lost
\* packets, no sample gets a second row unless its number is 0
\* (driver_accelerometers/main.c:54-88).
THEOREM NeverSampleTwice == Spec => []NoSampleTwice
<1> QED BY InitInv, NextInv, InitOrder, NextOrder, OrderedLog, PTL DEF Spec

\* A node whose first sample of an epoch has its row gets a row for every
\* later sample of the epoch that arrives (driver_accelerometers/main.c:70-75).
THEOREM FreshAlwaysLogged == Spec => []FreshIsLogged
<1> QED BY InitInv, NextInv, InitOrder, NextOrder, OrderedLog, PTL DEF Spec
=============================================================================
