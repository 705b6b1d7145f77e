--------------------------- MODULE TdmaNodeProofs --------------------------
(***************************************************************************)
(* The node's two tasks and its I2C driver.                                *)
(*                                                                         *)
(* One sample is handed over whole, for every modulus and watchdog limit.  *)
(* Neither task locks pkt: what keeps them apart is that a task between    *)
(* two steps of a copy is at the head of the queue, where it stays until   *)
(* it waits (HeadStays).                                                   *)
(*                                                                         *)
(* A failed transfer spoils no later sample, for any sensors: the second   *)
(* part, about the driver alone, follows the handler through a transfer.   *)
(***************************************************************************)
EXTENDS TdmaNode, TwiMaster, SequenceTheorems, TLAPS

HeadStays == /\ pc["imu"] = "copy" => ready # <<>> /\ Head(ready) = "imu"
             /\ pc["tx"] \in {"fill", "filling", "filled"} =>
                    ready # <<>> /\ Head(ready) = "tx"
PktWhole  == IF pc["imu"] = "copy" THEN pkt.seq = txBuf.data ELSE pkt.seq = pkt.data
HalfFrame == pc["tx"] = "filling" => frame.seq = pkt.seq

Inv == TypeOK /\ HeadStays /\ PktWhole /\ HalfFrame /\ OneSampleHandedOver

LEMMA Constants == /\ SeqMod \in Nat /\ SeqMod > 1 /\ WdtLimit \in Nat /\ WdtLimit > 0
                   /\ 0 \in Number /\ Inactive \notin 0..WdtLimit
BY NodeAssumption DEF Number, Inactive

LEMMA BlankType == Blank \in Packet /\ BlankFrame \in Frame
BY Constants DEF Blank, BlankFrame, Packet, Frame

\* A fresh life of the node.
LEMMA FreshInv ==
    ASSUME ready' = ActivationOrder, pc' = [imu |-> "build", tx |-> "start"],
           sequenceNo' = 0, txBuf' = Blank, pkt' = Blank, packetReady' = FALSE,
           frame' = BlankFrame, txDataReady' = FALSE, sends' = 1, nw' = "sync",
           wdt' = Inactive, ran' = FALSE, damaged' = 0, air' \in Frame
    PROVE  Inv'
<1>1. QueueOK'
  BY DEF QueueOK, ActivationOrder, Queues
<1>2. DataOK'
  BY Constants, BlankType DEF DataOK
<1>3. CountOK'
  BY DEF CountOK
<1>4. FlagsOK'
  BY DEF FlagsOK
<1>5. TypeOK'
  BY <1>1, <1>2, <1>3, <1>4 DEF TypeOK
<1> QED BY <1>5 DEF Inv, HeadStays, PktWhole, HalfFrame, OneSampleHandedOver, Blank

-----------------------------------------------------------------------------
(* The queue when a task joins it or leaves its head.                      *)

LEMMA AppendOne == ASSUME NEW S, NEW a \in S, NEW b \in S PROVE Append(<<a>>, b) = <<a, b>>
<1>1. <<a>> \in Seq(S) /\ Len(<<a>>) = 1 /\ <<a>>[1] = a
  OBVIOUS
<1>2. <<a, b>> \in Seq(S) /\ Len(<<a, b>>) = 2 /\ <<a, b>>[1] = a /\ <<a, b>>[2] = b
  OBVIOUS
<1>3. Append(<<a>>, b) = [i \in 1..2 |-> IF i = 2 THEN b ELSE <<a>>[i]]
  BY <1>1
<1>4. <<a, b>> = [i \in 1..2 |-> IF i = 2 THEN b ELSE <<a>>[i]]
  BY <1>1, <1>2
<1> QED BY <1>3, <1>4

LEMMA AppendImu ==
    ASSUME ready \in {<<>>, <<"tx">>}
    PROVE  \/ ready = <<>> /\ Append(ready, "imu") = <<"imu">>
           \/ ready = <<"tx">> /\ Append(ready, "imu") = <<"tx", "imu">>
<1>1. Append(<<"tx">>, "imu") = <<"tx", "imu">>
  <2>1. "imu" \in App /\ "tx" \in App
    BY DEF App
  <2> QED BY <2>1, AppendOne
<1>2. Append(<<>>, "imu") = <<"imu">>
  OBVIOUS
<1> QED BY <1>1, <1>2

LEMMA AppendTx ==
    ASSUME ready \in {<<>>, <<"imu">>}
    PROVE  \/ ready = <<>> /\ Append(ready, "tx") = <<"tx">>
           \/ ready = <<"imu">> /\ Append(ready, "tx") = <<"imu", "tx">>
<1>1. Append(<<"imu">>, "tx") = <<"imu", "tx">>
  <2>1. "imu" \in App /\ "tx" \in App
    BY DEF App
  <2> QED BY <2>1, AppendOne
<1>2. Append(<<>>, "tx") = <<"tx">>
  OBVIOUS
<1> QED BY <1>1, <1>2

LEMMA WithoutImu ==
    ASSUME ready \in Queues, ready # <<>>, Head(ready) = "imu"
    PROVE  \/ ready = <<"imu">> /\ Without("imu") = <<>>
           \/ ready = <<"imu", "tx">> /\ Without("imu") = <<"tx">>
<1>1. CASE ready = <<"imu">>
  BY <1>1 DEF Without
<1>2. CASE ready = <<"imu", "tx">>
  BY <1>2 DEF Without
<1>3. ready # <<"tx">> /\ ready # <<"tx", "imu">>
  OBVIOUS
<1> QED BY <1>1, <1>2, <1>3 DEF Queues

LEMMA WithoutTx ==
    ASSUME ready \in Queues, ready # <<>>, Head(ready) = "tx"
    PROVE  \/ ready = <<"tx">> /\ Without("tx") = <<>>
           \/ ready = <<"tx", "imu">> /\ Without("tx") = <<"imu">>
<1>1. CASE ready = <<"tx">>
  BY <1>1 DEF Without
<1>2. CASE ready = <<"tx", "imu">>
  BY <1>2 DEF Without
<1>3. ready # <<"imu">> /\ ready # <<"imu", "tx">>
  OBVIOUS
<1> QED BY <1>1, <1>2, <1>3 DEF Queues

-----------------------------------------------------------------------------
(* The application tasks.                                                  *)

LEMMA ImuDueInv == ASSUME Inv, ImuDue PROVE Inv'
<1>1. TypeOK /\ QueueOK /\ DataOK /\ FlagsOK /\ CountOK
  BY DEF Inv, TypeOK
<1>2. QueueOK'
  <2>1. ready \in {<<>>, <<"tx">>} /\ ready' = Append(ready, "imu")
    BY <1>1 DEF ImuDue, QueueOK
  <2>2. \/ ready = <<>> /\ ready' = <<"imu">>
        \/ ready = <<"tx">> /\ ready' = <<"tx", "imu">>
    BY <2>1, AppendImu
  <2> QED BY <1>1, <2>2 DEF ImuDue, QueueOK, Queues, Goto
<1>3. DataOK'
  BY <1>1 DEF ImuDue, DataOK, imuVars, linkVars, airVars
<1>4. FlagsOK'
  BY <1>1 DEF ImuDue, FlagsOK, imuVars, linkVars, airVars
<1>5. CountOK'
  BY <1>1, Constants DEF ImuDue, CountOK, imuVars, linkVars, airVars
<1>6. TypeOK'
  BY <1>2, <1>3, <1>4, <1>5 DEF TypeOK
<1>7. ready # <<>> => Head(ready') = Head(ready)
  <2>1. ready \in {<<>>, <<"tx">>} /\ ready' = Append(ready, "imu")
    BY <1>1 DEF ImuDue, QueueOK
  <2> QED BY <2>1, AppendImu
<1> QED BY <1>1, <1>2, <1>6, <1>7 DEF ImuDue, Inv, HeadStays, PktWhole, HalfFrame,
       OneSampleHandedOver, Whole, QueueOK, Queues, Goto, imuVars, linkVars, airVars

LEMMA ImuBuildInv == ASSUME Inv, ImuBuild PROVE Inv'
<1>1. TypeOK /\ QueueOK /\ DataOK /\ FlagsOK /\ CountOK
  BY DEF Inv, TypeOK
<1>2. QueueOK'
  BY <1>1 DEF ImuBuild, QueueOK, At, MayRun, Goto
<1>3. DataOK'
  <2>1. sequenceNo \in Number /\ sequenceNo \in Nat
    BY <1>1, Constants DEF DataOK, Number
  <2>2. (sequenceNo + 1) % SeqMod \in Number
    BY <2>1, Constants DEF Number
  <2> QED BY <1>1, <2>1, <2>2 DEF ImuBuild, DataOK, Packet, linkVars, airVars
<1>4. FlagsOK'
  BY <1>1 DEF ImuBuild, FlagsOK, At, MayRun, Goto, imuVars, linkVars, airVars
<1>5. CountOK'
  BY <1>1, Constants DEF ImuBuild, CountOK, imuVars, linkVars, airVars
<1>6. TypeOK'
  BY <1>2, <1>3, <1>4, <1>5 DEF TypeOK
<1> QED BY <1>1, <1>2, <1>6 DEF ImuBuild, Inv, HeadStays, PktWhole, HalfFrame,
     OneSampleHandedOver, Whole, QueueOK, DataOK, At, MayRun, Goto, Packet, imuVars,
     linkVars, airVars

LEMMA ImuPublishInv == ASSUME Inv, ImuPublish PROVE Inv'
<1>1. TypeOK /\ QueueOK /\ DataOK /\ FlagsOK /\ CountOK
  BY DEF Inv, TypeOK
<1>2. QueueOK'
  <2>1. /\ ready \in Queues /\ ready # <<>> /\ Head(ready) = "imu"
        /\ ready' = Without("imu")
    BY <1>1 DEF ImuPublish, QueueOK, At, MayRun
  <2> QED BY <1>1, <2>1, WithoutImu DEF ImuPublish, QueueOK, Queues, At, Goto
<1>3. DataOK'
  BY <1>1 DEF ImuPublish, DataOK, Packet, imuVars, linkVars, airVars
<1>4. FlagsOK'
  BY <1>1 DEF ImuPublish, FlagsOK, At, MayRun, Goto, imuVars, linkVars, airVars
<1>5. CountOK'
  BY <1>1, Constants DEF ImuPublish, CountOK, imuVars, linkVars, airVars
<1>6. TypeOK'
  BY <1>2, <1>3, <1>4, <1>5 DEF TypeOK
<1> QED BY <1>1, <1>2, <1>6 DEF ImuPublish, Inv, HeadStays, PktWhole, HalfFrame,
     OneSampleHandedOver, Whole, QueueOK, DataOK, At, MayRun, Goto, Packet, imuVars,
     linkVars, airVars

LEMMA TxStartInv == ASSUME Inv, TxStart PROVE Inv'
<1>1. TypeOK /\ QueueOK /\ DataOK /\ FlagsOK /\ CountOK
  BY DEF Inv, TypeOK
<1>2. QueueOK'
  BY <1>1 DEF TxStart, QueueOK, At, MayRun, Goto
<1>3. DataOK'
  BY <1>1 DEF TxStart, DataOK, imuVars, linkVars, airVars
<1>4. FlagsOK'
  BY <1>1 DEF TxStart, FlagsOK, At, MayRun, Goto, imuVars, linkVars, airVars
<1>5. CountOK'
  BY <1>1, Constants DEF TxStart, CountOK, imuVars, linkVars, airVars
<1>6. TypeOK'
  BY <1>2, <1>3, <1>4, <1>5 DEF TypeOK
<1> QED BY <1>1, <1>2, <1>6 DEF TxStart, Inv, HeadStays, PktWhole, HalfFrame,
     OneSampleHandedOver, Whole, QueueOK, DataOK, At, MayRun, Goto, imuVars, linkVars,
     airVars

LEMMA TxLoopInv == ASSUME Inv, TxLoop PROVE Inv'
<1>1. TypeOK /\ QueueOK /\ DataOK /\ FlagsOK /\ CountOK
  BY DEF Inv, TypeOK
<1>2. QueueOK'
  BY <1>1 DEF TxLoop, QueueOK, At, MayRun, Goto
<1>3. DataOK'
  BY <1>1 DEF TxLoop, DataOK, imuVars, linkVars, airVars
<1>4. FlagsOK'
  BY <1>1 DEF TxLoop, FlagsOK, At, MayRun, Goto, imuVars, linkVars, airVars
<1>5. CountOK'
  BY <1>1, Constants DEF TxLoop, CountOK, imuVars, linkVars, airVars
<1>6. TypeOK'
  BY <1>2, <1>3, <1>4, <1>5 DEF TypeOK
<1> QED BY <1>1, <1>2, <1>6 DEF TxLoop, Inv, HeadStays, PktWhole, HalfFrame,
     OneSampleHandedOver, Whole, QueueOK, DataOK, At, MayRun, Goto, imuVars, linkVars,
     airVars

LEMMA SendBeginInv == ASSUME Inv, SendBegin PROVE Inv'
<1>1. TypeOK /\ QueueOK /\ DataOK /\ FlagsOK /\ CountOK
  BY DEF Inv, TypeOK
<1>2. QueueOK'
  BY <1>1 DEF SendBegin, QueueOK, At, MayRun, Goto, AfterSend
<1>3. DataOK'
  BY <1>1 DEF SendBegin, DataOK, imuVars, linkVars, airVars
<1>4. FlagsOK'
  BY <1>1 DEF SendBegin, FlagsOK, At, MayRun, Goto, imuVars, linkVars, airVars
<1>5. CountOK'
  BY <1>1, Constants DEF SendBegin, CountOK, NextSend, imuVars, linkVars, airVars
<1>6. TypeOK'
  BY <1>2, <1>3, <1>4, <1>5 DEF TypeOK
<1> QED BY <1>1, <1>2, <1>6 DEF SendBegin, Inv, HeadStays, PktWhole, HalfFrame,
     OneSampleHandedOver, Whole, QueueOK, DataOK, At, MayRun, Goto, AfterSend, imuVars,
     linkVars, airVars

LEMMA SendFillInv == ASSUME Inv, SendFill PROVE Inv'
<1>1. TypeOK /\ QueueOK /\ DataOK /\ FlagsOK /\ CountOK
  BY DEF Inv, TypeOK
<1>2. QueueOK'
  BY <1>1 DEF SendFill, QueueOK, At, MayRun, Goto
<1>3. DataOK'
  BY <1>1 DEF SendFill, DataOK, Frame, Packet, imuVars, linkVars, airVars
<1>4. FlagsOK'
  BY <1>1 DEF SendFill, FlagsOK, At, MayRun, Goto, imuVars, linkVars, airVars
<1>5. CountOK'
  BY <1>1, Constants DEF SendFill, CountOK, imuVars, linkVars, airVars
<1>6. TypeOK'
  BY <1>2, <1>3, <1>4, <1>5 DEF TypeOK
<1> QED BY <1>1, <1>2, <1>6 DEF SendFill, Inv, HeadStays, PktWhole, HalfFrame,
     OneSampleHandedOver, Whole, QueueOK, DataOK, At, MayRun, Goto, Frame, Packet, imuVars,
     linkVars, airVars

LEMMA SendFilledInv == ASSUME Inv, SendFilled PROVE Inv'
<1>1. TypeOK /\ QueueOK /\ DataOK /\ FlagsOK /\ CountOK
  BY DEF Inv, TypeOK
<1>2. QueueOK'
  BY <1>1 DEF SendFilled, QueueOK, At, MayRun, Goto
<1>3. DataOK'
  BY <1>1 DEF SendFilled, DataOK, Frame, Packet, imuVars, linkVars, airVars
<1>4. FlagsOK'
  BY <1>1 DEF SendFilled, FlagsOK, At, MayRun, Goto, imuVars, linkVars, airVars
<1>5. CountOK'
  BY <1>1, Constants DEF SendFilled, CountOK, imuVars, linkVars, airVars
<1>6. TypeOK'
  BY <1>2, <1>3, <1>4, <1>5 DEF TypeOK
<1> QED BY <1>1, <1>2, <1>6 DEF SendFilled, Inv, HeadStays, PktWhole, HalfFrame,
     OneSampleHandedOver, Whole, QueueOK, DataOK, At, MayRun, Goto, Frame, Packet, imuVars,
     linkVars, airVars

LEMMA SendWaitInv == ASSUME Inv, SendWait PROVE Inv'
<1>1. TypeOK /\ QueueOK /\ DataOK /\ FlagsOK /\ CountOK
  BY DEF Inv, TypeOK
<1>2. QueueOK'
  <2>1. /\ ready \in Queues /\ ready # <<>> /\ Head(ready) = "tx"
        /\ ready' = Without("tx")
    BY <1>1 DEF SendWait, QueueOK, At, MayRun
  <2>2. \/ ready = <<"tx">> /\ ready' = <<>>
        \/ ready = <<"tx", "imu">> /\ ready' = <<"imu">>
    BY <2>1, WithoutTx
  <2>3. pc["tx"] = "filled" /\ pc' = [pc EXCEPT !["tx"] = "waiting"]
    BY DEF SendWait, At, Goto
  <2>4. CASE ready = <<"tx">> /\ ready' = <<>>
    BY <1>1, <2>3, <2>4 DEF QueueOK, Queues
  <2>5. CASE ready = <<"tx", "imu">> /\ ready' = <<"imu">>
    BY <1>1, <2>3, <2>5 DEF QueueOK, Queues
  <2> QED BY <2>2, <2>4, <2>5
<1>3. DataOK'
  BY <1>1 DEF SendWait, DataOK, imuVars, linkVars, airVars
<1>4. FlagsOK'
  BY <1>1 DEF SendWait, FlagsOK, At, MayRun, Goto, imuVars, linkVars, airVars
<1>5. CountOK'
  BY <1>1, Constants DEF SendWait, CountOK, imuVars, linkVars, airVars
<1>6. TypeOK'
  BY <1>2, <1>3, <1>4, <1>5 DEF TypeOK
<1> QED BY <1>1, <1>2, <1>6 DEF SendWait, Inv, HeadStays, PktWhole, HalfFrame,
     OneSampleHandedOver, Whole, QueueOK, DataOK, At, MayRun, Goto, imuVars, linkVars,
     airVars

-----------------------------------------------------------------------------
(* The network task and the watchdog.                                      *)

LEMMA NoBeaconInv == ASSUME Inv, NoBeacon PROVE Inv'
<1>1. TypeOK /\ QueueOK /\ DataOK /\ FlagsOK /\ CountOK
  BY DEF Inv, TypeOK
<1>2. QueueOK'
  BY <1>1 DEF NoBeacon, QueueOK
<1>3. DataOK'
  BY <1>1 DEF NoBeacon, DataOK, imuVars, linkVars, airVars
<1>4. FlagsOK'
  BY <1>1 DEF NoBeacon, FlagsOK, imuVars, linkVars, airVars
<1>5. CountOK'
  BY <1>1, Constants DEF NoBeacon, CountOK, Alive, Older, imuVars, linkVars, airVars
<1>6. TypeOK'
  BY <1>2, <1>3, <1>4, <1>5 DEF TypeOK
<1> QED BY <1>1, <1>2, <1>6 DEF NoBeacon, Inv, HeadStays, PktWhole, HalfFrame,
     OneSampleHandedOver, Whole, QueueOK, DataOK, imuVars, linkVars, airVars

LEMMA HearBeaconInv == ASSUME Inv, HearBeacon PROVE Inv'
<1>1. TypeOK /\ QueueOK /\ DataOK /\ FlagsOK /\ CountOK
  BY DEF Inv, TypeOK
<1>2. QueueOK'
  BY <1>1 DEF HearBeacon, QueueOK
<1>3. DataOK'
  BY <1>1 DEF HearBeacon, DataOK, imuVars, linkVars, airVars
<1>4. FlagsOK'
  BY <1>1 DEF HearBeacon, FlagsOK, imuVars, linkVars, airVars
<1>5. CountOK'
  BY <1>1, Constants DEF HearBeacon, CountOK, imuVars, linkVars, airVars
<1>6. TypeOK'
  BY <1>2, <1>3, <1>4, <1>5 DEF TypeOK
<1> QED BY <1>1, <1>2, <1>6 DEF HearBeacon, Inv, HeadStays, PktWhole, HalfFrame,
     OneSampleHandedOver, Whole, QueueOK, DataOK, imuVars, linkVars, airVars

LEMMA CycleEndInv == ASSUME Inv, CycleEnd PROVE Inv'
<1>1. TypeOK /\ QueueOK /\ DataOK /\ FlagsOK /\ CountOK
  BY DEF Inv, TypeOK
<1>2. QueueOK'
  BY <1>1 DEF CycleEnd, QueueOK
<1>3. DataOK'
  BY <1>1 DEF CycleEnd, DataOK, imuVars, linkVars, airVars
<1>4. FlagsOK'
  BY <1>1 DEF CycleEnd, FlagsOK, imuVars, linkVars, airVars
<1>5. CountOK'
  BY <1>1, Constants DEF CycleEnd, CountOK, Alive, Older, imuVars, linkVars, airVars
<1>6. TypeOK'
  BY <1>2, <1>3, <1>4, <1>5 DEF TypeOK
<1> QED BY <1>1, <1>2, <1>6 DEF CycleEnd, Inv, HeadStays, PktWhole, HalfFrame,
     OneSampleHandedOver, Whole, QueueOK, DataOK, imuVars, linkVars, airVars

LEMMA SlotInv == ASSUME Inv, Slot PROVE Inv'
<1>1. TypeOK /\ QueueOK /\ DataOK /\ FlagsOK /\ CountOK
  BY DEF Inv, TypeOK
<1>2. QueueOK'
  <2>1. CASE txDataReady /\ pc["tx"] = "waiting"
    <3>1. ready \in {<<>>, <<"imu">>} /\ ready' = Append(ready, "tx")
      BY <1>1, <2>1 DEF Slot, SignalDone, QueueOK
    <3>2. \/ ready = <<>> /\ ready' = <<"tx">>
          \/ ready = <<"imu">> /\ ready' = <<"imu", "tx">>
      BY <3>1, AppendTx
    <3>3. pc' = [pc EXCEPT !["tx"] = AfterSend] /\ AfterSend \in {"loop", "send"}
      BY <2>1 DEF Slot, SignalDone, Goto, AfterSend
    <3> QED BY <1>1, <2>1, <3>2, <3>3 DEF QueueOK, Queues
  <2>2. CASE ~(txDataReady /\ pc["tx"] = "waiting")
    BY <1>1, <2>2 DEF Slot, SignalDone, QueueOK
  <2> QED BY <2>1, <2>2
<1>3. DataOK'
  BY <1>1 DEF Slot, DataOK, imuVars, airVars
<1>4. FlagsOK'
  BY <1>1 DEF Slot, FlagsOK, SignalDone, imuVars, airVars
<1>5. CountOK'
  BY <1>1, Constants DEF Slot, CountOK, SignalDone, NextSend, imuVars, airVars
<1>6. TypeOK'
  BY <1>2, <1>3, <1>4, <1>5 DEF TypeOK
<1>7. CASE txDataReady /\ pc["tx"] = "waiting"
  <2>1. ready \in {<<>>, <<"imu">>} /\ ready' = Append(ready, "tx")
    BY <1>1, <1>7 DEF Slot, SignalDone, QueueOK
  <2>2. ready # <<>> => ready' # <<>> /\ Head(ready') = Head(ready)
    BY <2>1, AppendTx
  <2>3. /\ pc'["imu"] = pc["imu"] /\ pc'["tx"] \in {"loop", "send"}
        /\ UNCHANGED <<pkt, txBuf, frame>>
    BY <1>1, <1>7 DEF Slot, SignalDone, Goto, AfterSend, QueueOK, imuVars
  <2> QED BY <1>6, <2>2, <2>3 DEF Inv, HeadStays, PktWhole, HalfFrame, OneSampleHandedOver
<1>8. CASE ~(txDataReady /\ pc["tx"] = "waiting")
  <2>1. UNCHANGED <<ready, pc, pkt, txBuf, frame>>
    BY <1>8 DEF Slot, SignalDone, imuVars
  <2>2. txDataReady' => txDataReady
    BY <1>8 DEF Slot
  <2> QED BY <1>6, <2>1, <2>2
          DEF Inv, HeadStays, PktWhole, HalfFrame, OneSampleHandedOver, Whole
<1> QED BY <1>7, <1>8

LEMMA SwWatchdogInv == ASSUME Inv, SwWatchdog PROVE Inv'
<1>1. air' \in Frame
  BY DEF SwWatchdog, Inv, TypeOK, DataOK
<1> QED BY <1>1, FreshInv DEF SwWatchdog

LEMMA InitInv == Init => Inv
<1> SUFFICES ASSUME Init PROVE Inv
  OBVIOUS
<1>1. QueueOK
  BY DEF Init, QueueOK, ActivationOrder, Queues
<1>2. DataOK
  BY Constants, BlankType DEF Init, DataOK
<1>3. CountOK
  BY DEF Init, CountOK
<1>4. FlagsOK
  BY DEF Init, FlagsOK
<1> QED BY <1>1, <1>2, <1>3, <1>4
       DEF Init, TypeOK, Inv, HeadStays, PktWhole, HalfFrame, OneSampleHandedOver, Blank

LEMMA NextInv == Inv /\ [Next]_vars => Inv'
<1> SUFFICES ASSUME Inv, [Next]_vars PROVE Inv'
  OBVIOUS
<1>1. CASE ImuDue
  BY <1>1, ImuDueInv
<1>2. CASE AppStep
  BY <1>2, ImuBuildInv, ImuPublishInv, TxStartInv, TxLoopInv, SendBeginInv, SendFillInv,
     SendFilledInv, SendWaitInv DEF AppStep
<1>3. CASE NoBeacon \/ HearBeacon \/ Slot \/ CycleEnd
  BY <1>3, NoBeaconInv, HearBeaconInv, SlotInv, CycleEndInv
<1>4. CASE SwWatchdog
  BY <1>4, SwWatchdogInv
<1>5. CASE UNCHANGED vars
  <2>1. TypeOK'
    BY <1>5 DEF vars, imuVars, linkVars, airVars, Inv, TypeOK, QueueOK, DataOK, FlagsOK,
       CountOK
  <2> QED BY <1>5, <2>1 DEF vars, imuVars, linkVars, airVars, Inv, HeadStays, PktWhole,
             HalfFrame, OneSampleHandedOver, Whole
<1> QED BY <1>1, <1>2, <1>3, <1>4, <1>5 DEF Next

\* The node's data keep their types, and a task is queued exactly while it
\* does not wait (tdma_client/main.c:190-284, pcf_tdma.c:200-262, 548-666).
THEOREM TypeCorrect == Spec => []TypeOK
<1>1. Inv => TypeOK
  BY DEF Inv
<1> QED BY <1>1, InitInv, NextInv, PTL DEF Spec

\* Whatever the beacons and the slots do, what tdma_send hands over is one
\* sample (tdma_client/main.c:236-243, pcf_tdma.c:245-247).
THEOREM AlwaysOneSample == Spec => []OneSampleHandedOver
<1>1. Inv => OneSampleHandedOver
  BY DEF Inv
<1> QED BY <1>1, InitInv, NextInv, PTL DEF Spec

-----------------------------------------------------------------------------
(* A damaged frame is the last of a life: it takes the signal with it.     *)

Sending == {"fill", "filling", "filled", "waiting"}

Damage == /\ txDataReady => pc["tx"] \in Sending
          /\ damaged # 0 => pc["tx"] \in Sending /\ ~txDataReady
          /\ damaged \in {0, 1}

\* Steps that leave the air alone.
LEMMA AirUntouched ==
    ASSUME Damage, UNCHANGED damaged, txDataReady' = txDataReady,
           pc["tx"] \in Sending => pc'["tx"] \in Sending
    PROVE  Damage'
BY DEF Damage

LEMMA SlotDamage == ASSUME Inv, Damage, Slot PROVE Damage'
<1>1. CASE ~txDataReady
  <2>1. UNCHANGED <<damaged, txDataReady, pc>>
    BY <1>1 DEF Slot, airVars
  <2> QED BY <2>1, AirUntouched
<1>2. CASE txDataReady /\ Whole(frame)
  <2>1. damaged' = damaged /\ damaged = 0
    BY <1>2 DEF Slot, Damage
  <2>2. ~txDataReady'
    BY <1>2 DEF Slot
  <2> QED BY <2>1, <2>2 DEF Damage
<1>3. CASE txDataReady /\ ~Whole(frame)
  <2>1. damaged = 0
    BY <1>3 DEF Damage
  <2>2. damaged' = 1
    BY <1>3, <2>1 DEF Slot
  <2>3. pc["tx"] \in {"fill", "filling"}
    BY <1>3 DEF Damage, Sending, Inv, OneSampleHandedOver
  <2>4. ~txDataReady' /\ pc' = pc
    BY <1>3, <2>3 DEF Slot, SignalDone
  <2> QED BY <2>2, <2>3, <2>4 DEF Damage, Sending
<1> QED BY <1>1, <1>2, <1>3

LEMMA SendBeginDamage == ASSUME Inv, Damage, SendBegin PROVE Damage'
<1>1. damaged' = damaged /\ damaged = 0 /\ ~txDataReady
  BY DEF SendBegin, At, airVars, Damage, Sending
<1>2. pc'["tx"] = "fill"
  BY <1>1 DEF SendBegin, Goto, Inv, TypeOK, QueueOK
<1> QED BY <1>1, <1>2 DEF Damage, Sending

LEMMA DamageNext == Inv /\ Damage /\ [Next]_vars => Damage'
<1> SUFFICES ASSUME Inv, Damage, [Next]_vars PROVE Damage'
  OBVIOUS
<1>1. CASE ImuDue \/ ImuBuild \/ ImuPublish
  <2>1. UNCHANGED <<damaged, txDataReady>> /\ pc'["tx"] = pc["tx"]
    BY <1>1 DEF ImuDue, ImuBuild, ImuPublish, At, Goto, linkVars, airVars, Inv, TypeOK, QueueOK
  <2> QED BY <2>1, AirUntouched
<1>2. CASE TxStart \/ TxLoop \/ SendFill \/ SendFilled \/ SendWait
  <2>1. UNCHANGED <<damaged, txDataReady>> /\ pc["tx"] # "waiting"
    BY <1>2 DEF TxStart, TxLoop, SendFill, SendFilled, SendWait, At, linkVars, airVars
  <2>2. pc["tx"] \in Sending => pc'["tx"] \in Sending
    BY <1>2 DEF TxStart, TxLoop, SendFill, SendFilled, SendWait, At, Goto, Sending, Inv,
       TypeOK, QueueOK
  <2> QED BY <2>1, <2>2, AirUntouched
<1>3. CASE NoBeacon \/ HearBeacon \/ CycleEnd
  <2>1. UNCHANGED <<damaged, txDataReady, pc>>
    BY <1>3 DEF NoBeacon, HearBeacon, CycleEnd, linkVars, airVars
  <2> QED BY <2>1, AirUntouched
<1>4. CASE SwWatchdog
  <2>1. ~txDataReady' /\ damaged' = 0
    BY <1>4 DEF SwWatchdog
  <2> QED BY <2>1 DEF Damage
<1>5. CASE UNCHANGED vars
  <2>1. UNCHANGED <<damaged, txDataReady, pc>>
    BY <1>5 DEF vars, linkVars, airVars
  <2> QED BY <2>1, AirUntouched
<1> QED BY <1>1, <1>2, <1>3, <1>4, <1>5, SlotDamage, SendBeginDamage DEF Next, AppStep

\* In a life the node puts one damaged frame at most on the air
\* (pcf_tdma.c:225-253, 645-653, 825-826).
THEOREM DamagesOnce == Spec => []OneDamagedFrame
<1>1. Init => Damage
  BY DEF Init, Damage
<1>2. Damage => OneDamagedFrame
  BY DEF Damage, OneDamagedFrame
<1> QED BY <1>1, <1>2, InitInv, NextInv, DamageNext, PTL DEF Spec

-----------------------------------------------------------------------------
(* While no packet is ready, task_imu is at the head of the queue.         *)

ImuAhead == ~packetReady => ready # <<>> /\ Head(ready) = "imu"

\* Steps that leave the head of the queue alone.
LEMMA HeadUntouched ==
    ASSUME ImuAhead, UNCHANGED packetReady,
           ready # <<>> => ready' # <<>> /\ Head(ready') = Head(ready)
    PROVE  ImuAhead'
BY DEF ImuAhead

LEMMA ImuAheadNext == Inv /\ ImuAhead /\ [Next]_vars => ImuAhead'
<1> SUFFICES ASSUME Inv, ImuAhead, [Next]_vars PROVE ImuAhead'
  OBVIOUS
<1>0. QueueOK
  BY DEF Inv, TypeOK
<1>1. CASE ImuDue
  <2>1. ready \in {<<>>, <<"tx">>} /\ ready' = Append(ready, "imu")
    BY <1>0, <1>1 DEF ImuDue, QueueOK
  <2>2. ready # <<>> => ready' # <<>> /\ Head(ready') = Head(ready)
    BY <2>1, AppendImu
  <2>3. UNCHANGED packetReady
    BY <1>1 DEF ImuDue, imuVars
  <2> QED BY <2>2, <2>3, HeadUntouched
<1>2. CASE ImuBuild
  BY <1>2 DEF ImuBuild, At, MayRun, ImuAhead
<1>3. CASE ImuPublish
  BY <1>3 DEF ImuPublish, ImuAhead
<1>4. CASE TxStart \/ TxLoop \/ SendBegin \/ SendFill \/ SendFilled \/ SendWait
  <2>1. ready # <<>> /\ Head(ready) = "tx"
    BY <1>4 DEF TxStart, TxLoop, SendBegin, SendFill, SendFilled, SendWait, At, MayRun
  <2>2. packetReady' = packetReady
    BY <1>4 DEF TxStart, TxLoop, SendBegin, SendFill, SendFilled, SendWait, imuVars
  <2> QED BY <2>1, <2>2 DEF ImuAhead
<1>5. CASE NoBeacon \/ HearBeacon \/ CycleEnd \/ UNCHANGED vars
  <2>1. UNCHANGED <<ready, packetReady>>
    BY <1>5 DEF NoBeacon, HearBeacon, CycleEnd, vars, imuVars
  <2> QED BY <2>1 DEF ImuAhead
<1>6. CASE Slot
  <2>1. UNCHANGED packetReady
    BY <1>6 DEF Slot, imuVars
  <2>2. CASE txDataReady /\ pc["tx"] = "waiting"
    <3>1. ready \in {<<>>, <<"imu">>} /\ ready' = Append(ready, "tx")
      BY <1>0, <1>6, <2>2 DEF Slot, SignalDone, QueueOK
    <3>2. ready # <<>> => ready' # <<>> /\ Head(ready') = Head(ready)
      BY <3>1, AppendTx
    <3> QED BY <2>1, <3>2, HeadUntouched
  <2>3. CASE ~(txDataReady /\ pc["tx"] = "waiting")
    <3>1. UNCHANGED ready
      BY <1>6, <2>3 DEF Slot, SignalDone
    <3> QED BY <2>1, <3>1 DEF ImuAhead
  <2> QED BY <2>2, <2>3
<1>7. CASE SwWatchdog
  <2>1. ready' = <<"imu", "tx">>
    BY <1>7 DEF SwWatchdog, ActivationOrder
  <2> QED BY <2>1 DEF ImuAhead
<1> QED BY <1>1, <1>2, <1>3, <1>4, <1>5, <1>6, <1>7 DEF Next, AppStep

\* tx_task never goes round its loop without a packet: until task_imu has
\* made one, it is task_imu that runs (tdma_client/main.c:269-278, 288-318).
THEOREM NeverGoesRound == Spec => []NeverSpins
<1>1. Init => ImuAhead
  <2>1. Init => ready = <<"imu", "tx">>
    BY DEF Init, ActivationOrder
  <2> QED BY <2>1 DEF ImuAhead
<1>2. ImuAhead => NeverSpins
  BY DEF ImuAhead, NeverSpins, MayRun
<1> QED BY <1>1, <1>2, InitInv, NextInv, ImuAheadNext, PTL DEF Spec

-----------------------------------------------------------------------------
(* The promise of TdmaSender.  The numbers tell whether there is a sample  *)
(* (Counting), and the frame is a whole one, or none yet, but for its part *)
(* that a copy has already written, until the node is mute (FrameKept).    *)

Counting ==
    /\ NextNumber = (pkt.data + 1) % SeqMod \/ (NextNumber = 0 /\ pkt.data = 0)
    /\ pc["imu"] = "copy" => sequenceNo = (txBuf.data + 1) % SeqMod
    /\ packetReady => HasSample
    /\ pc["tx"] \notin {"start", "loop"} => HasSample

FrameKept == ~Mute => /\ frame.length = "none" => frame.data = 0
                      /\ pc["tx"] # "filling" => frame.seq = frame.data

SendInv == Inv /\ Damage /\ Counting /\ FrameKept

\* Steps that leave task_imu alone.
LEMMA CountingKept ==
    ASSUME Counting, UNCHANGED imuVars, pc'["imu"] = pc["imu"],
           pc'["tx"] \in {"start", "loop"} \/ HasSample
    PROVE  Counting' /\ UNCHANGED <<HasSample, Newest>>
<1>1. UNCHANGED <<sequenceNo, txBuf, pkt, packetReady>>
  BY DEF imuVars
<1>2. NextNumber' = NextNumber
  BY <1>1 DEF NextNumber
<1>3. HasSample' = HasSample
  BY <1>1, <1>2 DEF HasSample
<1>4. Newest' = Newest
  BY <1>1, <1>3 DEF Newest
<1> QED BY <1>1, <1>2, <1>3, <1>4 DEF Counting

\* Steps that leave tx_task and its frame alone.
LEMMA FrameSame ==
    ASSUME UNCHANGED <<linkVars, air>>, pc'["tx"] = pc["tx"]
    PROVE  /\ FrameKept => FrameKept'
           /\ UNCHANGED <<LastFrame, Loaded, Mute, air>>
<1>1. UNCHANGED <<frame, txDataReady, air>>
  BY DEF linkVars
<1>2. Mute' = Mute /\ Loaded' = Loaded
  BY <1>1 DEF Mute, Loaded, InSend
<1>3. LastFrame' = LastFrame
  BY <1>1, <1>2 DEF LastFrame
<1> QED BY <1>1, <1>2, <1>3 DEF FrameKept

LEMMA Successor == ASSUME NEW n \in Number PROVE (n + 1) % SeqMod \in Number /\ (n + 1) % SeqMod # n
<1>1. n \in Nat /\ n < SeqMod /\ SeqMod \in Nat /\ SeqMod > 1
  BY Constants DEF Number
<1>2. CASE n + 1 = SeqMod
  <2>1. (n + 1) % SeqMod = 0
    BY <1>1, <1>2
  <2> QED BY <1>1, <1>2, <2>1 DEF Number
<1>3. CASE n + 1 < SeqMod
  <2>1. (n + 1) % SeqMod = n + 1
    BY <1>1, <1>3
  <2> QED BY <1>1, <1>3, <2>1 DEF Number
<1> QED BY <1>1, <1>2, <1>3

\* What a step keeps of the invariant, and what TdmaSender sees of it.
Stutters == UNCHANGED Sender!senderVars

LEMMA StuttersIs ==
    ASSUME UNCHANGED <<Newest, LastFrame, air>>, Loaded' <=> Loaded, Mute' <=> Mute
    PROVE  Stutters
<1>1. Loaded' = Loaded /\ Mute' = Mute
  BY DEF Loaded, Mute
<1> QED BY <1>1 DEF Stutters, Sender!senderVars

LEMMA ImuDueSends == ASSUME SendInv, ImuDue PROVE Counting' /\ FrameKept' /\ Stutters
<1>1. pc["imu"] = "asleep" /\ pc'["imu"] = "build" /\ pc'["tx"] = pc["tx"]
  BY DEF ImuDue, Goto, SendInv, Inv, TypeOK, QueueOK
<1>2. UNCHANGED <<linkVars, air, sequenceNo, txBuf, pkt, packetReady>>
  BY DEF ImuDue, imuVars, airVars
<1>3. NextNumber' = NextNumber
  BY <1>1, <1>2 DEF NextNumber
<1>4. HasSample' = HasSample
  BY <1>2, <1>3 DEF HasSample
<1>5. Newest' = Newest
  BY <1>2, <1>4 DEF Newest
<1>6. Counting'
  BY <1>1, <1>2, <1>3, <1>4 DEF SendInv, Counting
<1>7. FrameKept' /\ UNCHANGED <<LastFrame, Loaded, Mute, air>>
  BY <1>1, <1>2, FrameSame DEF SendInv
<1> QED BY <1>5, <1>6, <1>7, StuttersIs

LEMMA ImuBuildSends == ASSUME SendInv, ImuBuild PROVE Counting' /\ FrameKept' /\ Stutters
<1>1. pc["imu"] = "build" /\ pc'["imu"] = "copy" /\ pc'["tx"] = pc["tx"]
  BY DEF ImuBuild, At, Goto, SendInv, Inv, TypeOK, QueueOK
<1>2. UNCHANGED <<linkVars, air>>
  BY DEF ImuBuild, airVars
<1>3. /\ txBuf'.data = sequenceNo /\ sequenceNo' = (sequenceNo + 1) % SeqMod
      /\ ~packetReady'
  BY DEF ImuBuild
<1>4. pkt'.data = pkt.data
  BY DEF ImuBuild, SendInv, Inv, TypeOK, DataOK, Packet
<1>5. NextNumber' = NextNumber
  BY <1>1, <1>3 DEF NextNumber
<1>6. HasSample' = HasSample
  BY <1>4, <1>5 DEF HasSample
<1>7. Newest' = Newest
  BY <1>4, <1>6 DEF Newest
<1>8. Counting'
  <2>1. NextNumber' = (pkt'.data + 1) % SeqMod \/ (NextNumber' = 0 /\ pkt'.data = 0)
    BY <1>4, <1>5 DEF SendInv, Counting
  <2>2. pc'["tx"] \notin {"start", "loop"} => HasSample'
    BY <1>1, <1>6 DEF SendInv, Counting
  <2> QED BY <1>3, <2>1, <2>2 DEF Counting
<1>9. FrameKept' /\ UNCHANGED <<LastFrame, Loaded, Mute, air>>
  BY <1>1, <1>2, FrameSame DEF SendInv
<1> QED BY <1>7, <1>8, <1>9, StuttersIs

LEMMA ImuPublishSends ==
    ASSUME SendInv, ImuPublish PROVE Counting' /\ FrameKept' /\ Sender!NewSample
<1>1. pc["imu"] = "copy" /\ pc'["imu"] = "asleep" /\ pc'["tx"] = pc["tx"]
  BY DEF ImuPublish, At, Goto, SendInv, Inv, TypeOK, QueueOK
<1>2. UNCHANGED <<linkVars, air>> /\ sequenceNo' = sequenceNo
  BY DEF ImuPublish, airVars
<1>3. pkt'.data = txBuf.data
  BY DEF ImuPublish, SendInv, Inv, TypeOK, DataOK, Packet
<1>4. /\ NextNumber = txBuf.data /\ txBuf.data \in Number /\ pkt.data \in Number
      /\ NextNumber' = (txBuf.data + 1) % SeqMod
  BY <1>1, <1>2 DEF NextNumber, SendInv, Counting, Inv, TypeOK, DataOK, Packet
<1>5. HasSample'
  <2>1. ~(NextNumber' = 0 /\ pkt'.data = 0)
    BY <1>3, <1>4, Successor
  <2> QED BY <2>1 DEF HasSample
<1>6. Newest' = txBuf.data
  BY <1>3, <1>5 DEF Newest
<1>7. Newest' = IF Newest = SeqMod THEN 0 ELSE (Newest + 1) % SeqMod
  <2>1. SeqMod \notin Number
    BY Constants DEF Number
  <2>2. CASE HasSample
    <3>1. txBuf.data = (pkt.data + 1) % SeqMod
      BY <1>4, <2>2 DEF HasSample, SendInv, Counting
    <3>2. Newest = pkt.data /\ Newest # SeqMod
      BY <1>4, <2>1, <2>2 DEF Newest
    <3> QED BY <1>6, <3>1, <3>2
  <2>3. CASE ~HasSample
    <3>1. txBuf.data = 0 /\ Newest = SeqMod
      BY <1>4, <2>3 DEF HasSample, Newest
    <3> QED BY <1>6, <3>1
  <2> QED BY <2>2, <2>3
<1>8. Counting'
  BY <1>1, <1>3, <1>4, <1>5 DEF Counting
<1>9. FrameKept' /\ UNCHANGED <<LastFrame, Loaded, Mute, air>>
  BY <1>1, <1>2, FrameSame DEF SendInv
<1> QED BY <1>7, <1>8, <1>9 DEF Sender!NewSample, Sender!NoSample

LEMMA TxRoundSends ==
    ASSUME SendInv, TxStart \/ TxLoop PROVE Counting' /\ FrameKept' /\ Stutters
<1>1. pc["tx"] \in {"start", "loop"} /\ UNCHANGED <<imuVars, linkVars, air>>
  BY DEF TxStart, TxLoop, At, airVars
<1>2. /\ pc'["imu"] = pc["imu"]
      /\ pc'["tx"] = "loop" \/ (pc'["tx"] = "send" /\ packetReady)
  BY DEF TxStart, TxLoop, At, Goto, SendInv, Inv, TypeOK, QueueOK
<1>3. packetReady => HasSample
  BY DEF SendInv, Counting
<1>4. Counting' /\ UNCHANGED Newest
  BY <1>1, <1>2, <1>3, CountingKept DEF SendInv
<1>5. /\ ~InSend /\ ~InSend' /\ ~Loaded /\ ~Loaded'
      /\ pc["tx"] # "filling" /\ pc'["tx"] # "filling"
  BY <1>1, <1>2 DEF InSend, Loaded
<1>6. ~Mute /\ ~Mute' /\ frame' = frame
  BY <1>1, <1>5 DEF Mute, linkVars
<1>7. LastFrame' = LastFrame /\ FrameKept'
  BY <1>5, <1>6 DEF LastFrame, SendInv, FrameKept
<1> QED BY <1>1, <1>4, <1>5, <1>6, <1>7, StuttersIs

LEMMA SendBeginSends == ASSUME SendInv, SendBegin PROVE Counting' /\ FrameKept' /\ Stutters
<1>1. /\ pc["tx"] = "send" /\ UNCHANGED <<imuVars, frame, air>>
      /\ ~txDataReady
  BY DEF SendBegin, At, airVars, SendInv, Damage, Sending
<1>2. pc'["imu"] = pc["imu"] /\ pc'["tx"] = "fill" /\ txDataReady'
  BY <1>1 DEF SendBegin, Goto, SendInv, Inv, TypeOK, QueueOK
<1>3. HasSample
  BY <1>1 DEF SendInv, Counting
<1>4. Counting' /\ UNCHANGED Newest
  BY <1>1, <1>2, <1>3, CountingKept DEF SendInv
<1>5. ~Mute /\ ~Mute' /\ ~Loaded /\ ~Loaded'
  BY <1>1, <1>2 DEF Mute, InSend, Loaded
<1>6. LastFrame' = LastFrame /\ FrameKept'
  BY <1>1, <1>2, <1>5 DEF LastFrame, SendInv, FrameKept
<1> QED BY <1>1, <1>4, <1>5, <1>6, StuttersIs

LEMMA SendFillSends == ASSUME SendInv, SendFill PROVE Counting' /\ FrameKept' /\ Stutters
<1>1. pc["tx"] = "fill" /\ UNCHANGED <<imuVars, txDataReady, air>>
  BY DEF SendFill, At, airVars
<1>2. pc'["imu"] = pc["imu"] /\ pc'["tx"] = "filling"
  BY DEF SendFill, Goto, SendInv, Inv, TypeOK, QueueOK
<1>3. HasSample
  BY <1>1 DEF SendInv, Counting
<1>4. Counting' /\ UNCHANGED Newest
  BY <1>1, <1>2, <1>3, CountingKept DEF SendInv
<1>5. Mute' = Mute /\ ~Loaded /\ ~Loaded'
  BY <1>1, <1>2 DEF Mute, InSend, Loaded
<1>6. frame \in Frame /\ frame' = [frame EXCEPT !.seq = pkt.seq]
  BY DEF SendFill, SendInv, Inv, TypeOK, DataOK
<1>7. frame'.data = frame.data /\ frame'.length = frame.length
  BY <1>6 DEF Frame
<1>8. FrameKept'
  BY <1>2, <1>5, <1>7 DEF SendInv, FrameKept
<1>9. LastFrame' = LastFrame
  <2>1. CASE Mute
    BY <1>5, <2>1 DEF LastFrame
  <2>2. CASE ~Mute
    <3>1. frame.seq = frame.data /\ LastFrame = frame
      BY <1>1, <2>2 DEF SendInv, FrameKept, LastFrame
    <3>2. LastFrame' = [frame' EXCEPT !.seq = frame'.data]
      BY <1>2, <1>5, <2>2 DEF LastFrame
    <3>3. LastFrame' = frame
      BY <1>6, <3>1, <3>2 DEF Frame
    <3> QED BY <3>1, <3>3
  <2> QED BY <2>1, <2>2
<1> QED BY <1>1, <1>4, <1>5, <1>8, <1>9, StuttersIs

LEMMA SendWaitSends == ASSUME SendInv, SendWait PROVE Counting' /\ FrameKept' /\ Stutters
<1>1. pc["tx"] = "filled" /\ UNCHANGED <<imuVars, linkVars, air>>
  BY DEF SendWait, At, airVars
<1>2. pc'["imu"] = pc["imu"] /\ pc'["tx"] = "waiting"
  BY DEF SendWait, Goto, SendInv, Inv, TypeOK, QueueOK
<1>3. HasSample
  BY <1>1 DEF SendInv, Counting
<1>4. Counting' /\ UNCHANGED Newest
  BY <1>1, <1>2, <1>3, CountingKept DEF SendInv
<1>5. UNCHANGED <<frame, txDataReady>>
  BY <1>1 DEF linkVars
<1>6. Mute' = Mute /\ Loaded' = Loaded
  BY <1>1, <1>2, <1>5 DEF Mute, InSend, Loaded
<1>7. LastFrame' = LastFrame /\ FrameKept'
  BY <1>1, <1>2, <1>5, <1>6 DEF LastFrame, SendInv, FrameKept
<1> QED BY <1>1, <1>4, <1>6, <1>7, StuttersIs

\* While tx_task copies, task_imu does not: the packet is one sample.
LEMMA PktIsNewest ==
    ASSUME SendInv, pc["tx"] \in {"fill", "filling"}
    PROVE  /\ pkt.seq = pkt.data /\ HasSample /\ Newest = pkt.data /\ Newest # SeqMod
<1>1. pc["imu"] # "copy"
  BY DEF SendInv, Inv, HeadStays
<1>2. pkt.seq = pkt.data
  BY <1>1 DEF SendInv, Inv, PktWhole
<1>3. HasSample
  BY DEF SendInv, Counting
<1>4. pkt.data \in Number /\ SeqMod \notin Number
  BY Constants DEF Number, SendInv, Inv, TypeOK, DataOK, Packet
<1> QED BY <1>2, <1>3, <1>4 DEF Newest

LEMMA SendFilledSends ==
    ASSUME SendInv, SendFilled PROVE Counting' /\ FrameKept' /\ (Sender!Load \/ Stutters)
<1>1. pc["tx"] = "filling" /\ UNCHANGED <<imuVars, txDataReady, air>>
  BY DEF SendFilled, At, airVars
<1>2. pc'["imu"] = pc["imu"] /\ pc'["tx"] = "filled"
  BY DEF SendFilled, Goto, SendInv, Inv, TypeOK, QueueOK
<1>3. Counting' /\ UNCHANGED Newest
  BY <1>1, <1>2, PktIsNewest, CountingKept DEF SendInv
<1>4. Mute' = Mute /\ ~Loaded
  BY <1>1, <1>2 DEF Mute, InSend, Loaded
<1>5. CASE Mute
  <2>1. ~Loaded' /\ LastFrame' = LastFrame /\ FrameKept'
    BY <1>1, <1>4, <1>5 DEF Loaded, LastFrame, FrameKept, Mute
  <2> QED BY <1>1, <1>3, <1>4, <2>1, StuttersIs
<1>6. CASE ~Mute
  <2>1. frame \in Frame /\ frame' = [frame EXCEPT !.data = pkt.data, !.length = "full"]
    BY DEF SendFilled, SendInv, Inv, TypeOK, DataOK
  <2>2. frame.seq = pkt.data
    BY <1>1, PktIsNewest DEF SendInv, Inv, HalfFrame
  <2>3. frame' = [seq |-> pkt.data, data |-> pkt.data, length |-> "full"]
    BY <2>1, <2>2 DEF Frame
  <2>4. LastFrame' = frame' /\ FrameKept'
    BY <1>2, <1>4, <1>6, <2>3 DEF LastFrame, FrameKept
  <2>5. txDataReady' = TRUE
    BY <1>1, <1>6 DEF Mute, InSend, SendInv, Inv, TypeOK, FlagsOK
  <2>6. Loaded' = TRUE
    BY <1>2, <2>5 DEF Loaded
  <2>7. Sender!Load
    BY <1>1, <1>3, <1>4, <1>6, <2>3, <2>4, <2>6, PktIsNewest
       DEF Sender!Load, Sender!NoSample, Sender!Packed
  <2> QED BY <1>3, <2>4, <2>7
<1> QED BY <1>5, <1>6

LEMMA IdleSends ==
    ASSUME SendInv, NoBeacon \/ HearBeacon \/ CycleEnd \/ UNCHANGED vars
    PROVE  Counting' /\ FrameKept' /\ Stutters
<1>1. UNCHANGED <<imuVars, linkVars, air, pc>>
  BY DEF NoBeacon, HearBeacon, CycleEnd, vars, airVars
<1>2. pc["tx"] \in {"start", "loop"} \/ HasSample
  BY DEF SendInv, Counting
<1>3. Counting' /\ UNCHANGED Newest
  BY <1>1, <1>2, CountingKept DEF SendInv
<1>4. FrameKept' /\ UNCHANGED <<LastFrame, Loaded, Mute, air>>
  BY <1>1, FrameSame DEF SendInv
<1> QED BY <1>3, <1>4, StuttersIs

\* The slot sends what was handed over, and the signal is taken or lost; or
\* it sends what is not there yet, and the signal is lost.
LEMMA SlotSends ==
    ASSUME SendInv, Slot
    PROVE  Counting' /\ FrameKept' /\ (Sender!Send \/ Sender!SendUnfilled \/ Stutters)
<1>1. UNCHANGED imuVars /\ frame' = frame
  BY DEF Slot
<1>2. /\ pc'["imu"] = pc["imu"]
      /\ IF txDataReady /\ pc["tx"] = "waiting"
         THEN pc'["tx"] \in {"loop", "send"} ELSE pc'["tx"] = pc["tx"]
  BY DEF Slot, SignalDone, AfterSend, Goto, SendInv, Inv, TypeOK, QueueOK
<1>3. Counting' /\ UNCHANGED <<HasSample, Newest>>
  <2>1. pc'["tx"] \in {"start", "loop"} \/ HasSample
    BY <1>2 DEF SendInv, Counting
  <2> QED BY <1>1, <1>2, <2>1, CountingKept DEF SendInv
<1>4. CASE ~txDataReady
  <2>1. UNCHANGED <<txDataReady, air, linkVars>> /\ pc'["tx"] = pc["tx"]
    BY <1>1, <1>2, <1>4 DEF Slot, airVars, linkVars
  <2>2. FrameKept' /\ UNCHANGED <<LastFrame, Loaded, Mute, air>>
    BY <2>1, FrameSame DEF SendInv
  <2> QED BY <1>3, <2>2, StuttersIs
<1>5. CASE txDataReady
  <2>1. air' = frame /\ ~txDataReady' /\ pc["tx"] \in Sending
    BY <1>5 DEF Slot, SendInv, Damage
  <2>2. ~Mute /\ ~Loaded'
    BY <1>5, <2>1 DEF Mute, Loaded
  <2>3. FrameKept'
    BY <1>1, <1>2, <1>5, <2>1, <2>2 DEF SendInv, FrameKept, Mute, InSend, Sending
  <2>4. CASE pc["tx"] = "waiting"
    <3>1. Loaded /\ ~Mute' /\ LastFrame = frame /\ LastFrame' = frame
      BY <1>1, <1>2, <1>5, <2>2, <2>4 DEF Loaded, LastFrame, Mute, InSend
    <3>2. Mute' = Mute /\ Loaded' = FALSE
      BY <2>2, <3>1 DEF Mute, Loaded
    <3>3. Sender!Send
      BY <1>3, <2>1, <3>1, <3>2 DEF Sender!Send
    <3> QED BY <1>3, <2>3, <3>3
  <2>5. CASE pc["tx"] # "waiting"
    <3>1. Mute' /\ LastFrame' = BlankFrame
      BY <1>2, <2>1, <2>5 DEF Mute, InSend, Sending, LastFrame
    <3>2. Mute' = TRUE /\ Loaded' = FALSE
      BY <2>2, <3>1 DEF Mute, Loaded
    <3>3. CASE pc["tx"] = "filled"
      <4>1. Loaded /\ LastFrame = frame
        BY <1>5, <2>2, <3>3 DEF Loaded, LastFrame
      <4>2. Sender!Send
        BY <1>3, <2>1, <3>1, <3>2, <4>1 DEF Sender!Send, Sender!Empty, BlankFrame
      <4> QED BY <1>3, <2>3, <4>2
    <3>4. CASE pc["tx"] \in {"fill", "filling"}
      <4>1. ~Loaded /\ Loaded' = Loaded
        BY <3>2, <3>4 DEF Loaded
      <4>2. HasSample /\ Newest = pkt.data /\ Newest # SeqMod /\ pkt.seq = pkt.data
        BY <3>4, PktIsNewest
      <4>3. air' \in {LastFrame, [LastFrame EXCEPT !.seq = Newest]}
        <5>1. CASE pc["tx"] = "fill"
          BY <2>1, <2>2, <5>1 DEF LastFrame
        <5>2. CASE pc["tx"] = "filling"
          <6>1. LastFrame = [frame EXCEPT !.seq = frame.data]
            BY <2>2, <5>2 DEF LastFrame
          <6>2. frame \in Frame /\ frame.seq = Newest
            BY <4>2, <5>2 DEF SendInv, Inv, HalfFrame, TypeOK, DataOK
          <6>3. [LastFrame EXCEPT !.seq = Newest] = frame
            BY <6>1, <6>2 DEF Frame
          <6> QED BY <2>1, <6>3
        <5> QED BY <3>4, <5>1, <5>2
      <4>4. Sender!SendUnfilled
        BY <1>3, <2>2, <3>1, <3>2, <4>1, <4>2, <4>3
           DEF Sender!SendUnfilled, Sender!NoSample, Sender!Empty, BlankFrame
      <4> QED BY <1>3, <2>3, <4>4
    <3> QED BY <2>1, <2>5, <3>3, <3>4 DEF Sending
  <2> QED BY <2>4, <2>5
<1> QED BY <1>4, <1>5

\* A fresh life has no sample and no frame.
LEMMA FreshSends ==
    ASSUME pc = [imu |-> "build", tx |-> "start"], sequenceNo = 0, pkt = Blank,
           packetReady = FALSE, frame = BlankFrame, txDataReady = FALSE
    PROVE  /\ Counting /\ FrameKept
           /\ Newest = Sender!NoSample /\ LastFrame = Sender!Empty
           /\ Loaded = FALSE /\ Mute = FALSE
<1>1. NextNumber = 0 /\ pkt.data = 0
  BY DEF NextNumber, Blank
<1>2. ~HasSample
  BY <1>1 DEF HasSample
<1>3. Loaded = FALSE /\ Mute = FALSE
  BY DEF Loaded, Mute, InSend
<1>4. Counting
  BY <1>1 DEF Counting
<1>5. FrameKept
  BY DEF FrameKept, BlankFrame
<1>6. LastFrame = Sender!Empty
  BY <1>3 DEF LastFrame, Sender!Empty, BlankFrame
<1> QED BY <1>2, <1>3, <1>4, <1>5, <1>6 DEF Newest, Sender!NoSample

LEMMA WatchdogSends == ASSUME SwWatchdog PROVE Counting' /\ FrameKept' /\ Sender!Restart
<1>1. /\ pc' = [imu |-> "build", tx |-> "start"] /\ sequenceNo' = 0 /\ pkt' = Blank
      /\ packetReady' = FALSE /\ frame' = BlankFrame /\ txDataReady' = FALSE /\ air' = air
  BY DEF SwWatchdog
<1>2. NextNumber' = 0 /\ pkt'.data = 0
  BY <1>1 DEF NextNumber, Blank
<1>3. ~HasSample'
  BY <1>2 DEF HasSample
<1>4. Loaded' = FALSE /\ Mute' = FALSE
  BY <1>1 DEF Loaded, Mute, InSend
<1>5. Counting'
  BY <1>1, <1>2 DEF Counting
<1>6. FrameKept'
  BY <1>1 DEF FrameKept, BlankFrame
<1>7. LastFrame' = Sender!Empty
  BY <1>1, <1>4 DEF LastFrame, Sender!Empty, BlankFrame
<1>8. Newest' = Sender!NoSample
  BY <1>3 DEF Newest, Sender!NoSample
<1> QED BY <1>1, <1>4, <1>5, <1>6, <1>7, <1>8 DEF Sender!Restart

LEMMA NextSends ==
    SendInv /\ [Next]_vars => SendInv' /\ [Sender!Next]_(Sender!senderVars)
<1> SUFFICES ASSUME SendInv, [Next]_vars
             PROVE  SendInv' /\ [Sender!Next]_(Sender!senderVars)
  OBVIOUS
<1>1. Inv' /\ Damage'
  BY NextInv, DamageNext DEF SendInv
<1>2. Counting' /\ FrameKept' /\ (Sender!Next \/ Stutters)
  <2>1. CASE ImuDue \/ ImuBuild \/ ImuPublish
    BY <2>1, ImuDueSends, ImuBuildSends, ImuPublishSends DEF Sender!Next
  <2>2. CASE TxStart \/ TxLoop \/ SendBegin \/ SendFill \/ SendFilled \/ SendWait
    BY <2>2, TxRoundSends, SendBeginSends, SendFillSends, SendFilledSends, SendWaitSends
       DEF Sender!Next
  <2>3. CASE NoBeacon \/ HearBeacon \/ CycleEnd \/ UNCHANGED vars
    BY <2>3, IdleSends
  <2>4. CASE Slot \/ SwWatchdog
    BY <2>4, SlotSends, WatchdogSends DEF Sender!Next
  <2> QED BY <2>1, <2>2, <2>3, <2>4 DEF Next, AppStep
<1> QED BY <1>1, <1>2 DEF SendInv, Stutters

\* What a node does, whatever the interleaving of its tasks with the slots,
\* is what TdmaSender promises: whole samples, each the newest, and one frame
\* at most of a life that is not (tdma_client/main.c:190-284,
\* pcf_tdma.c:200-262, 637-666).
THEOREM NodeImplementsSender == Spec => SendsSamples
<1>1. Init => SendInv /\ Sender!Init
  <2> SUFFICES ASSUME Init PROVE SendInv /\ Sender!Init
    OBVIOUS
  <2>1. Inv /\ Damage
    BY InitInv DEF Init, Damage
  <2>2. /\ Counting /\ FrameKept
        /\ Newest = Sender!NoSample /\ LastFrame = Sender!Empty
        /\ Loaded = FALSE /\ Mute = FALSE
    BY FreshSends DEF Init
  <2>3. air = Sender!Empty
    BY DEF Init, BlankFrame, Sender!Empty
  <2> QED BY <2>1, <2>2, <2>3 DEF SendInv, Sender!Init
<1> QED BY <1>1, NextSends, PTL DEF Spec, SendsSamples, Sender!Spec

-----------------------------------------------------------------------------
(* The I2C driver.  FaultStaysInSample is followed through the round: a    *)
(* transfer that no fault met has left the sensor's register pointer at    *)
(* its first register (Pointing), then TWI_buf filled up to the handler's  *)
(* pointer with the bytes of this round (Reading), and the packet holds    *)
(* them (Collected).  Nothing is asked of what a fault leaves behind: each *)
(* transfer sets all that it depends on, but for the bus, which sends only *)
(* on command.                                                             *)

\* Where in the loop a sensor's register is set, read and collected.
Base(d) == IF d = "adxl" THEN 7 ELSE IF d = "itg" THEN 10 ELSE 13

LEMMA ProgramIs ==
    /\ Len(Program) = 16 /\ RoundStart = 7
    /\ \A i \in 1..4 : Program[i] = <<"setup", "adxl">>
    /\ Program[5] = <<"setup", "itg">> /\ Program[6] = <<"setup", "hmc">>
    /\ Program[7] = <<"point", "adxl">> /\ Program[8] = <<"read", "adxl">>
    /\ Program[9] = <<"get", "adxl">>
    /\ Program[10] = <<"point", "itg">> /\ Program[11] = <<"read", "itg">>
    /\ Program[12] = <<"get", "itg">>
    /\ Program[13] = <<"point", "hmc">> /\ Program[14] = <<"read", "hmc">>
    /\ Program[15] = <<"get", "hmc">> /\ Program[16] = <<"publish", "none">>
<1>1. Len(Setups) = 6 /\ Len(Round) = 10
  BY DEF Setups, Round
<1>2. /\ Setups \in Seq({Setups[i] : i \in 1..6} \cup {Round[i] : i \in 1..10})
      /\ Round \in Seq({Setups[i] : i \in 1..6} \cup {Round[i] : i \in 1..10})
  <2>1. Setups = [i \in 1..6 |-> Setups[i]] /\ Round = [i \in 1..10 |-> Round[i]]
    BY DEF Setups, Round
  <2> QED BY <2>1
<1>3. PICK S, a, b : a \in Seq(S) /\ b \in Seq(S) /\ a = Setups /\ b = Round
  BY <1>2
<1>4. Program = a \o b /\ RoundStart = Len(a) + 1
  BY <1>3 DEF Program, RoundStart
<1>5. /\ Len(Program) = 16 /\ RoundStart = 7
      /\ \A i \in 1..6 : Program[i] = Setups[i]
      /\ \A i \in 7..16 : Program[i] = Round[i - 6]
  <2>1. Len(a) = 6 /\ Len(b) = 10
    BY <1>1, <1>3
  <2>2. /\ Len(a \o b) = Len(a) + Len(b)
        /\ \A i \in 1..Len(a) + Len(b) :
              (a \o b)[i] = IF i <= Len(a) THEN a[i] ELSE b[i - Len(a)]
    BY <1>3, ConcatProperties, Zenon
  <2>3. PICK p : p = a \o b
    OBVIOUS
  <2>4. /\ Len(p) = Len(a) + Len(b)
        /\ \A i \in 1..Len(a) + Len(b) : p[i] = IF i <= Len(a) THEN a[i] ELSE b[i - Len(a)]
    BY <2>2, <2>3, Zenon
  <2>5. /\ Len(p) = 16
        /\ \A i \in 1..6 : p[i] = a[i]
        /\ \A i \in 7..16 : p[i] = b[i - 6]
    BY <2>1, <2>4
  <2>6. RoundStart = 7 /\ Program = p
    BY <1>4, <2>1, <2>3
  <2> QED BY <1>3, <2>5, <2>6, Zenon
<1>6. \A i \in 1..4 : Program[i] = <<"setup", "adxl">>
  BY <1>5 DEF Setups
<1>7. Program[5] = <<"setup", "itg">> /\ Program[6] = <<"setup", "hmc">>
  BY <1>5 DEF Setups
<1>8. /\ Program[7] = Round[1] /\ Program[8] = Round[2] /\ Program[9] = Round[3]
      /\ Program[10] = Round[4] /\ Program[11] = Round[5] /\ Program[12] = Round[6]
      /\ Program[13] = Round[7] /\ Program[14] = Round[8] /\ Program[15] = Round[9]
      /\ Program[16] = Round[10]
  BY <1>5
<1>9. /\ Round[1] = <<"point", "adxl">> /\ Round[2] = <<"read", "adxl">>
      /\ Round[3] = <<"get", "adxl">>
      /\ Round[4] = <<"point", "itg">> /\ Round[5] = <<"read", "itg">>
      /\ Round[6] = <<"get", "itg">>
      /\ Round[7] = <<"point", "hmc">> /\ Round[8] = <<"read", "hmc">>
      /\ Round[9] = <<"get", "hmc">> /\ Round[10] = <<"publish", "none">>
  BY DEF Round
<1> QED BY <1>5, <1>6, <1>7, <1>8, <1>9

LEMMA StepIs ==
    ASSUME step \in 1..Len(Program)
    PROVE  /\ step \in 1..16
           /\ Doing("setup") => Device \in Sensor /\ step \in 1..6
           /\ Doing("point") => Device \in Sensor /\ step = Base(Device)
           /\ Doing("read") => Device \in Sensor /\ step = Base(Device) + 1
           /\ Doing("get") => Device \in Sensor /\ step = Base(Device) + 2
           /\ Doing("publish") <=> step = 16
<1>1. step \in 1..16
  BY ProgramIs
<1>2. CASE step \in 1..6
  <2>1. step \in 1..4 \/ step = 5 \/ step = 6
    BY <1>2
  <2>2. \E d \in Sensor : Program[step] = <<"setup", d>>
    <3>1. CASE step \in 1..4
      BY <3>1, ProgramIs DEF Sensor
    <3>2. CASE step = 5 \/ step = 6
      BY <3>2, ProgramIs DEF Sensor
    <3> QED BY <2>1, <3>1, <3>2
  <2> QED BY <1>2, <2>2 DEF Doing, Device
<1>3. ASSUME NEW d \in Sensor, step = Base(d)
      PROVE  Program[step] = <<"point", d>>
  BY <1>3, ProgramIs DEF Base, Sensor
<1>4. ASSUME NEW d \in Sensor, step = Base(d) + 1
      PROVE  Program[step] = <<"read", d>>
  BY <1>4, ProgramIs DEF Base, Sensor
<1>5. ASSUME NEW d \in Sensor, step = Base(d) + 2
      PROVE  Program[step] = <<"get", d>>
  BY <1>5, ProgramIs DEF Base, Sensor
<1>6. CASE step = 16
  BY <1>6, ProgramIs DEF Doing
<1>7. \/ step \in 1..6 \/ step = 16
      \/ \E d \in Sensor : step = Base(d) \/ step = Base(d) + 1 \/ step = Base(d) + 2
  BY <1>1 DEF Base, Sensor
<1> QED
  <2>1. ASSUME NEW d \in Sensor, step = Base(d) \/ step = Base(d) + 1 \/ step = Base(d) + 2
        PROVE  step # 16
    BY <2>1 DEF Base, Sensor
  <2> QED BY <1>1, <1>2, <1>3, <1>4, <1>5, <1>6, <1>7, <2>1 DEF Doing, Device

-----------------------------------------------------------------------------
Started == op \in {"start", "send", "recvAck", "recvNack"}

\* What the message on its way asks for, and how long it is.
Order == Started => \E d \in Sensor : \/ twiBuf[0] = Sla(d, 0) /\ msgSize \in {2, 3}
                                      \/ twiBuf[0] = Sla(d, 1) /\ msgSize = DataSize + 1

Addressing == op = "send" /\ addressed.first => twdr = twiBuf[0] /\ bufPtr = 1

\* The handler acknowledges all bytes but the last.
Receiving == /\ op \in {"recvAck", "recvNack"} => bufPtr # 0
             /\ op = "recvAck" => bufPtr < msgSize - 1
             /\ op = "recvNack" => bufPtr = msgSize - 1

\* A sensor is told at which register the read is to begin ...
Pointing(d) ==
    /\ twiBuf[0] = Sla(d, 0) /\ twiBuf[1] = Reg(d, 1) /\ msgSize = 2
    /\ op \in {"start", "send", "off"}
    /\ op = "send" /\ ~addressed.first =>
           addressed.dev = d /\ addressed.count = 0 /\ twdr = Reg(d, 1) /\ bufPtr = 2
    /\ op = "off" => regPtr[d] = 1

\* ... and sends its bytes from there on.
Reading(d) ==
    /\ op \in {"start", "send"} => /\ twiBuf[0] = Sla(d, 1) /\ msgSize = DataSize + 1
                                   /\ regPtr[d] = 1
    /\ op = "send" => addressed.first
    /\ op \in {"recvAck", "recvNack"} => /\ msgSize = DataSize + 1
                                         /\ addressed.dev = d /\ regPtr[d] = bufPtr
    /\ op # "hung"
    /\ op = "off" => lastTransOK
    /\ d \notin unset =>
         \A k \in 1..DataSize : op = "off" \/ (op \in {"recvAck", "recvNack"} /\ k < bufPtr) =>
             twiBuf[k] = Datum(d, k)

Collected(d) == d \notin unset => \A k \in 1..DataSize : part[d][k] = Datum(d, k)

\* A round without a fault is on its way.
Clean == ~tainted => \A d \in Sensor : /\ step = Base(d) + 1 => Pointing(d)
                                       /\ step = Base(d) + 2 => Reading(d)
                                       /\ step > Base(d) + 2 => Collected(d)

TwiInv == TwiTypeOK /\ Order /\ Addressing /\ Receiving /\ Clean

LEMMA Bytes ==
    /\ Zero \in Byte
    /\ \A d \in Sensor : /\ Sla(d, 0) \in Byte /\ Sla(d, 1) \in Byte
                         /\ Reg(d, 0) \in Byte /\ Reg(d, 1) \in Byte
    /\ round \in {0, 1} => \A d \in Sensor, k \in 0..DataSize : Datum(d, k) \in Byte
<1>1. 0 \in 0..DataSize /\ 1 \in 0..DataSize
  BY TwiAssumption
<1> QED BY <1>1 DEF Byte, Zero, Sla, Reg, Datum

LEMMA TwiInitInv == TwiInit => TwiInv
<1> SUFFICES ASSUME TwiInit PROVE TwiInv
  OBVIOUS
<1>1. TwiTypeOK
  <2>1. 1 \in 1..Len(Program)
    BY ProgramIs
  <2>2. /\ twiBuf \in [0..BufferSize - 1 -> Byte] /\ i2cBuf \in [0..DataSize + 2 -> Byte]
        /\ part \in [Sensor -> [1..DataSize -> Byte]] /\ twdr \in Byte
    BY Bytes DEF TwiInit
  <2>3. /\ addressed \in [first : BOOLEAN, dev : Sensor, count : {0, 1}]
        /\ regPtr \in [Sensor -> 0..DataSize] /\ unset \subseteq Sensor
    BY TwiAssumption DEF TwiInit, Sensor
  <2>4. /\ msgSize \in 0..BufferSize /\ bufPtr \in 0..BufferSize /\ busFaults \in 0..MaxBusFaults
        /\ op = "off" /\ step \in 1..Len(Program) /\ round \in {0, 1}
    BY <2>1, TwiAssumption DEF TwiInit
  <2>5. lastTransOK \in BOOLEAN /\ tainted \in BOOLEAN /\ watched \in BOOLEAN
    BY DEF TwiInit
  <2> QED BY <2>2, <2>3, <2>4, <2>5 DEF TwiTypeOK
<1>2. Clean
  BY DEF Clean, TwiInit, Base
<1> QED BY <1>1, <1>2 DEF TwiInv, TwiInit, Order, Started, Addressing, Receiving

-----------------------------------------------------------------------------
(* The program's steps.                                                    *)

Message(msg, size, write) ==
    /\ msg \in [0..DataSize + 2 -> Byte]
    /\ \E d \in Sensor : \/ write /\ msg[0] = Sla(d, 0) /\ size \in {2, 3}
                         \/ ~write /\ msg[0] = Sla(d, 1) /\ size = DataSize + 1

LEMMA MessageStarts ==
    ASSUME TwiInv, NEW msg, NEW size, NEW write \in BOOLEAN,
           Message(msg, size, write), StartWithData(msg, size, write)
    PROVE  /\ op' = "start" /\ msgSize' = size /\ msgSize' \in 0..BufferSize
           /\ twiBuf' \in [0..BufferSize - 1 -> Byte] /\ lastTransOK' \in BOOLEAN
           /\ twiBuf'[0] = msg[0] /\ (write => twiBuf'[1] = msg[1])
           /\ UNCHANGED <<twdr, bufPtr>>
           /\ Order' /\ Addressing' /\ Receiving'
<1>1. /\ twiBuf \in [0..BufferSize - 1 -> Byte] /\ DataSize \in Nat /\ BufferSize \in Nat
      /\ BufferSize > 2 /\ BufferSize > DataSize /\ DataSize > 0
  BY TwiAssumption DEF TwiInv, TwiTypeOK
<1>2. msg \in [0..DataSize + 2 -> Byte] /\ size \in Nat /\ size <= DataSize + 2 /\ size > 1
      /\ size <= BufferSize
  BY <1>1 DEF Message
<1>3. /\ op' = "start" /\ msgSize' = size /\ lastTransOK' = FALSE /\ UNCHANGED <<twdr, bufPtr>>
      /\ twiBuf' = [k \in 0..BufferSize - 1 |->
                       IF k = 0 \/ (write /\ k < size) THEN msg[k] ELSE twiBuf[k]]
  BY <1>1 DEF StartWithData
<1>4. twiBuf' \in [0..BufferSize - 1 -> Byte]
  <2>1. ASSUME NEW k \in 0..BufferSize - 1
        PROVE  (IF k = 0 \/ (write /\ k < size) THEN msg[k] ELSE twiBuf[k]) \in Byte
    <3>1. k = 0 \/ k < size => k \in 0..DataSize + 2
      BY <1>1, <1>2
    <3> QED BY <1>1, <1>2, <3>1
  <2> QED BY <1>3, <2>1
<1>5. twiBuf'[0] = msg[0] /\ (write => twiBuf'[1] = msg[1])
  <2>1. 0 \in 0..BufferSize - 1 /\ 1 \in 0..BufferSize - 1 /\ 1 < size
    BY <1>1, <1>2
  <2> QED BY <1>3, <2>1
<1>6. Order'
  BY <1>3, <1>5 DEF Order, Message, Sla
<1>7. msgSize' \in 0..BufferSize /\ lastTransOK' \in BOOLEAN
  <2>1. msgSize' = size /\ lastTransOK' = FALSE
    BY <1>3
  <2>2. size \in 0..BufferSize
    BY <1>1, <1>2
  <2> QED BY <2>1, <2>2
<1>8. Addressing' /\ Receiving'
  BY <1>3 DEF Addressing, Receiving
<1> QED BY <1>3, <1>4, <1>5, <1>6, <1>7, <1>8

LEMMA SetupInv == TwiInv /\ Setup => TwiInv'
<1> SUFFICES ASSUME TwiInv, Setup PROVE TwiInv'
  OBVIOUS
<1>1. Device \in Sensor /\ step \in 1..6 /\ step' = step + 1
  BY StepIs DEF Setup, TwiInv, TwiTypeOK
<1>2. Message(i2cBuf', 3, TRUE) /\ StartWithData(i2cBuf', 3, TRUE)
  <2>1. 0 \in 0..DataSize + 2 /\ 1 \in 0..DataSize + 2 /\ 2 \in 0..DataSize + 2
    BY TwiAssumption
  <2>2. i2cBuf' \in [0..DataSize + 2 -> Byte] /\ i2cBuf'[0] = Sla(Device, 0)
    BY <1>1, <2>1, Bytes DEF Setup, TwiInv, TwiTypeOK
  <2> QED BY <1>1, <2>2 DEF Message, Setup
<1>3. TwiTypeOK'
  <2>1. step' \in 1..Len(Program)
    BY <1>1, ProgramIs
  <2> QED BY <1>2, <2>1, MessageStarts DEF Setup, Message, busVars, pastVars, TwiInv, TwiTypeOK
<1>4. Clean'
  BY <1>1 DEF Clean, Base
<1> QED BY <1>2, <1>3, <1>4, MessageStarts DEF TwiInv

LEMMA PointInv == TwiInv /\ Point => TwiInv'
<1> SUFFICES ASSUME TwiInv, Point PROVE TwiInv'
  OBVIOUS
<1>1. Device \in Sensor /\ step = Base(Device) /\ step' = step + 1
  BY StepIs DEF Point, TwiInv, TwiTypeOK
<1>2. /\ Message(i2cBuf', 2, TRUE) /\ StartWithData(i2cBuf', 2, TRUE)
      /\ i2cBuf'[0] = Sla(Device, 0) /\ i2cBuf'[1] = Reg(Device, 1)
  <2>1. 0 \in 0..DataSize + 2 /\ 1 \in 0..DataSize + 2
    BY TwiAssumption
  <2>2. /\ i2cBuf' \in [0..DataSize + 2 -> Byte] /\ i2cBuf'[0] = Sla(Device, 0)
        /\ i2cBuf'[1] = Reg(Device, 1)
    BY <1>1, <2>1, Bytes DEF Point, TwiInv, TwiTypeOK
  <2> QED BY <1>1, <2>2 DEF Message, Point
<1>3. TwiTypeOK'
  <2>1. step' \in 1..Len(Program)
    BY <1>1, ProgramIs DEF Base
  <2> QED BY <1>2, <2>1, MessageStarts DEF Point, Message, busVars, pastVars, TwiInv, TwiTypeOK
<1>4. Clean'
  <2> SUFFICES ASSUME ~tainted, NEW d \in Sensor
               PROVE  /\ step' = Base(d) + 1 => Pointing(d)'
                      /\ step' = Base(d) + 2 => Reading(d)'
                      /\ step' > Base(d) + 2 => Collected(d)'
    BY DEF Clean, Point, pastVars
  <2>1. PICK dev \in Sensor : dev = Device
    BY <1>1
  <2>2. step' = Base(d) + 1 => d = dev
    BY <1>1, <2>1 DEF Base, Sensor
  <2>3. step' # Base(d) + 2
    BY <1>1 DEF Base, Sensor
  <2>4. step' > Base(d) + 2 => step > Base(d) + 2
    BY <1>1, <2>3 DEF Base, Sensor
  <2>5. Collected(d) => Collected(d)'
    BY DEF Collected, Point, pastVars, Datum
  <2>6. Pointing(dev)'
    <3>1. op' = "start" /\ msgSize' = 2 /\ twiBuf'[0] = Sla(dev, 0) /\ twiBuf'[1] = Reg(dev, 1)
      BY <1>2, <2>1, MessageStarts
    <3> QED BY <3>1 DEF Pointing
  <2> QED BY <2>2, <2>3, <2>4, <2>5, <2>6 DEF TwiInv, Clean
<1> QED BY <1>2, <1>3, <1>4, MessageStarts DEF TwiInv

LEMMA ReadBurstInv == TwiInv /\ ReadBurst => TwiInv'
<1> SUFFICES ASSUME TwiInv, ReadBurst PROVE TwiInv'
  OBVIOUS
<1>1. Device \in Sensor /\ step = Base(Device) + 1 /\ step' = step + 1
  BY StepIs DEF ReadBurst, TwiInv, TwiTypeOK
<1>2. /\ Message(i2cBuf', DataSize + 1, FALSE) /\ StartWithData(i2cBuf', DataSize + 1, FALSE)
      /\ i2cBuf'[0] = Sla(Device, 1)
  <2>1. 0 \in 0..DataSize + 2
    BY TwiAssumption
  <2>2. i2cBuf' \in [0..DataSize + 2 -> Byte] /\ i2cBuf'[0] = Sla(Device, 1)
    BY <1>1, <2>1, Bytes DEF ReadBurst, TwiInv, TwiTypeOK
  <2> QED BY <1>1, <2>2 DEF Message, ReadBurst
<1>3. TwiTypeOK'
  <2>1. step' \in 1..Len(Program)
    BY <1>1, ProgramIs DEF Base
  <2> QED BY <1>2, <2>1, MessageStarts DEF ReadBurst, Message, busVars, pastVars, TwiInv, TwiTypeOK
<1>4. Clean'
  <2> SUFFICES ASSUME ~tainted, NEW d \in Sensor
               PROVE  /\ step' = Base(d) + 1 => Pointing(d)'
                      /\ step' = Base(d) + 2 => Reading(d)'
                      /\ step' > Base(d) + 2 => Collected(d)'
    BY DEF Clean, ReadBurst, pastVars
  <2>7. PICK dev \in Sensor : dev = Device
    BY <1>1
  <2>1. step' = Base(d) + 2 => d = dev
    BY <1>1, <2>7 DEF Base, Sensor
  <2>2. regPtr[dev] = 1
    BY <1>1, <2>7 DEF TwiInv, Clean, Pointing, ReadBurst, StartWithData, Busy
  <2>3. Reading(dev)'
    <3>1. op' = "start" /\ msgSize' = DataSize + 1 /\ twiBuf'[0] = Sla(dev, 1)
      BY <1>2, <2>7, MessageStarts
    <3>2. regPtr' = regPtr
      BY DEF ReadBurst, busVars
    <3> QED BY <2>2, <3>1, <3>2 DEF Reading
  <2>4. step' # Base(d) + 1
    BY <1>1 DEF Base, Sensor
  <2>5. step' > Base(d) + 2 => step > Base(d) + 2
    BY <1>1, <2>4 DEF Base, Sensor
  <2>6. Collected(d) => Collected(d)'
    BY DEF Collected, ReadBurst, pastVars, Datum
  <2> QED BY <2>1, <2>3, <2>4, <2>5, <2>6 DEF TwiInv, Clean
<1> QED BY <1>2, <1>3, <1>4, MessageStarts DEF TwiInv

LEMMA CollectInv == TwiInv /\ Collect => TwiInv'
<1> SUFFICES ASSUME TwiInv, Collect PROVE TwiInv'
  OBVIOUS
<1>1. PICK dev \in Sensor : dev = Device
  BY StepIs DEF Collect, TwiInv, TwiTypeOK
<1>2. step = Base(dev) + 2 /\ step' = step + 1 /\ step \in Nat
  BY <1>1, StepIs DEF Collect, TwiInv, TwiTypeOK
<1>3. /\ op = "off" /\ DataSize \in Nat /\ BufferSize \in Nat /\ BufferSize > DataSize
      /\ UNCHANGED <<driverVars, busVars, pastVars>>
  BY TwiAssumption DEF Collect, GetData, Busy
<1>4. i2cBuf' = [k \in 0..DataSize + 2 |->
                    IF lastTransOK /\ k < DataSize + 1 THEN twiBuf[k] ELSE i2cBuf[k]]
  BY DEF Collect, GetData, TwiInv, TwiTypeOK
<1>5. i2cBuf' \in [0..DataSize + 2 -> Byte]
  <2>1. ASSUME NEW k \in 0..DataSize + 2
        PROVE  (IF lastTransOK /\ k < DataSize + 1 THEN twiBuf[k] ELSE i2cBuf[k]) \in Byte
    <3>1. k < DataSize + 1 => k \in 0..BufferSize - 1
      BY <1>3
    <3> QED BY <3>1 DEF TwiInv, TwiTypeOK
  <2> QED BY <1>4, <2>1
<1>6. part' = [part EXCEPT ![dev] = [k \in 1..DataSize |-> i2cBuf'[k]]]
  BY <1>1 DEF Collect
<1>7. part' \in [Sensor -> [1..DataSize -> Byte]]
  <2>1. \A k \in 1..DataSize : k \in 0..DataSize + 2
    BY <1>3
  <2>2. [k \in 1..DataSize |-> i2cBuf'[k]] \in [1..DataSize -> Byte]
    BY <1>5, <2>1
  <2> QED BY <1>6, <2>2 DEF TwiInv, TwiTypeOK
<1>8. TwiTypeOK'
  <2>1. step' \in 1..Len(Program)
    BY <1>2, ProgramIs DEF Base, Sensor
  <2>2. watched' \in BOOLEAN
    BY DEF Collect, TwiInv, TwiTypeOK
  <2> QED BY <1>3, <1>5, <1>7, <2>1, <2>2 DEF driverVars, busVars, pastVars, TwiInv, TwiTypeOK
<1>9. Clean'
  <2> SUFFICES ASSUME ~tainted, NEW d \in Sensor
               PROVE  /\ step' = Base(d) + 1 => Pointing(d)'
                      /\ step' = Base(d) + 2 => Reading(d)'
                      /\ step' > Base(d) + 2 => Collected(d)'
    BY <1>3 DEF Clean, pastVars
  <2>1. step' # Base(d) + 1 /\ step' # Base(d) + 2 /\ (step' > Base(d) + 2 /\ d # dev => step > Base(d) + 2)
    BY <1>2 DEF Base, Sensor
  <2>2. d # dev => part'[d] = part[d]
    BY <1>6 DEF TwiInv, TwiTypeOK
  <2>3. \A k : Datum(d, k)' = Datum(d, k)
    BY <1>3 DEF pastVars, Datum
  <2>4. CASE d # dev
    BY <1>3, <2>1, <2>2, <2>3, <2>4 DEF TwiInv, Clean, Collected, pastVars
  <2>5. CASE d = dev
    <3>1. Reading(dev)
      BY <1>2 DEF TwiInv, Clean
    <3>2. ASSUME NEW k \in 1..DataSize PROVE part'[dev][k] = twiBuf[k]
      <4>1. k \in 0..DataSize + 2 /\ k < DataSize + 1
        BY <1>3
      <4>2. i2cBuf'[k] = twiBuf[k]
        BY <1>3, <1>4, <3>1, <4>1 DEF Reading
      <4> QED BY <1>6, <4>2 DEF TwiInv, TwiTypeOK
    <3>3. dev \notin unset => \A k \in 1..DataSize : twiBuf[k] = Datum(dev, k)
      BY <1>3, <3>1 DEF Reading
    <3>4. Collected(dev)'
      BY <1>3, <2>3, <2>5, <3>2, <3>3 DEF Collected, pastVars
    <3> QED BY <2>1, <2>5, <3>4
  <2> QED BY <2>4, <2>5
<1> QED BY <1>3, <1>8, <1>9 DEF TwiInv, Order, Started, Addressing, Receiving, driverVars, busVars

LEMMA PublishInv == TwiInv /\ PublishSample => TwiInv'
<1> SUFFICES ASSUME TwiInv, PublishSample PROVE TwiInv'
  OBVIOUS
<1>1. step' = 7 /\ step' \in 1..Len(Program)
  BY ProgramIs DEF PublishSample
<1>2. TwiTypeOK'
  <2>1. round' \in {0, 1} /\ tainted' \in BOOLEAN /\ watched' \in BOOLEAN
    <3>1. /\ round' = 1 - round /\ tainted' = FALSE /\ round \in {0, 1}
          /\ watched' = TRUE
      BY DEF PublishSample, TwiInv, TwiTypeOK
    <3>2. round' \in {0, 1}
      BY <3>1
    <3> QED BY <3>1, <3>2
  <2>2. UNCHANGED <<op, twdr, twiBuf, msgSize, bufPtr, lastTransOK, i2cBuf, part, addressed, regPtr,
                    unset, busFaults>>
    BY DEF PublishSample, driverVars, busVars
  <2> QED BY <1>1, <2>1, <2>2 DEF TwiInv, TwiTypeOK
<1>3. Clean'
  BY <1>1 DEF Clean, Base
<1> QED BY <1>2, <1>3
        DEF PublishSample, TwiInv, Order, Started, Addressing, Receiving, driverVars, busVars

-----------------------------------------------------------------------------
(* The handler's steps.                                                    *)

\* A step that is not the program's.
Elsewhere == UNCHANGED <<step, part, watched, pastVars>>

LEMMA CleanKept ==
    ASSUME TwiInv, Elsewhere,
           \A d \in Sensor : ~tainted /\ Pointing(d) => Pointing(d)',
           \A d \in Sensor : ~tainted /\ Reading(d) => Reading(d)'
    PROVE  Clean'
<1>1. \A d \in Sensor : Collected(d) => Collected(d)'
  BY DEF Collected, Elsewhere, pastVars, Datum
<1> QED BY <1>1 DEF TwiInv, Clean, Elsewhere, pastVars

\* The next byte of the buffer, or the end.
LEMMA SendNextType ==
    ASSUME TwiInv, NEW ptr \in Nat, ptr <= BufferSize, SendNext(ptr)
    PROVE  /\ twdr' \in Byte /\ bufPtr' \in 0..BufferSize /\ op' \in {"send", "off"}
           /\ lastTransOK' \in BOOLEAN
<1>1. msgSize \in Nat /\ msgSize <= BufferSize /\ BufferSize \in Nat
  BY TwiAssumption DEF TwiInv, TwiTypeOK
<1>2. CASE ptr < msgSize
  <2>1. ptr \in 0..BufferSize - 1 /\ ptr + 1 \in 0..BufferSize
    BY <1>1, <1>2
  <2>2. twiBuf[ptr] \in Byte /\ lastTransOK \in BOOLEAN
    BY <2>1 DEF TwiInv, TwiTypeOK
  <2> QED BY <1>2, <2>1, <2>2 DEF SendNext
<1>3. CASE ~(ptr < msgSize)
  BY <1>1, <1>3 DEF SendNext, TwiInv, TwiTypeOK
<1> QED BY <1>2, <1>3

LEMMA StartSentInv == TwiInv /\ StartSent => TwiInv'
<1> SUFFICES ASSUME TwiInv, StartSent PROVE TwiInv'
  OBVIOUS
<1>1. /\ op = "start" /\ SendNext(0) /\ UNCHANGED <<twiBuf, msgSize, i2cBuf, regPtr>> /\ Elsewhere
      /\ addressed' = [addressed EXCEPT !.first = TRUE, !.count = 0]
  BY DEF StartSent, Elsewhere
<1>2. msgSize > 0 /\ msgSize \in Nat
  BY <1>1, TwiAssumption DEF TwiInv, TwiTypeOK, Order, Started
<1>3. op' = "send" /\ twdr' = twiBuf[0] /\ bufPtr' = 1 /\ lastTransOK' = lastTransOK
  BY <1>1, <1>2 DEF SendNext
<1>4. addressed' \in [first : BOOLEAN, dev : Sensor, count : {0, 1}] /\ addressed'.first
  BY <1>1 DEF TwiInv, TwiTypeOK
<1>5. TwiTypeOK'
  <2>1. 0 <= BufferSize /\ 0 \in Nat
    BY TwiAssumption
  <2> QED BY <1>1, <1>3, <1>4, <2>1, SendNextType DEF Elsewhere, pastVars, TwiInv, TwiTypeOK
<1>6. Clean'
  <2>1. \A d \in Sensor : Pointing(d) => Pointing(d)'
    BY <1>1, <1>3, <1>4 DEF Pointing
  <2>2. \A d \in Sensor : Reading(d) => Reading(d)'
    BY <1>1, <1>3, <1>4 DEF Reading
  <2> QED BY <1>1, <2>1, <2>2, CleanKept
<1> QED BY <1>1, <1>3, <1>5, <1>6 DEF TwiInv, Order, Started, Addressing, Receiving

LEMMA AddressAckedInv == TwiInv /\ AddressAcked => TwiInv'
<1> SUFFICES ASSUME TwiInv, AddressAcked PROVE TwiInv'
  OBVIOUS
<1>1. /\ op = "send" /\ addressed.first /\ Elsewhere
      /\ UNCHANGED <<twiBuf, msgSize, i2cBuf, regPtr>>
      /\ addressed' = [first |-> FALSE, dev |-> twdr[2], count |-> 0]
  BY DEF AddressAcked, Elsewhere
<1>2. twdr = twiBuf[0] /\ bufPtr = 1 /\ msgSize \in Nat /\ msgSize <= BufferSize
  BY <1>1, TwiAssumption DEF TwiInv, TwiTypeOK, Addressing
<1>3. PICK dev \in Sensor : \/ twiBuf[0] = Sla(dev, 0) /\ msgSize \in {2, 3}
                            \/ twiBuf[0] = Sla(dev, 1) /\ msgSize = DataSize + 1
  BY <1>1 DEF TwiInv, Order, Started
<1>4. twdr[2] = dev
  BY <1>2, <1>3 DEF Sla
<1>5. addressed' \in [first : BOOLEAN, dev : Sensor, count : {0, 1}]
  BY <1>1, <1>4
<1>6. CASE twdr[3] = 0
  <2>1. SendNext(1) /\ twiBuf[0] = Sla(dev, 0) /\ msgSize \in {2, 3}
    BY <1>2, <1>3, <1>6 DEF AddressAcked, Sla
  <2>2. op' = "send" /\ twdr' = twiBuf[1] /\ bufPtr' = 2 /\ lastTransOK' = lastTransOK
    BY <2>1 DEF SendNext
  <2>3. TwiTypeOK'
    <3>1. 1 <= BufferSize /\ 1 \in Nat
      BY TwiAssumption
    <3> QED BY <1>1, <1>5, <2>1, <2>2, <3>1, SendNextType DEF Elsewhere, pastVars, TwiInv, TwiTypeOK
  <2>4. Clean'
    <3>1. \A d \in Sensor : Pointing(d) => Pointing(d)'
      BY <1>1, <1>4, <2>1, <2>2 DEF Pointing, Sla
    <3>2. \A d \in Sensor : ~Reading(d)
      BY <1>1, <2>1 DEF Reading, Sla
    <3> QED BY <1>1, <3>1, <3>2, CleanKept
  <2> QED BY <1>1, <2>2, <2>3, <2>4 DEF TwiInv, Order, Started, Addressing, Receiving
<1>7. CASE twdr[3] # 0
  <2>1. /\ op' = AckBut(1) /\ UNCHANGED <<twdr, bufPtr, lastTransOK>>
        /\ twiBuf[0] = Sla(dev, 1) /\ msgSize = DataSize + 1
    BY <1>2, <1>3, <1>7 DEF AddressAcked, Sla
  <2>2. op' = (IF 1 < msgSize - 1 THEN "recvAck" ELSE "recvNack") /\ msgSize > 1
    BY <2>1, TwiAssumption DEF AckBut
  <2>3. TwiTypeOK'
    <3>1. op' \in {"recvAck", "recvNack"} /\ bufPtr' < msgSize'
      BY <1>1, <1>2, <2>1, <2>2
    <3> QED BY <1>1, <1>5, <2>1, <3>1 DEF Elsewhere, pastVars, TwiInv, TwiTypeOK
  <2>4. Clean'
    <3>1. \A d \in Sensor : ~Pointing(d)
      BY <2>1 DEF Pointing, Sla
    <3>2. \A d \in Sensor : Reading(d) => Reading(d)'
      BY <1>1, <1>2, <1>4, <2>1, <2>2 DEF Reading, Sla
    <3> QED BY <1>1, <3>1, <3>2, CleanKept
  <2>5. Receiving'
    BY <1>1, <1>2, <2>1, <2>2, TwiAssumption DEF Receiving
  <2> QED BY <1>1, <1>3, <2>2, <2>3, <2>4, <2>5 DEF TwiInv, Order, Started, Addressing
<1> QED BY <1>6, <1>7

LEMMA DataAckedInv == TwiInv /\ DataAcked => TwiInv'
<1> SUFFICES ASSUME TwiInv, DataAcked PROVE TwiInv'
  OBVIOUS
<1>1. /\ op = "send" /\ ~addressed.first /\ SendNext(bufPtr) /\ Elsewhere
      /\ UNCHANGED <<twiBuf, msgSize, i2cBuf>>
      /\ addressed' = [addressed EXCEPT !.count = 1]
      /\ regPtr' = [regPtr EXCEPT ![addressed.dev] = IF addressed.count = 0 THEN twdr[3] ELSE @]
  BY DEF DataAcked, Elsewhere
<1>2. addressed' \in [first : BOOLEAN, dev : Sensor, count : {0, 1}] /\ ~addressed'.first
  BY <1>1 DEF TwiInv, TwiTypeOK
<1>3. regPtr' \in [Sensor -> 0..DataSize]
  <2>1. twdr[3] \in 0..DataSize
    BY TwiAssumption DEF TwiInv, TwiTypeOK, Byte, Zero
  <2> QED BY <1>1, <2>1 DEF TwiInv, TwiTypeOK
<1>4. /\ twdr' \in Byte /\ bufPtr' \in 0..BufferSize /\ op' \in {"send", "off"}
      /\ lastTransOK' \in BOOLEAN
  <2>1. bufPtr \in Nat /\ bufPtr <= BufferSize
    BY TwiAssumption DEF TwiInv, TwiTypeOK
  <2> QED BY <1>1, <2>1, SendNextType
<1>5. TwiTypeOK'
  BY <1>1, <1>2, <1>3, <1>4 DEF Elsewhere, pastVars, TwiInv, TwiTypeOK
<1>6. Clean'
  <2>1. ASSUME NEW d \in Sensor, Pointing(d) PROVE Pointing(d)'
    <3>1. /\ addressed.dev = d /\ addressed.count = 0 /\ twdr = Reg(d, 1) /\ bufPtr = 2
          /\ msgSize = 2
      BY <1>1, <2>1 DEF Pointing
    <3>2. op' = "off"
      BY <1>1, <3>1 DEF SendNext
    <3>3. regPtr'[d] = 1
      BY <1>1, <3>1 DEF Reg, TwiInv, TwiTypeOK
    <3> QED BY <1>1, <2>1, <3>2, <3>3 DEF Pointing
  <2>2. \A d \in Sensor : ~Reading(d)
    BY <1>1 DEF Reading
  <2> QED BY <1>1, <2>1, <2>2, CleanKept
<1> QED BY <1>1, <1>2, <1>4, <1>5, <1>6 DEF TwiInv, Order, Started, Addressing, Receiving

\* The sensor that answers puts its byte into the buffer.
LEMMA ByteStored ==
    ASSUME TwiInv, op \in {"recvAck", "recvNack"}, twiBuf' = Stored,
           regPtr' = [regPtr EXCEPT ![addressed.dev] = After(@)], twdr' = Sent(addressed.dev)
    PROVE  /\ twiBuf' \in [0..BufferSize - 1 -> Byte] /\ twdr' \in Byte
           /\ regPtr' \in [Sensor -> 0..DataSize]
           /\ twiBuf'[0] = twiBuf[0]
           /\ bufPtr \in Nat /\ bufPtr # 0 /\ bufPtr < msgSize
           /\ \A k : k # bufPtr => twiBuf'[k] = twiBuf[k]
           /\ twiBuf'[bufPtr] = Sent(addressed.dev)
<1>1. /\ bufPtr \in Nat /\ bufPtr # 0 /\ bufPtr < msgSize /\ bufPtr \in 0..BufferSize - 1
      /\ BufferSize \in Nat
  BY TwiAssumption DEF TwiInv, TwiTypeOK, Receiving
<1>2. Sent(addressed.dev) \in Byte
  <2>1. /\ addressed.dev \in Sensor /\ regPtr[addressed.dev] \in 0..DataSize /\ 0 \in 0..DataSize
        /\ round \in {0, 1}
    BY TwiAssumption DEF TwiInv, TwiTypeOK
  <2> QED BY <2>1, Bytes DEF Sent
<1>3. regPtr' \in [Sensor -> 0..DataSize]
  <2>1. \A q \in 0..DataSize : After(q) \in 0..DataSize
    BY TwiAssumption DEF After
  <2> QED BY <2>1 DEF TwiInv, TwiTypeOK
<1>4. twiBuf \in [0..BufferSize - 1 -> Byte]
  BY DEF TwiInv, TwiTypeOK
<1>5. twiBuf' = [twiBuf EXCEPT ![bufPtr] = Sent(addressed.dev)]
  BY DEF Stored
<1> QED BY <1>1, <1>2, <1>3, <1>4, <1>5

LEMMA ByteReceivedInv == TwiInv /\ ByteReceived => TwiInv'
<1> SUFFICES ASSUME TwiInv, ByteReceived PROVE TwiInv'
  OBVIOUS
<1>1. /\ op = "recvAck" /\ Elsewhere /\ op' = AckBut(bufPtr + 1) /\ bufPtr' = bufPtr + 1
      /\ UNCHANGED <<msgSize, lastTransOK, i2cBuf, addressed>>
  BY DEF ByteReceived, Elsewhere
<1>2. /\ twiBuf' \in [0..BufferSize - 1 -> Byte] /\ twdr' \in Byte
      /\ regPtr' \in [Sensor -> 0..DataSize] /\ twiBuf'[0] = twiBuf[0]
      /\ bufPtr \in Nat /\ bufPtr # 0
      /\ \A k : k # bufPtr => twiBuf'[k] = twiBuf[k]
      /\ twiBuf'[bufPtr] = Sent(addressed.dev)
  BY <1>1, ByteStored DEF ByteReceived
<1>3. bufPtr < msgSize - 1 /\ msgSize \in Nat /\ msgSize <= BufferSize /\ BufferSize \in Nat
  BY <1>1, TwiAssumption DEF TwiInv, TwiTypeOK, Receiving
<1>4. op' = IF bufPtr + 1 < msgSize - 1 THEN "recvAck" ELSE "recvNack"
  BY <1>1 DEF AckBut
<1>5. TwiTypeOK'
  <2>1. op' \in {"recvAck", "recvNack"} /\ bufPtr' < msgSize' /\ bufPtr' \in 0..BufferSize
    BY <1>1, <1>2, <1>3, <1>4
  <2> QED BY <1>1, <1>2, <2>1 DEF Elsewhere, pastVars, TwiInv, TwiTypeOK
<1>6. Receiving'
  BY <1>1, <1>2, <1>3, <1>4 DEF Receiving
<1>7. Clean'
  <2>1. \A d \in Sensor : ~Pointing(d)
    BY <1>1 DEF Pointing
  <2>2. ASSUME NEW d \in Sensor, Reading(d) PROVE Reading(d)'
    <3>1. addressed.dev = d /\ regPtr[d] = bufPtr /\ msgSize = DataSize + 1
      BY <1>1, <2>2 DEF Reading
    <3>2. regPtr'[d] = bufPtr + 1
      <4>1. regPtr'[d] = After(bufPtr)
        BY <3>1 DEF ByteReceived, TwiInv, TwiTypeOK
      <4> QED BY <1>2, <1>3, <3>1, <4>1, TwiAssumption DEF After
    <3>3. UNCHANGED <<round, unset>>
      BY <1>1 DEF Elsewhere, pastVars
    <3>4. ASSUME d \notin unset, NEW k \in 1..DataSize, k < bufPtr + 1
          PROVE  twiBuf'[k] = Datum(d, k)
      <4>1. CASE k = bufPtr
        BY <1>2, <3>1, <3>4, <4>1 DEF Sent
      <4>2. CASE k # bufPtr
        <5>1. k < bufPtr
          BY <1>2, <3>4, <4>2
        <5> QED BY <1>1, <1>2, <2>2, <3>4, <4>2, <5>1 DEF Reading
      <4> QED BY <4>1, <4>2
    <3>5. Datum(d, 0)' = Datum(d, 0) /\ \A k : Datum(d, k)' = Datum(d, k)
      BY <3>3 DEF Datum
    <3> QED BY <1>1, <1>4, <3>1, <3>2, <3>3, <3>4, <3>5 DEF Reading
  <2> QED BY <1>1, <2>1, <2>2, CleanKept
<1> QED BY <1>1, <1>2, <1>4, <1>5, <1>6, <1>7 DEF TwiInv, Order, Started, Addressing

LEMMA LastByteReceivedInv == TwiInv /\ LastByteReceived => TwiInv'
<1> SUFFICES ASSUME TwiInv, LastByteReceived PROVE TwiInv'
  OBVIOUS
<1>1. /\ op = "recvNack" /\ Elsewhere /\ op' = "off" /\ lastTransOK' = TRUE
      /\ UNCHANGED <<msgSize, bufPtr, i2cBuf, addressed>>
  BY DEF LastByteReceived, Elsewhere
<1>2. /\ twiBuf' \in [0..BufferSize - 1 -> Byte] /\ twdr' \in Byte
      /\ regPtr' \in [Sensor -> 0..DataSize]
      /\ bufPtr \in Nat /\ bufPtr # 0
      /\ \A k : k # bufPtr => twiBuf'[k] = twiBuf[k]
      /\ twiBuf'[bufPtr] = Sent(addressed.dev)
  BY <1>1, ByteStored DEF LastByteReceived
<1>3. TwiTypeOK'
  <2>1. lastTransOK' \in BOOLEAN /\ op' \notin {"recvAck", "recvNack"}
    BY <1>1
  <2> QED BY <1>1, <1>2, <2>1 DEF Elsewhere, pastVars, TwiInv, TwiTypeOK
<1>4. Clean'
  <2>1. \A d \in Sensor : ~Pointing(d)
    BY <1>1 DEF Pointing
  <2>2. ASSUME NEW d \in Sensor, Reading(d) PROVE Reading(d)'
    <3>1. addressed.dev = d /\ regPtr[d] = bufPtr /\ bufPtr = DataSize
      BY <1>1, <2>2, TwiAssumption DEF Reading, TwiInv, Receiving
    <3>2. UNCHANGED <<round, unset>>
      BY <1>1 DEF Elsewhere, pastVars
    <3>3. ASSUME d \notin unset, NEW k \in 1..DataSize PROVE twiBuf'[k] = Datum(d, k)
      <4>1. CASE k = bufPtr
        BY <1>2, <3>1, <3>3, <4>1 DEF Sent
      <4>2. CASE k # bufPtr
        <5>1. k < bufPtr
          BY <3>1, <4>2, TwiAssumption
        <5> QED BY <1>1, <1>2, <2>2, <3>3, <4>2, <5>1 DEF Reading
      <4> QED BY <4>1, <4>2
    <3>4. \A k : Datum(d, k)' = Datum(d, k)
      BY <3>2 DEF Datum
    <3> QED BY <1>1, <3>2, <3>3, <3>4 DEF Reading
  <2> QED BY <1>1, <2>1, <2>2, CleanKept
<1> QED BY <1>1, <1>3, <1>4 DEF TwiInv, Order, Started, Addressing, Receiving

-----------------------------------------------------------------------------
(* Faults.                                                                 *)

LEMMA FaultInv ==
    ASSUME TwiInv, Fault, op' \in {"off", "start", "hung"}, op' = "start" => Started
    PROVE  TwiInv'
<1>1. /\ tainted' = TRUE /\ busFaults' \in 0..MaxBusFaults
      /\ UNCHANGED <<twdr, twiBuf, msgSize, bufPtr, lastTransOK, step, i2cBuf, part, watched,
                     addressed, regPtr, round>>
  BY TwiAssumption DEF Fault, busVars, TwiInv, TwiTypeOK
<1>2. unset' \subseteq Sensor
  <2>1. CASE step <= RoundStart /\ step > 1
    <3>1. step - 1 \in 1..6
      BY <2>1, ProgramIs DEF TwiInv, TwiTypeOK
    <3>2. step - 1 \in 1..4 \/ step - 1 = 5 \/ step - 1 = 6
      BY <3>1
    <3>3. Program[step - 1][2] \in Sensor
      BY <3>2, ProgramIs DEF Sensor
    <3> QED BY <2>1, <3>3 DEF Fault, TwiInv, TwiTypeOK
  <2>2. CASE ~(step <= RoundStart /\ step > 1)
    BY <2>2 DEF Fault, TwiInv, TwiTypeOK
  <2> QED BY <2>1, <2>2
<1>3. TwiTypeOK'
  <2>1. tainted' \in BOOLEAN
    BY <1>1
  <2> QED BY <1>1, <1>2, <2>1 DEF TwiInv, TwiTypeOK
<1>4. Clean'
  BY <1>1 DEF Clean
<1>5. Order'
  BY <1>1 DEF TwiInv, Order, Started
<1> QED BY <1>3, <1>4, <1>5 DEF TwiInv, Addressing, Receiving

LEMMA HangRestartInv == TwiInv /\ HangRestart => TwiInv'
<1> SUFFICES ASSUME TwiInv, HangRestart PROVE TwiInv'
  OBVIOUS
<1>1. step' = 1 /\ 1 \in 1..Len(Program) /\ op' = "off"
  BY ProgramIs DEF HangRestart
<1>2. TwiTypeOK'
  <2>1. /\ twiBuf' \in [0..BufferSize - 1 -> Byte] /\ i2cBuf' \in [0..DataSize + 2 -> Byte]
        /\ part' \in [Sensor -> [1..DataSize -> Byte]] /\ twdr' \in Byte
    BY Bytes DEF HangRestart
  <2>2. msgSize' \in 0..BufferSize /\ bufPtr' \in 0..BufferSize
    BY TwiAssumption DEF HangRestart
  <2>3. /\ lastTransOK' \in BOOLEAN /\ tainted' \in BOOLEAN /\ unset' \subseteq Sensor
        /\ watched' \in BOOLEAN
    BY DEF HangRestart
  <2>4. UNCHANGED <<addressed, regPtr, round, busFaults>>
    BY DEF HangRestart, busVars
  <2> QED BY <1>1, <2>1, <2>2, <2>3, <2>4 DEF TwiInv, TwiTypeOK
<1>3. Clean'
  BY <1>1 DEF Clean, Base
<1> QED BY <1>1, <1>2, <1>3 DEF TwiInv, Order, Started, Addressing, Receiving

LEMMA TwiNextInv == TwiInv /\ [TwiNext]_twiVars => TwiInv'
<1> SUFFICES ASSUME TwiInv, [TwiNext]_twiVars PROVE TwiInv'
  OBVIOUS
<1>1. CASE ProgramStep
  BY <1>1, SetupInv, PointInv, ReadBurstInv, CollectInv, PublishInv DEF ProgramStep
<1>2. CASE TransferError \/ ArbitrationLost \/ BusHangs
  BY <1>2, FaultInv DEF TransferError, ArbitrationLost, BusHangs, Started
<1>3. CASE Handler
  BY <1>2, <1>3, StartSentInv, AddressAckedInv, DataAckedInv, ByteReceivedInv, LastByteReceivedInv
     DEF Handler
<1>4. CASE HangRestart
  BY <1>4, HangRestartInv
<1>5. CASE Spin \/ UNCHANGED twiVars
  <2>1. UNCHANGED <<op, twdr, twiBuf, msgSize, bufPtr, lastTransOK, step, i2cBuf, part, watched,
                    addressed, regPtr, round, tainted, unset, busFaults>>
    BY <1>5 DEF Spin, twiVars, driverVars, busVars, pastVars
  <2>2. TwiTypeOK' /\ Order' /\ Addressing' /\ Receiving'
    BY <2>1 DEF TwiInv, TwiTypeOK, Order, Started, Addressing, Receiving
  <2>3. Clean'
    <3>1. \A d \in Sensor : (Pointing(d) => Pointing(d)') /\ (Reading(d) => Reading(d)')
      BY <2>1 DEF Pointing, Reading, Datum
    <3> QED BY <2>1, <3>1, CleanKept DEF Elsewhere, pastVars
  <2> QED BY <2>2, <2>3 DEF TwiInv
<1> QED BY <1>1, <1>2, <1>3, <1>4, <1>5 DEF TwiNext

\* The driver's data keep their types for every size of the buffer that holds
\* a sensor's bytes: the handler never writes outside TWI_buf
\* (TWI_Master.c:237-257).
THEOREM TwiTypeCorrect == TwiSpec => []TwiTypeOK
<1>1. TwiInv => TwiTypeOK
  BY DEF TwiInv
<1> QED BY <1>1, TwiInitInv, TwiNextInv, PTL DEF TwiSpec

\* However many faults the bus has, a round without one publishes what the
\* sensors measured in it (TWI_Master.c:141-147, 216-223, 270-282;
\* tdma_client/main.c:196-236).
THEOREM FaultsStayInSample == TwiSpec => []FaultStaysInSample
<1>1. TwiInv => FaultStaysInSample
  <2> SUFFICES ASSUME TwiInv, Doing("publish"), ~tainted, NEW d \in Sensor \ unset,
                      NEW k \in 1..DataSize
               PROVE  part[d][k] = Datum(d, k)
    BY DEF FaultStaysInSample
  <2>1. step = 16
    BY StepIs DEF TwiInv, TwiTypeOK
  <2>2. step > Base(d) + 2
    BY <2>1 DEF Base
  <2> QED BY <2>2 DEF TwiInv, Clean, Collected
<1> QED BY <1>1, TwiInitInv, TwiNextInv, PTL DEF TwiSpec
=============================================================================
