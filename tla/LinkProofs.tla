----------------------------- MODULE LinkProofs -----------------------------
(***************************************************************************)
(* The links: the slots of the TDMA clients are apart, what the            *)
(* applications of B-MAC can rely on, and what the serial line delivers.   *)
(* The three share no state.                                               *)
(***************************************************************************)
EXTENDS TdmaCycle, Bmac, SlipLine, SequenceTheorems, WellFoundedInduction, TLAPS

(***************************************************************************)
(* TDMA: for any clients, slots and times that CycleAssumption allows,     *)
(* whichever beacons are missed and whenever nodes restart.  The argument  *)
(* is about one number that no node keeps: the ticks that have passed      *)
(* since the host's last beacon (Elapsed).  A client that goes by the      *)
(* host's cycle waits for, and sends at, its slot counted in these ticks,  *)
(* and the host sends no other beacon before they cover the whole cycle.   *)
(***************************************************************************)

SlotTime(s) == s * SlotLength

\* e ticks after the host's beacon ...
SentSlots   == \A n \in Client : n \in sending => phase[n] = "toEnd"
Waits(e)    == \A n \in Client : ~misled[n] /\ phase[n] = "toSlot" =>
                   timer[n] + e = SlotTime(SlotsAhead(n)) + late[n]
Ends(e)     == \A n \in Client : ~misled[n] /\ phase[n] = "toEnd" =>
                   timer[n] = 0 \/ timer[n] + e <= SlotTime(SlotsPerCycle) + Jitter
EndsLate(e) == \A n \in Client : ~misled[n] /\ phase[n] = "toEnd" =>
                   timer[n] + e >= SlotTime(SlotsPerCycle)
Sends(e)    == \A n \in Client : ~misled[n] /\ n \in sending =>
                   \E j \in 0..Jitter : e = SlotTime(SlotsAhead(n)) + j

\* ... clients that have missed nothing listen only after the cycle ...
Searches(e) == ~missed => \A n \in Client :
                   ~misled[n] /\ (phase[n] = "search" => e >= SlotTime(SlotsPerCycle))

\* ... the host is on the air again, ends its cycle, or counts its slots.
OnAir(e)   == Host \in sending =>
                  /\ hostSlot = 1 /\ hostTimer = SlotLength
                  /\ e > SlotTime(SlotsPerCycle) + Jitter
AtCycle(e) == Host \notin sending /\ hostSlot = 0 =>
                  e + hostTimer > SlotTime(SlotsPerCycle) + Jitter
AtSlots(e) == Host \notin sending /\ hostSlot # 0 => e + 1 + hostTimer = SlotTime(hostSlot)

ByClient(e) == Waits(e) /\ Ends(e) /\ EndsLate(e) /\ Sends(e) /\ Searches(e)
ByHost(e)   == OnAir(e) /\ AtCycle(e) /\ AtSlots(e)
Elapsed(e)  == ByClient(e) /\ ByHost(e)

HostOK   == hostSlot \in 0..SlotsPerCycle /\ hostTimer \in 0..RestartTime
PhaseOK  == phase \in [Client -> {"search", "toSlot", "toEnd"}]
TimerOK  == timer \in [Client -> 0..SlotsPerCycle * SlotLength + Jitter]
LateOK   == late \in [Client -> 0..Jitter]
MisledOK == misled \in [Client -> BOOLEAN]
AirOK    == txData \in [Client -> BOOLEAN] /\ sending \subseteq Client \cup {Host}
PastOK   == missed \in BOOLEAN
BoundOK  == restarts \in 0..MaxRestarts

Types == HostOK /\ PhaseOK /\ TimerOK /\ LateOK /\ MisledOK /\ AirOK /\ PastOK /\ BoundOK

CycleInv == Types /\ SentSlots

-----------------------------------------------------------------------------
(* Slots and times.                                                        *)

LEMMA Numbers ==
    /\ SlotsPerCycle \in Nat /\ SlotsPerCycle > 0
    /\ SlotLength \in Nat /\ SlotLength > 0 /\ SlotLength > Jitter
    /\ Jitter \in Nat /\ Guard \in Nat /\ Guard > Jitter + 1
    /\ RestartTime \in Nat /\ RestartTime > SlotTime(SlotsPerCycle) + Guard
    /\ SlotTime(SlotsPerCycle) \in Nat /\ MaxRestarts \in Nat
BY CycleAssumption DEF SlotTime

LEMMA TimeType == ASSUME NEW s \in Nat PROVE SlotTime(s) \in Nat
BY Numbers DEF SlotTime

LEMMA TimeNext == ASSUME NEW s \in Nat PROVE SlotTime(s + 1) = SlotTime(s) + SlotLength
BY Numbers DEF SlotTime

LEMMA TimeFirst == SlotTime(0) = 0 /\ SlotTime(1) = SlotLength
BY Numbers DEF SlotTime

LEMMA TimeOrder == ASSUME NEW s \in Nat, NEW t \in Nat, s <= t
                   PROVE  SlotTime(s) <= SlotTime(t)
BY Numbers DEF SlotTime

LEMMA TimeLeft == ASSUME NEW s \in 0..SlotsPerCycle
                  PROVE  /\ (SlotsPerCycle - s) * SlotLength \in 0..SlotTime(SlotsPerCycle)
                         /\ (SlotsPerCycle - s) * SlotLength + SlotTime(s)
                                = SlotTime(SlotsPerCycle)
<1>1. SlotsPerCycle - s \in Nat /\ SlotsPerCycle - s <= SlotsPerCycle
  BY Numbers
<1>2. /\ SlotTime(SlotsPerCycle - s) \in Nat
      /\ SlotTime(SlotsPerCycle - s) <= SlotTime(SlotsPerCycle)
  BY <1>1, Numbers, TimeType, TimeOrder
<1>3. (SlotsPerCycle - s) * SlotLength + s * SlotLength = SlotsPerCycle * SlotLength
  BY Numbers
<1> QED BY <1>2, <1>3, Numbers DEF SlotTime

\* Two slots whose times are less than a slot apart are one slot.
LEMMA TimeUnique ==
    ASSUME NEW s \in Nat, NEW t \in Nat, NEW i \in 0..Jitter, NEW j \in 0..Jitter,
           SlotTime(s) + i = SlotTime(t) + j
    PROVE  s = t
<1>1. ASSUME NEW a \in Nat, NEW b \in Nat, a < b, NEW x \in 0..Jitter, NEW y \in 0..Jitter
      PROVE  SlotTime(a) + x # SlotTime(b) + y
  <2>1. SlotTime(a) + SlotLength <= SlotTime(b)
    <3>1. a + 1 \in Nat /\ a + 1 <= b
      BY <1>1
    <3> QED BY <3>1, TimeNext, TimeOrder
  <2>2. SlotTime(a) \in Nat /\ SlotTime(b) \in Nat
    BY TimeType
  <2> QED BY <2>1, <2>2, Numbers
<1>2. s < t \/ t < s \/ s = t
  OBVIOUS
<1> QED BY <1>1, <1>2

LEMMA AheadType == ASSUME NEW n \in Client
                   PROVE  /\ SlotsAhead(n) \in 0..SlotsPerCycle
                          /\ SlotTime(SlotsAhead(n)) \in 0..SlotTime(SlotsPerCycle)
<1>1. SlotsAhead(n) \in 0..SlotsPerCycle
  <2>1. TxSched[n] \in Nat
    BY CycleAssumption
  <2> QED BY <2>1, Numbers DEF SlotsAhead
<1>2. SlotTime(SlotsAhead(n)) \in Nat /\ SlotTime(SlotsAhead(n)) <= SlotTime(SlotsPerCycle)
  BY <1>1, Numbers, TimeType, TimeOrder
<1> QED BY <1>1, <1>2, Numbers

LEMMA HostIsNoClient == Host \notin Client
BY CycleAssumption

-----------------------------------------------------------------------------
LEMMA InitCycleInv == CycleInit => CycleInv /\ \E e \in Nat : Elapsed(e)
<1> SUFFICES ASSUME CycleInit PROVE CycleInv /\ \E e \in Nat : Elapsed(e)
  OBVIOUS
<1>1. HostOK /\ BoundOK
  BY Numbers DEF CycleInit, HostOK, BoundOK
<1>2. PhaseOK /\ MisledOK /\ AirOK /\ PastOK
  BY DEF CycleInit, PhaseOK, MisledOK, AirOK, PastOK
<1>3. TimerOK /\ LateOK
  <2>1. 0 \in 0..SlotsPerCycle * SlotLength + Jitter /\ 0 \in 0..Jitter
    BY Numbers DEF SlotTime
  <2> QED BY <2>1 DEF CycleInit, TimerOK, LateOK
<1>4. SentSlots
  BY DEF CycleInit, SentSlots
<1> DEFINE e0 == SlotTime(SlotsPerCycle) + Jitter + 1
<1>5. /\ e0 \in Nat /\ e0 > SlotTime(SlotsPerCycle) + Jitter
      /\ e0 >= SlotTime(SlotsPerCycle)
  BY Numbers
<1> HIDE DEF e0
<1>6. Waits(e0) /\ Ends(e0) /\ EndsLate(e0) /\ Sends(e0)
  BY DEF CycleInit, Waits, Ends, EndsLate, Sends
<1>7. Searches(e0)
  BY <1>5 DEF CycleInit, Searches
<1>8. OnAir(e0) /\ AtCycle(e0) /\ AtSlots(e0)
  <2>1. hostSlot = 0 /\ hostTimer = 0 /\ sending = {}
    BY DEF CycleInit
  <2> QED BY <2>1, <1>5 DEF OnAir, AtCycle, AtSlots
<1> QED BY <1>1, <1>2, <1>3, <1>4, <1>5, <1>6, <1>7, <1>8
        DEF CycleInv, Types, Elapsed, ByClient, ByHost

-----------------------------------------------------------------------------
(* The host.                                                               *)

LEMMA HostStepInv == ASSUME CycleInv, HostStep PROVE CycleInv'
<1>1. HostOK'
  <2>1. SlotLength \in 0..RestartTime /\ Guard \in 0..RestartTime
    <3>1. SlotLength <= SlotTime(SlotsPerCycle)
      BY Numbers, TimeFirst, TimeOrder
    <3> QED BY <3>1, Numbers
  <2>2. CASE hostSlot = SlotsPerCycle
    BY <2>1, <2>2, Numbers DEF HostStep, HostOK
  <2>3. CASE hostSlot # SlotsPerCycle
    BY <2>1, <2>3, Numbers DEF HostStep, HostOK, CycleInv, Types
  <2> QED BY <2>2, <2>3
<1>2. AirOK' /\ PastOK'
  BY DEF HostStep, CycleInv, Types, AirOK, PastOK
<1>3. /\ UNCHANGED <<phase, timer, late, misled, txData, missed, restarts>>
      /\ \A n \in Client : n \in sending' <=> n \in sending
  BY HostIsNoClient DEF HostStep, syncVars
<1>4. PhaseOK' /\ TimerOK' /\ LateOK' /\ MisledOK' /\ BoundOK'
  BY <1>3 DEF CycleInv, Types, PhaseOK, TimerOK, LateOK, MisledOK, BoundOK
<1>5. SentSlots'
  BY <1>3 DEF CycleInv, SentSlots
<1> QED BY <1>1, <1>2, <1>4, <1>5 DEF CycleInv, Types

\* No client that goes by the last beacon waits for anything when the next
\* beacon is due, and none is on the air.
LEMMA NobodyWaits ==
    ASSUME CycleInv, NEW e \in Nat, Elapsed(e), e > SlotTime(SlotsPerCycle) + Jitter,
           NEW n \in Client, ~misled[n]
    PROVE  /\ phase[n] # "toSlot" /\ (phase[n] = "toEnd" => timer[n] = 0)
           /\ n \notin sending
<1>1. timer[n] \in Nat /\ late[n] \in 0..Jitter
  <2>1. SlotsPerCycle * SlotLength + Jitter \in Nat
    BY Numbers DEF SlotTime
  <2> QED BY <2>1 DEF CycleInv, Types, TimerOK, LateOK
<1>2. phase[n] # "toSlot"
  <2>1. phase[n] = "toSlot" => timer[n] + e = SlotTime(SlotsAhead(n)) + late[n]
    BY DEF Elapsed, ByClient, Waits
  <2> QED BY <1>1, <2>1, AheadType, Numbers
<1>3. phase[n] = "toEnd" => timer[n] = 0
  <2>1. phase[n] = "toEnd" =>
            timer[n] = 0 \/ timer[n] + e <= SlotTime(SlotsPerCycle) + Jitter
    BY DEF Elapsed, ByClient, Ends
  <2> QED BY <1>1, <2>1, Numbers
<1>4. n \notin sending
  <2>1. n \in sending => \E j \in 0..Jitter : e = SlotTime(SlotsAhead(n)) + j
    BY DEF Elapsed, ByClient, Sends
  <2> QED BY <2>1, AheadType, Numbers
<1> QED BY <1>2, <1>3, <1>4

LEMMA HostStepElapsed ==
    ASSUME CycleInv, HostStep, NEW e \in Nat, Elapsed(e) PROVE Elapsed(e)'
<1>1. /\ UNCHANGED <<phase, timer, late, misled, missed>> /\ hostTimer = 0
      /\ hostSlot \in 0..SlotsPerCycle
      /\ \A n \in Client : n \in sending' <=> n \in sending
  BY HostIsNoClient DEF HostStep, syncVars, CycleInv, Types, HostOK
<1>2. Host \notin sending
  BY <1>1, Numbers DEF Elapsed, ByHost, OnAir
<1>3. ByClient(e)'
  BY <1>1 DEF Elapsed, ByClient, Waits, Ends, EndsLate, Sends, Searches, SlotsAhead
<1>4. CASE hostSlot = 0
  <2>1. e > SlotTime(SlotsPerCycle) + Jitter
    BY <1>1, <1>2, <1>4, Numbers DEF Elapsed, ByHost, AtCycle
  <2>2. Host \in sending' /\ hostSlot' = 1 /\ hostTimer' = SlotLength
    BY <1>4, Numbers DEF HostStep
  <2> QED BY <1>3, <2>1, <2>2 DEF Elapsed, ByHost, OnAir, AtCycle, AtSlots
<1>5. CASE hostSlot # 0
  <2>1. e + 1 = SlotTime(hostSlot) /\ Host \notin sending'
    BY <1>1, <1>2, <1>5 DEF HostStep, Elapsed, ByHost, AtSlots
  <2>2. CASE hostSlot = SlotsPerCycle
    <3>1. hostSlot' = 0 /\ hostTimer' = Guard
      BY <2>2 DEF HostStep
    <3>2. e + Guard > SlotTime(SlotsPerCycle) + Jitter
      BY <2>1, <2>2, Numbers
    <3> QED BY <1>3, <2>1, <3>1, <3>2 DEF Elapsed, ByHost, OnAir, AtCycle, AtSlots
  <2>3. CASE hostSlot # SlotsPerCycle
    <3>1. hostSlot' = hostSlot + 1 /\ hostTimer' = SlotLength
      BY <2>3 DEF HostStep
    <3>2. hostSlot \in Nat /\ hostSlot' # 0
      BY <1>1, <3>1, Numbers
    <3>3. e + 1 + SlotLength = SlotTime(hostSlot + 1)
      BY <2>1, <3>2, TimeNext, Numbers
    <3> QED BY <1>3, <2>1, <3>1, <3>2, <3>3 DEF Elapsed, ByHost, OnAir, AtCycle, AtSlots
  <2> QED BY <2>2, <2>3
<1> QED BY <1>4, <1>5

LEMMA HostRestartInv == ASSUME CycleInv, HostRestart PROVE CycleInv'
<1>1. HostOK' /\ BoundOK'
  BY Numbers DEF HostRestart, HostOK, CycleInv, Types, BoundOK
<1>2. AirOK' /\ PastOK'
  BY DEF HostRestart, CycleInv, Types, AirOK, PastOK
<1>3. /\ UNCHANGED <<phase, timer, late, misled, txData, missed>>
      /\ \A n \in Client : n \in sending' <=> n \in sending
  BY HostIsNoClient DEF HostRestart, syncVars
<1>4. PhaseOK' /\ TimerOK' /\ LateOK' /\ MisledOK'
  BY <1>3 DEF CycleInv, Types, PhaseOK, TimerOK, LateOK, MisledOK
<1>5. SentSlots'
  BY <1>3 DEF CycleInv, SentSlots
<1> QED BY <1>1, <1>2, <1>4, <1>5 DEF CycleInv, Types

LEMMA HostRestartElapsed ==
    ASSUME CycleInv, HostRestart, NEW e \in Nat, Elapsed(e) PROVE Elapsed(e)'
<1>1. /\ UNCHANGED <<phase, timer, late, misled, missed>>
      /\ \A n \in Client : n \in sending' <=> n \in sending
      /\ Host \notin sending' /\ hostSlot' = 0 /\ hostTimer' = RestartTime
  BY HostIsNoClient DEF HostRestart, syncVars
<1>2. ByClient(e)'
  BY <1>1 DEF Elapsed, ByClient, Waits, Ends, EndsLate, Sends, Searches, SlotsAhead
<1>3. e + RestartTime > SlotTime(SlotsPerCycle) + Jitter
  BY Numbers
<1> QED BY <1>1, <1>2, <1>3 DEF Elapsed, ByHost, OnAir, AtCycle, AtSlots

-----------------------------------------------------------------------------
(* A client.                                                               *)

\* Steps of a client leave the host alone.
LEMMA HostUntouched ==
    ASSUME NEW e \in Nat, ByHost(e), UNCHANGED hostClock,
           Host \in sending' <=> Host \in sending
    PROVE  ByHost(e)'
<1>1. hostSlot' = hostSlot /\ hostTimer' = hostTimer
  BY DEF hostClock
<1> QED BY <1>1 DEF ByHost, OnAir, AtCycle, AtSlots

LEMMA FillInv == ASSUME CycleInv, NEW n \in Client, Fill(n)
                 PROVE  CycleInv' /\ (\A e \in Nat : Elapsed(e) => Elapsed(e)')
<1>1. /\ UNCHANGED <<phase, timer, late, misled, sending, missed, restarts>>
      /\ UNCHANGED <<hostSlot, hostTimer>>
      /\ txData' = [txData EXCEPT ![n] = TRUE]
  BY DEF Fill, hostClock, syncVars
<1>2. HostOK' /\ PhaseOK' /\ TimerOK' /\ LateOK' /\ MisledOK' /\ PastOK' /\ BoundOK'
  BY <1>1 DEF CycleInv, Types, HostOK, PhaseOK, TimerOK, LateOK, MisledOK, PastOK, BoundOK
<1>3. AirOK'
  BY <1>1 DEF CycleInv, Types, AirOK
<1>4. SentSlots'
  BY <1>1 DEF CycleInv, SentSlots
<1>5. \A e \in Nat : Elapsed(e) => Elapsed(e)'
  BY <1>1 DEF Elapsed, ByClient, Waits, Ends, EndsLate, Sends, Searches, SlotsAhead,
     ByHost, OnAir, AtCycle, AtSlots
<1> QED BY <1>2, <1>3, <1>4, <1>5 DEF CycleInv, Types

\* The slot that a client which goes by the host's cycle computes.
LEMMA SlotOfHost == ASSUME NEW n \in Client, MisledOK, ~misled[n]
                    PROVE  /\ SendSlot(n) = SlotsAhead(n) /\ Cycle(n) = SlotsPerCycle
                           /\ Length(n) = SlotLength
BY DEF SendSlot, SlotsAhead, Cycle, Length

\* The wait for the end of the cycle.
LEMMA RestOfCycle ==
    ASSUME MisledOK, LateOK, NEW n \in Client, NEW j \in 0..Jitter,
           NEW rest, rest = (Cycle(n) - SendSlot(n)) * Length(n) + j
    PROVE  /\ (IF rest > late[n] THEN rest - late[n] ELSE 0)
                  \in 0..SlotsPerCycle * SlotLength + Jitter
           /\ ~misled[n] => rest + SlotTime(SlotsAhead(n)) = SlotTime(SlotsPerCycle) + j
           /\ rest \in Nat
<1>1. late[n] \in 0..Jitter /\ SlotsPerCycle * SlotLength \in Nat
  BY Numbers DEF LateOK, SlotTime
<1>2. CASE misled[n]
  <2>1. Length(n) = 0 /\ Cycle(n) = 0 /\ SendSlot(n) = 0
    <3>1. TxSched[n] \in Nat
      BY CycleAssumption
    <3> QED BY <1>2, <3>1 DEF Length, Cycle, SendSlot
  <2>2. rest = j
    BY <2>1, Numbers
  <2> QED BY <1>1, <1>2, <2>2, Numbers
<1>3. CASE ~misled[n]
  <2>1. (Cycle(n) - SendSlot(n)) * Length(n) \in 0..SlotTime(SlotsPerCycle)
    <3>1. SlotsAhead(n) \in 0..SlotsPerCycle
      BY AheadType
    <3>2. (SlotsPerCycle - SlotsAhead(n)) * SlotLength \in 0..SlotTime(SlotsPerCycle)
      BY <3>1, TimeLeft
    <3> QED BY <1>3, <3>2, SlotOfHost
  <2>2. rest \in 0..SlotsPerCycle * SlotLength + Jitter
    BY <2>1, Numbers DEF SlotTime
  <2>3. rest + SlotTime(SlotsAhead(n)) = SlotTime(SlotsPerCycle) + j
    <3>1. SlotsAhead(n) \in 0..SlotsPerCycle /\ SlotTime(SlotsAhead(n)) \in Nat
      BY AheadType, Numbers
    <3>2. (SlotsPerCycle - SlotsAhead(n)) * SlotLength + SlotTime(SlotsAhead(n))
             = SlotTime(SlotsPerCycle)
      BY <3>1, TimeLeft
    <3>3. (SlotsPerCycle - SlotsAhead(n)) * SlotLength \in Nat
      BY <3>1, Numbers
    <3>4. rest = (SlotsPerCycle - SlotsAhead(n)) * SlotLength + j
      BY <1>3, SlotOfHost
    <3> QED BY <3>1, <3>2, <3>3, <3>4, Numbers
  <2> QED BY <1>1, <1>3, <2>2, <2>3, Numbers
<1> QED BY <1>2, <1>3 DEF MisledOK

LEMMA AtSlotInv == ASSUME CycleInv, NEW n \in Client, AtSlot(n)
                   PROVE  CycleInv' /\ (\A e \in Nat : Elapsed(e) => Elapsed(e)')
<1>1. /\ HostOK /\ PhaseOK /\ TimerOK /\ LateOK /\ MisledOK /\ AirOK /\ PastOK /\ BoundOK
      /\ SentSlots
  BY DEF CycleInv, Types
<1>2. /\ phase[n] = "toSlot" /\ timer[n] = 0
      /\ UNCHANGED <<hostSlot, hostTimer, misled, missed, restarts>>
      /\ phase' = [phase EXCEPT ![n] = "toEnd"] /\ late' = [late EXCEPT ![n] = 0]
  BY DEF AtSlot, hostClock
<1>3. PICK j \in 0..Jitter :
          LET rest == (Cycle(n) - SendSlot(n)) * Length(n) + j IN
          timer' = [timer EXCEPT ![n] = IF rest > late[n] THEN rest - late[n] ELSE 0]
  BY DEF AtSlot
<1> DEFINE rest == (Cycle(n) - SendSlot(n)) * Length(n) + j
           left == IF rest > late[n] THEN rest - late[n] ELSE 0
<1>4. timer' = [timer EXCEPT ![n] = left]
  BY <1>3
<1>5. /\ left \in 0..SlotsPerCycle * SlotLength + Jitter
      /\ ~misled[n] => rest + SlotTime(SlotsAhead(n)) = SlotTime(SlotsPerCycle) + j
      /\ rest \in Nat
  BY <1>1, RestOfCycle
<1> HIDE DEF rest
<1>6. (left = 0 /\ rest <= late[n]) \/ left = rest - late[n]
  <2>1. late[n] \in Nat
    BY <1>1, Numbers DEF LateOK
  <2> QED BY <1>5, <2>1
<1> HIDE DEF left
<1>7. HostOK' /\ PhaseOK' /\ TimerOK' /\ LateOK' /\ MisledOK' /\ PastOK' /\ BoundOK'
  <2>1. HostOK' /\ PhaseOK' /\ MisledOK' /\ PastOK' /\ BoundOK'
    BY <1>1, <1>2 DEF HostOK, PhaseOK, MisledOK, PastOK, BoundOK
  <2>2. 0 \in 0..Jitter
    BY Numbers
  <2>3. TimerOK' /\ LateOK'
    BY <1>1, <1>2, <1>4, <1>5, <2>2 DEF TimerOK, LateOK
  <2> QED BY <2>1, <2>3
<1>8. /\ sending' \in {sending, sending \cup {n}}
      /\ txData' = txData \/ txData' = [txData EXCEPT ![n] = FALSE]
  BY DEF AtSlot
<1>9. AirOK'
  BY <1>1, <1>8 DEF AirOK
<1>10. SentSlots'
  BY <1>1, <1>2, <1>8 DEF SentSlots, PhaseOK
<1>11. \A m \in Client : m # n =>
          /\ timer'[m] = timer[m] /\ late'[m] = late[m] /\ phase'[m] = phase[m]
          /\ m \in sending' <=> m \in sending
  BY <1>1, <1>2, <1>4, <1>8 DEF PhaseOK, TimerOK, LateOK
<1>12. phase'[n] = "toEnd" /\ timer'[n] = left
  BY <1>1, <1>2, <1>4 DEF PhaseOK, TimerOK
<1>13. ASSUME NEW e \in Nat, Elapsed(e) PROVE Elapsed(e)'
  <2>1. ~misled[n] => e = SlotTime(SlotsAhead(n)) + late[n]
    <3>1. ~misled[n] => timer[n] + e = SlotTime(SlotsAhead(n)) + late[n]
      BY <1>2, <1>13 DEF Elapsed, ByClient, Waits
    <3> QED BY <1>2, <3>1
  <2>2. Waits(e)'
    BY <1>2, <1>11, <1>12, <1>13 DEF Elapsed, ByClient, Waits, SlotsAhead
  <2>3. ~misled[n] => /\ left = 0 \/ left + e <= SlotTime(SlotsPerCycle) + Jitter
                      /\ left + e >= SlotTime(SlotsPerCycle)
    <3> SUFFICES ASSUME ~misled[n]
                 PROVE  /\ left = 0 \/ left + e <= SlotTime(SlotsPerCycle) + Jitter
                        /\ left + e >= SlotTime(SlotsPerCycle)
      OBVIOUS
    <3>1. late[n] \in Nat /\ SlotTime(SlotsAhead(n)) \in Nat /\ rest \in Nat
      BY <1>1, <1>5, AheadType, Numbers DEF LateOK
    <3>2. rest + SlotTime(SlotsAhead(n)) = SlotTime(SlotsPerCycle) + j
      BY <1>5
    <3>3. e = SlotTime(SlotsAhead(n)) + late[n]
      BY <2>1
    <3> QED BY <1>6, <3>1, <3>2, <3>3, Numbers
  <2>4. Ends(e)' /\ EndsLate(e)'
    BY <1>2, <1>11, <1>12, <1>13, <2>3 DEF Elapsed, ByClient, Ends, EndsLate
  <2>5. Sends(e)'
    <3> SUFFICES ASSUME NEW m \in Client, ~misled[m], m \in sending'
                 PROVE  \E i \in 0..Jitter : e = SlotTime(SlotsAhead(m)) + i
      BY <1>2 DEF Sends, SlotsAhead
    <3>1. CASE m = n
      BY <1>1, <2>1, <3>1 DEF LateOK
    <3>2. CASE m # n
      BY <1>11, <1>13, <3>2 DEF Elapsed, ByClient, Sends
    <3> QED BY <3>1, <3>2
  <2>6. Searches(e)'
    BY <1>2, <1>11, <1>12, <1>13 DEF Elapsed, ByClient, Searches
  <2>7. ByHost(e)'
    <3>1. Host \in sending' <=> Host \in sending
      BY <1>8, HostIsNoClient
    <3> QED BY <1>2, <1>13, <3>1, HostUntouched DEF Elapsed, hostClock
  <2> QED BY <2>2, <2>4, <2>5, <2>6, <2>7 DEF Elapsed, ByClient
<1> QED BY <1>7, <1>9, <1>10, <1>13 DEF CycleInv, Types

LEMMA AtEndInv == ASSUME CycleInv, NEW n \in Client, AtEnd(n)
                  PROVE  CycleInv' /\ (\A e \in Nat : Elapsed(e) => Elapsed(e)')
<1>1. /\ UNCHANGED <<timer, late, txData, sending, missed, restarts>>
      /\ UNCHANGED <<hostSlot, hostTimer>>
      /\ phase[n] = "toEnd" /\ timer[n] = 0 /\ n \notin sending
      /\ phase' = [phase EXCEPT ![n] = "search"] /\ misled' = [misled EXCEPT ![n] = FALSE]
  BY DEF AtEnd, hostClock
<1>2. HostOK' /\ TimerOK' /\ LateOK' /\ MisledOK' /\ AirOK' /\ PastOK' /\ BoundOK'
  BY <1>1 DEF CycleInv, Types, HostOK, TimerOK, LateOK, MisledOK, AirOK, PastOK, BoundOK
<1>3. PhaseOK' /\ SentSlots'
  BY <1>1 DEF CycleInv, Types, PhaseOK, SentSlots
<1>4. \A m \in Client : m # n => phase'[m] = phase[m] /\ misled'[m] = misled[m]
  BY <1>1 DEF CycleInv, Types, PhaseOK, MisledOK
<1>5. phase'[n] = "search" /\ ~misled'[n]
  BY <1>1 DEF CycleInv, Types, PhaseOK, MisledOK
<1>6. ASSUME NEW e \in Nat, Elapsed(e) PROVE Elapsed(e)'
  <2>1. Waits(e)' /\ Ends(e)' /\ EndsLate(e)' /\ Sends(e)'
    BY <1>1, <1>4, <1>5, <1>6
       DEF Elapsed, ByClient, Waits, Ends, EndsLate, Sends, SlotsAhead
  <2>2. Searches(e)'
    <3>1. ~misled[n] => e >= SlotTime(SlotsPerCycle)
      <4>1. ~misled[n] => timer[n] + e >= SlotTime(SlotsPerCycle)
        BY <1>1, <1>6 DEF Elapsed, ByClient, EndsLate
      <4> QED BY <1>1, <4>1
    <3> QED BY <1>1, <1>4, <1>5, <1>6, <3>1 DEF Elapsed, ByClient, Searches
  <2>3. ByHost(e)'
    BY <1>1, <1>6, HostUntouched DEF Elapsed, hostClock
  <2> QED BY <2>1, <2>2, <2>3 DEF Elapsed, ByClient
<1> QED BY <1>2, <1>3, <1>6 DEF CycleInv, Types

LEMMA ClientRestartInv == ASSUME CycleInv, NEW n \in Client, ClientRestart(n)
                          PROVE  CycleInv' /\ (\A e \in Nat : Elapsed(e) => Elapsed(e)')
<1>1. /\ phase' = [phase EXCEPT ![n] = "search"] /\ timer' = [timer EXCEPT ![n] = 0]
      /\ late' = [late EXCEPT ![n] = 0] /\ misled' = [misled EXCEPT ![n] = FALSE]
      /\ txData' = [txData EXCEPT ![n] = FALSE] /\ sending' = sending \ {n}
      /\ missed' = TRUE
      /\ UNCHANGED <<hostSlot, hostTimer>>
  BY DEF ClientRestart, hostClock
<1>2. HostOK' /\ BoundOK'
  BY <1>1, Numbers DEF ClientRestart, CycleInv, Types, HostOK, BoundOK
<1>3. TimerOK' /\ LateOK'
  <2>1. 0 \in 0..SlotsPerCycle * SlotLength + Jitter /\ 0 \in 0..Jitter
    BY Numbers DEF SlotTime
  <2> QED BY <1>1, <2>1 DEF CycleInv, Types, TimerOK, LateOK
<1>4. PhaseOK' /\ MisledOK' /\ AirOK' /\ PastOK'
  BY <1>1 DEF CycleInv, Types, PhaseOK, MisledOK, AirOK, PastOK
<1>5. SentSlots'
  BY <1>1 DEF CycleInv, Types, SentSlots, PhaseOK
<1>6. phase'[n] = "search" /\ n \notin sending'
  BY <1>1 DEF CycleInv, Types, PhaseOK
<1>7. \A m \in Client : m # n =>
          /\ phase'[m] = phase[m] /\ misled'[m] = misled[m]
          /\ timer'[m] = timer[m] /\ late'[m] = late[m]
          /\ m \in sending' <=> m \in sending
  BY <1>1 DEF CycleInv, Types, PhaseOK, MisledOK, TimerOK, LateOK
<1>8. ASSUME NEW e \in Nat, Elapsed(e) PROVE Elapsed(e)'
  <2>1. Waits(e)' /\ Ends(e)' /\ EndsLate(e)' /\ Sends(e)'
    BY <1>6, <1>7, <1>8 DEF Elapsed, ByClient, Waits, Ends, EndsLate, Sends, SlotsAhead
  <2>2. Searches(e)'
    BY <1>1 DEF Searches
  <2>3. Host \in sending' <=> Host \in sending
    BY <1>1, HostIsNoClient
  <2>4. ByHost(e)'
    BY <1>1, <1>8, <2>3, HostUntouched DEF Elapsed, hostClock
  <2> QED BY <2>1, <2>2, <2>4 DEF Elapsed, ByClient
<1> QED BY <1>2, <1>3, <1>4, <1>5, <1>8 DEF CycleInv, Types

-----------------------------------------------------------------------------
(* A tick.                                                                 *)

\* What a tick does to those who hear the frame in it, and to the others.
Listens(n) == /\ phase[n] = "search" /\ phase'[n] = "toSlot" /\ late'[n] \in 0..Jitter
              /\ sending = {Host} =>
                     ~misled'[n] /\ timer'[n] = SlotTime(SlotsAhead(n)) + late'[n]
              /\ sending # {Host} => misled'[n] /\ timer'[n] \in 0..Jitter
Passes(n)  == /\ timer'[n] = Less(timer[n]) /\ late'[n] = late[n]
              /\ misled'[n] = misled[n] /\ phase'[n] = phase[n]

LEMMA TickParts ==
    ASSUME CycleInv, Tick
    PROVE  /\ PhaseOK' /\ TimerOK' /\ LateOK' /\ MisledOK' /\ PastOK'
           /\ \E hears \in Hearers :
              /\ \A n \in Client : IF n \in hears THEN Listens(n) ELSE Passes(n)
              /\ missed' = (/\ ~(sending = {Host} /\ hears = Client)
                            /\ missed \/ (Host \in sending /\ hears # Listening))
<1>1. PhaseOK /\ TimerOK /\ LateOK /\ MisledOK /\ PastOK
  BY DEF CycleInv, Types
<1> DEFINE beacon == sending = {Host}
<1>2. PICK hears \in Hearers :
       /\ misled' = [n \in Client |-> IF n \in hears THEN ~beacon ELSE misled[n]]
       /\ \E j \in [hears -> 0..Jitter] :
          /\ late' = [n \in Client |-> IF n \in hears THEN j[n] ELSE late[n]]
          /\ timer' = [n \in Client |->
                         IF n \notin hears THEN Less(timer[n])
                         ELSE IF misled'[n] THEN j[n] ELSE SlotsAhead(n) * SlotLength + j[n]]
       /\ phase' = [n \in Client |-> IF n \in hears THEN "toSlot" ELSE phase[n]]
       /\ missed' = (/\ ~(beacon /\ hears = Client)
                     /\ missed \/ (Host \in sending /\ hears # Listening))
  BY DEF Tick
<1>3. PICK j \in [hears -> 0..Jitter] :
          /\ late' = [n \in Client |-> IF n \in hears THEN j[n] ELSE late[n]]
          /\ timer' = [n \in Client |->
                         IF n \notin hears THEN Less(timer[n])
                         ELSE IF misled'[n] THEN j[n] ELSE SlotsAhead(n) * SlotLength + j[n]]
  BY <1>2
<1>4. \A n \in hears : n \in Client /\ phase[n] = "search"
  BY DEF Hearers, Listening
<1>5. MisledOK' /\ PhaseOK' /\ PastOK'
  <2>1. MisledOK'
    BY <1>1, <1>2 DEF MisledOK
  <2>2. PhaseOK'
    BY <1>1, <1>2 DEF PhaseOK
  <2>3. PastOK'
    BY <1>1, <1>2 DEF PastOK
  <2> QED BY <2>1, <2>2, <2>3
<1>6. ASSUME NEW n \in Client, n \in hears PROVE Listens(n)
  <2>1. phase[n] = "search" /\ phase'[n] = "toSlot" /\ (misled'[n] <=> ~beacon)
    BY <1>2, <1>4, <1>6
  <2>2. late'[n] = j[n] /\ j[n] \in 0..Jitter
    BY <1>3, <1>6
  <2>3. timer'[n] = IF misled'[n] THEN j[n] ELSE SlotsAhead(n) * SlotLength + j[n]
    BY <1>3, <1>6
  <2> QED BY <2>1, <2>2, <2>3 DEF Listens, SlotTime
<1>7. ASSUME NEW n \in Client, n \notin hears PROVE Passes(n)
  <2>1. late'[n] = late[n] /\ timer'[n] = Less(timer[n])
    BY <1>3, <1>7
  <2> QED BY <1>2, <1>7, <2>1 DEF Passes
<1>8. TimerOK' /\ LateOK'
  <2>1. timer' = [n \in Client |-> timer'[n]] /\ late' = [n \in Client |-> late'[n]]
    BY <1>3
  <2>2. ASSUME NEW n \in Client
        PROVE  timer'[n] \in 0..SlotsPerCycle * SlotLength + Jitter /\ late'[n] \in 0..Jitter
    <3>1. CASE n \in hears /\ sending = {Host}
      <4>1. SlotTime(SlotsAhead(n)) \in 0..SlotTime(SlotsPerCycle)
        BY AheadType
      <4>2. late'[n] \in 0..Jitter /\ timer'[n] = SlotTime(SlotsAhead(n)) + late'[n]
        BY <1>6, <3>1 DEF Listens
      <4>3. timer'[n] \in 0..SlotTime(SlotsPerCycle) + Jitter
        BY <4>1, <4>2, Numbers
      <4> QED BY <4>2, <4>3 DEF SlotTime
    <3>2. CASE n \in hears /\ sending # {Host}
      <4>1. late'[n] \in 0..Jitter /\ timer'[n] \in 0..Jitter
        BY <1>6, <3>2 DEF Listens
      <4>2. timer'[n] \in 0..SlotTime(SlotsPerCycle) + Jitter
        BY <4>1, Numbers
      <4> QED BY <4>1, <4>2 DEF SlotTime
    <3>3. CASE n \notin hears
      <4>1. timer[n] \in 0..SlotsPerCycle * SlotLength + Jitter /\ late[n] \in 0..Jitter
        BY <1>1 DEF TimerOK, LateOK
      <4>2. SlotsPerCycle * SlotLength + Jitter \in Nat
        BY Numbers DEF SlotTime
      <4>3. Less(timer[n]) \in 0..SlotsPerCycle * SlotLength + Jitter
        BY <4>1, <4>2 DEF Less
      <4> QED BY <1>7, <3>3, <4>1, <4>3 DEF Passes
    <3> QED BY <3>1, <3>2, <3>3
  <2> QED BY <2>1, <2>2 DEF TimerOK, LateOK
<1> QED BY <1>2, <1>5, <1>6, <1>7, <1>8

LEMMA TickInv == ASSUME CycleInv, Tick PROVE CycleInv'
<1>1. PhaseOK' /\ TimerOK' /\ LateOK' /\ MisledOK' /\ PastOK'
  BY TickParts
<1>2. /\ hostSlot' = hostSlot /\ hostTimer > 0 /\ hostTimer' = hostTimer - 1
      /\ sending' = {} /\ UNCHANGED <<txData, restarts>>
  BY DEF Tick
<1>3. HostOK' /\ BoundOK'
  BY <1>2, Numbers DEF CycleInv, Types, HostOK, BoundOK
<1>4. AirOK' /\ SentSlots'
  BY <1>2 DEF CycleInv, Types, AirOK, SentSlots
<1> QED BY <1>1, <1>3, <1>4 DEF CycleInv, Types

\* The tick of a beacon: all that go by the host's cycle listen.
LEMMA BeaconElapsed ==
    ASSUME CycleInv, Tick, NEW e \in Nat, Elapsed(e), Host \in sending
    PROVE  Elapsed(0)'
<1>1. /\ hostSlot = 1 /\ hostTimer = SlotLength
      /\ e > SlotTime(SlotsPerCycle) + Jitter
  BY DEF Elapsed, ByHost, OnAir
<1>2. /\ hostSlot' = hostSlot /\ hostTimer > 0 /\ hostTimer' = hostTimer - 1
      /\ sending' = {} /\ \A n \in Client : ~Due(n)
  BY DEF Tick
<1>3. ASSUME NEW n \in Client, ~misled[n] PROVE phase[n] = "search"
  <2>1. phase[n] # "toSlot" /\ (phase[n] = "toEnd" => timer[n] = 0) /\ n \notin sending
    BY <1>1, <1>3, NobodyWaits
  <2>2. phase[n] \in {"search", "toSlot", "toEnd"}
    BY DEF CycleInv, Types, PhaseOK
  <2> QED BY <1>2, <2>1, <2>2 DEF Due
<1>4. PICK hears \in Hearers :
          /\ \A n \in Client : IF n \in hears THEN Listens(n) ELSE Passes(n)
          /\ missed' = (/\ ~(sending = {Host} /\ hears = Client)
                        /\ missed \/ (Host \in sending /\ hears # Listening))
  BY TickParts
<1>5. ASSUME NEW n \in Client, ~misled'[n], phase'[n] # "search"
      PROVE  n \in hears /\ sending = {Host}
  <2>1. n \in hears
    BY <1>3, <1>4, <1>5 DEF Passes
  <2> QED BY <1>4, <1>5, <2>1 DEF Listens
<1>6. Waits(0)'
  <2> SUFFICES ASSUME NEW n \in Client, ~misled'[n], phase'[n] = "toSlot"
               PROVE  timer'[n] + 0 = SlotTime(SlotsAhead(n)) + late'[n]
    BY DEF Waits, SlotsAhead
  <2>1. timer'[n] = SlotTime(SlotsAhead(n)) + late'[n] /\ late'[n] \in 0..Jitter
    BY <1>4, <1>5 DEF Listens
  <2> QED BY <2>1, AheadType, Numbers
<1>7. Ends(0)' /\ EndsLate(0)'
  <2>1. \A n \in Client : ~misled'[n] => phase'[n] # "toEnd"
    BY <1>4, <1>5 DEF Listens
  <2> QED BY <2>1 DEF Ends, EndsLate
<1>8. Sends(0)'
  BY <1>2 DEF Sends
<1>9. Searches(0)'
  <2> SUFFICES ASSUME ~missed', NEW x \in Client
               PROVE  ~misled'[x] /\ phase'[x] # "search"
    BY DEF Searches
  <2>1. sending = {Host} /\ hears = Client
    <3>1. CASE sending = {Host} /\ hears = Client
      BY <3>1
    <3>2. CASE ~(sending = {Host} /\ hears = Client)
      <4>1. ~missed /\ hears = Listening
        BY <1>4, <3>2
      <4>2. \A n \in Client : phase[n] = "search"
        BY <1>3, <4>1 DEF Elapsed, ByClient, Searches
      <4>3. hears = Client
        BY <4>1, <4>2 DEF Listening
      <4>4. hears = {} \/ sending = {Host}
        BY HostIsNoClient DEF Hearers
      <4> QED BY <4>3, <4>4
    <3> QED BY <3>1, <3>2
  <2> QED BY <1>4, <2>1 DEF Listens
<1>10. OnAir(0)' /\ AtCycle(0)' /\ AtSlots(0)'
  <2>1. hostSlot' = 1 /\ 0 + 1 + hostTimer' = SlotTime(1)
    BY <1>1, <1>2, Numbers, TimeFirst
  <2> QED BY <1>2, <2>1 DEF OnAir, AtCycle, AtSlots
<1> QED BY <1>6, <1>7, <1>8, <1>9, <1>10 DEF Elapsed, ByClient, ByHost

\* Any other tick: those that have missed nothing sleep when a frame that looks
\* like a beacon is on the air.
LEMMA OtherElapsed ==
    ASSUME CycleInv, Tick, NEW e \in Nat, Elapsed(e), Host \notin sending
    PROVE  Elapsed(e + 1)'
<1>1. /\ hostSlot' = hostSlot /\ hostTimer > 0 /\ hostTimer' = hostTimer - 1
      /\ sending' = {} /\ hostSlot \in Nat /\ hostTimer \in Nat
      /\ \A n \in Client : ~Due(n)
  BY Numbers DEF Tick, CycleInv, Types, HostOK
<1>2. PICK hears \in Hearers :
          /\ \A n \in Client : IF n \in hears THEN Listens(n) ELSE Passes(n)
          /\ missed' = (/\ ~(sending = {Host} /\ hears = Client)
                        /\ missed \/ (Host \in sending /\ hears # Listening))
  BY TickParts
<1>3. sending # {Host}
  OBVIOUS
<1>4. ASSUME NEW n \in Client, ~misled'[n] PROVE Passes(n)
  BY <1>2, <1>3, <1>4 DEF Listens
<1>5. \A n \in Client : timer[n] \in Nat /\ late[n] \in Nat
  <2>1. SlotsPerCycle * SlotLength + Jitter \in Nat
    BY Numbers DEF SlotTime
  <2> QED BY <2>1, Numbers DEF CycleInv, Types, TimerOK, LateOK
<1>6. Waits(e + 1)'
  <2> SUFFICES ASSUME NEW n \in Client, ~misled'[n], phase'[n] = "toSlot"
               PROVE  timer'[n] + (e + 1) = SlotTime(SlotsAhead(n)) + late'[n]
    BY DEF Waits, SlotsAhead
  <2>1. Passes(n) /\ ~misled[n] /\ phase[n] = "toSlot"
    BY <1>4 DEF Passes
  <2>2. timer[n] + e = SlotTime(SlotsAhead(n)) + late[n]
    BY <2>1 DEF Elapsed, ByClient, Waits
  <2>3. timer[n] # 0
    <3>1. n \notin sending
      BY <2>1 DEF CycleInv, SentSlots
    <3> QED BY <1>1, <2>1, <3>1 DEF Due
  <2>4. timer'[n] = timer[n] - 1 /\ late'[n] = late[n]
    BY <2>1, <2>3 DEF Passes, Less
  <2>5. timer[n] \in Nat /\ late[n] \in Nat
    BY <1>5
  <2> QED BY <2>2, <2>3, <2>4, <2>5, AheadType, Numbers
<1>7. ASSUME NEW n \in Client, ~misled'[n], phase'[n] = "toEnd"
      PROVE  /\ timer'[n] = 0 \/ timer'[n] + (e + 1) <= SlotTime(SlotsPerCycle) + Jitter
             /\ timer'[n] + (e + 1) >= SlotTime(SlotsPerCycle)
  <2>1. Passes(n)
    BY <1>4, <1>7
  <2>2. ~misled[n] /\ phase[n] = "toEnd"
    BY <1>7, <2>1 DEF Passes
  <2>3. /\ timer[n] = 0 \/ timer[n] + e <= SlotTime(SlotsPerCycle) + Jitter
        /\ timer[n] + e >= SlotTime(SlotsPerCycle)
    BY <2>2 DEF Elapsed, ByClient, Ends, EndsLate
  <2>4. timer'[n] = IF timer[n] = 0 THEN 0 ELSE timer[n] - 1
    BY <2>1 DEF Passes, Less
  <2>5. timer[n] \in Nat
    BY <1>5
  <2> QED BY <2>3, <2>4, <2>5, Numbers
<1>8. Ends(e + 1)' /\ EndsLate(e + 1)'
  BY <1>7 DEF Ends, EndsLate
<1>9. Sends(e + 1)'
  BY <1>1 DEF Sends
<1>10. Searches(e + 1)'
  <2> SUFFICES ASSUME ~missed', NEW x \in Client
               PROVE  ~misled'[x] /\ (phase'[x] = "search" => e + 1 >= SlotTime(SlotsPerCycle))
    BY DEF Searches
  <2>1. ~missed
    BY <1>2, <1>3
  <2>2. \A n \in Client :
            ~misled[n] /\ (phase[n] = "search" => e >= SlotTime(SlotsPerCycle))
    BY <2>1 DEF Elapsed, ByClient, Searches
  <2>3. x \notin hears
    <3> SUFFICES ASSUME x \in hears PROVE FALSE
      OBVIOUS
    <3>1. PICK n \in Client : sending = {n} /\ LooksLikeBeacon(n)
      BY <1>3 DEF Hearers
    <3>2. SlotsAhead(n) = 0
      BY <2>2, <3>1, SlotOfHost DEF LooksLikeBeacon, CycleInv, Types
    <3>3. PICK j \in 0..Jitter : e = SlotTime(SlotsAhead(n)) + j
      BY <2>2, <3>1 DEF Elapsed, ByClient, Sends
    <3>4. e >= SlotTime(SlotsPerCycle)
      BY <1>2, <2>2 DEF Listens
    <3>5. SlotLength <= SlotTime(SlotsPerCycle)
      BY Numbers, TimeFirst, TimeOrder
    <3> QED BY <3>2, <3>3, <3>4, <3>5, TimeFirst, Numbers
  <2>4. Passes(x)
    BY <1>2, <2>3
  <2>5. ~misled'[x] /\ (phase'[x] = "search" => e >= SlotTime(SlotsPerCycle))
    BY <2>2, <2>4 DEF Passes
  <2> QED BY <2>5, Numbers
<1>11. OnAir(e + 1)'
  BY <1>1 DEF OnAir
<1>12. AtCycle(e + 1)'
  <2>1. hostSlot = 0 => e + hostTimer > SlotTime(SlotsPerCycle) + Jitter
    BY DEF Elapsed, ByHost, AtCycle
  <2>2. hostSlot = 0 => e + 1 + hostTimer' > SlotTime(SlotsPerCycle) + Jitter
    BY <1>1, <2>1, Numbers
  <2> QED BY <1>1, <2>2 DEF AtCycle
<1>13. AtSlots(e + 1)'
  <2>1. hostSlot # 0 => e + 1 + hostTimer = SlotTime(hostSlot)
    BY DEF Elapsed, ByHost, AtSlots
  <2>2. hostSlot # 0 => (e + 1) + 1 + hostTimer' = SlotTime(hostSlot)
    BY <1>1, <2>1, TimeType
  <2> QED BY <1>1, <2>2 DEF AtSlots
<1> QED BY <1>6, <1>8, <1>9, <1>10, <1>11, <1>12, <1>13 DEF Elapsed, ByClient, ByHost

LEMMA TickElapsed ==
    ASSUME CycleInv, Tick, NEW e \in Nat, Elapsed(e)
    PROVE  \E e2 \in Nat : Elapsed(e2)'
<1>1. CASE Host \in sending
  BY <1>1, BeaconElapsed
<1>2. CASE Host \notin sending
  <2>1. e + 1 \in Nat
    OBVIOUS
  <2> QED BY <1>2, <2>1, OtherElapsed
<1> QED BY <1>1, <1>2

-----------------------------------------------------------------------------
OnSchedule == CycleInv /\ \E e \in Nat : Elapsed(e)

LEMMA ScheduleNext == OnSchedule /\ [CycleNext]_cycleVars => OnSchedule'
<1> SUFFICES ASSUME OnSchedule, [CycleNext]_cycleVars PROVE OnSchedule'
  OBVIOUS
<1>1. CycleInv
  BY DEF OnSchedule
<1>2. PICK e \in Nat : Elapsed(e)
  BY DEF OnSchedule
<1>3. CASE HostStep
  BY <1>1, <1>2, <1>3, HostStepInv, HostStepElapsed DEF OnSchedule
<1>4. CASE Tick
  BY <1>1, <1>2, <1>4, TickInv, TickElapsed DEF OnSchedule
<1>5. CASE HostRestart
  BY <1>1, <1>2, <1>5, HostRestartInv, HostRestartElapsed DEF OnSchedule
<1>6. ASSUME NEW n \in Client, Fill(n) \/ AtSlot(n) \/ AtEnd(n) \/ ClientRestart(n)
      PROVE  OnSchedule'
  BY <1>1, <1>2, <1>6, FillInv, AtSlotInv, AtEndInv, ClientRestartInv DEF OnSchedule
<1>7. CASE UNCHANGED cycleVars
  <2>1. UNCHANGED <<hostSlot, hostTimer, phase, timer, late, misled, txData, sending,
                    missed, restarts>>
    BY <1>7 DEF cycleVars, hostClock, syncVars
  <2>2. Types'
    BY <1>1, <2>1 DEF CycleInv, Types, HostOK, PhaseOK, TimerOK, LateOK, MisledOK, AirOK,
       PastOK, BoundOK
  <2>3. SentSlots'
    BY <1>1, <2>1 DEF CycleInv, SentSlots
  <2>4. ByHost(e)'
    BY <1>2, <2>1 DEF Elapsed, ByHost, OnAir, AtCycle, AtSlots
  <2>5. ByClient(e)'
    BY <1>2, <2>1 DEF Elapsed, ByClient, Waits, Ends, EndsLate, Sends, Searches, SlotsAhead
  <2> QED BY <2>2, <2>3, <2>4, <2>5 DEF CycleInv, OnSchedule, Elapsed
<1> QED BY <1>3, <1>4, <1>5, <1>6, <1>7 DEF CycleNext

LEMMA ScheduleInit == CycleInit => OnSchedule
BY InitCycleInv DEF OnSchedule

\* The data of the cycle keep their types; in particular no client waits longer
\* than a cycle (pcf_tdma.c:585-666).
THEOREM CycleTypeCorrect == CycleSpec => []CycleTypeOK
<1>1. OnSchedule => CycleTypeOK
  BY DEF OnSchedule, CycleInv, Types, HostOK, PhaseOK, TimerOK, LateOK, MisledOK, AirOK,
     PastOK, BoundOK, CycleTypeOK
<1> QED BY <1>1, ScheduleInit, ScheduleNext, PTL DEF CycleSpec

\* Clients of different slots that go by the host's cycle are never on the
\* air together (pcf_tdma.c:556, 626-666).
THEOREM AlwaysApart == CycleSpec => []SlotsAreApart
<1>1. ASSUME OnSchedule PROVE SlotsAreApart
  <2>1. PICK e \in Nat : Elapsed(e)
    BY <1>1 DEF OnSchedule
  <2>2. MisledOK /\ AirOK
    BY <1>1 DEF OnSchedule, CycleInv, Types
  <2> SUFFICES ASSUME NEW m \in sending \ {Host}, NEW n \in sending \ {Host},
                      ~misled[m], ~misled[n]
               PROVE  SendSlot(m) = SendSlot(n)
    BY DEF SlotsAreApart
  <2>3. m \in Client /\ n \in Client
    BY <2>2 DEF AirOK
  <2>4. PICK i \in 0..Jitter : e = SlotTime(SlotsAhead(m)) + i
    BY <2>1, <2>3 DEF Elapsed, ByClient, Sends
  <2>5. PICK j \in 0..Jitter : e = SlotTime(SlotsAhead(n)) + j
    BY <2>1, <2>3 DEF Elapsed, ByClient, Sends
  <2>6. SlotsAhead(m) \in Nat /\ SlotsAhead(n) \in Nat
    BY <2>3, AheadType, Numbers
  <2>7. SlotsAhead(m) = SlotsAhead(n)
    BY <2>4, <2>5, <2>6, TimeUnique
  <2> QED BY <2>2, <2>3, <2>7, SlotOfHost
<1> QED BY <1>1, ScheduleInit, ScheduleNext, PTL DEF CycleSpec

\* A client that goes by the host's cycle listens when the next beacon is sent
\* (pcf_tdma.c:534-538, 656-660).
THEOREM AlwaysAwake == CycleSpec => []AwakeForBeacon
<1>1. ASSUME OnSchedule PROVE AwakeForBeacon
  <2>1. PICK e \in Nat : Elapsed(e)
    BY <1>1 DEF OnSchedule
  <2> SUFFICES ASSUME NEW n \in Client, ~misled[n], hostSlot = 0, hostTimer = 0
               PROVE  phase[n] = "search" \/ (phase[n] = "toEnd" /\ timer[n] = 0)
    BY DEF AwakeForBeacon
  <2>2. Host \notin sending
    BY <2>1, Numbers DEF Elapsed, ByHost, OnAir
  <2>3. e > SlotTime(SlotsPerCycle) + Jitter
    BY <2>1, <2>2, Numbers DEF Elapsed, ByHost, AtCycle
  <2>4. phase[n] # "toSlot"
    BY <1>1, <2>1, <2>3, NobodyWaits DEF OnSchedule
  <2>5. phase[n] = "toEnd" => timer[n] = 0
    BY <1>1, <2>1, <2>3, NobodyWaits DEF OnSchedule
  <2>6. phase[n] \in {"search", "toSlot", "toEnd"}
    BY <1>1 DEF OnSchedule, CycleInv, Types, PhaseOK
  <2> QED BY <2>4, <2>5, <2>6
<1> QED BY <1>1, ScheduleInit, ScheduleNext, PTL DEF CycleSpec

\* A client is misled only if, since the last beacon that they all heard, a
\* client has missed one or restarted (pcf_tdma.c:563-592, 626-661).
THEOREM OnlyAMissMisleads == CycleSpec => []MisledByMiss
<1>1. OnSchedule => MisledByMiss
  BY DEF OnSchedule, Elapsed, ByClient, Searches, MisledByMiss
<1> QED BY <1>1, ScheduleInit, ScheduleNext, PTL DEF CycleSpec

-----------------------------------------------------------------------------
(***************************************************************************)
(* B-MAC: for any packets, the packet an application has got stays, and a  *)
(* send that returns has sent its own.  Both rest on facts that outlast a  *)
(* wait: the network task listens only while the buffer is free            *)
(* (BmacTypeOK) and nobody frees it twice (Held), and between its setting  *)
(* and its end the pending packet is the caller's (OwnPending).            *)
(***************************************************************************)

Held       == receiver = "using" => ~rxBufEmpty
OwnPending == sender.at \in {"filled", "waiting"} => txPayload = sender.mine

NwOK       == /\ nw \in {"asleep", "listen", "delay", "off", "woken"} /\ v \in {0, 1}
              /\ radio \in {"up", "down"}
              /\ nw = "listen" => rxBufEmpty
BufferOK   == rxBufEmpty \in BOOLEAN /\ rxBuf \in Packet /\ rxReady \in Packet
PendingOK  == txReady \in BOOLEAN /\ txPayload \in Packet /\ air \in Packet
FlagsOK    == enabled \in BOOLEAN /\ ccaActive \in BOOLEAN
ReceiverOK == receiver \in {"start", "test", "not ready", "waiting", "woken", "using"}
SenderOK   == sender \in [at : {"idle", "announce", "set", "filled", "waiting"},
                          mine : Packet, blocking : BOOLEAN]
SwitcherOK == switcher \in {"idle", "down", "up"}

BmacInv == /\ NwOK /\ BufferOK /\ PendingOK /\ FlagsOK
           /\ ReceiverOK /\ SenderOK /\ SwitcherOK
           /\ Held /\ OwnPending

LEMMA InvParts ==
    BmacInv <=> BmacTypeOK /\ Held /\ OwnPending
BY DEF BmacInv, BmacTypeOK, NwOK, BufferOK, PendingOK, FlagsOK, ReceiverOK, SenderOK,
   SwitcherOK

LEMMA BmacInitInv == BmacInit => BmacInv
<1> SUFFICES ASSUME BmacInit PROVE BmacInv
  OBVIOUS
<1>1. NwOK /\ BufferOK /\ PendingOK /\ FlagsOK
  BY DEF BmacInit, NwOK, BufferOK, PendingOK, FlagsOK, Packet
<1>2. ReceiverOK /\ SenderOK /\ SwitcherOK
  BY DEF BmacInit, ReceiverOK, SenderOK, SwitcherOK, Packet
<1>3. Held /\ OwnPending
  BY DEF BmacInit, Held, OwnPending
<1> QED BY <1>1, <1>2, <1>3 DEF BmacInv

-----------------------------------------------------------------------------
(* The parts of a step.                                                    *)

\* The sender is where it was, or comes back from its wait.
SenderReturns ==
    \/ sender' = sender
    \/ sender.at = "waiting" /\ sender' = [sender EXCEPT !.at = "idle"]

LEMMA SenderKept ==
    ASSUME SenderOK, OwnPending, SenderReturns, txPayload' = txPayload
    PROVE  SenderOK' /\ OwnPending'
<1>1. SenderOK'
  BY DEF SenderOK, SenderReturns
<1>2. CASE sender' = sender
  <2>1. sender'.at = sender.at /\ sender'.mine = sender.mine
    BY <1>2
  <2> QED BY <1>1, <2>1 DEF OwnPending
<1>3. CASE sender.at = "waiting" /\ sender' = [sender EXCEPT !.at = "idle"]
  BY <1>3 DEF OwnPending, SenderOK
<1> QED BY <1>1, <1>2, <1>3 DEF SenderReturns

LEMMA TransmitParts ==
    ASSUME NEW power, PendingOK, Transmit(power), txPayload' = txPayload
    PROVE  /\ PendingOK' /\ SenderReturns
           /\ sender' # sender /\ power = "up" => air' = txPayload
BY DEF Transmit, PendingOK, SenderReturns

LEMMA SendOrSleepParts ==
    ASSUME NEW power \in {"up", "down"}, PendingOK, SendOrSleep(power), txPayload' = txPayload
    PROVE  /\ PendingOK' /\ SenderReturns
           /\ sender' # sender /\ power = "up" => air' = txPayload
           /\ nw' \in {"asleep", "delay"} /\ radio' \in {"up", "down"}
<1>1. nw' \in {"asleep", "delay"} /\ radio' \in {"up", "down"}
  BY DEF SendOrSleep
<1>2. CASE UNCHANGED <<txReady, air, sender>>
  BY <1>1, <1>2 DEF PendingOK, SenderReturns
<1>3. CASE Transmit(power)
  BY <1>1, <1>3, TransmitParts
<1> QED BY <1>2, <1>3 DEF SendOrSleep

LEMMA SignalParts == ASSUME ReceiverOK, SignalRx
                     PROVE  ReceiverOK' /\ (receiver' = "using" <=> receiver = "using")
BY DEF ReceiverOK, SignalRx

-----------------------------------------------------------------------------
(* The network task.                                                       *)

LEMMA CheckInv == ASSUME BmacInv, Check
                  PROVE  /\ BmacInv' /\ UNCHANGED rxBuf
                         /\ SenderReturns /\ (sender' # sender => air' = txPayload)
<1>1. /\ BufferOK' /\ FlagsOK' /\ SwitcherOK'
      /\ UNCHANGED <<rxBufEmpty, rxBuf, txPayload>>
  BY DEF Check, BmacInv, BufferOK, FlagsOK, SwitcherOK
<1>2. ReceiverOK' /\ Held' /\ v' \in {0, 1} /\ (v' = 0 /\ enabled => rxBufEmpty)
  <2>1. v' \in {0, 1} /\ (v' = 0 /\ enabled => rxBufEmpty)
    BY DEF Check, StillFull, BmacInv, NwOK
  <2>2. CASE UNCHANGED receiver
    <3>1. ReceiverOK'
      BY <2>2 DEF BmacInv, ReceiverOK
    <3>2. Held'
      BY <1>1, <2>2 DEF BmacInv, Held
    <3> QED BY <2>1, <3>1, <3>2
  <2>3. CASE SignalRx
    BY <1>1, <2>1, <2>3, SignalParts DEF BmacInv, Held
  <2> QED BY <2>2, <2>3 DEF Check, StillFull
<1>3. CASE UNCHANGED <<txReady, air, sender>>
  <2>1. PendingOK' /\ SenderReturns
    BY <1>1, <1>3 DEF BmacInv, PendingOK, SenderReturns
  <2>2. SenderOK' /\ OwnPending'
    BY <1>1, <2>1, SenderKept DEF BmacInv
  <2>3. NwOK'
    BY <1>1, <1>2 DEF Check, SendOrSleep, BmacInv, NwOK
  <2> QED BY <1>1, <1>2, <1>3, <2>1, <2>2, <2>3 DEF BmacInv
<1>4. CASE enabled /\ v' # 0 /\ SendOrSleep("up")
  <2>1. /\ PendingOK' /\ SenderReturns
        /\ sender' # sender => air' = txPayload
        /\ nw' \in {"asleep", "delay"} /\ radio' \in {"up", "down"}
    BY <1>1, <1>4, SendOrSleepParts DEF BmacInv
  <2>2. SenderOK' /\ OwnPending'
    BY <1>1, <2>1, SenderKept DEF BmacInv
  <2>3. NwOK'
    BY <1>2, <2>1 DEF NwOK
  <2> QED BY <1>1, <1>2, <2>1, <2>2, <2>3 DEF BmacInv
<1> QED BY <1>3, <1>4 DEF Check

LEMMA ListenEndInv == ASSUME BmacInv, ListenEnd
                      PROVE  /\ BmacInv' /\ receiver # "using"
                             /\ SenderReturns
                             /\ sender' # sender /\ radio = "up" => air' = txPayload
<1>1. rxBufEmpty /\ receiver # "using"
  BY DEF ListenEnd, BmacInv, NwOK, Held
<1>2. FlagsOK' /\ SwitcherOK' /\ BufferOK' /\ UNCHANGED <<v, txPayload>>
  BY DEF ListenEnd, BmacInv, FlagsOK, SwitcherOK, BufferOK, Packet
<1>3. ReceiverOK' /\ receiver' # "using"
  <2>1. CASE SignalRx
    BY <1>1, <2>1, SignalParts DEF BmacInv
  <2>2. CASE UNCHANGED receiver
    BY <1>1, <2>2 DEF BmacInv, ReceiverOK
  <2> QED BY <2>1, <2>2 DEF ListenEnd
<1>4. radio \in {"up", "down"} /\ PendingOK /\ SendOrSleep(radio)
  BY DEF ListenEnd, BmacInv, NwOK
<1>5. /\ PendingOK' /\ SenderReturns
      /\ sender' # sender /\ radio = "up" => air' = txPayload
      /\ nw' \in {"asleep", "delay"} /\ radio' \in {"up", "down"}
  BY <1>2, <1>4, SendOrSleepParts
<1>6. SenderOK' /\ OwnPending'
  BY <1>2, <1>5, SenderKept DEF BmacInv
<1>7. NwOK'
  BY <1>2, <1>5 DEF BmacInv, NwOK
<1> QED BY <1>1, <1>2, <1>3, <1>5, <1>6, <1>7 DEF BmacInv, Held

LEMMA DelayClearInv == ASSUME BmacInv, DelayClear
                       PROVE  /\ BmacInv' /\ UNCHANGED rxBuf
                              /\ SenderReturns
                              /\ sender' # sender /\ radio = "up" => air' = txPayload
<1>1. /\ FlagsOK' /\ SwitcherOK' /\ BufferOK' /\ ReceiverOK' /\ Held' /\ NwOK'
      /\ UNCHANGED <<rxBuf, txPayload>>
  BY DEF DelayClear, BmacInv, FlagsOK, SwitcherOK, BufferOK, ReceiverOK, Held, NwOK
<1>2. /\ PendingOK' /\ SenderReturns
      /\ sender' # sender /\ radio = "up" => air' = txPayload
  BY <1>1, TransmitParts DEF DelayClear, BmacInv
<1>3. SenderOK' /\ OwnPending'
  BY <1>1, <1>2, SenderKept DEF BmacInv
<1> QED BY <1>1, <1>2, <1>3 DEF BmacInv

LEMMA FrameArrivesInv == ASSUME BmacInv, NEW p \in Body, FrameArrives(p) PROVE BmacInv'
<1>1. NwOK' /\ BufferOK' /\ PendingOK' /\ FlagsOK'
  BY DEF FrameArrives, taskVars, BmacInv, NwOK, BufferOK, PendingOK, FlagsOK, Packet
<1>2. ReceiverOK' /\ SenderOK' /\ SwitcherOK' /\ Held' /\ OwnPending'
  BY DEF FrameArrives, taskVars, BmacInv, ReceiverOK, SenderOK, SwitcherOK, Held, OwnPending
<1> QED BY <1>1, <1>2 DEF BmacInv

-----------------------------------------------------------------------------
(* The three tasks that use the layer.                                     *)

LEMMA ReceiverInv == ASSUME BmacInv, ReceiverStep
                     PROVE  BmacInv' /\ UNCHANGED <<rxBuf, sender>>
<1>1. UNCHANGED <<nw, v, rxBuf, rxReady, radio, txReady, air, enabled, ccaActive,
                  txPayload, sender, switcher>>
  BY DEF ReceiverStep, SetBuffer, TestReady, WaitRx, GetPkt, Release, Receiver
<1>2. rxBufEmpty' \in BOOLEAN /\ (rxBufEmpty => rxBufEmpty')
  BY DEF ReceiverStep, SetBuffer, TestReady, WaitRx, GetPkt, Release, BmacInv, BufferOK
<1>3. ReceiverOK'
  BY DEF ReceiverStep, SetBuffer, TestReady, WaitRx, GetPkt, Release, Receiver, ReceiverOK
<1>4. Held'
  <2>1. CASE GetPkt
    BY <2>1 DEF GetPkt, Receiver, Held
  <2>2. CASE SetBuffer \/ TestReady \/ WaitRx \/ Release
    BY <2>2 DEF SetBuffer, TestReady, WaitRx, Release, Receiver, Held
  <2> QED BY <2>1, <2>2 DEF ReceiverStep
<1>5. NwOK' /\ BufferOK' /\ PendingOK' /\ FlagsOK'
  BY <1>1, <1>2 DEF BmacInv, NwOK, BufferOK, PendingOK, FlagsOK
<1>6. SenderOK' /\ SwitcherOK' /\ OwnPending'
  BY <1>1 DEF BmacInv, SenderOK, SwitcherOK, OwnPending
<1> QED BY <1>1, <1>3, <1>4, <1>5, <1>6 DEF BmacInv

LEMMA SenderInv ==
    ASSUME BmacInv, SenderStep \/ \E p \in Body, b \in BOOLEAN : TxPkt(p, b)
    PROVE  BmacInv' /\ UNCHANGED rxBuf /\ sender.at # "waiting"
<1>1. /\ UNCHANGED <<nw, v, rxBufEmpty, rxBuf, rxReady, radio, air, enabled, ccaActive,
                     receiver, switcher>>
      /\ sender.at # "waiting"
  BY DEF SenderStep, Announce, SetPacket, WaitDone, Sender, TxPkt, macVars
<1>2. /\ NwOK' /\ BufferOK' /\ FlagsOK'
      /\ ReceiverOK' /\ SwitcherOK' /\ Held'
  <2>1. NwOK' /\ BufferOK'
    BY <1>1 DEF BmacInv, NwOK, BufferOK
  <2>2. FlagsOK' /\ ReceiverOK' /\ SwitcherOK' /\ Held'
    BY <1>1 DEF BmacInv, FlagsOK, ReceiverOK, SwitcherOK, Held
  <2> QED BY <2>1, <2>2
<1>3. SenderOK' /\ OwnPending' /\ PendingOK'
  <2>1. CASE Announce
    BY <1>1, <2>1 DEF Announce, Sender, BmacInv, SenderOK, OwnPending, PendingOK
  <2>2. CASE SetPacket
    BY <1>1, <2>2 DEF SetPacket, Sender, BmacInv, SenderOK, OwnPending, PendingOK
  <2>3. CASE WaitDone
    BY <1>1, <2>3 DEF WaitDone, Sender, BmacInv, SenderOK, OwnPending, PendingOK
  <2>4. ASSUME NEW p \in Body, NEW b \in BOOLEAN, TxPkt(p, b)
        PROVE  SenderOK' /\ OwnPending' /\ PendingOK'
    BY <2>4 DEF TxPkt, macVars, BmacInv, SenderOK, OwnPending, PendingOK, Packet
  <2> QED BY <2>1, <2>2, <2>3, <2>4 DEF SenderStep
<1> QED BY <1>1, <1>2, <1>3 DEF BmacInv

LEMMA SwitcherInv ==
    ASSUME BmacInv, SwitcherStep \/ Disable \/ Enable \/ \E b \in BOOLEAN : SetCca(b)
    PROVE  BmacInv' /\ UNCHANGED <<rxBuf, sender>>
<1>1. UNCHANGED <<v, rxBufEmpty, rxBuf, rxReady, txReady, air, txPayload, receiver, sender>>
  BY DEF SwitcherStep, PowerDown, EnableSignal, Disable, Enable, SetCca, Switcher, macVars,
     taskVars
<1>2. NwOK' /\ FlagsOK' /\ SwitcherOK'
  BY <1>1 DEF SwitcherStep, PowerDown, EnableSignal, Disable, Enable, SetCca, Switcher,
     macVars, taskVars, BmacInv, NwOK, FlagsOK, SwitcherOK
<1>3. BufferOK' /\ PendingOK' /\ ReceiverOK' /\ SenderOK' /\ Held' /\ OwnPending'
  BY <1>1 DEF BmacInv, BufferOK, PendingOK, ReceiverOK, SenderOK, Held, OwnPending
<1> QED BY <1>1, <1>2, <1>3 DEF BmacInv

-----------------------------------------------------------------------------
LEMMA StutterInv == ASSUME BmacInv, UNCHANGED bmacVars
                    PROVE  BmacInv' /\ UNCHANGED <<rxBuf, sender>>
<1>1. /\ UNCHANGED <<nw, v, rxBufEmpty, rxBuf, rxReady, radio, txReady, air>>
      /\ UNCHANGED <<enabled, ccaActive, txPayload, receiver, sender, switcher>>
  BY DEF bmacVars, macVars, taskVars
<1>2. NwOK' /\ BufferOK' /\ PendingOK' /\ FlagsOK'
  BY <1>1 DEF BmacInv, NwOK, BufferOK, PendingOK, FlagsOK
<1>3. ReceiverOK' /\ SwitcherOK' /\ Held'
  BY <1>1 DEF BmacInv, ReceiverOK, SwitcherOK, Held
<1>4. SenderOK' /\ OwnPending'
  BY <1>1, SenderKept DEF BmacInv, SenderReturns
<1> QED BY <1>1, <1>2, <1>3, <1>4 DEF BmacInv

LEMMA BmacNextInv == BmacInv /\ [BmacNext]_bmacVars => BmacInv'
<1> SUFFICES ASSUME BmacInv, [BmacNext]_bmacVars PROVE BmacInv'
  OBVIOUS
<1>1. CASE NwStep \/ \E p \in Body : FrameArrives(p)
  BY <1>1, CheckInv, ListenEndInv, DelayClearInv, FrameArrivesInv DEF NwStep
<1>2. CASE ReceiverStep
  BY <1>2, ReceiverInv
<1>3. CASE SenderStep \/ \E p \in Body, b \in BOOLEAN : TxPkt(p, b)
  BY <1>3, SenderInv
<1>4. CASE SwitcherStep \/ Disable \/ Enable \/ \E b \in BOOLEAN : SetCca(b)
  BY <1>4, SwitcherInv
<1>5. CASE UNCHANGED bmacVars
  BY <1>5, StutterInv
<1> QED BY <1>1, <1>2, <1>3, <1>4, <1>5 DEF BmacNext

\* The data of the layer keep their types, and it listens only while there is
\* a buffer to receive in (bmac.c:408-437).
THEOREM BmacTypeCorrect == BmacSpec => []BmacTypeOK
<1>1. BmacInv => BmacTypeOK
  BY InvParts
<1> QED BY <1>1, BmacInitInv, BmacNextInv, PTL DEF BmacSpec

\* The packet the application has got is not overwritten until it is released
\* (bmac.c:416-437, 500-532, 352-374).
THEOREM HeldPacketStays == BmacSpec => HeldPacketStable
<1>1. BmacInv /\ [BmacNext]_bmacVars => [receiver = "using" => rxBuf' = rxBuf]_bmacVars
  <2> SUFFICES ASSUME BmacInv, [BmacNext]_bmacVars, receiver = "using"
               PROVE  rxBuf' = rxBuf
    OBVIOUS
  <2>1. CASE NwStep
    BY <2>1, CheckInv, ListenEndInv, DelayClearInv DEF NwStep
  <2>2. CASE \E p \in Body : FrameArrives(p)
    BY <2>2 DEF FrameArrives
  <2>3. CASE ReceiverStep
    BY <2>3, ReceiverInv
  <2>4. CASE SenderStep \/ \E p \in Body, b \in BOOLEAN : TxPkt(p, b)
    BY <2>4, SenderInv
  <2>5. CASE SwitcherStep \/ Disable \/ Enable \/ \E b \in BOOLEAN : SetCca(b)
    BY <2>5, SwitcherInv
  <2>6. CASE UNCHANGED bmacVars
    BY <2>6, StutterInv
  <2> QED BY <2>1, <2>2, <2>3, <2>4, <2>5, <2>6 DEF BmacNext
<1> QED BY <1>1, BmacInitInv, BmacNextInv, PTL DEF BmacSpec, HeldPacketStable

\* A blocking send that returns has had its own packet transmitted, unless the
\* radio was down (bmac.c:321-349, 560-627).
THEOREM ReturnsWithOwn == BmacSpec => SentIsOwn
<1>1. ASSUME BmacInv, [BmacNext]_bmacVars, sender.at = "waiting", sender'.at # "waiting"
      PROVE  air' = sender.mine \/ radio = "down"
  <2>1. sender' # sender /\ radio \in {"up", "down"} /\ txPayload = sender.mine
    BY <1>1 DEF BmacInv, NwOK, OwnPending
  <2>2. CASE NwStep
    BY <1>1, <2>1, <2>2, CheckInv, ListenEndInv, DelayClearInv DEF NwStep
  <2>3. CASE \E p \in Body : FrameArrives(p)
    BY <2>1, <2>3 DEF FrameArrives, taskVars
  <2>4. CASE ReceiverStep
    BY <1>1, <2>1, <2>4, ReceiverInv
  <2>5. CASE SenderStep \/ \E p \in Body, b \in BOOLEAN : TxPkt(p, b)
    BY <1>1, <2>5, SenderInv
  <2>6. CASE SwitcherStep \/ Disable \/ Enable \/ \E b \in BOOLEAN : SetCca(b)
    BY <1>1, <2>1, <2>6, SwitcherInv
  <2>7. CASE UNCHANGED bmacVars
    BY <1>1, <2>1, <2>7, StutterInv
  <2> QED BY <1>1, <2>2, <2>3, <2>4, <2>5, <2>6, <2>7 DEF BmacNext
<1>2. BmacInv /\ [BmacNext]_bmacVars =>
        [sender.at = "waiting" /\ sender'.at # "waiting"
            => air' = sender.mine \/ radio = "down"]_bmacVars
  BY <1>1
<1> QED BY <1>2, BmacInitInv, BmacNextInv, PTL DEF BmacSpec, SentIsOwn

-----------------------------------------------------------------------------
(***************************************************************************)
(* The serial line: a payload of any bytes comes out of its frame as it    *)
(* went in.  What slip_tx computes from a payload is a loop over its       *)
(* bytes; a fact about every turn is proved from the least turn without    *)
(* it (Induction, UpTo).  The frame then is read from its start            *)
(* (StuffedStep), and the invariant says where in an intact frame the      *)
(* server is (OnTrack).  Glue stands for the concatenation where nothing   *)
(* about the sequences matters but that it is associative.                 *)
(***************************************************************************)

\* Every non-empty set of naturals has a least element.
LEMMA LeastElement ==
    ASSUME NEW T \in SUBSET Nat, T # {}
    PROVE  \E x \in T : \A y \in T : x <= y
<1> DEFINE R == OpToRel(<, Nat)
<1>1. IsWellFoundedOn(R, Nat)
  BY NatLessThanWellFounded, Zenon
<1>2. R = {ss \in Nat \X Nat : ss[1] < ss[2]}
  BY Zenon DEF OpToRel
<1> HIDE DEF R
<1>3. \E x \in T : \A y \in T : ~(<<y, x>> \in R)
  BY <1>1, WFMin
<1>4. \A x, y \in T : <<y, x>> \notin R => x <= y
  BY <1>2
<1> QED BY <1>3, <1>4

LEMMA Induction ==
    ASSUME NEW S, 0 \in S, \A n \in Nat : n \in S => n + 1 \in S
    PROVE  \A n \in Nat : n \in S
<1> DEFINE T == {n \in Nat : n \notin S}
<1> SUFFICES ASSUME T # {} PROVE FALSE
  OBVIOUS
<1>1. PICK n \in T : \A m \in T : n <= m
  BY LeastElement
<1>2. n # 0 /\ n - 1 \in Nat
  BY <1>1
<1>3. n - 1 \notin T
  BY <1>1, <1>2
<1> QED BY <1>1, <1>2, <1>3

-----------------------------------------------------------------------------
(* What slip_tx computes.                                                  *)

SumsUp(f, s, n) == f = [i \in 0..n |-> IF i = 0 THEN 0 ELSE f[i - 1] + s[i]]

\* The function Sum chooses exists, and gives the sum of every beginning.
LEMMA SumUnfolds ==
    ASSUME NEW s \in Seq(Nat)
    PROVE  \E f : /\ SumsUp(f, s, Len(s)) /\ Sum(s) = f[Len(s)]
                  /\ \A k \in Nat : k <= Len(s) => f[k] \in Nat
<1> DEFINE n == Len(s)
           S == {k \in Nat : k <= n => \E f : SumsUp(f, s, k)}
<1>1. n \in Nat /\ \A i \in 1..n : s[i] \in Nat
  OBVIOUS
<1>2. 0 \in S
  <2>1. SumsUp([i \in 0..0 |-> 0], s, 0)
    BY DEF SumsUp
  <2> QED BY <2>1
<1>3. ASSUME NEW k \in Nat, k \in S PROVE k + 1 \in S
  <2> SUFFICES ASSUME k + 1 <= n PROVE \E f : SumsUp(f, s, k + 1)
    OBVIOUS
  <2>1. PICK f : SumsUp(f, s, k)
    BY <1>1, <1>3
  <2>2. PICK g : g = [i \in 0..k + 1 |-> IF i <= k THEN f[i] ELSE f[k] + s[k + 1]]
    OBVIOUS
  <2>3. \A i \in 0..k + 1 : g[i] = IF i = 0 THEN 0 ELSE g[i - 1] + s[i]
    <3> TAKE i \in 0..k + 1
    <3>1. CASE i = 0
      BY <2>1, <2>2, <3>1 DEF SumsUp
    <3>2. CASE i \in 1..k
      <4>1. i - 1 \in 0..k /\ g[i] = f[i] /\ g[i - 1] = f[i - 1]
        BY <2>2, <3>2
      <4> QED BY <2>1, <3>2, <4>1 DEF SumsUp
    <3>3. CASE i = k + 1
      <4>1. g[i] = f[k] + s[k + 1] /\ g[i - 1] = f[k] /\ i # 0
        BY <2>2, <3>3
      <4> QED BY <3>3, <4>1
    <3> QED BY <3>1, <3>2, <3>3
  <2>4. SumsUp(g, s, k + 1)
    BY <2>2, <2>3 DEF SumsUp
  <2> QED BY <2>4
<1> HIDE DEF S
<1>4. n \in S
  BY <1>1, <1>2, <1>3, Induction
<1>5. PICK f : f = CHOOSE g : g = [i \in 0..n |-> IF i = 0 THEN 0 ELSE g[i - 1] + s[i]]
  OBVIOUS
<1>6. f = [i \in 0..n |-> IF i = 0 THEN 0 ELSE f[i - 1] + s[i]]
  <2>1. \E g : g = [i \in 0..n |-> IF i = 0 THEN 0 ELSE g[i - 1] + s[i]]
    BY <1>1, <1>4 DEF S, SumsUp
  <2> QED BY <1>5, <2>1
<1>7. Sum(s) = f[n]
  BY <1>5 DEF Sum
<1>8. \A k \in Nat : k <= n => f[k] \in Nat
  <2> DEFINE T == {k \in Nat : k <= n => f[k] \in Nat}
  <2>1. 0 \in T
    BY <1>1, <1>6
  <2>2. ASSUME NEW k \in Nat, k \in T PROVE k + 1 \in T
    <3> SUFFICES ASSUME k + 1 <= n PROVE f[k + 1] \in Nat
      OBVIOUS
    <3>1. f[k + 1] = f[k] + s[k + 1] /\ f[k] \in Nat /\ s[k + 1] \in Nat
      BY <1>1, <1>6, <2>2
    <3> QED BY <3>1
  <2> HIDE DEF T
  <2>3. \A k \in Nat : k \in T
    BY <2>1, <2>2, Induction
  <2> QED BY <2>3 DEF T
<1> QED BY <1>6, <1>7, <1>8 DEF SumsUp

LEMMA SumIsNat == ASSUME NEW s \in Seq(Nat) PROVE Sum(s) \in Nat
<1>1. Len(s) \in Nat
  OBVIOUS
<1> QED BY <1>1, SumUnfolds

\* f[n] is what the first n bytes of the payload become, for n > 0.
Glue(s, t) == s \o t

Stuffs(f, p, n) == f[1] = Stuff(p[1]) /\ \A k \in 1..n - 1 : f[k + 1] = Glue(f[k], Stuff(p[k + 1]))

LEMMA StuffIs ==
    ASSUME NEW b \in Nat
    PROVE  /\ Stuff(b) \in Seq(Nat)
           /\ b \notin {END, ESC} => Stuff(b) = <<b>>
           /\ Stuff(END) = <<ESC, ESC_END>> /\ Stuff(ESC) = <<ESC, ESC_ESC>>
<1>1. END \in Nat /\ ESC \in Nat /\ ESC_END \in Nat /\ ESC_ESC \in Nat
  BY SlipAssumption
<1>2. ESC # END
  <2>1. IsInjective(<<END, START, ESC, ESC_END, ESC_ESC>>)
    BY SlipAssumption
  <2> QED BY <2>1 DEF IsInjective
<1> QED BY <1>1, <1>2 DEF Stuff

LEMMA GlueType == ASSUME NEW s \in Seq(Nat), NEW t \in Seq(Nat) PROVE Glue(s, t) \in Seq(Nat)
BY DEF Glue

LEMMA GlueAssociative ==
    ASSUME NEW s \in Seq(Nat), NEW t \in Seq(Nat), NEW u \in Seq(Nat)
    PROVE  Glue(Glue(s, t), u) = Glue(s, Glue(t, u))
<1>1. (s \o t) \o u = s \o (t \o u)
  BY SMTT(30)
<1> QED BY <1>1, Zenon DEF Glue

LEMMA BytesOf ==
    ASSUME NEW p \in Seq(Nat)
    PROVE  /\ Len(p) \in Nat /\ (p # <<>> => Len(p) \in 1..Len(p)) /\ (p = <<>> <=> Len(p) = 0)
           /\ DOMAIN p = 1..Len(p)
           /\ \A i \in 1..Len(p) : p[i] \in Nat /\ Stuff(p[i]) \in Seq(Nat)
<1>1. /\ Len(p) \in Nat /\ (p # <<>> => Len(p) \in 1..Len(p)) /\ (p = <<>> <=> Len(p) = 0)
      /\ DOMAIN p = 1..Len(p)
  OBVIOUS
<1>2. \A i \in 1..Len(p) : p[i] \in Nat
  OBVIOUS
<1> QED BY <1>1, <1>2, StuffIs

LEMMA UpTo ==
    ASSUME NEW n \in Nat, NEW S, 1 \in S, \A k \in 1..n - 1 : k \in S => k + 1 \in S
    PROVE  \A k \in 1..n : k \in S
<1> DEFINE T == {k \in Nat : k + 1 <= n => k + 1 \in S}
<1>1. 0 \in T
  OBVIOUS
<1>2. ASSUME NEW k \in Nat, k \in T PROVE k + 1 \in T
  BY <1>2
<1> HIDE DEF T
<1>3. \A k \in Nat : k \in T
  BY <1>1, <1>2, Induction
<1> QED
  <2> TAKE k \in 1..n
  <2>1. k - 1 \in Nat /\ (k - 1) + 1 = k
    OBVIOUS
  <2>2. k - 1 \in T
    BY <1>3, <2>1
  <2> QED BY <2>1, <2>2 DEF T

LEMMA StuffsType ==
    ASSUME NEW p \in Seq(Nat), NEW n \in Nat, n <= Len(p), NEW f, Stuffs(f, p, n)
    PROVE  \A k \in 1..n : f[k] \in Seq(Nat)
<1> DEFINE T == {k \in 1..n : f[k] \in Seq(Nat)}
<1>1. \A k \in 1..n : Stuff(p[k]) \in Seq(Nat)
  BY BytesOf
<1>2. CASE n = 0
  BY <1>2
<1>3. CASE n # 0
  <2>1. 1 \in T
    BY <1>1, <1>3 DEF Stuffs
  <2>2. ASSUME NEW k \in 1..n - 1, k \in T PROVE k + 1 \in T
    <3>1. k + 1 \in 1..n
      OBVIOUS
    <3>2. f[k + 1] = Glue(f[k], Stuff(p[k + 1]))
      BY DEF Stuffs
    <3> QED BY <1>1, <2>2, <3>1, <3>2, GlueType
  <2> HIDE DEF T
  <2>3. \A k \in 1..n : k \in T
    BY <2>1, <2>2, UpTo
  <2> QED BY <2>3 DEF T
<1> QED BY <1>2, <1>3

\* What FlattenSeq computes is such a function.
LEMMA StuffedIs ==
    ASSUME NEW p \in Seq(Nat), p # <<>>
    PROVE  \E f : Stuffs(f, p, Len(p)) /\ Stuffed(p) = f[Len(p)]
<1> DEFINE n == Len(p)
           s == [i \in DOMAIN p |-> Stuff(p[i])]
           Step(f, i) == IF i = 1 THEN s[i] ELSE Glue(f[i - 1], s[i])
           S == {k \in 1..n : \E f : f = [i \in 1..k |-> Step(f, i)]}
<1>1. n \in Nat /\ n \in 1..n /\ n # 0 /\ DOMAIN p = 1..n
  BY BytesOf
<1>2. 1 \in S
  <2>1. PICK f : f = [i \in 1..1 |-> s[i]]
    OBVIOUS
  <2>2. f = [i \in 1..1 |-> Step(f, i)]
    BY <2>1
  <2> QED BY <1>1, <2>2
<1>3. ASSUME NEW k \in 1..n - 1, k \in S PROVE k + 1 \in S
  <2>1. PICK f : f = [i \in 1..k |-> Step(f, i)]
    BY <1>3
  <2>2. PICK g : g = [i \in 1..k + 1 |-> IF i \in 1..k THEN f[i] ELSE Glue(f[k], s[k + 1])]
    OBVIOUS
  <2>3. ASSUME NEW i \in 1..k + 1 PROVE g[i] = Step(g, i)
    <3>1. CASE i = 1
      <4>1. f[1] = s[1] /\ g[1] = f[1]
        BY <2>1, <2>2
      <4> QED BY <3>1, <4>1
    <3>2. CASE i \in 2..k
      <4>1. i - 1 \in 1..k /\ i \in 1..k /\ i # 1
        BY <3>2
      <4>2. g[i] = f[i] /\ g[i - 1] = f[i - 1]
        <5>1. i - 1 \in 1..k + 1
          BY <4>1
        <5> QED BY <2>2, <4>1, <5>1
      <4>3. f[i] = Step(f, i)
        BY <2>1, <4>1
      <4> QED BY <4>1, <4>2, <4>3
    <3>3. CASE i = k + 1
      <4>1. i # 1 /\ i - 1 = k /\ i \notin 1..k /\ k \in 1..k
        BY <3>3
      <4>2. g[i] = Glue(f[k], s[k + 1]) /\ g[k] = f[k]
        BY <2>2, <4>1
      <4> QED BY <3>3, <4>1, <4>2
    <3> QED BY <3>1, <3>2, <3>3
  <2>4. g = [i \in 1..k + 1 |-> Step(g, i)]
    <3>1. \A i \in 1..k + 1 : g[i] = Step(g, i)
      BY <2>3
    <3> HIDE DEF Step
    <3> QED BY <2>2, <3>1
  <2>5. k + 1 \in 1..n
    BY <1>1
  <2> HIDE DEF Step
  <2>6. \E h : h = [i \in 1..k + 1 |-> Step(h, i)]
    BY <2>4
  <2> QED BY <2>5, <2>6
<1>4. \E f : f = [i \in 1..n |-> Step(f, i)]
  <2> HIDE DEF S
  <2>1. n \in S
    BY <1>1, <1>2, <1>3, UpTo
  <2> QED BY <2>1 DEF S
<1>5. s \in Seq(Seq(Nat)) /\ Len(s) = n /\ \A i \in 1..n : s[i] = Stuff(p[i])
  <2>1. \A i \in 1..n : Stuff(p[i]) \in Seq(Nat)
    BY BytesOf
  <2> QED BY <1>1, <2>1
<1> HIDE DEF s, S
<1>6. PICK f : f = CHOOSE g : g = [i \in 1..n |-> Step(g, i)]
  OBVIOUS
<1>7. f = [i \in 1..n |-> Step(f, i)]
  <2> HIDE DEF Step
  <2> QED BY <1>4, <1>6
<1>8. FlattenSeq(s) = f[n]
  BY <1>1, <1>5, <1>6 DEF FlattenSeq, Glue
<1>9. Stuffs(f, p, n)
  <2>1. f[1] = Stuff(p[1])
    <3>1. 1 \in 1..n
      BY <1>1
    <3> QED BY <1>5, <1>7, <3>1
  <2>2. ASSUME NEW k \in 1..n - 1 PROVE f[k + 1] = Glue(f[k], Stuff(p[k + 1]))
    <3>1. k + 1 \in 1..n /\ k + 1 # 1 /\ (k + 1) - 1 = k
      BY <1>1
    <3>2. f[k + 1] = Step(f, k + 1)
      BY <1>7, <3>1
    <3> QED BY <1>5, <3>1, <3>2
  <2> QED BY <2>1, <2>2 DEF Stuffs
<1>10. Stuffed(p) = FlattenSeq(s)
  BY DEF Stuffed, s
<1> QED BY <1>8, <1>9, <1>10

LEMMA StuffedEmpty == Stuffed(<<>>) = <<>>
<1>1. [i \in DOMAIN <<>> |-> Stuff(<<>>[i])] = <<>>
  OBVIOUS
<1> QED BY <1>1 DEF Stuffed, FlattenSeq

LEMMA StuffedType == ASSUME NEW p \in Seq(Nat) PROVE Stuffed(p) \in Seq(Nat)
<1>1. CASE p = <<>>
  BY <1>1, StuffedEmpty
<1>2. CASE p # <<>>
  <2>1. PICK f : Stuffs(f, p, Len(p)) /\ Stuffed(p) = f[Len(p)]
    BY <1>2, StuffedIs
  <2>2. Len(p) \in Nat /\ Len(p) \in 1..Len(p)
    BY <1>2, BytesOf
  <2> QED BY <2>1, <2>2, StuffsType
<1> QED BY <1>1, <1>2

\* The frame can be read from its start: the first byte's code, then the rest.
LEMMA StuffedStep ==
    ASSUME NEW p \in Seq(Nat), p # <<>>
    PROVE  Stuffed(p) = Glue(Stuff(Head(p)), Stuffed(Tail(p)))
<1> DEFINE q == Tail(p)
           a == Stuff(p[1])
<1>1. /\ q \in Seq(Nat) /\ Len(p) = Len(q) + 1 /\ Head(p) = p[1]
      /\ \A i \in 1..Len(q) : q[i] = p[i + 1]
  OBVIOUS
<1>2. /\ Len(q) \in Nat /\ Len(p) \in Nat /\ a \in Seq(Nat)
      /\ \A i \in 1..Len(p) : Stuff(p[i]) \in Seq(Nat)
  <2>1. 1 \in 1..Len(p)
    BY <1>1, BytesOf
  <2> QED BY <1>1, <2>1, BytesOf
<1>3. PICK f : Stuffs(f, p, Len(p)) /\ Stuffed(p) = f[Len(p)]
  BY StuffedIs
<1> HIDE DEF q
<1>4. f[1] = a /\ \A k \in 1..Len(p) - 1 : f[k + 1] = Glue(f[k], Stuff(p[k + 1]))
  BY <1>3 DEF Stuffs
<1>5. CASE q = <<>>
  <2>1. Len(p) = 1
    BY <1>1, <1>5
  <2>2. Glue(a, <<>>) = a
    BY <1>2, ConcatEmptySeq, Zenon DEF Glue
  <2> QED BY <1>1, <1>3, <1>4, <1>5, <2>1, <2>2, StuffedEmpty DEF q
<1>6. CASE q # <<>>
  <2>1. PICK g : Stuffs(g, q, Len(q)) /\ Stuffed(q) = g[Len(q)]
    BY <1>1, <1>6, StuffedIs
  <2>2. g[1] = Stuff(q[1]) /\ \A k \in 1..Len(q) - 1 : g[k + 1] = Glue(g[k], Stuff(q[k + 1]))
    BY <2>1 DEF Stuffs
  <2>3. \A i \in 1..Len(q) : g[i] \in Seq(Nat)
    <3>1. q \in Seq(Nat) /\ Len(q) \in Nat /\ Len(q) <= Len(q)
      BY <1>1, <1>2
    <3> QED BY <2>1, <3>1, StuffsType
  <2>4. Len(q) \in 1..Len(q)
    BY <1>1, <1>6, BytesOf
  <2> DEFINE T == {k \in 1..Len(q) : f[k + 1] = Glue(a, g[k])}
  <2>5. 1 \in T
    <3>1. 1 \in 1..Len(q) /\ 1 \in 1..Len(p) - 1
      BY <1>1, <1>2, <2>4
    <3>2. f[1 + 1] = Glue(f[1], Stuff(p[1 + 1])) /\ q[1] = p[1 + 1]
      BY <1>1, <1>4, <3>1
    <3>3. f[1 + 1] = Glue(a, g[1])
      BY <1>4, <2>2, <3>2
    <3> QED BY <3>1, <3>3
  <2>6. ASSUME NEW k \in 1..Len(q) - 1, k \in T PROVE k + 1 \in T
    <3>1. /\ k \in 1..Len(q) /\ k + 1 \in 1..Len(q) /\ k + 1 \in 1..Len(p) - 1
          /\ (k + 1) + 1 \in 1..Len(p)
      <4>1. Len(p) = Len(q) + 1 /\ Len(q) \in Nat /\ Len(p) \in Nat
        BY <1>1, <1>2
      <4> QED BY <4>1
    <3>2. f[(k + 1) + 1] = Glue(f[k + 1], Stuff(p[(k + 1) + 1]))
      BY <1>4, <3>1
    <3>3. g[k + 1] = Glue(g[k], Stuff(q[k + 1])) /\ q[k + 1] = p[(k + 1) + 1]
      BY <1>1, <2>2, <3>1
    <3>4. f[k + 1] = Glue(a, g[k])
      BY <2>6
    <3>5. g[k] \in Seq(Nat) /\ Stuff(p[(k + 1) + 1]) \in Seq(Nat)
      BY <1>2, <2>3, <3>1
    <3>6. Glue(Glue(a, g[k]), Stuff(p[(k + 1) + 1])) = Glue(a, Glue(g[k], Stuff(p[(k + 1) + 1])))
      BY <1>2, <3>5, GlueAssociative
    <3> QED BY <3>1, <3>2, <3>3, <3>4, <3>6
  <2> HIDE DEF T
  <2>7. \A k \in 1..Len(q) : k \in T
    BY <1>2, <2>5, <2>6, UpTo
  <2>8. f[Len(p)] = Glue(a, g[Len(q)])
    BY <1>1, <2>4, <2>7 DEF T
  <2> QED BY <1>1, <1>3, <2>1, <2>8 DEF q
<1> QED BY <1>5, <1>6

-----------------------------------------------------------------------------
(* A frame as the server reads it, byte by byte.                           *)

Rest(q, p) == Stuffed(q) \o <<Checksum(p), END>>
Code(b)    == IF b = END THEN ESC_END ELSE ESC_ESC

LEMMA TwoBytes ==
    ASSUME NEW b \in Nat, NEW c \in Nat
    PROVE  /\ <<b>> \in Seq(Nat) /\ <<b, c>> \in Seq(Nat)
           /\ <<b, c>> = <<b>> \o <<c>>
<1>1. <<b>> \in Seq(Nat) /\ <<c>> \in Seq(Nat) /\ <<b, c>> \in Seq(Nat)
  OBVIOUS
<1> DEFINE r == <<b>> \o <<c>>
           w == <<b, c>>
<1>2. r \in Seq(Nat) /\ Len(r) = 2 /\ r[1] = b /\ r[2] = c
  BY <1>1
<1>3. w \in Seq(Nat) /\ Len(w) = 2 /\ w[1] = b /\ w[2] = c
  OBVIOUS
<1> HIDE DEF r, w
<1>4. \A i \in 1..2 : w[i] = r[i]
  BY <1>2, <1>3
<1>5. w = r
  BY <1>2, <1>3, <1>4, SeqEqual
<1> QED BY <1>1, <1>5, Zenon DEF r, w

LEMMA ThreeBytes ==
    ASSUME NEW b \in Nat, NEW c \in Nat, NEW d \in Nat
    PROVE  <<b, c, d>> = <<b>> \o (<<c>> \o <<d>>)
<1> DEFINE r == <<b>> \o (<<c>> \o <<d>>)
           w == <<b, c, d>>
           t == <<c>> \o <<d>>
           e == <<b>>
<1>1. r \in Seq(Nat) /\ Len(r) = 3 /\ r[1] = b /\ r[2] = c /\ r[3] = d
  <2>1. t \in Seq(Nat) /\ Len(t) = 2 /\ t[1] = c /\ t[2] = d
    OBVIOUS
  <2>2. e \in Seq(Nat) /\ Len(e) = 1 /\ e[1] = b /\ r = e \o t
    OBVIOUS
  <2> HIDE DEF t, e, r
  <2>3. /\ e \o t \in Seq(Nat) /\ Len(e \o t) = Len(e) + Len(t)
        /\ \A i \in 1..Len(e) + Len(t) : (e \o t)[i] = IF i <= Len(e) THEN e[i] ELSE t[i - Len(e)]
    BY <2>1, <2>2, ConcatProperties
  <2>4. r[1] = e[1] /\ r[2] = t[1] /\ r[3] = t[2]
    BY <2>1, <2>2, <2>3
  <2> QED BY <2>1, <2>2, <2>3, <2>4
<1>2. w \in Seq(Nat) /\ Len(w) = 3 /\ w[1] = b /\ w[2] = c /\ w[3] = d
  OBVIOUS
<1> HIDE DEF r, w
<1>3. \A i \in 1..3 : w[i] = r[i]
  BY <1>1, <1>2
<1>4. w = r
  BY <1>1, <1>2, <1>3, SeqEqual
<1> QED BY <1>4, Zenon DEF r, w

LEMMA FiveParts ==
    ASSUME NEW a \in Seq(Nat), NEW b \in Seq(Nat), NEW c \in Seq(Nat),
           NEW d \in Seq(Nat), NEW e \in Seq(Nat)
    PROVE  Glue(Glue(Glue(a, Glue(b, c)), d), e) = Glue(a, Glue(b, Glue(c, Glue(d, e))))
<1>1. Glue(b, c) \in Seq(Nat) /\ Glue(c, d) \in Seq(Nat) /\ Glue(b, Glue(c, d)) \in Seq(Nat)
  BY GlueType
<1>2. Glue(Glue(a, Glue(b, c)), d) = Glue(a, Glue(b, Glue(c, d)))
  BY <1>1, GlueAssociative
<1>3. Glue(Glue(a, Glue(b, Glue(c, d))), e) = Glue(a, Glue(Glue(b, Glue(c, d)), e))
  BY <1>1, GlueAssociative
<1>4. Glue(Glue(b, Glue(c, d)), e) = Glue(b, Glue(Glue(c, d), e))
  BY <1>1, GlueAssociative
<1>5. Glue(Glue(c, d), e) = Glue(c, Glue(d, e))
  BY GlueAssociative
<1> QED BY <1>2, <1>3, <1>4, <1>5, Zenon

LEMMA ConsIs ==
    ASSUME NEW b \in Nat, NEW s \in Seq(Nat)
    PROVE  /\ Cons(b, s) \in Seq(Nat) /\ Cons(b, s) # <<>>
           /\ Head(Cons(b, s)) = b /\ Tail(Cons(b, s)) = s
           /\ Len(Cons(b, s)) = Len(s) + 1
BY DEF Cons

LEMMA ConsAppend ==
    ASSUME NEW b \in Nat, NEW s \in Seq(Nat), NEW c \in Nat
    PROVE  Append(Cons(b, s), c) = Cons(b, Append(s, c))
BY DEF Cons

LEMMA AppendTail ==
    ASSUME NEW s \in Seq(Nat), NEW t \in Seq(Nat), t # <<>>
    PROVE  /\ Head(t) \in Nat /\ Tail(t) \in Seq(Nat)
           /\ Append(s, Head(t)) \in Seq(Nat) /\ Append(s, Head(t)) \o Tail(t) = s \o t
<1>1. Head(t) \in Nat /\ Tail(t) \in Seq(Nat) /\ <<Head(t)>> \in Seq(Nat)
  OBVIOUS
<1>2. Append(s, Head(t)) \in Seq(Nat) /\ Append(s, Head(t)) = s \o <<Head(t)>>
  BY <1>1
<1>3. t = <<Head(t)>> \o Tail(t)
  OBVIOUS
<1>4. (s \o <<Head(t)>>) \o Tail(t) = s \o (<<Head(t)>> \o Tail(t))
  <2>1. Glue(Glue(s, <<Head(t)>>), Tail(t)) = Glue(s, Glue(<<Head(t)>>, Tail(t)))
    BY <1>1, GlueAssociative
  <2> QED BY <2>1, Zenon DEF Glue
<1> QED BY <1>1, <1>2, <1>3, <1>4, Zenon

LEMMA BytesAre ==
    /\ END \in Nat /\ START \in Nat /\ ESC \in Nat /\ ESC_END \in Nat /\ ESC_ESC \in Nat
    /\ END # START /\ END # ESC /\ ESC_END # ESC_ESC
    /\ CheckMod \in Nat /\ CheckMod > 0 /\ MaxSize \in Nat /\ BufSize \in Nat
<1>1. IsInjective(<<END, START, ESC, ESC_END, ESC_ESC>>)
  BY SlipAssumption
<1>2. END # START /\ END # ESC /\ ESC_END # ESC_ESC
  BY <1>1 DEF IsInjective
<1> QED BY <1>2, SlipAssumption

LEMMA ChecksumIs ==
    ASSUME NEW p \in Seq(Nat)
    PROVE  Checksum(p) \in Nat /\ Checksum(p) \notin {END, ESC}
<1>1. Sum(p) \in Nat
  BY SumIsNat
<1>2. \A n \in Nat : n % CheckMod \in Nat /\ n % CheckMod < CheckMod
  BY BytesAre
<1>3. Checksum(p) \in Nat /\ Checksum(p) < CheckMod
  BY <1>1, <1>2 DEF Checksum
<1>4. CheckMod <= END /\ CheckMod <= ESC
  BY SlipAssumption
<1> QED BY <1>3, <1>4, BytesAre

LEMMA RestType ==
    ASSUME NEW q \in Seq(Nat), NEW p \in Seq(Nat)
    PROVE  Rest(q, p) \in Seq(Nat)
<1>1. Stuffed(q) \in Seq(Nat) /\ Checksum(p) \in Nat /\ END \in Nat
  BY StuffedType, ChecksumIs, BytesAre
<1> QED BY <1>1 DEF Rest

LEMMA FramedIs ==
    ASSUME NEW p \in Seq(Nat)
    PROVE  Framed(p) = Cons(END, Cons(START, Cons(Len(p), Rest(p, p))))
<1>1. Stuffed(p) \in Seq(Nat) /\ Checksum(p) \in Nat /\ END \in Nat /\ START \in Nat /\ Len(p) \in Nat
  BY StuffedType, ChecksumIs, BytesAre
<1> DEFINE s == Stuffed(p)
           u == <<Checksum(p), END>>
           n == <<Len(p)>>
<1>2. /\ s \in Seq(Nat) /\ u \in Seq(Nat) /\ n \in Seq(Nat)
      /\ <<START>> \in Seq(Nat) /\ <<END>> \in Seq(Nat)
  BY <1>1, TwoBytes, Zenon
<1>3. <<END, START, Len(p)>> = <<END>> \o (<<START>> \o n)
  BY <1>1, ThreeBytes, Zenon
<1>4. Framed(p) = ((<<END>> \o (<<START>> \o n)) \o s) \o u
  BY <1>3, Zenon DEF Framed
<1>5. PICK a \in Seq(Nat), b \in Seq(Nat) : a = <<END>> /\ b = <<START>>
  BY <1>2
<1> HIDE DEF s, u, n
<1>6. Glue(Glue(Glue(a, Glue(b, n)), s), u) = Glue(a, Glue(b, Glue(n, Glue(s, u))))
  BY <1>2, FiveParts
<1>7. Framed(p) = <<END>> \o (<<START>> \o (n \o (s \o u)))
  BY <1>4, <1>5, <1>6, Zenon DEF Glue
<1> QED BY <1>7, Zenon DEF Rest, Cons, s, u, n

\* What follows from a byte on: the byte, escaped or not, and what follows
\* from the next one on.
LEMMA StuffedThen ==
    ASSUME NEW q \in Seq(Nat), q # <<>>, NEW u \in Seq(Nat)
    PROVE  /\ Head(q) \notin {END, ESC}
                => Stuffed(q) \o u = Cons(Head(q), Stuffed(Tail(q)) \o u)
           /\ Head(q) \in {END, ESC}
                => Stuffed(q) \o u = Cons(ESC, Cons(Code(Head(q)), Stuffed(Tail(q)) \o u))
<1>1. END \in Nat /\ ESC \in Nat /\ ESC_END \in Nat /\ ESC_ESC \in Nat /\ ESC # END
  BY BytesAre
<1> DEFINE x == Stuff(Head(q))
           y == Stuffed(Tail(q))
<1>2. Head(q) \in Nat /\ Tail(q) \in Seq(Nat)
  OBVIOUS
<1>3. x \in Seq(Nat) /\ y \in Seq(Nat)
  BY <1>2, StuffIs, StuffedType
<1>4. Stuffed(q) \o u = x \o (y \o u)
  <2>1. Stuffed(q) = Glue(x, y)
    BY StuffedStep
  <2> HIDE DEF x, y
  <2>2. Glue(Glue(x, y), u) = Glue(x, Glue(y, u))
    BY <1>3, GlueAssociative
  <2> QED BY <2>1, <2>2, Zenon DEF Glue
<1>5. ASSUME Head(q) \notin {END, ESC} PROVE Stuffed(q) \o u = Cons(Head(q), y \o u)
  <2>1. x = <<Head(q)>>
    BY <1>2, <1>5, StuffIs
  <2> HIDE DEF x, y
  <2> QED BY <1>4, <2>1, Zenon DEF Cons
<1>6. ASSUME Head(q) \in {END, ESC} PROVE Stuffed(q) \o u = Cons(ESC, Cons(Code(Head(q)), y \o u))
  <2> DEFINE a == <<ESC>>
             c == <<Code(Head(q))>>
             z == y \o u
  <2>1. Code(Head(q)) \in Nat
    BY <1>1 DEF Code
  <2>2. x = <<ESC, Code(Head(q))>>
    BY <1>1, <1>6 DEF Stuff, Code
  <2>3. x = a \o c /\ a \in Seq(Nat) /\ c \in Seq(Nat)
    BY <1>1, <2>1, <2>2, TwoBytes, Zenon
  <2>4. z \in Seq(Nat)
    <3>1. Glue(y, u) \in Seq(Nat)
      BY <1>3, GlueType
    <3> QED BY <3>1, Zenon DEF Glue
  <2> HIDE DEF a, c, z, x, y
  <2>5. Glue(Glue(a, c), z) = Glue(a, Glue(c, z))
    BY <2>3, <2>4, GlueAssociative
  <2>6. Stuffed(q) \o u = a \o (c \o z)
    BY <1>4, <2>3, <2>5, Zenon DEF Glue, z
  <2> QED BY <2>6, Zenon DEF Cons, a, c, z
<1> QED BY <1>5, <1>6

\* What is left of a frame is a byte of the payload, escaped or not, and the
\* rest, or the checksum and the END.
LEMMA RestIs ==
    ASSUME NEW q \in Seq(Nat), NEW p \in Seq(Nat)
    PROVE  /\ q = <<>> => Rest(q, p) = Cons(Checksum(p), Cons(END, <<>>))
           /\ q # <<>> /\ Head(q) \notin {END, ESC}
                => Rest(q, p) = Cons(Head(q), Rest(Tail(q), p))
           /\ q # <<>> /\ Head(q) \in {END, ESC}
                => Rest(q, p) = Cons(ESC, Cons(Code(Head(q)), Rest(Tail(q), p)))
<1>1. Checksum(p) \in Nat /\ END \in Nat
  BY ChecksumIs, BytesAre
<1>2. ASSUME q = <<>> PROVE Rest(q, p) = Cons(Checksum(p), Cons(END, <<>>))
  <2>1. <<>> \o <<Checksum(p), END>> = <<Checksum(p)>> \o (<<END>> \o <<>>)
    BY <1>1
  <2> QED BY <1>2, <2>1, StuffedEmpty, Zenon DEF Rest, Cons
<1> DEFINE u == <<Checksum(p), END>>
<1>3. u \in Seq(Nat)
  BY <1>1, TwoBytes, Zenon
<1>4. \A r : Rest(r, p) = Stuffed(r) \o u
  BY Zenon DEF Rest
<1> HIDE DEF u
<1>5. ASSUME q # <<>>, Head(q) \notin {END, ESC} PROVE Rest(q, p) = Cons(Head(q), Rest(Tail(q), p))
  <2>1. Stuffed(q) \o u = Cons(Head(q), Stuffed(Tail(q)) \o u)
    BY <1>3, <1>5, StuffedThen
  <2> QED BY <1>4, <2>1, Zenon
<1>6. ASSUME q # <<>>, Head(q) \in {END, ESC}
      PROVE  Rest(q, p) = Cons(ESC, Cons(Code(Head(q)), Rest(Tail(q), p)))
  <2>1. Stuffed(q) \o u = Cons(ESC, Cons(Code(Head(q)), Stuffed(Tail(q)) \o u))
    BY <1>3, <1>6, StuffedThen
  <2> QED BY <1>4, <2>1, Zenon
<1> QED BY <1>2, <1>5, <1>6

LEMMA InnerPart ==
    ASSUME NEW p \in Seq(Nat), NEW buf \in Seq(Nat), Len(buf) = Len(p) + 2,
           \A i \in 1..Len(p) : buf[i + 1] = p[i]
    PROVE  SubSeq(buf, 2, Len(p) + 1) = p
<1> DEFINE n == Len(p)
           q == SubSeq(buf, 2, n + 1)
<1>1. n \in Nat
  OBVIOUS
<1>2. ASSUME NEW i \in 2..n + 1 PROVE buf[i] \in Nat
  <2>1. i \in 1..Len(buf)
    BY <1>1
  <2> QED BY <2>1, ElementOfSeq
<1>3. 2 \in Int /\ n + 1 \in Int
  BY <1>1
<1>4. /\ q \in Seq(Nat) /\ Len(q) = IF 2 <= n + 1 THEN (n + 1) - 2 + 1 ELSE 0
      /\ \A i \in 1..(n + 1) - 2 + 1 : q[i] = buf[2 + i - 1]
  <2> HIDE DEF n
  <2> QED BY <1>2, <1>3, SubSeqProperties
<1> HIDE DEF q
<1>5. (n + 1) - 2 + 1 = n /\ (2 <= n + 1 \/ n = 0) /\ \A i \in 1..n : 2 + i - 1 = i + 1
  BY <1>1
<1>6. q \in Seq(Nat) /\ Len(q) = n
  BY <1>1, <1>4, <1>5
<1>7. \A i \in 1..n : q[i] = p[i]
  BY <1>4, <1>5
<1>8. q = p
  BY <1>6, <1>7, SeqEqual
<1> QED BY <1>8 DEF q

\* What the server has stored when the END of an intact frame comes.
LEMMA StoredIs ==
    ASSUME NEW p \in Seq(Nat), NEW c \in Nat, NEW buf, buf = Append(Cons(Len(p), p), c)
    PROVE  /\ Len(buf) >= 2 /\ Len(buf) - 2 = buf[1] /\ Last(buf) = c
           /\ SubSeq(buf, 2, Len(buf) - 1) = p
<1> DEFINE n == Len(p)
           h == Cons(n, p)
<1>1. n \in Nat /\ <<n>> \in Seq(Nat) /\ Len(<<n>>) = 1 /\ <<n>>[1] = n
  OBVIOUS
<1>2. h \in Seq(Nat) /\ Len(h) = n + 1
  BY <1>1, ConsIs
<1>3. \A i \in 1..n + 1 : h[i] = IF i <= 1 THEN n ELSE p[i - 1]
  <2>1. \A i \in 1..Len(<<n>>) + Len(p) :
          (<<n>> \o p)[i] = IF i <= Len(<<n>>) THEN <<n>>[i] ELSE p[i - Len(<<n>>)]
    BY <1>1, ConcatProperties
  <2>2. h = <<n>> \o p
    BY DEF Cons
  <2> QED BY <1>1, <2>1, <2>2
<1> HIDE DEF h
<1>4. buf \in Seq(Nat) /\ Len(buf) = n + 2 /\ buf[n + 2] = c /\ \A i \in 1..n + 1 : buf[i] = h[i]
  <2>1. buf = Append(h, c)
    BY DEF h
  <2> QED BY <1>1, <1>2, <2>1, AppendProperties
<1>5. SubSeq(buf, 2, n + 1) = p
  <2>1. ASSUME NEW i \in 1..n PROVE buf[i + 1] = p[i]
    <3>1. i + 1 \in 1..n + 1 /\ ~(i + 1 <= 1) /\ (i + 1) - 1 = i
      BY <1>1
    <3>2. h[i + 1] = p[(i + 1) - 1] /\ buf[i + 1] = h[i + 1]
      BY <1>3, <1>4, <3>1
    <3> QED BY <3>1, <3>2
  <2> QED BY <1>4, <2>1, InnerPart
<1>6. buf[1] = n
  <2>1. 1 \in 1..n + 1
    BY <1>1
  <2> QED BY <1>3, <1>4, <2>1
<1>7. Len(buf) >= 2 /\ Len(buf) - 2 = n /\ Len(buf) - 1 = n + 1
  BY <1>1, <1>4
<1>8. Last(buf) = c
  BY <1>4 DEF Last
<1> QED BY <1>5, <1>6, <1>7, <1>8

-----------------------------------------------------------------------------
(* The inductive invariant: where in an intact frame the server is.        *)

BeforeFlush ==
    /\ line = Cons(END, Cons(START, Cons(Len(sent), Rest(sent, sent))))
    /\ mode \in {"ASCII", "SLIP"}

BeforeStart ==
    /\ line = Cons(START, Cons(Len(sent), Rest(sent, sent)))
    /\ mode = "ASCII"

BeforeLength ==
    /\ line = Cons(Len(sent), Rest(sent, sent))
    /\ mode = "SLIP" /\ slipBuf = <<>>

InPayload == \E a, q \in Seq(Nat) :
    /\ sent = a \o q
    /\ line = Rest(q, sent)
    /\ mode = "SLIP" /\ slipBuf = Cons(Len(sent), a)

InEscape == \E a, q \in Seq(Nat), b \in {END, ESC} :
    /\ sent = Append(a, b) \o q
    /\ line = Cons(Code(b), Rest(q, sent))
    /\ mode = "ESC" /\ slipBuf = Cons(Len(sent), a)

BeforeEnd ==
    /\ line = Cons(END, <<>>)
    /\ mode = "SLIP" /\ slipBuf = Append(Cons(Len(sent), sent), Checksum(sent))

Delivered == line = <<>> /\ Last(<<<<>>>> \o got) = sent

OnTrack ==
    \/ BeforeFlush \/ BeforeStart \/ BeforeLength \/ InPayload
    \/ InEscape \/ BeforeEnd \/ Delivered

SlipInv ==
    /\ TypeOK
    /\ got \in Seq(Seq(Nat)) /\ Len(sent) <= MaxSize
    /\ mode = "ASCII" => slipBuf = <<>>
    /\ flushable => connected
    /\ faults = 0 /\ flushable => OnTrack

LEMMA SentType == ASSUME TypeOK PROVE sent \in Seq(Nat) /\ before \in Seq(Nat) /\ Len(sent) \in Nat
<1>1. Payload \cup {<<>>} \subseteq Seq(Nat)
  <2>1. <<>> \in Seq(Nat)
    OBVIOUS
  <2>2. Payload \subseteq Seq(Nat) \ {<<>>}
    BY SlipAssumption
  <2> QED BY <2>1, <2>2, Zenon
<1> HIDE DEF TypeOK
<1>2. {sent, before} \subseteq Payload \cup {<<>>}
  BY DEF TypeOK
<1>3. sent \in Seq(Nat) /\ before \in Seq(Nat)
  BY <1>1, <1>2, Zenon
<1> QED BY <1>3

\* The server takes one step for each byte.
LEMMA ReadIs ==
    ASSUME NEW b, Read(b)
    PROVE  /\ mode = "ASCII" => ReadAscii(b)
           /\ mode = "ESC" => ReadEscaped(b)
           /\ mode = "SLIP" /\ b = END => ReadEnd(b)
           /\ mode = "SLIP" /\ b = ESC => ReadEsc(b)
           /\ mode = "SLIP" /\ b \notin {END, ESC} => ReadData(b)
BY BytesAre DEF Read, ReadAscii, ReadEscaped, ReadEnd, ReadEsc, ReadData

\* An END delivers, or not, and the buffer is empty again.
LEMMA ReadType ==
    ASSUME SlipInv, NEW b \in Nat, Read(b)
    PROVE  /\ mode' \in {"ASCII", "SLIP", "ESC"}
           /\ slipBuf' \in Seq(Nat) /\ Len(slipBuf') <= BufSize
           /\ got' \in Seq(Seq(Nat))
           /\ mode' = "ASCII" => slipBuf' = <<>>
<1>1. /\ mode \in {"ASCII", "SLIP", "ESC"} /\ slipBuf \in Seq(Nat) /\ Len(slipBuf) <= BufSize
      /\ got \in Seq(Seq(Nat))
      /\ mode = "ASCII" => slipBuf = <<>>
  BY DEF SlipInv, TypeOK
<1>2. Len(<<>>) <= BufSize /\ <<>> \in Seq(Nat)
  BY BytesAre
<1>3. ASSUME NEW c \in Nat, Store(c) PROVE slipBuf' \in Seq(Nat) /\ Len(slipBuf') <= BufSize
  <2>1. Append(slipBuf, c) \in Seq(Nat) /\ Len(Append(slipBuf, c)) = Len(slipBuf) + 1 /\ Len(slipBuf) \in Nat
    BY <1>1
  <2> QED BY <1>1, <1>3, <2>1, BytesAre DEF Store
<1>4. CASE ReadAscii(b)
  <2>1. mode' \in {"ASCII", "SLIP"} /\ slipBuf' = <<>> /\ got' = got
    BY <1>1, <1>4 DEF ReadAscii
  <2> QED BY <1>1, <1>2, <2>1
<1>5. CASE ReadEnd(b)
  <2>1. mode' = "ASCII" /\ slipBuf' = <<>> /\ (got' = got \/ got' = Append(got, Contents))
    BY <1>5 DEF ReadEnd, ToClient
  <2>2. Contents \in Seq(Nat)
    <3>1. \A i \in 2..Len(slipBuf) - 1 : slipBuf[i] \in Nat
      BY <1>1
    <3> QED BY <1>1, <3>1 DEF Contents
  <2>3. got' \in Seq(Seq(Nat))
    <3> DEFINE c == Contents
    <3> HIDE DEF c
    <3>1. c \in Seq(Nat) => Append(got, c) \in Seq(Seq(Nat))
      BY <1>1, AppendProperties
    <3> QED BY <1>1, <2>1, <2>2, <3>1 DEF c
  <2> QED BY <1>2, <2>1, <2>3
<1>6. CASE ReadEsc(b)
  BY <1>1, <1>6 DEF ReadEsc
<1>7. CASE ReadEscaped(b)
  <2>1. Unescaped(b) \in Nat
    BY BytesAre DEF Unescaped
  <2>2. mode' = "SLIP" /\ got' = got /\ Store(Unescaped(b))
    BY <1>7 DEF ReadEscaped
  <2> QED BY <1>1, <1>3, <2>1, <2>2
<1>8. CASE ReadData(b)
  <2>1. mode' = mode /\ mode = "SLIP" /\ got' = got /\ Store(b)
    BY <1>8 DEF ReadData
  <2> QED BY <1>1, <1>3, <2>1
<1> QED BY <1>4, <1>5, <1>6, <1>7, <1>8 DEF Read

\* A byte of an intact frame takes the server to the next part of the frame.
LEMMA ReadOnTrack ==
    ASSUME SlipInv, ReadByte, OnTrack, connected = TRUE
    PROVE  OnTrack'
<1> DEFINE b == Head(line)
           p == sent
<1>1. /\ line # <<>> /\ line' = Tail(line) /\ Read(b) /\ sent' = p
      /\ connected' = connected
  BY DEF ReadByte, frameVars
<1>2. p \in Seq(Nat) /\ Len(p) \in Nat /\ Len(p) <= MaxSize
  BY SentType DEF SlipInv
<1>3. Rest(p, p) \in Seq(Nat) /\ Cons(Len(p), Rest(p, p)) \in Seq(Nat)
      /\ Cons(START, Cons(Len(p), Rest(p, p))) \in Seq(Nat)
  BY <1>2, RestType, ConsIs, BytesAre
<1>4. slipBuf \in Seq(Nat) /\ Len(slipBuf) \in Nat
  BY DEF SlipInv, TypeOK
<1> HIDE DEF b, p
<1>5. CASE BeforeFlush
  <2>1. b = END /\ line' = Cons(START, Cons(Len(p), Rest(p, p))) /\ mode \in {"ASCII", "SLIP"}
    BY <1>1, <1>3, <1>5, ConsIs, BytesAre DEF BeforeFlush, b, p
  <2>2. mode' = "ASCII"
    BY <1>1, <2>1, ReadIs, BytesAre DEF ReadAscii, ReadEnd
  <2> QED BY <1>1, <2>1, <2>2 DEF OnTrack, BeforeStart, p
<1>6. CASE BeforeStart
  <2>1. b = START /\ line' = Cons(Len(p), Rest(p, p)) /\ mode = "ASCII" /\ slipBuf = <<>>
    BY <1>1, <1>3, <1>6, ConsIs, BytesAre DEF BeforeStart, SlipInv, b, p
  <2>2. mode' = "SLIP" /\ slipBuf' = <<>>
    BY <1>1, <2>1, ReadIs DEF ReadAscii
  <2> QED BY <1>1, <2>1, <2>2 DEF OnTrack, BeforeLength, p
<1>7. CASE BeforeLength
  <2>1. b = Len(p) /\ line' = Rest(p, p) /\ mode = "SLIP" /\ slipBuf = <<>>
    BY <1>1, <1>2, <1>3, <1>7, ConsIs DEF BeforeLength, b, p
  <2>2. b \notin {END, ESC}
    <3>1. MaxSize < END /\ MaxSize < ESC
      BY SlipAssumption
    <3> QED BY <1>2, <2>1, <3>1, BytesAre
  <2>3. mode' = "SLIP" /\ Store(b)
    BY <1>1, <2>1, <2>2, ReadIs DEF ReadData
  <2>4. Len(<<>>) < BufSize
    <3>1. MaxSize + 2 <= BufSize
      BY SlipAssumption
    <3> QED BY <3>1, BytesAre
  <2>5. slipBuf' = Append(<<>>, b)
    BY <2>1, <2>3, <2>4 DEF Store
  <2>6. Append(<<>>, b) = Cons(Len(p), <<>>) /\ p = <<>> \o p /\ <<>> \in Seq(Nat)
    BY <1>2, <2>1 DEF Cons
  <2> QED BY <1>1, <1>2, <2>1, <2>3, <2>5, <2>6, Zenon DEF OnTrack, InPayload, p
<1>8. CASE InPayload
  <2>1. PICK a \in Seq(Nat), q \in Seq(Nat) :
          /\ p = a \o q /\ line = Rest(q, p)
          /\ mode = "SLIP" /\ slipBuf = Cons(Len(p), a)
    BY <1>8 DEF InPayload, p
  <2>2. Len(slipBuf) < BufSize /\ Len(a) \in Nat
    <3>4. Len(a) \in Nat /\ Len(q) \in Nat
      OBVIOUS
    <3>1. Len(slipBuf) = Len(a) + 1
      <4>1. Len(Cons(Len(p), a)) = Len(a) + 1
        BY <1>2, ConsIs
      <4> QED BY <2>1, <4>1
    <3>3. Len(p) = Len(a) + Len(q)
      BY <2>1, ConcatProperties
    <3>2. MaxSize + 2 <= BufSize
      BY SlipAssumption
    <3> QED BY <1>2, <3>1, <3>2, <3>3, <3>4, BytesAre
  <2>3. CASE q = <<>>
    <3>1. line = Cons(Checksum(p), Cons(END, <<>>)) /\ Checksum(p) \in Nat /\ Checksum(p) \notin {END, ESC}
      BY <1>2, <2>1, <2>3, RestIs, ChecksumIs
    <3>2. Cons(END, <<>>) \in Seq(Nat)
      BY ConsIs, BytesAre, EmptySeq
    <3>3. b = Checksum(p) /\ line' = Cons(END, <<>>)
      BY <1>1, <3>1, <3>2, ConsIs DEF b
    <3>4. mode' = "SLIP" /\ slipBuf' = Append(slipBuf, b)
      BY <1>1, <2>1, <2>2, <3>1, <3>3, ReadIs DEF ReadData, Store
    <3>5. a = p
      BY <2>1, <2>3
    <3> QED BY <1>1, <2>1, <3>3, <3>4, <3>5 DEF OnTrack, BeforeEnd, p
  <2>4. CASE q # <<>> /\ Head(q) \notin {END, ESC}
    <3>1. line = Cons(Head(q), Rest(Tail(q), p))
      BY <1>2, <2>1, <2>4, RestIs
    <3>2. /\ Head(q) \in Nat /\ Tail(q) \in Seq(Nat)
          /\ Append(a, Head(q)) \in Seq(Nat) /\ Append(a, Head(q)) \o Tail(q) = p
      BY <2>1, <2>4, AppendTail
    <3>3. b = Head(q) /\ line' = Rest(Tail(q), p)
      BY <1>1, <1>2, <3>1, <3>2, RestType, ConsIs DEF b
    <3>4. mode' = "SLIP" /\ slipBuf' = Append(slipBuf, b)
      BY <1>1, <2>1, <2>2, <2>4, <3>3, ReadIs DEF ReadData, Store
    <3>5. slipBuf' = Cons(Len(p), Append(a, Head(q)))
      BY <1>2, <2>1, <3>2, <3>3, <3>4, ConsAppend
    <3>6. InPayload'
      BY <1>1, <3>2, <3>3, <3>4, <3>5, Zenon DEF InPayload, p
    <3> QED BY <3>6 DEF OnTrack
  <2>5. CASE q # <<>> /\ Head(q) \in {END, ESC}
    <3>1. line = Cons(ESC, Cons(Code(Head(q)), Rest(Tail(q), p)))
      BY <1>2, <2>1, <2>5, RestIs
    <3>2. /\ Head(q) \in Nat /\ Tail(q) \in Seq(Nat)
          /\ Append(a, Head(q)) \o Tail(q) = p
      BY <2>1, <2>5, AppendTail
    <3>3. b = ESC /\ line' = Cons(Code(Head(q)), Rest(Tail(q), p))
      <4>1. Code(Head(q)) \in Nat
        BY BytesAre DEF Code
      <4>2. Cons(Code(Head(q)), Rest(Tail(q), p)) \in Seq(Nat)
        BY <1>2, <3>2, <4>1, RestType, ConsIs
      <4> QED BY <1>1, <3>1, <4>2, ConsIs, BytesAre DEF b
    <3>4. mode' = "ESC" /\ slipBuf' = slipBuf
      BY <1>1, <2>1, <3>3, ReadIs DEF ReadEsc
    <3>5. PICK c \in {END, ESC} : c = Head(q)
      BY <2>5
    <3>6. InEscape'
      BY <1>1, <2>1, <3>2, <3>3, <3>4, <3>5, Zenon DEF InEscape, p
    <3> QED BY <3>6 DEF OnTrack
  <2> QED BY <2>3, <2>4, <2>5
<1>9. CASE InEscape
  <2>1. PICK a \in Seq(Nat), q \in Seq(Nat), c \in {END, ESC} :
          /\ p = Append(a, c) \o q /\ line = Cons(Code(c), Rest(q, p))
          /\ mode = "ESC" /\ slipBuf = Cons(Len(p), a)
    BY <1>9 DEF InEscape, p
  <2>2. c \in Nat /\ Append(a, c) \in Seq(Nat) /\ Len(Append(a, c)) = Len(a) + 1
        /\ Len(a) \in Nat /\ Len(q) \in Nat
    BY BytesAre
  <2>3. Len(slipBuf) < BufSize
    <3>1. Len(slipBuf) = Len(a) + 1 /\ Len(p) = Len(Append(a, c)) + Len(q)
      BY <1>2, <2>1, <2>2, ConsIs
    <3>2. MaxSize + 2 <= BufSize
      BY SlipAssumption
    <3> QED BY <1>2, <2>2, <3>1, <3>2, BytesAre
  <2>4. b = Code(c) /\ line' = Rest(q, p)
    <3>1. Code(c) \in Nat
      BY BytesAre DEF Code
    <3> QED BY <1>1, <1>2, <2>1, <3>1, RestType, ConsIs DEF b
  <2>5. Unescaped(b) = c
    BY <2>4, BytesAre DEF Code, Unescaped
  <2>6. mode' = "SLIP" /\ slipBuf' = Append(slipBuf, c)
    BY <1>1, <2>1, <2>3, <2>5, ReadIs DEF ReadEscaped, Store
  <2>7. slipBuf' = Cons(Len(p), Append(a, c))
    BY <1>2, <2>1, <2>2, <2>6, ConsAppend
  <2>8. InPayload'
    BY <1>1, <2>1, <2>2, <2>4, <2>6, <2>7, Zenon DEF InPayload, p
  <2> QED BY <2>8 DEF OnTrack
<1>10. CASE BeforeEnd
  <2>1. b = END /\ line' = <<>> /\ mode = "SLIP"
    BY <1>1, <1>10, ConsIs, EmptySeq, BytesAre DEF BeforeEnd, b
  <2>2. slipBuf = Append(Cons(Len(p), p), Checksum(p)) /\ Checksum(p) \in Nat
    BY <1>2, <1>10, ChecksumIs DEF BeforeEnd, p
  <2>3. /\ Len(slipBuf) >= 2 /\ Len(slipBuf) - 2 = slipBuf[1] /\ Last(slipBuf) = Checksum(p)
        /\ SubSeq(slipBuf, 2, Len(slipBuf) - 1) = p
    BY <1>2, <2>2, StoredIs
  <2>4. Contents = p /\ Valid
    BY <2>3 DEF Contents, Valid
  <2>5. got' = Append(got, p)
    BY <1>1, <2>1, <2>4, ReadIs DEF ReadEnd, ToClient
  <2>6. Last(<<<<>>>> \o Append(got, p)) = p
    <3>1. got \in Seq(Seq(Nat)) /\ <<<<>>>> \in Seq(Seq(Nat)) /\ Len(<<<<>>>>) = 1
      <4>1. <<>> \in Seq(Nat)
        OBVIOUS
      <4> QED BY <4>1 DEF SlipInv
    <3>2. Append(got, p) \in Seq(Seq(Nat)) /\ Len(Append(got, p)) = Len(got) + 1
          /\ Append(got, p)[Len(got) + 1] = p /\ Len(got) \in Nat
      BY <1>2, <3>1, AppendProperties, LenProperties
    <3> DEFINE r == Append(got, p)
               e == <<<<>>>>
    <3> HIDE DEF r, e
    <3>3. /\ Len(e \o r) = Len(e) + Len(r)
          /\ \A i \in 1..Len(e) + Len(r) : (e \o r)[i] = IF i <= Len(e) THEN e[i] ELSE r[i - Len(e)]
      BY <3>1, <3>2, ConcatProperties DEF r, e
    <3>4. Len(e) = 1 /\ Len(r) = Len(got) + 1 /\ r[Len(got) + 1] = p
      BY <3>1, <3>2 DEF r, e
    <3>5. (e \o r)[Len(got) + 2] = p
      <4>1. Len(got) + 2 \in 1..Len(e) + Len(r) /\ ~(Len(got) + 2 <= Len(e))
            /\ (Len(got) + 2) - Len(e) = Len(got) + 1
        BY <3>2, <3>4
      <4> QED BY <3>3, <3>4, <4>1
    <3>6. Len(e \o r) = Len(got) + 2
      BY <3>2, <3>3, <3>4
    <3> QED BY <3>5, <3>6 DEF Last, r, e
  <2> QED BY <1>1, <2>1, <2>5, <2>6 DEF OnTrack, Delivered, p
<1>11. CASE Delivered
  BY <1>1, <1>11 DEF Delivered
<1> QED BY <1>5, <1>6, <1>7, <1>8, <1>9, <1>10, <1>11 DEF OnTrack

LEMMA SlipInit == Init => SlipInv
<1> SUFFICES ASSUME Init PROVE SlipInv
  OBVIOUS
<1>1. TypeOK
  <2>1. <<>> \in Seq(Nat) /\ Len(<<>>) <= BufSize
    BY BytesAre
  <2>2. 0 \in 0..MaxFaults
    BY SlipAssumption
  <2> QED BY <2>1, <2>2 DEF Init, TypeOK
<1>2. got \in Seq(Seq(Nat)) /\ Len(sent) <= MaxSize
  BY BytesAre DEF Init
<1> QED BY <1>1, <1>2 DEF Init, SlipInv

LEMMA SlipTxKeeps == ASSUME SlipInv, NEW p \in Payload, SlipTx(p) PROVE SlipInv'
<1>1. p \in Seq(Nat) /\ Len(p) <= MaxSize /\ Len(p) \in Nat
  <2>1. p \in Seq(Nat)
    BY SlipAssumption
  <2> QED BY <2>1 DEF SlipTx
<1>2. /\ line' = Framed(p) /\ sent' = p /\ before' = sent /\ faults' = 0 /\ got' = <<>>
      /\ flushable' = (connected /\ mode # "ESC")
      /\ mode' = mode /\ slipBuf' = slipBuf /\ connected' = connected
  BY DEF SlipTx, rxVars
<1>3. line' = Cons(END, Cons(START, Cons(Len(p), Rest(p, p))))
  BY <1>1, <1>2, FramedIs
<1>4. line' \in Seq(Nat)
  BY <1>1, <1>3, RestType, ConsIs, BytesAre
<1>5. flushable' \in BOOLEAN
  BY <1>2
<1>6. 0 \in 0..MaxFaults
  BY SlipAssumption
<1>7. TypeOK'
  <2>1. /\ mode \in {"ASCII", "SLIP", "ESC"} /\ slipBuf \in Seq(Nat) /\ Len(slipBuf) <= BufSize
        /\ connected \in BOOLEAN /\ sent \in Payload \cup {<<>>}
    BY DEF SlipInv, TypeOK
  <2> QED BY <1>2, <1>4, <1>5, <1>6, <2>1 DEF TypeOK
<1>8. got' \in Seq(Seq(Nat)) /\ Len(sent') <= MaxSize
  BY <1>1, <1>2
<1>9. flushable' => connected' /\ mode \in {"ASCII", "SLIP"}
  BY <1>2 DEF SlipInv, TypeOK
<1>10. flushable' => OnTrack'
  BY <1>2, <1>3, <1>9 DEF OnTrack, BeforeFlush
<1>11. mode' = "ASCII" => slipBuf' = <<>>
  BY <1>2 DEF SlipInv
<1> QED BY <1>7, <1>8, <1>9, <1>10, <1>11 DEF SlipInv

LEMMA ReadByteKeeps == ASSUME SlipInv, ReadByte PROVE SlipInv'
<1>1. /\ line # <<>> /\ line' = Tail(line) /\ Read(Head(line))
      /\ connected' = connected /\ sent' = sent /\ before' = before
      /\ faults' = faults /\ flushable' = flushable
  BY DEF ReadByte, frameVars
<1>2. Head(line) \in Nat /\ Tail(line) \in Seq(Nat)
  BY <1>1 DEF SlipInv, TypeOK
<1>3. /\ mode' \in {"ASCII", "SLIP", "ESC"}
      /\ slipBuf' \in Seq(Nat) /\ Len(slipBuf') <= BufSize
      /\ got' \in Seq(Seq(Nat))
      /\ mode' = "ASCII" => slipBuf' = <<>>
  BY <1>1, <1>2, ReadType
<1>4. TypeOK'
  BY <1>1, <1>2, <1>3 DEF SlipInv, TypeOK
<1>5. faults' = 0 /\ flushable' => OnTrack'
  <2> SUFFICES ASSUME faults' = 0, flushable' PROVE OnTrack'
    OBVIOUS
  <2>1. OnTrack /\ connected = TRUE
    BY <1>1 DEF SlipInv, TypeOK
  <2> QED BY <2>1, ReadOnTrack
<1> QED BY <1>1, <1>3, <1>4, <1>5 DEF SlipInv

LEMMA ClientConnectsKeeps == ASSUME SlipInv, ClientConnects PROVE SlipInv'
<1>1. /\ connected = FALSE /\ connected' = TRUE
      /\ line' = line /\ mode' = mode /\ slipBuf' = slipBuf /\ got' = got
      /\ sent' = sent /\ before' = before /\ faults' = faults /\ flushable' = flushable
  BY DEF ClientConnects, frameVars, SlipInv, TypeOK
<1>2. TypeOK'
  BY <1>1 DEF SlipInv, TypeOK
<1> QED BY <1>1, <1>2 DEF SlipInv

LEMMA LoseByteKeeps == ASSUME SlipInv, LoseByte PROVE SlipInv'
<1>1. /\ line # <<>> /\ line' = Tail(line) /\ faults < MaxFaults /\ faults' = faults + 1
      /\ mode' = mode /\ slipBuf' = slipBuf /\ connected' = connected /\ got' = got
      /\ sent' = sent /\ before' = before /\ flushable' = flushable
  BY DEF LoseByte, rxVars
<1>2. Tail(line) \in Seq(Nat) /\ faults' \in 0..MaxFaults /\ faults' # 0
  BY <1>1, SlipAssumption DEF SlipInv, TypeOK
<1>3. TypeOK'
  BY <1>1, <1>2 DEF SlipInv, TypeOK
<1> QED BY <1>1, <1>2, <1>3 DEF SlipInv

LEMMA PrintByteKeeps == ASSUME SlipInv, PrintByte PROVE SlipInv'
<1>1. PICK b \in Text : Read(b)
  BY DEF PrintByte
<1>2. /\ faults < MaxFaults /\ faults' = faults + 1 /\ line' = line /\ connected' = connected
      /\ sent' = sent /\ before' = before /\ flushable' = flushable
  BY DEF PrintByte
<1>3. b \in Nat
  BY SlipAssumption
<1>4. /\ mode' \in {"ASCII", "SLIP", "ESC"}
      /\ slipBuf' \in Seq(Nat) /\ Len(slipBuf') <= BufSize
      /\ got' \in Seq(Seq(Nat))
      /\ mode' = "ASCII" => slipBuf' = <<>>
  BY <1>1, <1>3, ReadType
<1>5. faults' \in 0..MaxFaults /\ faults' # 0
  BY <1>2, SlipAssumption DEF SlipInv, TypeOK
<1>6. TypeOK'
  BY <1>2, <1>4, <1>5 DEF SlipInv, TypeOK
<1> QED BY <1>2, <1>4, <1>5, <1>6 DEF SlipInv

LEMMA SlipInvIsInvariant == Spec => []SlipInv
<1>1. Init => SlipInv
  BY SlipInit
<1>2. ASSUME SlipInv, [Next]_vars PROVE SlipInv'
  <2>1. CASE \E p \in Payload : SlipTx(p)
    BY <1>2, <2>1, SlipTxKeeps
  <2>2. CASE ReadByte
    BY <1>2, <2>2, ReadByteKeeps
  <2>3. CASE ClientConnects
    BY <1>2, <2>3, ClientConnectsKeeps
  <2>4. CASE LoseByte
    BY <1>2, <2>4, LoseByteKeeps
  <2>5. CASE PrintByte
    BY <1>2, <2>5, PrintByteKeeps
  <2>6. CASE UNCHANGED vars
    BY <1>2, <2>6
    DEF vars, rxVars, frameVars, SlipInv, TypeOK, OnTrack, BeforeFlush, BeforeStart, BeforeLength,
        InPayload, InEscape, BeforeEnd, Delivered
  <2> QED BY <1>2, <2>1, <2>2, <2>3, <2>4, <2>5, <2>6 DEF Next
<1> QED BY <1>1, <1>2, PTL DEF Spec

\* The types hold, and the server's buffer never outgrows slip_buf, whatever
\* the line loses and whatever is printed into it
\* (SLIPstream-server/main.c:187-271).
THEOREM SlipTypeCorrect == Spec => []TypeOK
<1>1. SlipInv => TypeOK
  BY DEF SlipInv
<1> QED BY <1>1, SlipInvIsInvariant, PTL

\* Every payload slip_tx frames, of any length up to its limit and of any
\* bytes, control bytes among them, reaches the client unchanged when its
\* frame does and the server is not between an ESC and its code
\* (slip.c:99-132, SLIPstream-server/main.c:203-262).
THEOREM IntactAlwaysDelivered == Spec => []IntactIsDelivered
<1>1. SlipInv => IntactIsDelivered
  <2> SUFFICES ASSUME SlipInv, line = <<>>, faults = 0, flushable
               PROVE  Last(<<<<>>>> \o got) = sent
    BY DEF IntactIsDelivered
  <2>1. OnTrack /\ sent \in Seq(Nat) /\ Len(sent) \in Nat
    BY SentType DEF SlipInv
  <2>2. \A b \in Nat, s \in Seq(Nat) : Cons(b, s) # <<>>
    BY ConsIs
  <2>3. ~BeforeFlush /\ ~BeforeStart /\ ~BeforeLength
    BY <2>1, <2>2, RestType, ConsIs, BytesAre DEF BeforeFlush, BeforeStart, BeforeLength
  <2>4. ~InPayload
    <3> SUFFICES ASSUME NEW a \in Seq(Nat), NEW q \in Seq(Nat), line = Rest(q, sent) PROVE FALSE
      BY DEF InPayload
    <3>1. Len(Rest(q, sent)) = Len(Stuffed(q)) + Len(<<Checksum(sent), END>>)
      <4>1. Stuffed(q) \in Seq(Nat) /\ <<Checksum(sent), END>> \in Seq(Nat)
        BY <2>1, StuffedType, ChecksumIs, TwoBytes, BytesAre
      <4> QED BY <4>1, ConcatProperties DEF Rest
    <3>2. Len(Stuffed(q)) \in Nat /\ Len(<<Checksum(sent), END>>) = 2 /\ Len(<<>>) = 0
      BY StuffedType
    <3> QED BY <3>1, <3>2
  <2>5. ~InEscape
    <3> SUFFICES ASSUME NEW q \in Seq(Nat), NEW b \in {END, ESC}, line = Cons(Code(b), Rest(q, sent))
                 PROVE  FALSE
      BY DEF InEscape
    <3>1. Code(b) \in Nat /\ Rest(q, sent) \in Seq(Nat)
      BY <2>1, RestType, BytesAre DEF Code
    <3> QED BY <2>2, <3>1
  <2>6. ~BeforeEnd
    BY <2>2, BytesAre, EmptySeq DEF BeforeEnd
  <2> QED BY <2>1, <2>3, <2>4, <2>5, <2>6 DEF OnTrack, Delivered
<1> QED BY <1>1, SlipInvIsInvariant, PTL

-----------------------------------------------------------------------------
(***************************************************************************)
(* The serial line with a fault: what the server accepts is a payload, or  *)
(* an end of one.  A server in the middle of a damaged frame will, if      *)
(* nothing else happens, have one certain buffer when the END comes        *)
(* (InFrame, InCode, AtCode, NoCode); this buffer has the wrong length, or *)
(* the wrong sum, or is an end of the buffer that was sent.  Sums are      *)
(* compared by their remainders.                                           *)
(***************************************************************************)

LEMMA Quotient ==
    ASSUME NEW m \in Nat, m > 0, NEW x \in Nat
    PROVE  \E q \in Nat : x = (m * q) + (x % m) /\ x % m \in Nat /\ x % m < m
<1>1. x = (m * (x \div m)) + (x % m) /\ x \div m \in Nat /\ x % m \in Nat /\ x % m < m
  OBVIOUS
<1> QED BY <1>1

\* Two remainders that are a multiple of m apart are the same.
LEMMA Multiples ==
    ASSUME NEW m \in Nat, m > 0, NEW k \in Int, NEW r \in Nat, NEW s \in Nat, r < m, s < m,
           r = s + (m * k)
    PROVE  r = s
<1>1. CASE k = 0
  BY <1>1
<1>2. CASE k >= 1
  <2>1. m * k >= m
    BY <1>2
  <2> QED BY <2>1
<1>3. CASE k <= -1
  <2>1. m * k <= -m
    BY <1>3
  <2> QED BY <2>1
<1> QED BY <1>1, <1>2, <1>3

\* Numbers a multiple of m apart leave the same remainder.
LEMMA Remainder ==
    ASSUME NEW m \in Nat, m > 0, NEW x \in Nat, NEW y \in Nat, NEW k \in Int, x = y + (m * k)
    PROVE  x % m = y % m
<1>1. PICK q \in Nat : x = (m * q) + (x % m) /\ x % m \in Nat /\ x % m < m
  BY Quotient
<1>2. PICK p \in Nat : y = (m * p) + (y % m) /\ y % m \in Nat /\ y % m < m
  BY Quotient
<1> DEFINE r == x % m
           s == y % m
           j == p + k - q
<1>3. r \in Nat /\ r < m /\ x = (m * q) + r
  BY <1>1
<1>4. s \in Nat /\ s < m /\ y = (m * p) + s
  BY <1>2
<1> HIDE DEF r, s
<1>5. j \in Int
  OBVIOUS
<1>6. m * j = (m * p) + (m * k) - (m * q)
  OBVIOUS
<1>7. m * p \in Int /\ m * k \in Int /\ m * q \in Int /\ m * j \in Int
  BY <1>5
<1> HIDE DEF j
<1>8. r = s + (m * j)
  BY <1>3, <1>4, <1>6, <1>7
<1>9. r = s
  BY <1>3, <1>4, <1>5, <1>8, Multiples
<1> QED BY <1>9 DEF r, s

LEMMA Apart ==
    ASSUME NEW m \in Nat, m > 0, NEW x \in Nat, NEW y \in Nat, x % m = y % m
    PROVE  \E k \in Int : x = y + (m * k)
<1>1. PICK q \in Nat : x = (m * q) + (x % m) /\ x % m \in Nat /\ x % m < m
  BY Quotient
<1>2. PICK p \in Nat : y = (m * p) + (y % m) /\ y % m \in Nat /\ y % m < m
  BY Quotient
<1> DEFINE r == x % m
<1>3. r \in Nat /\ x = (m * q) + r /\ y = (m * p) + r
  BY <1>1, <1>2
<1> HIDE DEF r
<1>4. q - p \in Int /\ m * (q - p) = (m * q) - (m * p)
  OBVIOUS
<1>5. m * q \in Int /\ m * p \in Int
  OBVIOUS
<1>6. x = y + (m * (q - p))
  BY <1>3, <1>4, <1>5
<1> QED BY <1>4, <1>6

Rem(x)     == x % CheckMod
Plus(x, c) == x + c

\* Adding the same number to two keeps what their remainders say.
LEMMA SameRemainder ==
    ASSUME NEW x \in Nat, NEW y \in Nat, NEW c \in Nat
    PROVE  Rem(x) = Rem(y) <=> Rem(Plus(x, c)) = Rem(Plus(y, c))
<1>0. PICK u \in Nat, p \in Nat : u = x + c /\ p = y + c
  OBVIOUS
<1>1. PICK m \in Nat : m = CheckMod /\ m > 0
  BY BytesAre
<1>4. m > 0
  BY <1>1
<1>2. ASSUME x % m = y % m PROVE u % m = p % m
  <2>1. PICK k \in Int : x = y + (m * k)
    BY <1>2, <1>4, Apart
  <2> DEFINE d == m * k
  <2>2. d \in Int /\ x = y + d
    BY <2>1
  <2> HIDE DEF d
  <2>3. u = p + d
    BY <1>0, <2>2
  <2>4. u = p + (m * k)
    BY <2>3 DEF d
  <2> QED BY <1>4, <2>4, Remainder
<1>3. ASSUME u % m = p % m PROVE x % m = y % m
  <2>0. \E k \in Int : u = p + (m * k)
    BY <1>3, <1>4, Apart, ZenonT(40)
  <2>1. PICK k \in Int : u = p + (m * k)
    BY <2>0
  <2> DEFINE d == m * k
  <2>2. d \in Int /\ u = p + d
    BY <2>1
  <2> HIDE DEF d
  <2>3. x = y + d
    BY <1>0, <2>2
  <2>4. x = y + (m * k)
    BY <2>3 DEF d
  <2> QED BY <1>4, <2>4, Remainder
<1> QED BY <1>0, <1>1, <1>2, <1>3 DEF Rem, Plus

-----------------------------------------------------------------------------
(* Sums of sequences.                                                      *)

LEMMA SumAppend ==
    ASSUME NEW s \in Seq(Nat), NEW b \in Nat
    PROVE  Sum(Append(s, b)) = Sum(s) + b
<1> DEFINE n == Len(s)
           t == Append(s, b)
<1>1. n \in Nat /\ t \in Seq(Nat) /\ Len(t) = n + 1 /\ t[n + 1] = b /\ \A i \in 1..n : t[i] = s[i]
  BY AppendProperties
<1>2. PICK f : /\ SumsUp(f, s, n) /\ Sum(s) = f[n]
               /\ \A k \in Nat : k <= n => f[k] \in Nat
  BY SumUnfolds
<1> HIDE DEF t
<1>3. PICK g : /\ SumsUp(g, t, n + 1) /\ Sum(t) = g[n + 1]
  BY <1>1, SumUnfolds
<1>4. f[0] = 0 /\ \A i \in 1..n : f[i] = f[i - 1] + s[i]
  <2>1. f = [i \in 0..n |-> IF i = 0 THEN 0 ELSE f[i - 1] + s[i]]
    BY <1>2 DEF SumsUp
  <2>2. 0 \in 0..n /\ \A i \in 1..n : i \in 0..n /\ i # 0
    BY <1>1
  <2>3. f[0] = 0
    BY <2>1, <2>2
  <2>4. ASSUME NEW i \in 1..n PROVE f[i] = f[i - 1] + s[i]
    BY <2>1, <2>2
  <2> QED BY <2>3, <2>4
<1>5. g[0] = 0 /\ \A i \in 1..n + 1 : g[i] = g[i - 1] + t[i]
  <2>1. g = [i \in 0..n + 1 |-> IF i = 0 THEN 0 ELSE g[i - 1] + t[i]]
    BY <1>3 DEF SumsUp
  <2>2. 0 \in 0..n + 1 /\ \A i \in 1..n + 1 : i \in 0..n + 1 /\ i # 0
    BY <1>1
  <2>3. g[0] = 0
    BY <2>1, <2>2
  <2>4. ASSUME NEW i \in 1..n + 1 PROVE g[i] = g[i - 1] + t[i]
    BY <2>1, <2>2
  <2> QED BY <2>3, <2>4
<1> DEFINE S == {k \in Nat : k <= n => g[k] = f[k]}
<1>6. 0 \in S
  BY <1>4, <1>5
<1>7. ASSUME NEW k \in Nat, k \in S PROVE k + 1 \in S
  <2> SUFFICES ASSUME k + 1 <= n PROVE g[k + 1] = f[k + 1]
    OBVIOUS
  <2>1. k + 1 \in 1..n /\ k + 1 \in 1..n + 1 /\ (k + 1) - 1 = k /\ k <= n
    BY <1>1
  <2>2. g[k + 1] = g[k] + t[k + 1] /\ f[k + 1] = f[k] + s[k + 1] /\ t[k + 1] = s[k + 1]
    BY <1>1, <1>4, <1>5, <2>1
  <2> QED BY <1>7, <2>1, <2>2
<1> HIDE DEF S
<1>8. n \in S
  BY <1>1, <1>6, <1>7, Induction
<1>9. g[n] = f[n]
  BY <1>1, <1>8 DEF S
<1>10. g[n + 1] = g[n] + b
  <2>1. n + 1 \in 1..n + 1 /\ (n + 1) - 1 = n
    BY <1>1
  <2> QED BY <1>1, <1>5, <2>1
<1> QED BY <1>2, <1>3, <1>9, <1>10 DEF t

LEMMA SumEmpty == Sum(<<>>) = 0
<1>1. <<>> \in Seq(Nat) /\ Len(<<>>) = 0
  OBVIOUS
<1>2. PICK f : SumsUp(f, <<>>, 0) /\ Sum(<<>>) = f[0]
  BY <1>1, SumUnfolds
<1> QED BY <1>2 DEF SumsUp

LEMMA SumConcat ==
    ASSUME NEW s \in Seq(Nat), NEW t \in Seq(Nat)
    PROVE  Sum(Glue(s, t)) = Sum(s) + Sum(t)
<1> DEFINE S == {k \in Nat : \A u, p \in Seq(Nat) : Len(p) = k => Sum(Glue(u, p)) = Sum(u) + Sum(p)}
<1>1. 0 \in S
  <2> SUFFICES ASSUME NEW u \in Seq(Nat), NEW p \in Seq(Nat), Len(p) = 0
               PROVE  Sum(Glue(u, p)) = Sum(u) + Sum(p)
    OBVIOUS
  <2>1. p = <<>>
    OBVIOUS
  <2>2. Glue(u, <<>>) = u
    BY ConcatEmptySeq, Zenon DEF Glue
  <2> QED BY <2>1, <2>2, SumEmpty, SumIsNat
<1>2. ASSUME NEW k \in Nat, k \in S PROVE k + 1 \in S
  <2> SUFFICES ASSUME NEW u \in Seq(Nat), NEW p \in Seq(Nat), Len(p) = k + 1
               PROVE  Sum(Glue(u, p)) = Sum(u) + Sum(p)
    OBVIOUS
  <2> DEFINE h == Head(p)
             w == Tail(p)
             e == <<>>
  <2>1. p # <<>> /\ w \in Seq(Nat) /\ Len(w) = k /\ h \in Nat /\ e \in Seq(Nat)
    OBVIOUS
  <2>2. Glue(Append(u, h), w) = Glue(u, p) /\ Append(u, h) \in Seq(Nat)
    BY <2>1, AppendTail, Zenon DEF Glue
  <2>3. Glue(Append(e, h), w) = Glue(e, p) /\ Append(e, h) \in Seq(Nat)
    BY <2>1, AppendTail, Zenon DEF Glue
  <2>4. Glue(e, p) = p
    BY ConcatEmptySeq, Zenon DEF Glue
  <2>5. \A x, y \in Seq(Nat) : Len(y) = k => Sum(Glue(x, y)) = Sum(x) + Sum(y)
    BY <1>2
  <2>6. Sum(Append(u, h)) = Sum(u) + h /\ Sum(Append(e, h)) = Sum(e) + h
    BY <2>1, SumAppend
  <2>7. Sum(e) = 0
    BY SumEmpty
  <2> DEFINE uh == Append(u, h)
             eh == Append(e, h)
  <2>8. uh \in Seq(Nat) /\ eh \in Seq(Nat) /\ Sum(uh) = Sum(u) + h /\ Sum(eh) = h
    BY <2>1, <2>2, <2>3, <2>6, <2>7
  <2>9. Sum(Glue(u, p)) = Sum(Glue(uh, w)) /\ Sum(p) = Sum(Glue(eh, w))
    BY <2>2, <2>3, <2>4, Zenon
  <2> HIDE DEF uh, eh, h, w, e
  <2>10. Sum(Glue(uh, w)) = Sum(uh) + Sum(w) /\ Sum(Glue(eh, w)) = Sum(eh) + Sum(w)
    BY <2>1, <2>5, <2>8
  <2>11. Sum(u) \in Nat /\ Sum(w) \in Nat
    BY <2>1, SumIsNat
  <2> QED BY <2>1, <2>8, <2>9, <2>10, <2>11
<1> HIDE DEF S
<1>3. \A k \in Nat : k \in S
  BY <1>1, <1>2, Induction
<1>4. Len(t) \in Nat
  OBVIOUS
<1> QED BY <1>3, <1>4 DEF S

LEMMA SumCons ==
    ASSUME NEW b \in Nat, NEW s \in Seq(Nat)
    PROVE  Sum(Cons(b, s)) = b + Sum(s)
<1> DEFINE e == <<>>
           u == Append(e, b)
<1>1. u = <<b>> /\ e \in Seq(Nat) /\ u \in Seq(Nat)
  OBVIOUS
<1>2. Sum(u) = b
  <2>1. Sum(u) = Sum(e) + b
    BY <1>1, SumAppend
  <2> QED BY <2>1, SumEmpty
<1>3. Cons(b, s) = Glue(u, s)
  BY <1>1, Zenon DEF Cons, Glue
<1> HIDE DEF u
<1>4. Sum(Glue(u, s)) = Sum(u) + Sum(s)
  BY <1>1, SumConcat
<1> QED BY <1>2, <1>3, <1>4

-----------------------------------------------------------------------------
(* What the server accepts.                                                *)

Buffer(p)  == Append(Cons(Len(p), p), Checksum(p))
Inner(f)   == SubSeq(f, 2, Len(f) - 1)
Accepts(f) == Len(f) >= 2 /\ Len(f) - 2 = f[1] /\ Checksum(Inner(f)) = Last(f)

LEMMA InnerIs ==
    ASSUME NEW f \in Seq(Nat), Len(f) >= 2
    PROVE  /\ Inner(f) \in Seq(Nat) /\ Len(Inner(f)) = Len(f) - 2
           /\ \A i \in 1..Len(f) - 2 : Inner(f)[i] = f[i + 1]
<1> DEFINE q == SubSeq(f, 2, Len(f) - 1)
           n == Len(f)
<1>1. n \in Nat
  OBVIOUS
<1>2. ASSUME NEW i \in 2..n - 1 PROVE f[i] \in Nat
  <2>1. i \in 1..Len(f)
    BY <1>1
  <2> QED BY <2>1, ElementOfSeq
<1>3. 2 \in Int /\ n - 1 \in Int
  BY <1>1
<1>4. /\ q \in Seq(Nat) /\ Len(q) = IF 2 <= n - 1 THEN (n - 1) - 2 + 1 ELSE 0
      /\ \A i \in 1..(n - 1) - 2 + 1 : q[i] = f[2 + i - 1]
  BY <1>2, <1>3, SubSeqProperties
<1> HIDE DEF q
<1>51. n >= 2
  OBVIOUS
<1> HIDE DEF n
<1>5. (n - 1) - 2 + 1 = n - 2 /\ (2 <= n - 1 \/ n - 2 = 0)
  BY <1>1, <1>51
<1>50. ASSUME NEW i \in 1..n - 2 PROVE 2 + i - 1 = i + 1
  BY <1>1
<1>6. q \in Seq(Nat) /\ Len(q) = n - 2 /\ \A i \in 1..n - 2 : q[i] = f[i + 1]
  BY <1>1, <1>4, <1>5, <1>50
<1> QED BY <1>6 DEF n, q, Inner

\* The sum of a buffer: its length byte, what it carries, and its checksum.
LEMMA SumParts ==
    ASSUME NEW f \in Seq(Nat), Len(f) >= 2
    PROVE  /\ f[1] \in Nat /\ Last(f) \in Nat /\ Sum(Inner(f)) \in Nat
           /\ Sum(f) = (Sum(Inner(f)) + f[1]) + Last(f)
<1> DEFINE n == Len(f)
           q == Inner(f)
           h == Cons(f[1], q)
           g == Append(h, Last(f))
<1>1. n \in Nat /\ 1 \in 1..n /\ n \in 1..n
  OBVIOUS
<1>2. f[1] \in Nat /\ Last(f) \in Nat /\ Last(f) = f[n]
  BY <1>1, ElementOfSeq DEF Last
<1>3. q \in Seq(Nat) /\ Len(q) = n - 2 /\ \A i \in 1..n - 2 : q[i] = f[i + 1]
  BY InnerIs
<1> HIDE DEF q
<1>4. /\ h \in Seq(Nat) /\ Len(h) = n - 1
      /\ \A i \in 1..n - 1 : h[i] = IF i <= 1 THEN f[1] ELSE q[i - 1]
  <2> DEFINE e == <<f[1]>>
  <2>1. e \in Seq(Nat) /\ Len(e) = 1 /\ e[1] = f[1]
    BY <1>2
  <2>2. h = e \o q
    BY DEF Cons
  <2>0. q \in Seq(Nat) /\ Len(q) = n - 2
    BY <1>3
  <2> HIDE DEF e, h
  <2>3. /\ e \o q \in Seq(Nat) /\ Len(e \o q) = Len(e) + Len(q)
        /\ \A i \in 1..Len(e) + Len(q) : (e \o q)[i] = IF i <= Len(e) THEN e[i] ELSE q[i - Len(e)]
    BY <2>0, <2>1, ConcatProperties
  <2>4. Len(e) + Len(q) = n - 1
    BY <1>1, <1>3, <2>1
  <2>5. ASSUME NEW i \in 1..n - 1 PROVE h[i] = IF i <= 1 THEN f[1] ELSE q[i - 1]
    <3>1. i \in 1..Len(e) + Len(q)
      BY <2>4
    <3>2. h[i] = IF i <= Len(e) THEN e[i] ELSE q[i - Len(e)]
      BY <2>2, <2>3, <3>1
    <3>3. CASE i <= 1
      <4>1. i = 1
        BY <1>1, <3>3
      <4> QED BY <2>1, <3>2, <4>1
    <3>4. CASE ~(i <= 1)
      BY <2>1, <3>2, <3>4
    <3> QED BY <3>3, <3>4
  <2> QED BY <2>2, <2>3, <2>4, <2>5
<1> HIDE DEF h
<1>5. g \in Seq(Nat) /\ Len(g) = n /\ g[n] = f[n] /\ \A i \in 1..n - 1 : g[i] = h[i]
  <2>1. Len(h) + 1 = n
    BY <1>1, <1>4
  <2> QED BY <1>2, <1>4, <2>1, AppendProperties
<1> HIDE DEF g
<1>6. ASSUME NEW i \in 1..n PROVE g[i] = f[i]
  <2>1. CASE i = n
    BY <1>5, <2>1
  <2>2. CASE i = 1 /\ i # n
    <3>1. i \in 1..n - 1
      BY <1>1, <2>2
    <3> QED BY <1>4, <1>5, <2>2, <3>1
  <2>3. CASE i # 1 /\ i # n
    <3>1. i \in 1..n - 1 /\ ~(i <= 1) /\ i - 1 \in 1..n - 2 /\ (i - 1) + 1 = i
      BY <1>1, <2>3
    <3> QED BY <1>3, <1>4, <1>5, <3>1
  <2> QED BY <2>1, <2>2, <2>3
<1>7. g = f
  BY <1>5, <1>6, SeqEqual
<1>8. Sum(g) = Sum(h) + Last(f)
  BY <1>2, <1>4, SumAppend DEF g
<1>9. Sum(h) = f[1] + Sum(q)
  BY <1>2, <1>3, SumCons DEF h
<1>10. Sum(q) \in Nat
  BY <1>3, SumIsNat
<1> QED BY <1>2, <1>7, <1>8, <1>9, <1>10 DEF q

LEMMA BufferIs ==
    ASSUME NEW p \in Seq(Nat)
    PROVE  /\ Buffer(p) \in Seq(Nat) /\ Len(Buffer(p)) = Len(p) + 2 /\ Len(p) \in Nat
           /\ Buffer(p)[1] = Len(p) /\ Last(Buffer(p)) = Checksum(p)
           /\ Inner(Buffer(p)) = p /\ Accepts(Buffer(p))
           /\ \A i \in 1..Len(p) : Buffer(p)[i + 1] = p[i]
<1>1. Len(p) \in Nat /\ Checksum(p) \in Nat
  BY ChecksumIs
<1> DEFINE f == Buffer(p)
           h == Cons(Len(p), p)
<1>2. /\ Len(f) >= 2 /\ Len(f) - 2 = f[1] /\ Last(f) = Checksum(p)
      /\ SubSeq(f, 2, Len(f) - 1) = p
  BY <1>1, StoredIs DEF Buffer
<1>3. h \in Seq(Nat) /\ Len(h) = Len(p) + 1
  BY <1>1, ConsIs
<1>4. f = Append(h, Checksum(p))
  BY DEF Buffer
<1> HIDE DEF f, h
<1>5. f \in Seq(Nat) /\ Len(f) = Len(p) + 2
  BY <1>1, <1>3, <1>4, AppendProperties
<1>6. Inner(f) = p
  BY <1>2 DEF Inner
<1>7. \A i \in 1..Len(p) : Inner(f)[i] = f[i + 1]
  <2>1. Len(f) - 2 = Len(p)
    BY <1>1, <1>5
  <2> QED BY <1>2, <1>5, <2>1, InnerIs
<1>8. f[1] = Len(p)
  BY <1>1, <1>2, <1>5
<1> QED BY <1>1, <1>2, <1>5, <1>6, <1>7, <1>8 DEF f, Accepts

LEMMA GlueIs ==
    ASSUME NEW s \in Seq(Nat), NEW t \in Seq(Nat)
    PROVE  /\ Glue(s, t) \in Seq(Nat) /\ Len(Glue(s, t)) = Len(s) + Len(t)
           /\ Len(s) \in Nat /\ Len(t) \in Nat
           /\ \A i \in 1..Len(s) : Glue(s, t)[i] = s[i]
           /\ \A i \in 1..Len(t) : Glue(s, t)[Len(s) + i] = t[i]
           /\ s # <<>> => Glue(s, t)[1] = s[1] /\ s[1] \in Nat
           /\ t # <<>> => Last(Glue(s, t)) = Last(t) /\ Last(t) \in Nat
<1>1. Len(s) \in Nat /\ Len(t) \in Nat
  OBVIOUS
<1> DEFINE g == Glue(s, t)
<1>2. /\ g \in Seq(Nat) /\ Len(g) = Len(s) + Len(t)
      /\ \A i \in 1..Len(s) + Len(t) : g[i] = IF i <= Len(s) THEN s[i] ELSE t[i - Len(s)]
  BY ConcatProperties DEF Glue
<1> HIDE DEF g
<1>3. \A i \in 1..Len(s) : g[i] = s[i]
  BY <1>1, <1>2
<1>4. ASSUME NEW i \in 1..Len(t) PROVE g[Len(s) + i] = t[i]
  <2>1. Len(s) + i \in 1..Len(s) + Len(t) /\ ~(Len(s) + i <= Len(s)) /\ (Len(s) + i) - Len(s) = i
    BY <1>1
  <2> QED BY <1>2, <2>1
<1>5. ASSUME s # <<>> PROVE g[1] = s[1] /\ s[1] \in Nat
  <2>1. 1 \in 1..Len(s)
    BY <1>5
  <2> QED BY <1>3, <2>1, ElementOfSeq
<1>6. ASSUME t # <<>> PROVE Last(g) = Last(t) /\ Last(t) \in Nat
  <2>1. Len(t) \in 1..Len(t)
    BY <1>6
  <2>2. g[Len(s) + Len(t)] = t[Len(t)]
    BY <1>4, <2>1
  <2> QED BY <1>2, <2>1, <2>2, ElementOfSeq DEF Last
<1> QED BY <1>1, <1>2, <1>3, <1>4, <1>5, <1>6 DEF g

LEMMA GlueEnds ==
    ASSUME NEW s \in Seq(Nat), NEW t \in Seq(Nat)
    PROVE  /\ s # <<>> => Glue(s, t)[1] = s[1]
           /\ t # <<>> => Last(Glue(s, t)) = Last(t)
           /\ t = <<>> => Glue(s, t) = s
           /\ s = <<>> => Glue(s, t) = t
<1>1. (s # <<>> => Glue(s, t)[1] = s[1]) /\ (t # <<>> => Last(Glue(s, t)) = Last(t))
  BY GlueIs
<1>2. Glue(s, <<>>) = s /\ Glue(<<>>, t) = t
  BY ConcatEmptySeq, Zenon DEF Glue
<1> QED BY <1>1, <1>2

LEMMA WrongLength ==
    ASSUME NEW s \in Seq(Nat), NEW t \in Seq(Nat), s # <<>>, Len(s) + Len(t) - 2 # s[1]
    PROVE  ~Accepts(Glue(s, t))
<1>1. Len(Glue(s, t)) = Len(s) + Len(t) /\ Glue(s, t)[1] = s[1]
  BY GlueIs
<1> QED BY <1>1 DEF Accepts

\* Two buffers that differ by what adds up in the bytes before t cannot both
\* have the right checksum.
LEMMA WrongSum ==
    ASSUME NEW u \in Seq(Nat), NEW p \in Seq(Nat), NEW t \in Seq(Nat),
           u # <<>>, p # <<>>, t # <<>>, u[1] = p[1],
           Rem(Sum(u)) # Rem(Sum(p)), Accepts(Glue(u, t))
    PROVE  ~Accepts(Glue(p, t))
<1> SUFFICES ASSUME Accepts(Glue(p, t)) PROVE FALSE
  OBVIOUS
<1> DEFINE f == Glue(u, t)
           g == Glue(p, t)
<1>1. f \in Seq(Nat) /\ f[1] = u[1] /\ Last(f) = Last(t)
  BY GlueIs
<1>2. g \in Seq(Nat) /\ g[1] = p[1] /\ Last(g) = Last(t)
  BY GlueIs
<1>3. Sum(f) = Sum(u) + Sum(t) /\ Sum(g) = Sum(p) + Sum(t)
  BY SumConcat
<1>4. Accepts(f) /\ Accepts(g)
  OBVIOUS
<1> HIDE DEF f, g
<1>5. /\ Len(f) >= 2 /\ Rem(Sum(Inner(f))) = Last(f)
      /\ Len(g) >= 2 /\ Rem(Sum(Inner(g))) = Last(g)
  BY <1>4 DEF Accepts, Checksum, Rem
<1>6. PICK a \in Nat, b \in Nat, c \in Nat, x \in Nat, y \in Nat, z \in Nat :
        /\ a = Sum(Inner(f)) /\ b = Sum(Inner(g)) /\ c = u[1] + Last(t)
        /\ x = Sum(u) /\ y = Sum(p) /\ z = Sum(t)
  <2>1. Sum(u) \in Nat /\ Sum(p) \in Nat /\ Sum(t) \in Nat
    BY SumIsNat
  <2>2. Sum(Inner(f)) \in Nat /\ Sum(Inner(g)) \in Nat
    BY <1>1, <1>2, <1>5, SumParts
  <2>3. u[1] + Last(t) \in Nat
    <3>1. u[1] \in Nat /\ Last(t) \in Nat
      BY GlueIs
    <3> QED BY <3>1
  <2> QED BY <2>1, <2>2, <2>3
<1>7. Rem(a) = Rem(b)
  BY <1>1, <1>2, <1>5, <1>6
<1>8. x + z = a + c /\ y + z = b + c
  <2>1. /\ Sum(f) = (Sum(Inner(f)) + f[1]) + Last(f)
        /\ Sum(g) = (Sum(Inner(g)) + g[1]) + Last(g)
    BY <1>1, <1>2, <1>5, SumParts
  <2>2. u[1] \in Nat /\ Last(t) \in Nat
    BY GlueIs
  <2>3. PICK d \in Nat, e \in Nat : d = u[1] /\ e = Last(t)
    BY <2>2
  <2>4. x + z = (a + d) + e /\ y + z = (b + d) + e /\ c = d + e
    BY <1>1, <1>2, <1>3, <1>6, <2>1, <2>3
  <2> QED BY <2>4
<1>9. Rem(Plus(a, c)) = Rem(Plus(b, c))
  BY <1>7, SameRemainder
<1>10. Plus(a, c) = Plus(x, z) /\ Plus(b, c) = Plus(y, z)
  BY <1>8 DEF Plus
<1>11. Rem(x) = Rem(y)
  BY <1>9, <1>10, SameRemainder
<1> QED BY <1>6, <1>11

\* Two positions in a sequence cut out a part of it.
LEMMA PartIs ==
    ASSUME NEW p, NEW i \in 0..Len(p), NEW j \in 0..Len(p)
    PROVE  SubSeq(p, i + 1, j) \in SubSeqs(p)
BY DEF SubSeqs

\* What the end of a buffer holds between its first and its last byte is an
\* end of the payload.
LEMMA EndOfBuffer ==
    ASSUME NEW p \in Seq(Nat), NEW a \in Seq(Nat), NEW f \in Seq(Nat),
           Glue(a, f) = Buffer(p), Len(f) >= 2
    PROVE  Inner(f) \in SubSeqs(p)
<1> DEFINE n == Len(p)
           m == Len(a)
           q == Inner(f)
           d == SubSeq(p, m + 1, n)
<1>1. /\ Len(f) + m = n + 2 /\ n \in Nat /\ m \in Nat /\ Len(f) \in Nat
      /\ \A i \in 1..n : Buffer(p)[i + 1] = p[i]
      /\ \A i \in 1..Len(f) : Buffer(p)[m + i] = f[i]
  <2>1. Len(Buffer(p)) = n + 2 /\ \A i \in 1..n : Buffer(p)[i + 1] = p[i]
    BY BufferIs
  <2>2. /\ Len(Glue(a, f)) = m + Len(f) /\ n \in Nat /\ m \in Nat /\ Len(f) \in Nat
        /\ \A i \in 1..Len(f) : Glue(a, f)[m + i] = f[i]
    BY GlueIs
  <2>5. m + Len(f) = n + 2 /\ m \in Nat /\ Len(f) \in Nat
    BY <2>1, <2>2, Zenon
  <2>3. Len(f) + m = n + 2
    BY <2>5
  <2>4. \A i \in 1..Len(f) : Buffer(p)[m + i] = f[i]
    BY <2>2
  <2> QED BY <2>1, <2>2, <2>3, <2>4
<1>2. q \in Seq(Nat) /\ Len(q) = n - m /\ \A i \in 1..n - m : q[i] = f[i + 1]
  <2>1. Len(f) - 2 = n - m
    BY <1>1
  <2> QED BY <2>1, InnerIs
<1>3. m <= n
  BY <1>1
<1>4. /\ d \in Seq(Nat) /\ Len(d) = n - m
      /\ \A i \in 1..n - m : d[i] = p[m + i]
  <2>1. ASSUME NEW i \in m + 1..n PROVE p[i] \in Nat
    <3>1. i \in 1..Len(p)
      BY <1>1
    <3> QED BY <3>1, ElementOfSeq
  <2>2. m + 1 \in Int /\ n \in Int
    BY <1>1
  <2>3. /\ d \in Seq(Nat) /\ Len(d) = IF m + 1 <= n THEN n - (m + 1) + 1 ELSE 0
        /\ \A i \in 1..n - (m + 1) + 1 : d[i] = p[(m + 1) + i - 1]
    BY <2>1, <2>2, SubSeqProperties
  <2> HIDE DEF d
  <2>4. /\ n - (m + 1) + 1 = n - m /\ (m + 1 <= n \/ n - m = 0)
        /\ \A i \in 1..n - m : (m + 1) + i - 1 = m + i
    BY <1>1, <1>3
  <2> QED BY <2>3, <2>4
<1> HIDE DEF q, d
<1>5. ASSUME NEW i \in 1..n - m PROVE q[i] = d[i]
  <2>1. /\ i + 1 \in 1..Len(f) /\ m + i \in 1..n /\ (m + i) + 1 = m + (i + 1)
    BY <1>1, <1>3
  <2>2. Buffer(p)[(m + i) + 1] = p[m + i] /\ Buffer(p)[m + (i + 1)] = f[i + 1]
    BY <1>1, <2>1
  <2> QED BY <1>2, <1>4, <2>1, <2>2
<1>6. q = d
  BY <1>2, <1>4, <1>5, SeqEqual
<1>7. m \in 0..Len(p) /\ n \in 0..Len(p)
  BY <1>1, <1>3
<1>8. SubSeq(p, m + 1, n) \in SubSeqs(p)
  <2> HIDE DEF m, n
  <2> QED BY <1>7, PartIs
<1> QED BY <1>6, <1>8, Zenon DEF q, d

-----------------------------------------------------------------------------
(* A buffer on its way.                                                    *)

Coded(r) == Stuffed(r) \o <<END>>

LEMMA CodesAre ==
    /\ START # ESC
    /\ \A b \in {END, ESC} : /\ Code(b) \in Nat /\ Code(b) \notin {END, START, ESC}
                             /\ Unescaped(Code(b)) = b /\ Unescaped(b) = b
    /\ \A b \in Nat : Unescaped(b) \in Nat
<1>1. IsInjective(<<END, START, ESC, ESC_END, ESC_ESC>>)
  BY SlipAssumption
<1>2. /\ START # ESC /\ ESC_END \notin {END, START, ESC} /\ ESC_ESC \notin {END, START, ESC}
      /\ ESC_END # ESC_ESC /\ END # ESC
  BY <1>1 DEF IsInjective
<1>3. ESC_END \in Nat /\ ESC_ESC \in Nat /\ END \in Nat /\ ESC \in Nat
  BY BytesAre
<1> QED BY <1>2, <1>3 DEF Code, Unescaped

LEMMA CodedIs ==
    ASSUME NEW r \in Seq(Nat)
    PROVE  /\ Coded(r) \in Seq(Nat)
           /\ r = <<>> => Coded(r) = Cons(END, <<>>)
           /\ r # <<>> => Head(r) \in Nat /\ Tail(r) \in Seq(Nat)
           /\ r # <<>> /\ Head(r) \notin {END, ESC} => Coded(r) = Cons(Head(r), Coded(Tail(r)))
           /\ r # <<>> /\ Head(r) \in {END, ESC}
                => Coded(r) = Cons(ESC, Cons(Code(Head(r)), Coded(Tail(r))))
<1> DEFINE u == <<END>>
<1>1. u \in Seq(Nat)
  BY BytesAre
<1>2. \A q : Coded(q) = Stuffed(q) \o u
  BY Zenon DEF Coded
<1>3. ASSUME r = <<>> PROVE Coded(r) = Cons(END, <<>>)
  <2>1. <<>> \o <<END>> = <<END>> \o <<>>
    BY BytesAre
  <2> QED BY <1>3, <2>1, StuffedEmpty, Zenon DEF Coded, Cons
<1> HIDE DEF u
<1>4. Coded(r) \in Seq(Nat)
  <2>1. Glue(Stuffed(r), u) \in Seq(Nat)
    BY <1>1, StuffedType, GlueType
  <2> QED BY <1>2, <2>1, Zenon DEF Glue
<1>5. ASSUME r # <<>> PROVE Head(r) \in Nat /\ Tail(r) \in Seq(Nat)
  BY <1>5
<1>6. ASSUME r # <<>>, Head(r) \notin {END, ESC} PROVE Coded(r) = Cons(Head(r), Coded(Tail(r)))
  <2>1. Stuffed(r) \o u = Cons(Head(r), Stuffed(Tail(r)) \o u)
    BY <1>1, <1>6, StuffedThen
  <2> QED BY <1>2, <2>1, Zenon
<1>7. ASSUME r # <<>>, Head(r) \in {END, ESC}
      PROVE  Coded(r) = Cons(ESC, Cons(Code(Head(r)), Coded(Tail(r))))
  <2>1. Stuffed(r) \o u = Cons(ESC, Cons(Code(Head(r)), Stuffed(Tail(r)) \o u))
    BY <1>1, <1>7, StuffedThen
  <2> QED BY <1>2, <2>1, Zenon
<1> QED BY <1>3, <1>4, <1>5, <1>6, <1>7

LEMMA AppendSplits ==
    ASSUME NEW q \in Seq(Nat), NEW c \in Nat
    PROVE  /\ Append(q, c) \in Seq(Nat) /\ Append(q, c) # <<>>
           /\ q = <<>> => Head(Append(q, c)) = c /\ Tail(Append(q, c)) = <<>>
           /\ q # <<>> => Head(Append(q, c)) = Head(q) /\ Tail(Append(q, c)) = Append(Tail(q), c)
<1> DEFINE w == Append(q, c)
           n == Len(q)
<1>1. /\ n \in Nat /\ w \in Seq(Nat) /\ Len(w) = n + 1 /\ w[n + 1] = c
      /\ \A i \in 1..n : w[i] = q[i]
  BY AppendProperties
<1>2. w # <<>> /\ Head(w) = w[1]
  BY <1>1
<1>3. ASSUME q = <<>> PROVE Head(w) = c /\ Tail(w) = <<>>
  BY <1>3
<1>4. ASSUME q # <<>> PROVE Head(w) = Head(q)
  BY <1>4
<1>5. ASSUME q # <<>> PROVE Tail(w) = Append(Tail(q), c)
  <2> DEFINE x == Tail(w)
             y == Append(Tail(q), c)
  <2>1. /\ x \in Seq(Nat) /\ Len(x) = n /\ \A i \in 1..n : x[i] = w[i + 1]
    <3> HIDE DEF w, n
    <3> QED BY <1>1, <1>2
  <2>2. /\ Tail(q) \in Seq(Nat) /\ Len(Tail(q)) = n - 1 /\ \A i \in 1..n - 1 : Tail(q)[i] = q[i + 1]
        /\ n > 0
    BY <1>5
  <2> DEFINE z == Tail(q)
  <2>3. z \in Seq(Nat) /\ Len(z) = n - 1 /\ \A i \in 1..n - 1 : z[i] = q[i + 1]
    BY <2>2
  <2> HIDE DEF x, w, n, z
  <2>4. /\ Append(z, c) \in Seq(Nat) /\ Len(Append(z, c)) = n /\ Append(z, c)[n] = c
        /\ \A i \in 1..n - 1 : Append(z, c)[i] = q[i + 1]
    <3>1. (n - 1) + 1 = n
      BY <1>1
    <3> QED BY <2>3, <3>1, AppendProperties
  <2>5. ASSUME NEW i \in 1..n PROVE x[i] = Append(z, c)[i]
    <3>1. CASE i = n
      BY <1>1, <2>1, <2>4, <3>1
    <3>2. CASE i # n
      <4>1. i \in 1..n - 1 /\ i + 1 \in 1..n
        BY <1>1, <3>2
      <4> QED BY <1>1, <2>1, <2>4, <4>1
    <3> QED BY <3>1, <3>2
  <2>6. x = Append(z, c)
    BY <2>1, <2>4, <2>5, SeqEqual
  <2> QED BY <2>6 DEF x, z
<1> QED BY <1>1, <1>2, <1>3, <1>4, <1>5

\* The checksum travels like a byte of the payload: it needs no escape.
LEMMA RestCoded ==
    ASSUME NEW q \in Seq(Nat), NEW p \in Seq(Nat)
    PROVE  Rest(q, p) = Coded(Append(q, Checksum(p)))
<1> DEFINE c == Checksum(p)
           S == {k \in Nat : \A r \in Seq(Nat) : Len(r) = k => Rest(r, p) = Coded(Append(r, c))}
<1>1. c \in Nat /\ c \notin {END, ESC}
  BY ChecksumIs
<1>2. \A r \in Seq(Nat) : Append(r, c) \in Seq(Nat) /\ Append(r, c) # <<>>
  BY <1>1, AppendSplits
<1>3. 0 \in S
  <2> SUFFICES ASSUME NEW r \in Seq(Nat), Len(r) = 0 PROVE Rest(r, p) = Coded(Append(r, c))
    OBVIOUS
  <2>1. r = <<>>
    OBVIOUS
  <2>2. Rest(r, p) = Cons(c, Cons(END, <<>>))
    BY <2>1, RestIs
  <2> DEFINE w == Append(r, c)
  <2>3. w \in Seq(Nat) /\ w # <<>> /\ Head(w) = c /\ Tail(w) = <<>>
    BY <1>1, <2>1, AppendSplits
  <2> HIDE DEF w, c
  <2>4. Coded(w) = Cons(c, Coded(<<>>))
    BY <1>1, <2>3, CodedIs
  <2>5. Coded(<<>>) = Cons(END, <<>>)
    BY EmptySeq, CodedIs
  <2> QED BY <2>2, <2>4, <2>5 DEF w
<1>4. ASSUME NEW k \in Nat, k \in S PROVE k + 1 \in S
  <2> SUFFICES ASSUME NEW r \in Seq(Nat), Len(r) = k + 1 PROVE Rest(r, p) = Coded(Append(r, c))
    OBVIOUS
  <2> DEFINE w == Append(r, c)
  <2>1. r # <<>> /\ Tail(r) \in Seq(Nat) /\ Len(Tail(r)) = k
    OBVIOUS
  <2>2. Rest(Tail(r), p) = Coded(Append(Tail(r), c))
    BY <1>4, <2>1
  <2>3. w \in Seq(Nat) /\ w # <<>> /\ Head(w) = Head(r) /\ Tail(w) = Append(Tail(r), c)
    BY <1>1, <2>1, AppendSplits
  <2> HIDE DEF w, c, S
  <2>4. CASE Head(r) \notin {END, ESC}
    <3>1. Rest(r, p) = Cons(Head(r), Rest(Tail(r), p))
      BY <2>1, <2>4, RestIs
    <3>2. Coded(w) = Cons(Head(w), Coded(Tail(w)))
      BY <2>3, <2>4, CodedIs
    <3> QED BY <2>2, <2>3, <3>1, <3>2, Zenon DEF w
  <2>5. CASE Head(r) \in {END, ESC}
    <3>1. Rest(r, p) = Cons(ESC, Cons(Code(Head(r)), Rest(Tail(r), p)))
      BY <2>1, <2>5, RestIs
    <3>2. Coded(w) = Cons(ESC, Cons(Code(Head(w)), Coded(Tail(w))))
      BY <2>3, <2>5, CodedIs
    <3> QED BY <2>2, <2>3, <3>1, <3>2, Zenon DEF w
  <2> QED BY <2>4, <2>5 DEF w
<1> HIDE DEF S
<1>5. \A k \in Nat : k \in S
  BY <1>3, <1>4, Induction
<1>6. Len(q) \in Nat
  OBVIOUS
<1> QED BY <1>5, <1>6 DEF S

\* The first and the last byte of a buffer are not escaped, and the frame is
\* the whole buffer between the control bytes.
LEMMA FramedCoded ==
    ASSUME NEW p \in Seq(Nat), Len(p) <= MaxSize
    PROVE  /\ Len(p) \notin {END, ESC} /\ Checksum(p) \notin {END, ESC}
           /\ Framed(p) = Cons(END, Cons(START, Coded(Buffer(p))))
<1> DEFINE n == Len(p)
           c == Checksum(p)
           h == Cons(n, p)
           w == Append(h, c)
<1>1. n \in Nat /\ c \in Nat /\ c \notin {END, ESC}
  BY ChecksumIs
<1>2. n \notin {END, ESC}
  <2>1. MaxSize < END /\ MaxSize < ESC
    BY SlipAssumption
  <2> QED BY <1>1, <2>1, BytesAre
<1>3. h \in Seq(Nat) /\ h # <<>> /\ Head(h) = n /\ Tail(h) = p
  BY <1>1, ConsIs
<1> HIDE DEF n, c, h
<1>4. w \in Seq(Nat) /\ w # <<>> /\ Head(w) = n /\ Tail(w) = Append(p, c)
  BY <1>1, <1>3, AppendSplits
<1> HIDE DEF w
<1>5. Coded(w) = Cons(n, Coded(Append(p, c)))
  BY <1>2, <1>4, CodedIs
<1>6. Framed(p) = Cons(END, Cons(START, Cons(n, Rest(p, p))))
  BY FramedIs DEF n
<1>7. Rest(p, p) = Coded(Append(p, c))
  BY RestCoded DEF c
<1>8. w = Buffer(p)
  BY DEF w, h, n, c, Buffer
<1>9. Framed(p) = Cons(END, Cons(START, Coded(Buffer(p))))
  BY <1>5, <1>6, <1>7, <1>8, Zenon
<1> QED BY <1>1, <1>2, <1>9 DEF n, c

-----------------------------------------------------------------------------
(* Where the server is in a frame when f is what it has and will store.    *)

\* In the frame as it was sent, or between an ESC and its code.
InFrame(f) == \E r \in Seq(Nat) :
    mode = "SLIP" /\ line = Coded(r) /\ f = Glue(slipBuf, r)
InCode(f) == \E r \in Seq(Nat), b \in {END, ESC} :
    mode = "ESC" /\ line = Cons(Code(b), Coded(r)) /\ f = Glue(Append(slipBuf, b), r)

\* Before a code whose ESC it has not seen, or behind an ESC whose code it
\* will not see.
AtCode(f) == \E r \in Seq(Nat), b \in {END, ESC} :
    mode = "SLIP" /\ line = Cons(Code(b), Coded(r)) /\ f = Glue(Append(slipBuf, Code(b)), r)
NoCode(f) == \E r \in Seq(Nat) :
    /\ mode = "ESC" /\ line = Coded(r) /\ r # <<>>
    /\ \/ Head(r) \notin {END, ESC} /\ f = Glue(Append(slipBuf, Unescaped(Head(r))), Tail(r))
       \/ Head(r) \in {END, ESC} /\ f = Glue(Append(Append(slipBuf, ESC), Code(Head(r))), Tail(r))

LEMMA ByteRead ==
    ASSUME SlipInv, ReadByte, NEW b \in Nat, NEW s \in Seq(Nat), line = Cons(b, s)
    PROVE  /\ line' = s /\ sent' = sent /\ before' = before /\ faults' = faults /\ Read(b)
<1>1. line' = Tail(line) /\ Read(Head(line))
  BY DEF ReadByte
<1>2. sent' = sent /\ before' = before /\ faults' = faults
  BY DEF ReadByte, frameVars
<1> QED BY <1>1, <1>2, ConsIs

LEMMA Stored ==
    ASSUME SlipInv, NEW b \in Nat, NEW r \in Seq(Nat), NEW f,
           f = Glue(Append(slipBuf, b), r), Len(f) <= BufSize, Store(b)
    PROVE  slipBuf' = Append(slipBuf, b)
<1>1. slipBuf \in Seq(Nat)
  BY DEF SlipInv, TypeOK
<1>2. Append(slipBuf, b) \in Seq(Nat) /\ Len(Append(slipBuf, b)) = Len(slipBuf) + 1 /\ Len(slipBuf) \in Nat
  BY <1>1, AppendProperties, LenProperties
<1>3. Len(f) = Len(Append(slipBuf, b)) + Len(r) /\ Len(r) \in Nat
  BY <1>2, GlueIs
<1>4. Len(slipBuf) < BufSize
  BY <1>2, <1>3, BytesAre
<1> QED BY <1>4 DEF Store

LEMMA GlueTail ==
    ASSUME NEW s \in Seq(Nat), NEW r \in Seq(Nat), r # <<>>
    PROVE  Glue(Append(s, Head(r)), Tail(r)) = Glue(s, r)
BY AppendTail, Zenon DEF Glue

\* Reading leaves f as it is, up to the END, which hands over what f carries
\* if f is accepted.
LEMMA ReadInFrame ==
    ASSUME SlipInv, ReadByte, NEW f, Len(f) <= BufSize, InFrame(f)
    PROVE  \/ (InFrame(f)' \/ InCode(f)') /\ got' = got
           \/ /\ line' = <<>> /\ mode' = "ASCII"
              /\ IF Accepts(f) THEN ToClient(Inner(f)) ELSE got' = got
<1>1. PICK r \in Seq(Nat) : mode = "SLIP" /\ line = Coded(r) /\ f = Glue(slipBuf, r)
  BY DEF InFrame
<1>2. slipBuf \in Seq(Nat) /\ END \in Nat /\ ESC \in Nat
  BY BytesAre DEF SlipInv, TypeOK
<1>3. CASE r = <<>>
  <2>1. line = Cons(END, <<>>) /\ <<>> \in Seq(Nat)
    BY <1>1, <1>3, CodedIs, EmptySeq
  <2>2. line' = <<>> /\ Read(END)
    BY <1>2, <2>1, ByteRead
  <2>3. ReadEnd(END)
    BY <1>1, <2>2, ReadIs
  <2>4. slipBuf = f
    <3>1. Glue(slipBuf, <<>>) = slipBuf
      BY <1>2, ConcatEmptySeq, Zenon DEF Glue
    <3> QED BY <1>1, <1>3, <3>1
  <2>5. mode' = "ASCII" /\ IF Valid THEN ToClient(Contents) ELSE got' = got
    BY <2>3 DEF ReadEnd
  <2>6. (Valid <=> Accepts(f)) /\ Contents = Inner(f)
    BY <2>4 DEF Valid, Contents, Accepts, Inner
  <2> QED BY <2>2, <2>5, <2>6
<1>4. CASE r # <<>> /\ Head(r) \notin {END, ESC}
  <2> DEFINE b == Head(r)
             q == Tail(r)
  <2>1. line = Cons(b, Coded(q)) /\ b \in Nat /\ q \in Seq(Nat)
    BY <1>1, <1>4, CodedIs
  <2>2. Coded(q) \in Seq(Nat)
    BY <2>1, CodedIs
  <2>3. f = Glue(Append(slipBuf, b), q)
    BY <1>1, <1>2, <1>4, GlueTail
  <2>4. b \notin {END, ESC}
    BY <1>4
  <2> HIDE DEF b, q
  <2>5. line' = Coded(q) /\ Read(b)
    BY <2>1, <2>2, ByteRead
  <2>6. ReadData(b)
    BY <1>1, <2>4, <2>5, ReadIs
  <2>7. mode' = "SLIP" /\ got' = got /\ Store(b)
    BY <1>1, <2>6 DEF ReadData
  <2>8. slipBuf' = Append(slipBuf, b)
    BY <2>1, <2>3, <2>7, Stored
  <2>9. InFrame(f)'
    BY <2>1, <2>3, <2>5, <2>7, <2>8 DEF InFrame
  <2> QED BY <2>7, <2>9
<1>5. CASE r # <<>> /\ Head(r) \in {END, ESC}
  <2> DEFINE b == Head(r)
             q == Tail(r)
  <2>1. line = Cons(ESC, Cons(Code(b), Coded(q))) /\ b \in {END, ESC} /\ q \in Seq(Nat)
    BY <1>1, <1>5, CodedIs
  <2>2. f = Glue(Append(slipBuf, b), q)
    BY <1>1, <1>2, <1>5, GlueTail
  <2> HIDE DEF b, q
  <2>3. Cons(Code(b), Coded(q)) \in Seq(Nat)
    BY <2>1, CodedIs, CodesAre, ConsIs
  <2>4. line' = Cons(Code(b), Coded(q)) /\ Read(ESC)
    BY <1>2, <2>1, <2>3, ByteRead
  <2>5. ReadEsc(ESC)
    BY <1>1, <2>4, ReadIs
  <2>6. mode' = "ESC" /\ slipBuf' = slipBuf /\ got' = got
    BY <2>5 DEF ReadEsc
  <2>7. InCode(f)'
    BY <2>1, <2>2, <2>4, <2>6 DEF InCode
  <2> QED BY <2>6, <2>7
<1> QED BY <1>3, <1>4, <1>5

LEMMA ReadInCode ==
    ASSUME SlipInv, ReadByte, NEW f, Len(f) <= BufSize, InCode(f) \/ AtCode(f)
    PROVE  InFrame(f)' /\ got' = got
<1>1. PICK r \in Seq(Nat), b \in {END, ESC} :
        /\ line = Cons(Code(b), Coded(r))
        /\ \/ mode = "ESC" /\ f = Glue(Append(slipBuf, b), r)
           \/ mode = "SLIP" /\ f = Glue(Append(slipBuf, Code(b)), r)
  BY DEF InCode, AtCode
<1>2. /\ Code(b) \in Nat /\ Code(b) \notin {END, ESC} /\ Unescaped(Code(b)) = b /\ b \in Nat
      /\ Coded(r) \in Seq(Nat)
  BY CodesAre, CodedIs, BytesAre
<1>3. line' = Coded(r) /\ Read(Code(b))
  BY <1>1, <1>2, ByteRead
<1>4. PICK c \in Nat : f = Glue(Append(slipBuf, c), r) /\ mode' = "SLIP" /\ got' = got /\ Store(c)
  <2>1. CASE mode = "ESC"
    <3>1. ReadEscaped(Code(b))
      BY <1>3, <2>1, ReadIs
    <3>2. mode' = "SLIP" /\ got' = got /\ Store(b)
      BY <1>2, <3>1 DEF ReadEscaped
    <3> QED BY <1>1, <1>2, <2>1, <3>2
  <2>2. CASE mode = "SLIP"
    <3>1. ReadData(Code(b))
      BY <1>2, <1>3, <2>2, ReadIs
    <3>2. mode' = "SLIP" /\ got' = got /\ Store(Code(b))
      BY <2>2, <3>1 DEF ReadData
    <3> QED BY <1>1, <1>2, <2>2, <3>2
  <2> QED BY <1>1, <2>1, <2>2
<1>5. slipBuf' = Append(slipBuf, c)
  BY <1>4, Stored
<1> QED BY <1>3, <1>4, <1>5 DEF InFrame

LEMMA ReadNoCode ==
    ASSUME SlipInv, ReadByte, NEW f, Len(f) <= BufSize, NoCode(f)
    PROVE  (InFrame(f)' \/ AtCode(f)') /\ got' = got
<1>1. PICK r \in Seq(Nat) :
        /\ mode = "ESC" /\ line = Coded(r) /\ r # <<>>
        /\ \/ Head(r) \notin {END, ESC} /\ f = Glue(Append(slipBuf, Unescaped(Head(r))), Tail(r))
           \/ Head(r) \in {END, ESC} /\ f = Glue(Append(Append(slipBuf, ESC), Code(Head(r))), Tail(r))
  BY DEF NoCode
<1> DEFINE b == Head(r)
           q == Tail(r)
<1>2. b \in Nat /\ q \in Seq(Nat) /\ slipBuf \in Seq(Nat) /\ ESC \in Nat
  BY <1>1, CodedIs, BytesAre DEF SlipInv, TypeOK
<1>3. Coded(q) \in Seq(Nat) /\ Unescaped(b) \in Nat
  BY <1>2, CodedIs, CodesAre
<1>4. CASE b \notin {END, ESC}
  <2>1. line = Cons(b, Coded(q)) /\ f = Glue(Append(slipBuf, Unescaped(b)), q)
    BY <1>1, <1>4, CodedIs
  <2> HIDE DEF b, q
  <2>2. line' = Coded(q) /\ Read(b)
    BY <1>2, <1>3, <2>1, ByteRead
  <2>3. ReadEscaped(b)
    BY <1>1, <2>2, ReadIs
  <2>4. mode' = "SLIP" /\ got' = got /\ Store(Unescaped(b))
    BY <2>3 DEF ReadEscaped
  <2>5. slipBuf' = Append(slipBuf, Unescaped(b))
    BY <1>2, <1>3, <2>1, <2>4, Stored
  <2>6. InFrame(f)'
    BY <1>2, <2>1, <2>2, <2>4, <2>5 DEF InFrame
  <2> QED BY <2>4, <2>6
<1>5. CASE b \in {END, ESC}
  <2>1. line = Cons(ESC, Cons(Code(b), Coded(q))) /\ f = Glue(Append(Append(slipBuf, ESC), Code(b)), q)
    BY <1>1, <1>5, CodedIs
  <2>2. Code(b) \in Nat /\ Unescaped(ESC) = ESC
    BY <1>5, CodesAre
  <2> HIDE DEF b, q
  <2>3. Cons(Code(b), Coded(q)) \in Seq(Nat)
    BY <1>3, <2>2, ConsIs
  <2>4. line' = Cons(Code(b), Coded(q)) /\ Read(ESC)
    BY <1>2, <2>1, <2>3, ByteRead
  <2>5. ReadEscaped(ESC)
    BY <1>1, <2>4, ReadIs
  <2>6. mode' = "SLIP" /\ got' = got /\ Store(ESC)
    BY <2>2, <2>5 DEF ReadEscaped
  <2>7. slipBuf' = Append(slipBuf, ESC)
    <3> DEFINE s == Append(slipBuf, ESC)
               d == Append(s, Code(b))
    <3>1. s \in Seq(Nat) /\ Len(s) = Len(slipBuf) + 1 /\ Len(slipBuf) \in Nat
      BY <1>2, AppendProperties, LenProperties
    <3> HIDE DEF s
    <3>2. d \in Seq(Nat) /\ Len(d) = Len(s) + 1
      BY <2>2, <3>1, AppendProperties
    <3>3. f = Glue(d, q)
      BY <2>1 DEF s
    <3> HIDE DEF d
    <3>4. Len(f) = Len(d) + Len(q) /\ Len(q) \in Nat
      BY <1>2, <3>2, <3>3, GlueIs
    <3>5. Len(slipBuf) < BufSize
      BY <3>1, <3>2, <3>4, BytesAre
    <3> QED BY <2>6, <3>5 DEF Store
  <2>8. AtCode(f)'
    BY <1>2, <1>5, <2>1, <2>4, <2>6, <2>7 DEF AtCode
  <2> QED BY <2>6, <2>8
<1> QED BY <1>4, <1>5

-----------------------------------------------------------------------------
(* One byte lost from a frame, or printed into it.                         *)

\* One byte at most is lost or printed in each frame and a whole frame with
\* one byte more still fits the server's buffer.  What is printed is text: its
\* bytes are at most CheckMod, so none is the length of a frame that another
\* byte left with the same sum.  The checksum tells a control byte from its
\* code, also behind an ESC.  The constants of the code are such: 128, 1023,
\* ASCII, and the bytes of slip.h.
SingleFault ==
    /\ MaxFaults <= 1 /\ MaxSize + 2 < BufSize
    /\ \A t \in Text : t <= CheckMod
    /\ \A x \in {END, ESC} : Code(x) % CheckMod # x % CheckMod
    /\ \A x, y \in {END, ESC} : (ESC + Code(y)) % CheckMod # (x + y) % CheckMod

Harmless(f) == Accepts(f) => Inner(f) \in SubSeqs(sent)

Damaged == \E f \in Seq(Nat) :
    /\ InFrame(f) \/ InCode(f) \/ AtCode(f) \/ NoCode(f)
    /\ Harmless(f) /\ Len(f) <= BufSize

Leftover(p) == mode = "SLIP" /\ slipBuf = Buffer(p)

LEMMA DamagedByte ==
    ASSUME NEW f \in Seq(Nat), Accepts(f) => Inner(f) \in SubSeqs(sent'), Len(f) <= BufSize,
           NEW q \in Seq(Nat), mode' = "SLIP", line' = Coded(q), f = Glue(slipBuf', q)
    PROVE  Damaged'
<1>1. \E x \in Seq(Nat) : mode' = "SLIP" /\ line' = Coded(x) /\ f = Glue(slipBuf', x)
  OBVIOUS
<1> QED BY <1>1, Zenon DEF Damaged, InFrame, InCode, AtCode, NoCode, Harmless

LEMMA DamagedEscape ==
    ASSUME NEW f \in Seq(Nat), Accepts(f) => Inner(f) \in SubSeqs(sent'), Len(f) <= BufSize,
           NEW q \in Seq(Nat), NEW b \in {END, ESC}, mode' = "SLIP",
           line' = Cons(Code(b), Coded(q)), f = Glue(Append(slipBuf', Code(b)), q)
    PROVE  Damaged'
<1>1. \E x \in Seq(Nat), y \in {END, ESC} :
        /\ mode' = "SLIP" /\ line' = Cons(Code(y), Coded(x))
        /\ f = Glue(Append(slipBuf', Code(y)), x)
  OBVIOUS
<1> QED BY <1>1, Zenon DEF Damaged, InFrame, InCode, AtCode, NoCode, Harmless

LEMMA DamagedCode ==
    ASSUME NEW f \in Seq(Nat), Accepts(f) => Inner(f) \in SubSeqs(sent'), Len(f) <= BufSize,
           NEW r \in Seq(Nat), mode' = "ESC", line' = Coded(r), r # <<>>,
           \/ Head(r) \notin {END, ESC} /\ f = Glue(Append(slipBuf', Unescaped(Head(r))), Tail(r))
           \/ Head(r) \in {END, ESC} /\ f = Glue(Append(Append(slipBuf', ESC), Code(Head(r))), Tail(r))
    PROVE  Damaged'
<1>1. \E x \in Seq(Nat) :
        /\ mode' = "ESC" /\ line' = Coded(x) /\ x # <<>>
        /\ \/ Head(x) \notin {END, ESC} /\ f = Glue(Append(slipBuf', Unescaped(Head(x))), Tail(x))
           \/ Head(x) \in {END, ESC} /\ f = Glue(Append(Append(slipBuf', ESC), Code(Head(x))), Tail(x))
  OBVIOUS
<1> QED BY <1>1, Zenon DEF Damaged, InFrame, InCode, AtCode, NoCode, Harmless

LEMMA AppendIs ==
    ASSUME NEW s \in Seq(Nat), NEW c \in Nat
    PROVE  /\ Append(s, c) \in Seq(Nat) /\ Append(s, c) # <<>> /\ Len(Append(s, c)) = Len(s) + 1
           /\ Len(s) \in Nat
           /\ s # <<>> => Append(s, c)[1] = s[1]
           /\ s = <<>> => Append(s, c)[1] = c
           /\ Last(Append(s, c)) = c
           /\ Sum(Append(s, c)) = Plus(c, Sum(s)) /\ Sum(s) \in Nat
<1>1. Sum(Append(s, c)) = Sum(s) + c /\ Sum(s) \in Nat
  BY SumAppend, SumIsNat
<1>2. Sum(Append(s, c)) = Plus(c, Sum(s))
  BY <1>1 DEF Plus
<1>3. /\ Append(s, c) \in Seq(Nat) /\ Append(s, c) # <<>> /\ Len(Append(s, c)) = Len(s) + 1
      /\ Len(s) \in Nat
      /\ s # <<>> => Append(s, c)[1] = s[1]
      /\ s = <<>> => Append(s, c)[1] = c
  OBVIOUS
<1>4. Last(Append(s, c)) = c
  <2>1. Append(s, c)[Len(s) + 1] = c
    OBVIOUS
  <2> QED BY <1>3, <2>1 DEF Last
<1> QED BY <1>1, <1>2, <1>3, <1>4

\* What the payload's frame has, for the steps below.
LEMMA SentFrame ==
    ASSUME SlipInv, SingleFault, sent # <<>>
    PROVE  /\ sent \in Seq(Nat) /\ Len(sent) \in Nat /\ Len(sent) > 0 /\ Len(sent) + 3 <= BufSize
           /\ Len(sent) \notin {END, ESC} /\ Checksum(sent) \notin {END, ESC}
           /\ Buffer(sent) \in Seq(Nat) /\ Len(Buffer(sent)) = Len(sent) + 2
           /\ Buffer(sent)[1] = Len(sent) /\ Last(Buffer(sent)) = Checksum(sent)
           /\ slipBuf \in Seq(Nat)
<1>1. sent \in Seq(Nat) /\ Len(sent) <= MaxSize
  BY SentType DEF SlipInv
<1>2. Len(sent) \in Nat /\ Len(sent) > 0
  BY <1>1
<1>3. MaxSize + 2 < BufSize
  BY DEF SingleFault
<1>4. Len(sent) + 3 <= BufSize
  BY <1>1, <1>2, <1>3, BytesAre
<1>5. slipBuf \in Seq(Nat)
  BY DEF SlipInv, TypeOK
<1> QED BY <1>1, <1>2, <1>4, <1>5, FramedCoded, BufferIs

\* A lost byte makes the buffer too short, or leaves an end of it; a lost ESC
\* changes the sum.
LEMMA LoseInFrame ==
    ASSUME SlipInv, SingleFault, sent # <<>>, InFrame(Buffer(sent)),
           line' = Tail(line), mode' = mode, slipBuf' = slipBuf, sent' = sent
    PROVE  Damaged' \/ (line' = <<>> /\ Leftover(sent)')
<1> DEFINE B == Buffer(sent)
           n == Len(sent)
<1>1. /\ sent \in Seq(Nat) /\ n \in Nat /\ n > 0 /\ n + 3 <= BufSize
      /\ n \notin {END, ESC} /\ Checksum(sent) \notin {END, ESC}
      /\ B \in Seq(Nat) /\ Len(B) = n + 2 /\ B[1] = n /\ Last(B) = Checksum(sent)
      /\ slipBuf \in Seq(Nat)
  BY SentFrame
<1>2. PICK r \in Seq(Nat) : mode = "SLIP" /\ line = Coded(r) /\ B = Glue(slipBuf, r)
  BY DEF InFrame
<1>3. PICK b : b = slipBuf
  OBVIOUS
<1>4. b \in Seq(Nat) /\ b = slipBuf' /\ B = Glue(b, r)
  BY <1>1, <1>2, <1>3
<1>5. PICK p : p = sent
  OBVIOUS
<1>6. CASE r = <<>>
  <2>1. line = Cons(END, <<>>) /\ <<>> \in Seq(Nat)
    BY <1>2, <1>6, CodedIs, EmptySeq
  <2>2. line' = <<>>
    BY <2>1, ConsIs, BytesAre
  <2>3. Glue(slipBuf, <<>>) = slipBuf
    BY <1>1, ConcatEmptySeq, Zenon DEF Glue
  <2>4. slipBuf = Buffer(sent)
    BY <1>2, <1>6, <2>3
  <2> QED BY <1>2, <2>2, <2>4 DEF Leftover
<1>7. CASE r # <<>>
  <2> DEFINE h == Head(r)
             q == Tail(r)
  <2>1. h \in Nat /\ q \in Seq(Nat) /\ Coded(q) \in Seq(Nat) /\ Len(r) = Len(q) + 1 /\ Len(q) \in Nat
    <3>1. h \in Nat /\ q \in Seq(Nat) /\ Len(r) = Len(q) + 1 /\ Len(q) \in Nat
      BY <1>7
    <3> HIDE DEF h, q
    <3> QED BY <3>1, CodedIs
  <2>2. B = Glue(Append(b, h), q)
    BY <1>4, <1>7, GlueTail
  <2>3. Len(B) = Len(b) + Len(r) /\ Len(b) \in Nat
    <3> HIDE DEF B
    <3> QED BY <1>4, GlueIs
  <2>4. b # <<>> => B[1] = b[1]
    BY <1>4, GlueEnds
  <2>5. CASE h \notin {END, ESC}
    <3>1. line' = Coded(q)
      <4>1. line = Cons(h, Coded(q))
        BY <1>2, <1>7, <2>5, CodedIs
      <4> QED BY <2>1, <4>1, ConsIs
    <3> DEFINE f == Glue(b, q)
    <3>2. f \in Seq(Nat) /\ Len(f) = Len(b) + Len(q)
      BY <1>4, <2>1, GlueIs
    <3>3. Accepts(f) => Inner(f) \in SubSeqs(sent)
      <4>1. CASE b = <<>>
        <5>1. f = q
          BY <2>1, <4>1, ConcatEmptySeq, Zenon DEF Glue
        <5>2. Append(b, h) \in Seq(Nat)
          BY <1>4, <2>1, AppendIs
        <5>3. Len(q) >= 2 => Inner(q) \in SubSeqs(sent)
          BY <1>1, <2>1, <2>2, <5>2, EndOfBuffer
        <5> QED BY <5>1, <5>3 DEF Accepts
      <4>2. CASE b # <<>>
        <5>1. Len(b) + Len(q) - 2 # b[1]
          <6>1. /\ n + 2 = Len(b) + Len(r) /\ Len(r) = Len(q) + 1 /\ b[1] = n
                /\ n \in Nat /\ Len(b) \in Nat /\ Len(q) \in Nat
            BY <1>1, <2>1, <2>3, <2>4, <4>2, Zenon
          <6> HIDE DEF B, n, h, q, f
          <6> QED BY <6>1
        <5> QED BY <1>4, <2>1, <4>2, <5>1, WrongLength
      <4> QED BY <4>1, <4>2
    <3>4. Len(f) <= BufSize
      BY <1>1, <2>1, <2>3, <3>2, BytesAre
    <3>5. q \in Seq(Nat) /\ mode' = "SLIP" /\ line' = Coded(q) /\ f = Glue(slipBuf', q)
      BY <1>2, <1>4, <2>1, <3>1
    <3>6. Accepts(f) => Inner(f) \in SubSeqs(sent')
      BY <3>3
    <3> HIDE DEF f, q, h
    <3> QED BY <3>2, <3>4, <3>5, <3>6, DamagedByte
  <2>6. CASE h \in {END, ESC}
    <3>1. Code(h) \in Nat
      BY <2>6, CodesAre
    <3>2. line' = Cons(Code(h), Coded(q))
      <4>1. line = Cons(ESC, Cons(Code(h), Coded(q)))
        BY <1>2, <1>7, <2>6, CodedIs
      <4> HIDE DEF h, q
      <4>2. Cons(Code(h), Coded(q)) \in Seq(Nat)
        BY <2>1, <3>1, ConsIs
      <4> QED BY <4>1, <4>2, ConsIs, BytesAre
    <3> HIDE DEF h, q
    <3> DEFINE u == Append(b, h)
               w == Append(b, Code(h))
               f == Glue(w, q)
    <3>3. u \in Seq(Nat) /\ u # <<>> /\ Len(u) = Len(b) + 1 /\ Sum(u) = Plus(h, Sum(b)) /\ Sum(b) \in Nat
      BY <1>4, <2>1, AppendIs
    <3>4. w \in Seq(Nat) /\ w # <<>> /\ Len(w) = Len(b) + 1 /\ Sum(w) = Plus(Code(h), Sum(b))
      BY <1>4, <3>1, AppendIs
    <3>5. b # <<>>
      <4> SUFFICES ASSUME b = <<>> PROVE FALSE
        OBVIOUS
      <4>1. u[1] = h
        BY <1>4, <2>1, AppendIs
      <4>2. B[1] = u[1]
        BY <2>1, <2>2, <3>3, GlueEnds
      <4> QED BY <1>1, <2>6, <4>1, <4>2
    <3>6. u[1] = b[1] /\ w[1] = b[1] /\ Last(u) = h
      BY <1>4, <2>1, <3>1, <3>5, AppendIs
    <3>7. q # <<>>
      <4> SUFFICES ASSUME q = <<>> PROVE FALSE
        OBVIOUS
      <4>1. Glue(u, <<>>) = u
        BY <3>3, ConcatEmptySeq, Zenon DEF Glue
      <4> QED BY <1>1, <2>2, <2>6, <3>6, <4>1
    <3>8. Rem(Sum(u)) # Rem(Sum(w))
      <4>1. Rem(h) # Rem(Code(h))
        BY <2>6 DEF SingleFault, Rem
      <4> QED BY <2>1, <3>1, <3>3, <3>4, <4>1, SameRemainder
    <3>9. Accepts(Glue(u, q))
      BY <1>1, <2>2, BufferIs
    <3>10. ~Accepts(f)
      <4> HIDE DEF u, w
      <4> QED BY <2>1, <3>3, <3>4, <3>6, <3>7, <3>8, <3>9, WrongSum
    <3>11. f \in Seq(Nat) /\ Len(f) <= BufSize
      <4>1. f \in Seq(Nat) /\ Len(f) = Len(w) + Len(q)
        BY <2>1, <3>4, GlueIs
      <4> HIDE DEF f, w
      <4> QED BY <1>1, <2>1, <2>3, <3>4, <4>1, BytesAre
    <3>12. /\ q \in Seq(Nat) /\ h \in {END, ESC} /\ mode' = "SLIP" /\ line' = Cons(Code(h), Coded(q))
           /\ f = Glue(Append(slipBuf', Code(h)), q)
      BY <1>2, <1>4, <2>1, <2>6, <3>2
    <3> HIDE DEF f
    <3> QED BY <3>10, <3>11, <3>12, DamagedEscape
  <2> QED BY <2>5, <2>6
<1> QED BY <1>6, <1>7

\* So does a lost code: the next byte is taken for it.
LEMMA LoseInCode ==
    ASSUME SlipInv, SingleFault, sent # <<>>, InCode(Buffer(sent)),
           line' = Tail(line), mode' = mode, slipBuf' = slipBuf, sent' = sent
    PROVE  Damaged'
<1> DEFINE B == Buffer(sent)
           n == Len(sent)
<1>1. /\ sent \in Seq(Nat) /\ n \in Nat /\ n > 0 /\ n + 3 <= BufSize
      /\ n \notin {END, ESC} /\ Checksum(sent) \notin {END, ESC}
      /\ B \in Seq(Nat) /\ Len(B) = n + 2 /\ B[1] = n /\ Last(B) = Checksum(sent)
      /\ slipBuf \in Seq(Nat)
  BY SentFrame
<1>2. PICK r \in Seq(Nat), c \in {END, ESC} :
        mode = "ESC" /\ line = Cons(Code(c), Coded(r)) /\ B = Glue(Append(slipBuf, c), r)
  BY DEF InCode
<1>3. PICK b : b = slipBuf
  OBVIOUS
<1> DEFINE u == Append(b, c)
<1>4. b \in Seq(Nat) /\ b = slipBuf' /\ B = Glue(u, r) /\ c \in Nat
  BY <1>1, <1>2, <1>3, BytesAre
<1>5. u \in Seq(Nat) /\ u # <<>> /\ Last(u) = c /\ Len(u) = Len(b) + 1 /\ Len(b) \in Nat
  BY <1>4, AppendIs
<1>6. b # <<>> /\ u[1] = b[1] /\ b[1] = n
  <2>1. B[1] = u[1]
    <3> HIDE DEF u, B
    <3> QED BY <1>4, <1>5, GlueEnds
  <2>2. b = <<>> => u[1] = c
    BY <1>4, AppendIs
  <2>3. b # <<>> => u[1] = b[1]
    BY <1>4, AppendIs
  <2> QED BY <1>1, <2>1, <2>2, <2>3
<1> HIDE DEF u, B
<1>7. r # <<>>
  <2> SUFFICES ASSUME r = <<>> PROVE FALSE
    OBVIOUS
  <2>1. B = u
    BY <1>4, <1>5, GlueEnds
  <2> QED BY <1>1, <1>5, <2>1
<1>8. line' = Coded(r) /\ mode' = "ESC"
  <2>1. Code(c) \in Nat /\ Coded(r) \in Seq(Nat)
    BY CodesAre, CodedIs
  <2> QED BY <1>2, <2>1, ConsIs
<1>9. Len(B) = Len(u) + Len(r)
  BY <1>4, <1>5, GlueIs
<1> DEFINE h == Head(r)
           q == Tail(r)
<1>10. h \in Nat /\ q \in Seq(Nat) /\ Len(r) = Len(q) + 1 /\ Len(q) \in Nat
  BY <1>7
<1>13. Len(b) + Len(q) = n
  <2>1. Len(B) = n + 2 /\ n \in Nat
    BY <1>1
  <2>2. Len(u) = Len(b) + 1 /\ Len(b) \in Nat /\ Len(r) = Len(q) + 1 /\ Len(q) \in Nat
    BY <1>5, <1>10
  <2> HIDE DEF h, q, n
  <2> QED BY <1>9, <2>1, <2>2
<1>14. n + 3 <= BufSize /\ BufSize \in Nat /\ n \in Nat
  BY <1>1, BytesAre
<1> HIDE DEF n
<1>11. CASE h \notin {END, ESC}
  <2>1. Unescaped(h) \in Nat
    BY <1>10, CodesAre
  <2> HIDE DEF h, q
  <2> DEFINE w == Append(b, Unescaped(h))
             f == Glue(w, q)
  <2>2. w \in Seq(Nat) /\ w # <<>> /\ w[1] = n /\ Len(w) = Len(b) + 1
    BY <1>4, <1>6, <2>1, AppendIs
  <2> HIDE DEF w
  <2>3. f \in Seq(Nat) /\ Len(f) = Len(w) + Len(q)
    BY <1>10, <2>2, GlueIs
  <2>4. Len(w) + Len(q) - 2 # w[1] /\ Len(w) + Len(q) <= BufSize
    <3>1. Len(b) \in Nat /\ Len(q) \in Nat
      BY <1>5, <1>10
    <3> QED BY <1>13, <1>14, <2>2, <3>1
  <2>5. ~Accepts(f)
    BY <1>10, <2>2, <2>4, WrongLength
  <2>6. f = Glue(Append(slipBuf', Unescaped(h)), q)
    BY <1>4 DEF w
  <2>7. Len(f) <= BufSize
    BY <2>3, <2>4
  <2> HIDE DEF f
  <2> QED BY <1>7, <1>8, <1>11, <2>3, <2>5, <2>6, <2>7, DamagedCode DEF h, q
<1>12. CASE h \in {END, ESC}
  <2>1. Code(h) \in Nat /\ ESC \in Nat
    BY <1>12, CodesAre, BytesAre
  <2>2. B = Glue(Append(u, h), q)
    BY <1>4, <1>5, <1>7, GlueTail
  <2> HIDE DEF h, q
  <2> DEFINE x == Append(u, h)
             w == Append(b, ESC)
             y == Append(w, Code(h))
             f == Glue(y, q)
  <2>3. /\ x \in Seq(Nat) /\ x # <<>> /\ x[1] = n /\ Len(x) = Len(b) + 2 /\ Last(x) = h
        /\ Sum(x) = Plus(h, Sum(u))
    <3>1. /\ x \in Seq(Nat) /\ x # <<>> /\ x[1] = u[1] /\ Len(x) = Len(u) + 1 /\ Last(x) = h
          /\ Sum(x) = Plus(h, Sum(u))
      BY <1>5, <1>10, AppendIs
    <3> HIDE DEF x
    <3> QED BY <1>5, <1>6, <3>1
  <2>4. Sum(u) = Plus(c, Sum(b)) /\ Sum(b) \in Nat
    BY <1>4, AppendIs DEF u
  <2>5. w \in Seq(Nat) /\ w # <<>> /\ w[1] = n /\ Len(w) = Len(b) + 1 /\ Sum(w) = Plus(ESC, Sum(b))
    BY <1>4, <1>6, <2>1, AppendIs
  <2> HIDE DEF w
  <2>6. /\ y \in Seq(Nat) /\ y # <<>> /\ y[1] = n /\ Len(y) = Len(b) + 2
        /\ Sum(y) = Plus(Code(h), Sum(w))
    <3>1. /\ y \in Seq(Nat) /\ y # <<>> /\ y[1] = w[1] /\ Len(y) = Len(w) + 1
          /\ Sum(y) = Plus(Code(h), Sum(w))
      BY <2>1, <2>5, AppendIs
    <3> HIDE DEF y
    <3> QED BY <1>5, <2>5, <3>1
  <2>7. q # <<>>
    <3> SUFFICES ASSUME q = <<>> PROVE FALSE
      OBVIOUS
    <3>1. B = x
      BY <1>10, <2>2, <2>3, GlueEnds
    <3> QED BY <1>1, <1>12, <2>3, <3>1
  <2>8. Rem(Sum(x)) # Rem(Sum(y))
    <3>1. PICK d \in Nat, e \in Nat : d = h /\ e = Code(h)
      BY <1>10, <2>1
    <3>2. PICK i \in Nat, j \in Nat : i = c + d /\ j = ESC + e
      <4>1. c + d \in Nat /\ ESC + e \in Nat
        BY <1>4, <2>1
      <4> QED BY <4>1
    <3>3. Rem(i) # Rem(j)
      <4>1. (ESC + Code(h)) % CheckMod # (c + h) % CheckMod
        BY <1>12 DEF SingleFault
      <4> QED BY <3>1, <3>2, <4>1 DEF Rem
    <3>4. PICK s \in Nat : s = Sum(b)
      BY <2>4
    <3>5. Sum(x) = d + (c + s) /\ Sum(y) = e + (ESC + s)
      BY <2>3, <2>4, <2>5, <2>6, <3>1, <3>4 DEF Plus
    <3>6. Sum(x) = Plus(i, s) /\ Sum(y) = Plus(j, s)
      BY <1>4, <2>1, <3>2, <3>5 DEF Plus
    <3> QED BY <3>3, <3>6, SameRemainder
  <2>9. Accepts(Glue(x, q))
    BY <1>1, <2>2, BufferIs DEF B
  <2> HIDE DEF x, y
  <2>10. ~Accepts(f)
    BY <1>10, <2>3, <2>6, <2>7, <2>8, <2>9, WrongSum
  <2>11. f \in Seq(Nat) /\ Len(f) = Len(y) + Len(q)
    BY <1>10, <2>6, GlueIs
  <2>12. Len(f) <= BufSize
    <3>1. Len(b) \in Nat /\ Len(q) \in Nat
      BY <1>5, <1>10
    <3> QED BY <1>13, <1>14, <2>6, <2>11, <3>1
  <2>13. f = Glue(Append(Append(slipBuf', ESC), Code(h)), q)
    BY <1>4 DEF w, y
  <2> HIDE DEF f
  <2> QED BY <1>7, <1>8, <1>12, <2>10, <2>11, <2>12, <2>13, DamagedCode DEF h, q
<1> QED BY <1>11, <1>12

\* A printed byte makes the buffer too long for its length byte, and is no
\* length byte itself.
LEMMA PrintInFrame ==
    ASSUME SlipInv, SingleFault, sent # <<>>, InFrame(Buffer(sent)),
           NEW t \in Text, Read(t), line' = line, sent' = sent
    PROVE  Damaged' /\ got' = got
<1> DEFINE B == Buffer(sent)
           n == Len(sent)
           c == Checksum(sent)
<1>1. /\ sent \in Seq(Nat) /\ n \in Nat /\ n > 0 /\ n + 3 <= BufSize
      /\ B \in Seq(Nat) /\ Len(B) = n + 2 /\ B[1] = n /\ Last(B) = c
      /\ slipBuf \in Seq(Nat)
  BY SentFrame
<1>2. PICK r \in Seq(Nat) : mode = "SLIP" /\ line = Coded(r) /\ B = Glue(slipBuf, r)
  BY DEF InFrame
<1>3. PICK b : b = slipBuf
  OBVIOUS
<1>4. t \in Nat /\ t \notin {END, START, ESC} /\ t <= CheckMod
  BY SlipAssumption DEF SingleFault
<1>5. b \in Seq(Nat) /\ B = Glue(b, r)
  BY <1>1, <1>2, <1>3
<1> DEFINE w == Append(b, t)
           f == Glue(w, r)
<1>6. w \in Seq(Nat) /\ w # <<>> /\ Len(w) = Len(b) + 1 /\ Len(b) \in Nat /\ Sum(w) = Plus(t, Sum(b))
  BY <1>4, <1>5, AppendIs
<1> HIDE DEF B, n, c, w
<1>7. f \in Seq(Nat) /\ Len(f) = Len(w) + Len(r) /\ Len(r) \in Nat /\ Len(B) = Len(b) + Len(r)
  BY <1>5, <1>6, GlueIs
<1> HIDE DEF f
<1>8. Len(f) = n + 3 /\ Len(f) <= BufSize
  <2>1. Len(w) = Len(b) + 1 /\ Len(b) \in Nat /\ Len(B) = n + 2 /\ n + 3 <= BufSize /\ n \in Nat
    BY <1>1, <1>6
  <2> QED BY <1>7, <2>1
<1>9. mode' = "SLIP" /\ slipBuf' = w /\ got' = got
  <2>1. ReadData(t)
    BY <1>2, <1>4, ReadIs
  <2>2. mode' = "SLIP" /\ got' = got /\ Store(t)
    BY <1>2, <2>1 DEF ReadData
  <2>3. f = Glue(Append(slipBuf, t), r)
    BY <1>3 DEF f, w
  <2>4. slipBuf' = Append(slipBuf, t)
    BY <1>4, <1>8, <2>2, <2>3, Stored
  <2> QED BY <1>3, <2>2, <2>4 DEF w
<1>10. ~Accepts(f)
  <2>1. CASE b # <<>>
    <3>1. w[1] = b[1]
      BY <1>4, <1>5, <2>1, AppendIs DEF w
    <3>2. B[1] = b[1]
      BY <1>5, <2>1, GlueEnds
    <3>3. Len(w) + Len(r) - 2 # w[1]
      BY <1>1, <1>7, <1>8, <3>1, <3>2
    <3> QED BY <1>6, <3>3, WrongLength DEF f
  <2>2. CASE b = <<>>
    <3> SUFFICES ASSUME Accepts(f) PROVE FALSE
      OBVIOUS
    <3>1. w[1] = t
      BY <1>4, <1>5, <2>2, AppendIs DEF w
    <3>2. r = B
      BY <1>5, <2>2, GlueEnds
    <3>3. f[1] = t
      BY <1>6, <3>1, GlueEnds DEF f
    <3>4. Last(f) = c
      <4>1. r # <<>>
        <5>1. Len(r) = n + 2 /\ n \in Nat
          BY <1>1, <3>2
        <5> QED BY <5>1
      <4> QED BY <1>1, <1>6, <3>2, <4>1, GlueEnds DEF f
    <3>5. /\ Len(f) >= 2 /\ Len(f) - 2 = t /\ Rem(Sum(Inner(f))) = c
      BY <3>3, <3>4 DEF Accepts, Checksum, Rem
    <3>6. n + 1 = t
      BY <1>1, <1>8, <3>5
    <3>7. PICK x \in Nat, s \in Nat, d \in Nat : x = Sum(Inner(f)) /\ s = Sum(sent) /\ d = c
      <4>1. Sum(Inner(f)) \in Nat
        BY <1>7, <3>5, SumParts
      <4>2. Sum(sent) \in Nat /\ c \in Nat
        BY <1>1, SumIsNat, ChecksumIs DEF c
      <4> QED BY <4>1, <4>2
    <3>8. Sum(f) = (x + t) + d
      <4>1. Sum(f) = (Sum(Inner(f)) + f[1]) + Last(f)
        BY <1>7, <3>5, SumParts
      <4> QED BY <3>3, <3>4, <3>7, <4>1
    <3>9. Sum(B) = (s + n) + d
      <4>1. /\ Len(B) >= 2 /\ Inner(B) = sent
        BY <1>1, BufferIs DEF B
      <4>2. Sum(B) = (Sum(Inner(B)) + B[1]) + Last(B)
        BY <1>1, <4>1, SumParts
      <4> QED BY <1>1, <3>7, <4>1, <4>2
    <3>10. Sum(f) = t + Sum(B)
      <4>1. Sum(f) = Sum(w) + Sum(r)
        BY <1>6, SumConcat DEF f
      <4>2. Sum(w) = t
        <5>1. Sum(b) = 0
          BY <2>2, SumEmpty
        <5> QED BY <1>4, <1>6, <5>1 DEF Plus
      <4> QED BY <3>2, <4>1, <4>2
    <3>11. x = n + s
      <4>1. n \in Nat
        BY <1>1
      <4> QED BY <1>4, <3>8, <3>9, <3>10, <4>1
    <3>12. Rem(Plus(n, s)) = Rem(Plus(0, s))
      <4>1. Rem(x) = Rem(s)
        BY <3>5, <3>7 DEF c, Checksum, Rem
      <4>2. x = Plus(n, s) /\ s = Plus(0, s)
        BY <3>11 DEF Plus
      <4> QED BY <4>1, <4>2, Zenon
    <3>13. Rem(n) = Rem(0)
      BY <1>1, <3>12, SameRemainder
    <3>14. n < CheckMod /\ n > 0 /\ CheckMod \in Nat /\ n \in Nat
      BY <1>1, <1>4, <3>6, BytesAre
    <3>15. n % CheckMod = n /\ 0 % CheckMod = 0
      BY <3>14
    <3> QED BY <3>13, <3>14, <3>15 DEF Rem
  <2> QED BY <2>1, <2>2
<1>11. line' = Coded(r) /\ f = Glue(slipBuf', r)
  BY <1>2, <1>9 DEF f
<1>12. Damaged'
  BY <1>7, <1>8, <1>9, <1>10, <1>11, DamagedByte
<1> QED BY <1>9, <1>12

LEMMA PrintInCode ==
    ASSUME SlipInv, SingleFault, sent # <<>>, InCode(Buffer(sent)),
           NEW t \in Text, Read(t), line' = line, sent' = sent
    PROVE  Damaged' /\ got' = got
<1> DEFINE B == Buffer(sent)
           n == Len(sent)
<1>1. /\ sent \in Seq(Nat) /\ n \in Nat /\ n > 0 /\ n + 3 <= BufSize /\ n \notin {END, ESC}
      /\ B \in Seq(Nat) /\ Len(B) = n + 2 /\ B[1] = n
      /\ slipBuf \in Seq(Nat)
  BY SentFrame
<1>2. PICK r \in Seq(Nat), c \in {END, ESC} :
        mode = "ESC" /\ line = Cons(Code(c), Coded(r)) /\ B = Glue(Append(slipBuf, c), r)
  BY DEF InCode
<1>3. PICK b : b = slipBuf
  OBVIOUS
<1>4. PICK d \in Nat : d = Unescaped(t)
  <2>1. t \in Nat
    BY SlipAssumption
  <2> QED BY <2>1, CodesAre
<1>5. b \in Seq(Nat) /\ c \in Nat /\ Code(c) \in Nat
  BY <1>1, <1>3, CodesAre, BytesAre
<1> DEFINE u == Append(b, c)
           w == Append(b, d)
           y == Append(w, Code(c))
           f == Glue(y, r)
<1>6. /\ u \in Seq(Nat) /\ u # <<>> /\ Len(u) = Len(b) + 1 /\ Len(b) \in Nat
      /\ b = <<>> => u[1] = c
      /\ b # <<>> => u[1] = b[1]
  BY <1>5, AppendIs
<1>7. /\ w \in Seq(Nat) /\ w # <<>> /\ Len(w) = Len(b) + 1
      /\ b # <<>> => w[1] = b[1]
  BY <1>5, AppendIs
<1>8. B = Glue(u, r)
  BY <1>2, <1>3
<1> HIDE DEF B, n, u, w
<1>9. y \in Seq(Nat) /\ y # <<>> /\ Len(y) = Len(w) + 1 /\ y[1] = w[1]
  BY <1>5, <1>7, AppendIs
<1> HIDE DEF y
<1>10. f \in Seq(Nat) /\ Len(f) = Len(y) + Len(r) /\ Len(r) \in Nat /\ Len(B) = Len(u) + Len(r)
  BY <1>6, <1>8, <1>9, GlueIs
<1> HIDE DEF f
<1>11. y[1] = n
  <2>1. B[1] = u[1]
    BY <1>6, <1>8, GlueEnds
  <2> QED BY <1>1, <1>6, <1>7, <1>9, <2>1
<1>12. Len(f) = n + 3 /\ Len(f) <= BufSize /\ Len(b) + 2 <= Len(f)
  <2>1. /\ Len(y) = Len(w) + 1 /\ Len(w) = Len(b) + 1 /\ Len(u) = Len(b) + 1 /\ Len(b) \in Nat
        /\ Len(B) = n + 2 /\ n + 3 <= BufSize /\ n \in Nat
    BY <1>1, <1>6, <1>7, <1>9
  <2> QED BY <1>10, <2>1
<1>13. mode' = "SLIP" /\ slipBuf' = w /\ got' = got
  <2>1. ReadEscaped(t)
    BY <1>2, ReadIs
  <2>2. mode' = "SLIP" /\ got' = got /\ Store(d)
    BY <1>4, <2>1 DEF ReadEscaped
  <2>3. Len(b) < BufSize
    <3>1. Len(b) \in Nat /\ n \in Nat /\ BufSize \in Nat
      BY <1>1, <1>6, BytesAre
    <3> QED BY <1>12, <3>1
  <2> QED BY <1>3, <2>2, <2>3 DEF Store, w
<1>14. ~Accepts(f)
  <2>1. Len(y) + Len(r) - 2 # y[1]
    BY <1>1, <1>10, <1>11, <1>12
  <2> QED BY <1>9, <2>1, WrongLength DEF f
<1>15. line' = Cons(Code(c), Coded(r)) /\ f = Glue(Append(slipBuf', Code(c)), r)
  BY <1>2, <1>13 DEF f, y
<1>16. Damaged'
  BY <1>10, <1>12, <1>13, <1>14, <1>15, DamagedEscape
<1> QED BY <1>13, <1>16

-----------------------------------------------------------------------------
(* The other places a damaged frame takes the server to.                   *)

\* A buffer longer than its length byte says never becomes valid.
Overlong == slipBuf # <<>> /\ Len(slipBuf) - 2 > slipBuf[1]
Over ==
    /\ Overlong
    /\ \E r \in Seq(Nat) :
          \/ mode = "SLIP" /\ line \in {Coded(r), Cons(START, Coded(r))}
          \/ mode \in {"SLIP", "ESC"} /\ \E b \in {END, ESC} : line = Cons(Code(b), Coded(r))

\* The START was lost: the server takes a START of the payload for it.
Hunting ==
    /\ mode = "ASCII"
    /\ \E a, r \in Seq(Nat) :
          /\ Glue(a, r) = Buffer(sent)
          /\ line = Coded(r) \/ \E b \in {END, ESC} : line = Cons(Code(b), Coded(r))

LEMMA StoreOverlong ==
    ASSUME SlipInv, Overlong, NEW c \in Nat, Store(c)
    PROVE  Overlong'
<1>1. PICK b \in Seq(Nat) : b = slipBuf
  BY DEF SlipInv, TypeOK
<1>2. b # <<>> /\ Len(b) - 2 > b[1] /\ (slipBuf' = Append(b, c) \/ slipBuf' = b)
  BY <1>1 DEF Overlong, Store
<1>3. Append(b, c) # <<>> /\ Append(b, c)[1] = b[1] /\ Len(Append(b, c)) = Len(b) + 1
      /\ Len(b) \in Nat
  BY <1>2, AppendIs
<1>4. b[1] \in Nat
  BY <1>2
<1>5. Len(Append(b, c)) - 2 > Append(b, c)[1]
  BY <1>2, <1>3, <1>4
<1>6. PICK d : d = Append(b, c)
  OBVIOUS
<1> QED BY <1>2, <1>3, <1>5, <1>6 DEF Overlong

LEMMA BufferOverlong ==
    ASSUME SlipInv, SingleFault, Len(before) <= MaxSize, slipBuf = Buffer(before),
           NEW c \in Nat, Store(c)
    PROVE  Overlong'
<1>1. before \in Seq(Nat)
  BY SentType DEF SlipInv
<1> DEFINE b == Buffer(before)
           n == Len(before)
<1>2. b \in Seq(Nat) /\ Len(b) = n + 2 /\ b[1] = n /\ n \in Nat
  BY <1>1, BufferIs
<1> HIDE DEF b
<1>3. Len(b) < BufSize
  <2>1. MaxSize + 2 < BufSize
    BY DEF SingleFault
  <2> HIDE DEF n
  <2>2. n <= MaxSize
    BY DEF n
  <2> QED BY <1>2, <2>1, <2>2, BytesAre
<1>4. slipBuf' = Append(b, c)
  BY <1>3 DEF Store, b
<1>5. b # <<>>
  BY <1>2
<1>6. Append(b, c) # <<>> /\ Append(b, c)[1] = n /\ Len(Append(b, c)) = n + 3
  <2>1. Append(b, c) # <<>> /\ Append(b, c)[1] = b[1] /\ Len(Append(b, c)) = Len(b) + 1
    BY <1>2, <1>5, AppendIs
  <2> QED BY <1>2, <2>1
<1>7. n + 3 - 2 > n
  BY <1>2
<1> QED BY <1>4, <1>6, <1>7 DEF Overlong

LEMMA ReadOver ==
    ASSUME SlipInv, ReadByte, Over
    PROVE  /\ got' = got
           /\ Over' \/ (line' = <<>> /\ mode' = "ASCII")
<1>1. PICK r \in Seq(Nat) :
        \/ mode = "SLIP" /\ line \in {Coded(r), Cons(START, Coded(r))}
        \/ mode \in {"SLIP", "ESC"} /\ \E b \in {END, ESC} : line = Cons(Code(b), Coded(r))
  BY DEF Over
<1>2. Overlong /\ END \in Nat /\ ESC \in Nat /\ START \in Nat /\ START \notin {END, ESC}
  BY BytesAre, CodesAre DEF Over
<1>3. Coded(r) \in Seq(Nat)
  BY CodedIs
\* A byte of data, stored or not.
<1>4. ASSUME NEW q \in Seq(Nat), NEW c \in Nat, line' = Coded(q), mode' = "SLIP", got' = got, Store(c)
      PROVE  Over' /\ got' = got
  <2>1. Overlong'
    BY <1>2, <1>4, StoreOverlong
  <2> QED BY <1>4, <2>1, Zenon DEF Over
<1>5. CASE mode = "SLIP" /\ line = Coded(r)
  <2>1. CASE r = <<>>
    <3>1. line = Cons(END, <<>>) /\ <<>> \in Seq(Nat)
      BY <1>5, <2>1, CodedIs, EmptySeq
    <3>2. line' = <<>> /\ Read(END)
      BY <1>2, <3>1, ByteRead
    <3>3. ReadEnd(END)
      BY <1>5, <3>2, ReadIs
    <3>4. ~Valid
      <4>1. PICK b \in Seq(Nat) : b = slipBuf
        BY DEF SlipInv, TypeOK
      <4>2. b # <<>> /\ Len(b) - 2 > b[1]
        BY <1>2, <4>1 DEF Overlong
      <4>3. b[1] \in Nat /\ Len(b) \in Nat
        BY <4>2
      <4>4. Len(b) - 2 # b[1]
        BY <4>2, <4>3
      <4> QED BY <4>1, <4>4 DEF Valid
    <3> QED BY <3>2, <3>3, <3>4 DEF ReadEnd
  <2>2. CASE r # <<>> /\ Head(r) \notin {END, ESC}
    <3> DEFINE h == Head(r)
               q == Tail(r)
    <3>1. line = Cons(h, Coded(q)) /\ h \in Nat /\ q \in Seq(Nat) /\ h \notin {END, ESC}
      BY <1>5, <2>2, CodedIs
    <3> HIDE DEF h, q
    <3>2. Coded(q) \in Seq(Nat)
      BY <3>1, CodedIs
    <3>3. line' = Coded(q) /\ Read(h)
      BY <3>1, <3>2, ByteRead
    <3>4. ReadData(h)
      BY <1>5, <3>1, <3>3, ReadIs
    <3> QED BY <1>4, <1>5, <3>1, <3>3, <3>4 DEF ReadData
  <2>3. CASE r # <<>> /\ Head(r) \in {END, ESC}
    <3> DEFINE h == Head(r)
               q == Tail(r)
    <3>1. line = Cons(ESC, Cons(Code(h), Coded(q))) /\ q \in Seq(Nat) /\ h \in {END, ESC}
      BY <1>5, <2>3, CodedIs
    <3> HIDE DEF h, q
    <3>2. Cons(Code(h), Coded(q)) \in Seq(Nat)
      BY <3>1, CodedIs, CodesAre, ConsIs
    <3>3. line' = Cons(Code(h), Coded(q)) /\ Read(ESC)
      BY <1>2, <3>1, <3>2, ByteRead
    <3>4. ReadEsc(ESC)
      BY <1>5, <3>3, ReadIs
    <3>5. mode' = "ESC" /\ slipBuf' = slipBuf /\ got' = got
      BY <3>4 DEF ReadEsc
    <3>6. Overlong'
      BY <1>2, <3>5 DEF Overlong
    <3>7. mode' \in {"SLIP", "ESC"} /\ \E b \in {END, ESC} : line' = Cons(Code(b), Coded(q))
      BY <3>1, <3>3, <3>5
    <3>8. Over'
      BY <3>1, <3>6, <3>7, Zenon DEF Over
    <3> QED BY <3>5, <3>8
  <2> QED BY <2>1, <2>2, <2>3
<1>6. CASE mode = "SLIP" /\ line = Cons(START, Coded(r))
  <2>1. line' = Coded(r) /\ Read(START)
    BY <1>2, <1>3, <1>6, ByteRead
  <2>2. ReadData(START)
    BY <1>2, <1>6, <2>1, ReadIs
  <2> QED BY <1>2, <1>4, <1>6, <2>1, <2>2 DEF ReadData
<1>7. CASE mode \in {"SLIP", "ESC"} /\ \E b \in {END, ESC} : line = Cons(Code(b), Coded(r))
  <2>1. PICK b \in {END, ESC} : line = Cons(Code(b), Coded(r))
    BY <1>7
  <2>2. Code(b) \in Nat /\ Code(b) \notin {END, ESC} /\ Unescaped(Code(b)) \in Nat
    BY CodesAre
  <2>3. line' = Coded(r) /\ Read(Code(b))
    BY <1>3, <2>1, <2>2, ByteRead
  <2>4. CASE mode = "SLIP"
    <3>1. ReadData(Code(b))
      BY <2>2, <2>3, <2>4, ReadIs
    <3> QED BY <1>4, <2>2, <2>3, <2>4, <3>1 DEF ReadData
  <2>5. CASE mode = "ESC"
    <3>1. ReadEscaped(Code(b))
      BY <2>3, <2>5, ReadIs
    <3> QED BY <1>4, <2>2, <2>3, <3>1 DEF ReadEscaped
  <2> QED BY <1>7, <2>4, <2>5
<1> QED BY <1>1, <1>5, <1>6, <1>7

LEMMA ReadHunting ==
    ASSUME SlipInv, SingleFault, sent # <<>>, ReadByte, Hunting
    PROVE  /\ got' = got
           /\ Hunting' \/ Damaged' \/ (line' = <<>> /\ mode' = "ASCII")
<1>1. PICK a \in Seq(Nat), r \in Seq(Nat) :
        /\ Glue(a, r) = Buffer(sent)
        /\ line = Coded(r) \/ \E b \in {END, ESC} : line = Cons(Code(b), Coded(r))
  BY DEF Hunting
<1>2. mode = "ASCII" /\ slipBuf = <<>> /\ END \in Nat /\ ESC \in Nat /\ START \notin {END, ESC}
  BY BytesAre, CodesAre DEF Hunting, SlipInv
<1>3. /\ sent \in Seq(Nat) /\ Len(sent) \in Nat /\ Len(sent) + 3 <= BufSize
      /\ Len(Buffer(sent)) = Len(sent) + 2
  BY SentFrame
<1>4. sent' = sent
  BY DEF ReadByte, frameVars
<1>5. PICK B : B = Buffer(sent) /\ B = Buffer(sent')
  BY <1>4
\* A byte that is no START changes nothing.
<1>6. ASSUME NEW c \in Nat, c # START, Read(c)
      PROVE  mode' = "ASCII" /\ got' = got
  <2>1. ReadAscii(c)
    BY <1>2, <1>6, ReadIs
  <2> QED BY <1>6, <2>1 DEF ReadAscii
<1>7. CASE line = Coded(r)
  <2>1. CASE r = <<>>
    <3>1. line = Cons(END, <<>>) /\ <<>> \in Seq(Nat)
      BY <1>7, <2>1, CodedIs, EmptySeq
    <3>2. line' = <<>> /\ Read(END)
      BY <1>2, <3>1, ByteRead
    <3> QED BY <1>2, <1>6, <3>2
  <2>2. CASE r # <<>>
    <3> DEFINE h == Head(r)
               q == Tail(r)
               w == Append(a, h)
    <3>1. h \in Nat /\ q \in Seq(Nat)
      BY <2>2, CodedIs
    <3>2. Glue(w, q) = B
      BY <1>1, <1>5, <2>2, GlueTail
    <3>3. w \in Seq(Nat)
      BY <3>1, AppendIs
    <3>4. Coded(q) \in Seq(Nat)
      BY <3>1, CodedIs
    <3>5. CASE h \notin {END, ESC}
      <4>1. line = Cons(h, Coded(q))
        BY <1>7, <2>2, <3>5, CodedIs
      <4> HIDE DEF h, q, w
      <4>2. line' = Coded(q) /\ Read(h)
        BY <3>1, <3>4, <4>1, ByteRead
      <4>3. CASE h = START
        <5>1. ReadAscii(h)
          BY <1>2, <4>2, ReadIs
        <5>2. mode' = "SLIP" /\ slipBuf' = <<>> /\ got' = got
          BY <1>2, <4>3, <5>1 DEF ReadAscii
        <5>3. q = Glue(slipBuf', q)
          BY <3>1, <5>2, EmptySeq, GlueEnds
        <5>4. Accepts(q) => Inner(q) \in SubSeqs(sent')
          <6>1. Len(q) >= 2 => Inner(q) \in SubSeqs(sent)
            BY <1>3, <1>5, <3>1, <3>2, <3>3, EndOfBuffer
          <6> QED BY <1>4, <6>1 DEF Accepts
        <5>5. Len(q) <= BufSize
          <6>1. Len(B) = Len(w) + Len(q) /\ Len(w) \in Nat /\ Len(q) \in Nat
            BY <3>1, <3>2, <3>3, GlueIs
          <6> QED BY <1>3, <1>5, <6>1, BytesAre
        <5>6. Damaged'
          BY <3>1, <4>2, <5>2, <5>3, <5>4, <5>5, DamagedByte
        <5> QED BY <5>2, <5>6
      <4>4. CASE h # START
        <5>1. mode' = "ASCII" /\ got' = got
          BY <1>6, <3>1, <4>2, <4>4
        <5>2. Hunting'
          BY <1>5, <3>1, <3>2, <3>3, <4>2, <5>1 DEF Hunting
        <5> QED BY <5>1, <5>2
      <4> QED BY <4>3, <4>4
    <3>6. CASE h \in {END, ESC}
      <4>1. line = Cons(ESC, Cons(Code(h), Coded(q)))
        BY <1>7, <2>2, <3>6, CodedIs
      <4> HIDE DEF h, q, w
      <4>2. Cons(Code(h), Coded(q)) \in Seq(Nat)
        BY <3>4, <3>6, CodesAre, ConsIs
      <4>3. line' = Cons(Code(h), Coded(q)) /\ Read(ESC)
        BY <1>2, <4>1, <4>2, ByteRead
      <4>4. mode' = "ASCII" /\ got' = got
        BY <1>2, <1>6, <4>3
      <4>5. Hunting'
        BY <1>5, <3>1, <3>2, <3>3, <3>6, <4>3, <4>4 DEF Hunting
      <4> QED BY <4>4, <4>5
    <3> QED BY <3>5, <3>6
  <2> QED BY <2>1, <2>2
<1>8. CASE \E b \in {END, ESC} : line = Cons(Code(b), Coded(r))
  <2>1. PICK b \in {END, ESC} : line = Cons(Code(b), Coded(r))
    BY <1>8
  <2>2. Code(b) \in Nat /\ Code(b) # START /\ Coded(r) \in Seq(Nat)
    BY CodesAre, CodedIs
  <2>3. line' = Coded(r) /\ Read(Code(b))
    BY <2>1, <2>2, ByteRead
  <2>4. mode' = "ASCII" /\ got' = got
    BY <1>6, <2>2, <2>3
  <2>5. Hunting'
    BY <1>1, <1>5, <2>3, <2>4 DEF Hunting
  <2> QED BY <2>4, <2>5
<1> QED BY <1>1, <1>7, <1>8

-----------------------------------------------------------------------------
(* The inductive invariant for one fault a frame.                          *)

Fresh ==
    /\ line = Cons(END, Cons(START, Coded(Buffer(sent)))) /\ got = <<>>
    /\ \/ mode = "ASCII"
       \/ Leftover(before)
       \/ faults # 0 /\ mode = "SLIP" /\ Overlong
Opened == line = Cons(START, Coded(Buffer(sent))) /\ mode = "ASCII"
Stale  == line = Cons(START, Coded(Buffer(sent))) /\ Leftover(before)
Done   == line = <<>> /\ (mode = "ASCII" \/ Leftover(sent))

At ==
    \/ Fresh \/ Opened \/ InFrame(Buffer(sent)) \/ InCode(Buffer(sent)) \/ Done
    \/ faults # 0 /\ (Stale \/ Damaged \/ Hunting \/ Over)

Few == line # <<>> => Len(got) <= 1

LineInv ==
    /\ SlipInv /\ At
    /\ Len(before) <= MaxSize
    /\ line # <<>> => sent # <<>>
    /\ NothingInvented /\ Few

LEMMA GotKept ==
    ASSUME NothingInvented, Few, line # <<>>, got' = got, sent' = sent, before' = before
    PROVE  NothingInvented' /\ Few'
BY DEF NothingInvented, Few

\* An END hands over at most one payload.
LEMMA GotHanded ==
    ASSUME SlipInv, NothingInvented, Few, line # <<>>, sent' = sent, before' = before,
           NEW A \in BOOLEAN, NEW p,
           A => p \in Seq(Nat) /\ p \in SubSeqs(sent) \cup SubSeqs(before),
           IF A THEN ToClient(p) ELSE got' = got,
           line' = <<>> \/ got = <<>>
    PROVE  NothingInvented' /\ Few'
<1>1. CASE got' = got
  BY <1>1, GotKept
<1>2. CASE A /\ got' = Append(got, p)
  <2>1. got \in Seq(Seq(Nat)) /\ p \in Seq(Nat)
    BY <1>2 DEF SlipInv
  <2>2. /\ Len(got') = Len(got) + 1 /\ Len(got) \in Nat /\ got' \in Seq(Seq(Nat))
        /\ \A i \in 1..Len(got) : got'[i] = got[i]
        /\ got'[Len(got) + 1] = p
    BY <1>2, <2>1, AppendProperties, LenProperties
  <2>3. Len(got) <= 1
    BY DEF Few
  <2>4. ASSUME NEW i \in DOMAIN got' PROVE got'[i] \in SubSeqs(sent') \cup SubSeqs(before')
    <3>1. i \in 1..Len(got) + 1
      BY <2>2
    <3>2. CASE i = Len(got) + 1
      BY <1>2, <2>2, <3>2
    <3>3. CASE i # Len(got) + 1
      <4>1. i \in 1..Len(got) /\ i \in DOMAIN got
        BY <2>1, <2>2, <3>1, <3>3
      <4> QED BY <2>2, <4>1 DEF NothingInvented
    <3> QED BY <3>2, <3>3
  <2>5. line' # <<>> => Len(got') <= 1
    <3>1. got = <<>> => Len(got) = 0
      OBVIOUS
    <3> QED BY <2>2, <3>1
  <2> QED BY <2>2, <2>3, <2>4, <2>5 DEF NothingInvented, Few
<1> QED BY <1>1, <1>2 DEF ToClient

LEMMA FrameIs ==
    ASSUME SlipInv, SingleFault, sent # <<>>
    PROVE  /\ Buffer(sent) \in Seq(Nat) /\ Len(Buffer(sent)) <= BufSize
           /\ Coded(Buffer(sent)) \in Seq(Nat)
           /\ Cons(START, Coded(Buffer(sent))) \in Seq(Nat)
           /\ END \in Nat /\ START \in Nat /\ START \notin {END, ESC}
<1>1. /\ Buffer(sent) \in Seq(Nat) /\ Len(Buffer(sent)) = Len(sent) + 2 /\ Len(sent) \in Nat
      /\ Len(sent) + 3 <= BufSize
  BY SentFrame
<1>2. Len(Buffer(sent)) <= BufSize
  <2>1. \A n, m \in Nat : m + 3 <= BufSize /\ n = m + 2 => n <= BufSize
    BY BytesAre
  <2> QED BY <1>1, <2>1
<1> QED BY <1>1, <1>2, CodedIs, ConsIs, BytesAre, CodesAre

LEMMA WholePayload ==
    ASSUME NEW p \in Seq(Nat)
    PROVE  /\ Accepts(Buffer(p)) /\ Inner(Buffer(p)) = p
           /\ p \in SubSeqs(p)
<1>1. Buffer(p) \in Seq(Nat) /\ Accepts(Buffer(p)) /\ Inner(Buffer(p)) = p
  BY BufferIs
<1>2. Len(Buffer(p)) >= 2
  BY <1>1 DEF Accepts
<1>3. Glue(<<>>, Buffer(p)) = Buffer(p) /\ <<>> \in Seq(Nat)
  BY <1>1, EmptySeq, GlueEnds
<1> QED BY <1>1, <1>2, <1>3, EndOfBuffer

LEMMA ReadFresh ==
    ASSUME SingleFault, LineInv, ReadByte, Fresh
    PROVE  At' /\ NothingInvented' /\ Few'
<1>1. /\ SlipInv /\ NothingInvented /\ Few /\ line # <<>> /\ sent # <<>>
      /\ sent' = sent /\ before' = before
  BY DEF LineInv, ReadByte, frameVars
<1>2. before \in Seq(Nat)
  BY <1>1, SentType DEF SlipInv
<1>3. line' = Cons(START, Coded(Buffer(sent))) /\ Read(END)
  BY <1>1, FrameIs, ByteRead DEF Fresh
<1>4. got = <<>>
  BY DEF Fresh
<1>5. CASE mode = "ASCII"
  <2>1. mode' = "ASCII" /\ got' = got
    BY <1>1, <1>3, <1>5, ReadIs, BytesAre DEF ReadAscii
  <2>2. NothingInvented' /\ Few'
    BY <1>1, <2>1, GotKept
  <2> QED BY <1>1, <1>3, <2>1, <2>2 DEF At, Opened
<1>6. CASE mode = "SLIP"
  <2>1. ReadEnd(END)
    BY <1>3, <1>6, ReadIs
  <2>2. mode' = "ASCII" /\ IF Valid THEN ToClient(Contents) ELSE got' = got
    BY <2>1 DEF ReadEnd
  <2>3. Valid => Contents \in Seq(Nat) /\ Contents \in SubSeqs(sent) \cup SubSeqs(before)
    <3>1. CASE Leftover(before)
      <4>1. Contents = Inner(Buffer(before))
        BY <3>1 DEF Leftover, Contents, Inner
      <4> QED BY <1>2, <4>1, WholePayload
    <3>2. CASE Overlong
      <4>1. PICK b \in Seq(Nat) : b = slipBuf
        BY <1>1 DEF SlipInv, TypeOK
      <4>2. b # <<>> /\ Len(b) - 2 > b[1]
        BY <3>2, <4>1 DEF Overlong
      <4>3. b[1] \in Nat /\ Len(b) \in Nat
        BY <4>2
      <4>4. Len(b) - 2 # b[1]
        BY <4>2, <4>3
      <4> QED BY <4>1, <4>4 DEF Valid
    <3> QED BY <1>6, <3>1, <3>2 DEF Fresh
  <2>4. PICK A \in BOOLEAN : A <=> Valid
    OBVIOUS
  <2>5. PICK p : p = Contents
    OBVIOUS
  <2>6. NothingInvented' /\ Few'
    BY <1>1, <1>4, <2>2, <2>3, <2>4, <2>5, GotHanded
  <2> QED BY <1>1, <1>3, <2>2, <2>6 DEF At, Opened
<1> QED BY <1>5, <1>6 DEF Fresh, Leftover

LEMMA ReadDamaged ==
    ASSUME SingleFault, LineInv, ReadByte, Damaged, faults # 0
    PROVE  At' /\ NothingInvented' /\ Few'
<1>1. /\ SlipInv /\ NothingInvented /\ Few /\ line # <<>> /\ sent # <<>>
      /\ sent' = sent /\ before' = before /\ faults' = faults
  BY DEF LineInv, ReadByte, frameVars
<1>2. PICK f \in Seq(Nat) :
        /\ InFrame(f) \/ InCode(f) \/ AtCode(f) \/ NoCode(f)
        /\ Harmless(f) /\ Len(f) <= BufSize
  BY DEF Damaged
<1>3. Accepts(f) => Inner(f) \in SubSeqs(sent) /\ Inner(f) \in SubSeqs(sent')
  BY <1>1, <1>2 DEF Harmless
<1>4. ASSUME InFrame(f)' \/ InCode(f)' \/ AtCode(f)', got' = got PROVE At' /\ NothingInvented' /\ Few'
  <2>1. Harmless(f)'
    BY <1>3 DEF Harmless
  <2>2. Damaged'
    BY <1>2, <1>4, <2>1 DEF Damaged
  <2> QED BY <1>1, <1>4, <2>2, GotKept DEF At
<1>5. CASE InFrame(f)
  <2>1. CASE (InFrame(f)' \/ InCode(f)') /\ got' = got
    BY <1>4, <2>1
  <2>2. CASE /\ line' = <<>> /\ mode' = "ASCII"
             /\ IF Accepts(f) THEN ToClient(Inner(f)) ELSE got' = got
    <3>1. PICK A \in BOOLEAN : A <=> Accepts(f)
      OBVIOUS
    <3>2. A => Inner(f) \in Seq(Nat) /\ Inner(f) \in SubSeqs(sent) \cup SubSeqs(before)
      BY <1>3, <3>1, InnerIs DEF Accepts
    <3>3. PICK p : p = Inner(f)
      OBVIOUS
    <3>4. NothingInvented' /\ Few'
      BY <1>1, <2>2, <3>1, <3>2, <3>3, GotHanded
    <3> QED BY <2>2, <3>4 DEF At, Done
  <2> QED BY <1>1, <1>2, <1>5, <2>1, <2>2, ReadInFrame
<1>6. CASE InCode(f) \/ AtCode(f)
  BY <1>1, <1>2, <1>4, <1>6, ReadInCode
<1>7. CASE NoCode(f)
  BY <1>1, <1>2, <1>4, <1>7, ReadNoCode
<1> QED BY <1>2, <1>5, <1>6, <1>7

LEMMA ReadSent ==
    ASSUME SingleFault, LineInv, ReadByte, InFrame(Buffer(sent)) \/ InCode(Buffer(sent))
    PROVE  At' /\ NothingInvented' /\ Few'
<1>1. /\ SlipInv /\ NothingInvented /\ Few /\ line # <<>> /\ sent # <<>>
      /\ sent' = sent /\ before' = before
  BY DEF LineInv, ReadByte, frameVars
<1>2. PICK f : f = Buffer(sent) /\ f = Buffer(sent')
  BY <1>1
<1>3. Len(f) <= BufSize /\ (InFrame(f) \/ InCode(f))
  BY <1>1, <1>2, FrameIs
<1>4. ASSUME InFrame(f)' \/ InCode(f)', got' = got PROVE At' /\ NothingInvented' /\ Few'
  <2>1. InFrame(Buffer(sent))' \/ InCode(Buffer(sent))'
    BY <1>2, <1>4 DEF InFrame, InCode
  <2> QED BY <1>1, <1>4, <2>1, GotKept DEF At
<1>5. CASE /\ line' = <<>> /\ mode' = "ASCII"
           /\ IF Accepts(f) THEN ToClient(Inner(f)) ELSE got' = got
  <2>1. PICK A \in BOOLEAN : A <=> Accepts(f)
    OBVIOUS
  <2>2. sent \in Seq(Nat)
    BY <1>1, SentType DEF SlipInv
  <2>3. Inner(f) \in Seq(Nat) /\ Inner(f) \in SubSeqs(sent) \cup SubSeqs(before)
    BY <1>2, <2>2, WholePayload
  <2>4. PICK p : p = Inner(f)
    OBVIOUS
  <2>5. NothingInvented' /\ Few'
    BY <1>1, <1>5, <2>1, <2>3, <2>4, GotHanded
  <2> QED BY <1>5, <2>5 DEF At, Done
<1>6. CASE InFrame(f)
  BY <1>1, <1>3, <1>4, <1>5, <1>6, ReadInFrame
<1>7. CASE InCode(f)
  BY <1>1, <1>3, <1>4, <1>7, ReadInCode
<1> QED BY <1>3, <1>6, <1>7

LEMMA ReadLine ==
    ASSUME SingleFault, LineInv, ReadByte
    PROVE  LineInv'
<1>1. /\ SlipInv /\ At /\ NothingInvented /\ Few /\ line # <<>> /\ sent # <<>>
      /\ sent' = sent /\ before' = before /\ faults' = faults /\ Len(before) <= MaxSize
  BY DEF LineInv, ReadByte, frameVars
<1>2. SlipInv'
  BY <1>1, ReadByteKeeps
<1>3. At' /\ NothingInvented' /\ Few'
  <2>1. CASE Fresh
    BY <2>1, ReadFresh
  <2>2. CASE Opened
    <3>1. line' = Coded(Buffer(sent)) /\ Read(START)
      BY <1>1, <2>2, FrameIs, ByteRead DEF Opened
    <3>2. mode' = "SLIP" /\ slipBuf' = <<>> /\ got' = got
      BY <1>1, <2>2, <3>1, ReadIs DEF Opened, ReadAscii, SlipInv
    <3>3. Buffer(sent') \in Seq(Nat) /\ Buffer(sent') = Glue(slipBuf', Buffer(sent'))
      BY <1>1, <3>2, FrameIs, EmptySeq, GlueEnds
    <3>4. InFrame(Buffer(sent))'
      BY <1>1, <3>1, <3>2, <3>3 DEF InFrame
    <3> QED BY <1>1, <3>2, <3>4, GotKept DEF At
  <2>3. CASE InFrame(Buffer(sent)) \/ InCode(Buffer(sent))
    BY <2>3, ReadSent
  <2>4. CASE faults # 0 /\ Stale
    <3>1. line' = Coded(Buffer(sent)) /\ Read(START)
      BY <1>1, <2>4, FrameIs, ByteRead DEF Stale
    <3>2. mode = "SLIP" /\ slipBuf = Buffer(before)
      BY <2>4 DEF Stale, Leftover
    <3>3. ReadData(START)
      BY <1>1, <3>1, <3>2, FrameIs, ReadIs
    <3>4. mode' = "SLIP" /\ got' = got /\ Store(START)
      BY <3>2, <3>3 DEF ReadData
    <3>5. Overlong'
      BY <1>1, <3>2, <3>4, FrameIs, BufferOverlong
    <3>6. PICK r \in Seq(Nat) : line' = Coded(r)
      BY <1>1, <3>1, FrameIs
    <3>7. Over'
      BY <3>4, <3>5, <3>6 DEF Over
    <3> QED BY <1>1, <2>4, <3>4, <3>7, GotKept DEF At
  <2>5. CASE faults # 0 /\ Damaged
    BY <2>5, ReadDamaged
  <2>6. CASE faults # 0 /\ Hunting
    <3>1. got' = got /\ (Hunting' \/ Damaged' \/ (line' = <<>> /\ mode' = "ASCII"))
      BY <1>1, <2>6, ReadHunting
    <3> QED BY <1>1, <2>6, <3>1, GotKept DEF At, Done
  <2>7. CASE faults # 0 /\ Over
    <3>1. got' = got /\ (Over' \/ (line' = <<>> /\ mode' = "ASCII"))
      BY <1>1, <2>7, ReadOver
    <3> QED BY <1>1, <2>7, <3>1, GotKept DEF At, Done
  <2>8. CASE Done
    BY <1>1, <2>8 DEF Done
  <2> QED BY <1>1, <2>1, <2>2, <2>3, <2>4, <2>5, <2>6, <2>7, <2>8 DEF At
<1> QED BY <1>1, <1>2, <1>3 DEF LineInv

LEMMA LoseLine ==
    ASSUME SingleFault, LineInv, LoseByte
    PROVE  LineInv'
<1>1. /\ SlipInv /\ At /\ NothingInvented /\ Few /\ line # <<>> /\ sent # <<>>
      /\ Len(before) <= MaxSize
      /\ line' = Tail(line) /\ mode' = mode /\ slipBuf' = slipBuf /\ got' = got
      /\ sent' = sent /\ before' = before
  BY DEF LineInv, LoseByte, rxVars
<1>2. faults = 0 /\ faults' # 0
  <2>1. faults \in Nat /\ faults < MaxFaults /\ MaxFaults <= 1 /\ MaxFaults \in Nat /\ faults' = faults + 1
    BY <1>1, SlipAssumption DEF SlipInv, TypeOK, LoseByte, SingleFault
  <2> QED BY <2>1
<1>3. SlipInv'
  BY <1>1, LoseByteKeeps
<1>4. At'
  <2>1. CASE Fresh
    <3>1. line' = Cons(START, Coded(Buffer(sent)))
      BY <1>1, <2>1, FrameIs, ConsIs DEF Fresh
    <3>2. CASE mode = "ASCII"
      BY <1>1, <3>1, <3>2 DEF At, Opened
    <3>3. CASE Leftover(before)
      BY <1>1, <1>2, <3>1, <3>3 DEF At, Stale, Leftover
    <3> QED BY <1>2, <2>1, <3>2, <3>3 DEF Fresh
  <2>2. CASE Opened
    <3>1. line' = Coded(Buffer(sent)) /\ mode' = "ASCII"
      BY <1>1, <2>2, FrameIs, ConsIs DEF Opened
    <3>2. Glue(<<>>, Buffer(sent')) = Buffer(sent') /\ Buffer(sent') \in Seq(Nat) /\ <<>> \in Seq(Nat)
      BY <1>1, FrameIs, EmptySeq, GlueEnds
    <3>3. Hunting'
      BY <1>1, <3>1, <3>2 DEF Hunting
    <3> QED BY <1>2, <3>3 DEF At
  <2>3. CASE InFrame(Buffer(sent))
    <3>1. Damaged' \/ (line' = <<>> /\ Leftover(sent)')
      BY <1>1, <2>3, LoseInFrame
    <3> QED BY <1>2, <3>1 DEF At, Done
  <2>4. CASE InCode(Buffer(sent))
    BY <1>1, <1>2, <2>4, LoseInCode DEF At
  <2>5. CASE Done
    BY <1>1, <2>5 DEF Done
  <2> QED BY <1>1, <1>2, <2>1, <2>2, <2>3, <2>4, <2>5 DEF At
<1> QED BY <1>1, <1>3, <1>4, GotKept DEF LineInv

LEMMA PrintLine ==
    ASSUME SingleFault, LineInv, PrintByte
    PROVE  LineInv'
<1>1. /\ SlipInv /\ At /\ NothingInvented /\ Few /\ line # <<>> /\ sent # <<>>
      /\ Len(before) <= MaxSize
      /\ line' = line /\ sent' = sent /\ before' = before
  BY DEF LineInv, PrintByte
<1>2. faults = 0 /\ faults' # 0
  <2>1. faults \in Nat /\ faults < MaxFaults /\ MaxFaults <= 1 /\ MaxFaults \in Nat /\ faults' = faults + 1
    BY <1>1, SlipAssumption DEF SlipInv, TypeOK, PrintByte, SingleFault
  <2> QED BY <2>1
<1>3. SlipInv'
  BY <1>1, PrintByteKeeps
<1>4. PICK t \in Text : Read(t)
  BY DEF PrintByte
<1>5. t \in Nat /\ t \notin {END, START, ESC}
  BY SlipAssumption
<1>6. ASSUME mode = "ASCII" PROVE mode' = "ASCII" /\ got' = got
  BY <1>4, <1>5, <1>6, ReadIs DEF ReadAscii
<1>7. At' /\ got' = got
  <2>1. CASE Fresh
    <3>1. CASE mode = "ASCII"
      BY <1>1, <1>6, <2>1, <3>1 DEF At, Fresh
    <3>2. CASE Leftover(before)
      <4>1. ReadData(t)
        BY <1>4, <1>5, <3>2, ReadIs DEF Leftover
      <4>2. mode' = "SLIP" /\ got' = got /\ Store(t)
        BY <3>2, <4>1 DEF ReadData, Leftover
      <4>3. Overlong'
        BY <1>1, <1>5, <3>2, <4>2, BufferOverlong DEF Leftover
      <4> QED BY <1>1, <1>2, <2>1, <4>2, <4>3 DEF At, Fresh
    <3> QED BY <1>2, <2>1, <3>1, <3>2 DEF Fresh
  <2>2. CASE Opened
    BY <1>1, <1>6, <2>2 DEF At, Opened
  <2>3. CASE InFrame(Buffer(sent))
    BY <1>1, <1>2, <1>4, <2>3, PrintInFrame DEF At
  <2>4. CASE InCode(Buffer(sent))
    BY <1>1, <1>2, <1>4, <2>4, PrintInCode DEF At
  <2>5. CASE Done
    BY <1>1, <2>5 DEF Done
  <2> QED BY <1>1, <1>2, <2>1, <2>2, <2>3, <2>4, <2>5 DEF At
<1> QED BY <1>1, <1>3, <1>7, GotKept DEF LineInv

\* When everything is read the server looks for a START, or has the buffer of
\* a frame whose END was lost.
LEMMA NothingLeft ==
    ASSUME SlipInv, At, line = <<>>
    PROVE  Done
<1>1. sent \in Seq(Nat)
  BY SentType DEF SlipInv
<1>2. Buffer(sent) \in Seq(Nat) /\ START \in Nat /\ END \in Nat /\ ESC \in Nat
  BY <1>1, BufferIs, BytesAre
<1>3. \A b \in Nat, s \in Seq(Nat) : Cons(b, s) # <<>> /\ Cons(b, s) \in Seq(Nat)
  BY ConsIs
<1>4. \A r \in Seq(Nat) : Coded(r) # <<>> /\ Coded(r) \in Seq(Nat)
  <2> TAKE r \in Seq(Nat)
  <2>1. Coded(r) \in Seq(Nat)
    BY CodedIs
  <2>2. CASE r = <<>>
    BY <1>2, <1>3, <2>1, <2>2, CodedIs, EmptySeq
  <2>3. CASE r # <<>> /\ Head(r) \notin {END, ESC}
    <3>1. Coded(r) = Cons(Head(r), Coded(Tail(r))) /\ Head(r) \in Nat /\ Tail(r) \in Seq(Nat)
      BY <2>3, CodedIs
    <3>2. Coded(Tail(r)) \in Seq(Nat)
      BY <3>1, CodedIs
    <3> QED BY <1>3, <2>1, <3>1, <3>2
  <2>4. CASE r # <<>> /\ Head(r) \in {END, ESC}
    <3>1. /\ Coded(r) = Cons(ESC, Cons(Code(Head(r)), Coded(Tail(r))))
          /\ Head(r) \in {END, ESC} /\ Tail(r) \in Seq(Nat)
      BY <2>4, CodedIs
    <3>2. Coded(Tail(r)) \in Seq(Nat) /\ Code(Head(r)) \in Nat
      BY <3>1, CodedIs, CodesAre
    <3>3. Cons(Code(Head(r)), Coded(Tail(r))) \in Seq(Nat)
      BY <1>3, <3>2
    <3> QED BY <1>2, <1>3, <2>1, <3>1, <3>3
  <2> QED BY <2>2, <2>3, <2>4
<1>5. \A b \in {END, ESC} : Code(b) \in Nat
  BY CodesAre
<1>6. ~Fresh /\ ~Opened /\ ~Stale
  BY <1>2, <1>3, <1>4 DEF Fresh, Opened, Stale
<1>7. \A f : ~InFrame(f) /\ ~InCode(f) /\ ~AtCode(f) /\ ~NoCode(f)
  BY <1>3, <1>4, <1>5 DEF InFrame, InCode, AtCode, NoCode
<1>8. ~Damaged
  BY <1>7 DEF Damaged
<1>9. ~Hunting
  BY <1>3, <1>4, <1>5 DEF Hunting
<1>10. ~Over
  BY <1>2, <1>3, <1>4, <1>5 DEF Over
<1> QED BY <1>6, <1>7, <1>8, <1>9, <1>10 DEF At

LEMMA TxLine ==
    ASSUME SingleFault, LineInv, NEW p \in Payload, SlipTx(p)
    PROVE  LineInv'
<1>1. /\ SlipInv /\ At /\ line = <<>> /\ Len(p) <= MaxSize
      /\ line' = Framed(p) /\ sent' = p /\ before' = sent /\ got' = <<>>
      /\ mode' = mode /\ slipBuf' = slipBuf
  BY DEF LineInv, SlipTx, rxVars
<1>2. SlipInv'
  BY <1>1, SlipTxKeeps
<1>3. p \in Seq(Nat) /\ p # <<>>
  BY SlipAssumption
<1>4. line' = Cons(END, Cons(START, Coded(Buffer(p))))
  BY <1>1, <1>3, FramedCoded
<1>5. mode = "ASCII" \/ Leftover(sent)
  BY <1>1, NothingLeft DEF Done
<1>6. Fresh'
  BY <1>1, <1>4, <1>5 DEF Fresh, Leftover
<1>7. Len(before') <= MaxSize
  BY <1>1 DEF SlipInv
<1>8. NothingInvented' /\ Few'
  BY <1>1 DEF NothingInvented, Few
<1> QED BY <1>1, <1>2, <1>3, <1>6, <1>7, <1>8 DEF LineInv, At

LEMMA LineUntouched ==
    ASSUME LineInv, SlipInv', line' = line, mode' = mode, slipBuf' = slipBuf, sent' = sent,
           before' = before, faults' = faults, got' = got
    PROVE  LineInv'
<1>1. NothingInvented' /\ Few'
  BY DEF LineInv, NothingInvented, Few
<1>2. /\ Fresh' <=> Fresh
      /\ Opened' <=> Opened
      /\ Stale' <=> Stale
      /\ Done' <=> Done
      /\ Over' <=> Over
      /\ Hunting' <=> Hunting
  BY DEF Fresh, Opened, Stale, Done, Over, Overlong, Hunting, Leftover
<1>3. InFrame(Buffer(sent))' <=> InFrame(Buffer(sent))
  BY DEF InFrame
<1>4. InCode(Buffer(sent))' <=> InCode(Buffer(sent))
  BY DEF InCode
<1>5. Damaged' <=> Damaged
  BY DEF Damaged, InFrame, InCode, AtCode, NoCode, Harmless
<1>6. At'
  BY <1>2, <1>3, <1>4, <1>5 DEF LineInv, At
<1> QED BY <1>1, <1>6 DEF LineInv

\* A byte lost from a frame, or printed into it, never makes the server hand
\* over anything but the payload of this frame or of the one before, or a
\* part of one, and never more than two: whatever the payloads are, when one
\* fault hits a frame and the checksum tells each control byte from its code,
\* as the bytes of slip.h and the checksum of slip.c do (slip.c:99-132,
\* SLIPstream-server/main.c:203-262).
THEOREM NothingEverInvented == SingleFault => (Spec => []NothingInvented)
<1> SUFFICES ASSUME SingleFault PROVE Spec => []NothingInvented
  OBVIOUS
<1>1. Init => LineInv
  <2> SUFFICES ASSUME Init PROVE LineInv
    OBVIOUS
  <2>1. SlipInv
    BY SlipInit
  <2>2. Len(before) <= MaxSize /\ NothingInvented /\ Few /\ Done /\ line = <<>>
    BY BytesAre DEF Init, NothingInvented, Few, Done
  <2> QED BY <2>1, <2>2 DEF LineInv, At
<1>2. ASSUME LineInv, [Next]_vars PROVE LineInv'
  <2>0. SlipInv
    BY <1>2 DEF LineInv
  <2>1. CASE \E p \in Payload : SlipTx(p)
    BY <1>2, <2>1, TxLine
  <2>2. CASE ReadByte
    BY <1>2, <2>2, ReadLine
  <2>3. CASE ClientConnects
    <3>1. SlipInv'
      BY <2>0, <2>3, ClientConnectsKeeps
    <3> QED BY <1>2, <2>3, <3>1, LineUntouched DEF ClientConnects, frameVars
  <2>4. CASE LoseByte
    BY <1>2, <2>4, LoseLine
  <2>5. CASE PrintByte
    BY <1>2, <2>5, PrintLine
  <2>6. CASE UNCHANGED vars
    <3>1. SlipInv'
      BY <2>0, <2>6
      DEF vars, rxVars, frameVars, SlipInv, TypeOK, OnTrack, BeforeFlush, BeforeStart, BeforeLength,
          InPayload, InEscape, BeforeEnd, Delivered
    <3> QED BY <1>2, <2>6, <3>1, LineUntouched DEF vars, rxVars, frameVars
  <2> QED BY <1>2, <2>1, <2>2, <2>3, <2>4, <2>5, <2>6 DEF Next
<1>3. LineInv => NothingInvented
  BY DEF LineInv
<1> QED BY <1>1, <1>2, <1>3, PTL DEF Spec
=============================================================================
