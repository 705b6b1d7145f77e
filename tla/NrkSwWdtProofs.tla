--------------------------- MODULE NrkSwWdtProofs ---------------------------
(***************************************************************************)
(* The software watchdogs expire when they are not fed, and not before     *)
(* their period by more than what the unguarded reads and writes lose.     *)
(*                                                                         *)
(* What a call has read is bounded against the clock on both sides: from   *)
(* above by the reads that see the system time move forward, and by what a *)
(* carry between the bytes of the seconds adds (ReadAhead), from below by  *)
(* the seconds alone, read first and out of date when they turn            *)
(* (ReadBehind): the upper bytes, read later, only add to them.  The       *)
(* deadline is known through the fields the call has written so far        *)
(* (Written), and every active deadline is bounded against the history of  *)
(* the calls that wrote it (NotLater, NotEarlier), from below unless it is *)
(* half written.                                                           *)
(***************************************************************************)
EXTENDS NrkSwWdt, TLAPS

\* Products with SecTicks are only used through the two lemmas about them.
Seconds(n) == n * SecTicks

LEMMA SecondsAre ==
    /\ SecTicks \in Nat /\ SecTicks > 0
    /\ \A a \in Nat : Seconds(a) \in Nat /\ Seconds(a + 1) = Seconds(a) + SecTicks
    /\ \A a, b \in Nat : Seconds(a + b) = Seconds(a) + Seconds(b)
    /\ \A a, b \in Nat : a <= b => Seconds(a) <= Seconds(b)
    /\ \A a, b \in Nat : a < b => Seconds(a) + SecTicks <= Seconds(b)
<1>1. SecTicks \in Nat /\ SecTicks > 0
  BY WdtAssumption
<1>2. ASSUME NEW a \in Nat, NEW b \in Nat
      PROVE  Seconds(a) \in Nat /\ Seconds(a + b) = Seconds(a) + Seconds(b)
  BY <1>1 DEF Seconds
<1>3. ASSUME NEW a \in Nat PROVE Seconds(a + 1) = Seconds(a) + SecTicks
  BY <1>1 DEF Seconds
<1>4. ASSUME NEW a \in Nat, NEW b \in Nat, a <= b PROVE Seconds(a) <= Seconds(b)
  <2>1. b = a + (b - a) /\ b - a \in Nat
    BY <1>4
  <2>2. Seconds(b) = Seconds(a) + Seconds(b - a) /\ Seconds(b - a) \in Nat /\ Seconds(a) \in Nat
    BY <1>2, <2>1
  <2> QED BY <2>2
<1>5. ASSUME NEW a \in Nat, NEW b \in Nat, a < b PROVE Seconds(a) + SecTicks <= Seconds(b)
  BY <1>3, <1>4, <1>5
<1> QED BY <1>1, <1>2, <1>3, <1>4, <1>5

LEMMA TicksAre ==
    ASSUME NEW t \in Time
    PROVE  Ticks(t) = Seconds(t.secs) + t.nanos /\ Ticks(t) \in Nat /\ Seconds(t.secs) \in Nat
BY SecondsAre DEF Ticks, Seconds, Time

LEMMA Division ==
    ASSUME NEW n \in Nat, NEW m \in Nat, m > 0
    PROVE  n \div m \in Nat /\ n % m \in 0..m - 1 /\ n = (n \div m) * m + (n % m)
<1>1. n \div m \in Nat
  OBVIOUS
<1>2. n % m \in 0..m - 1
  OBVIOUS
<1>3. n = (n \div m) * m + (n % m)
  OBVIOUS
<1> QED BY <1>1, <1>2, <1>3

LEMMA CompactKeeps ==
    ASSUME NEW t \in Time
    PROVE  /\ Compact(t) \in [secs : Nat, nanos : 0..SecTicks - 1] /\ Compact(t) \in Time
           /\ Ticks(Compact(t)) = Ticks(t)
           /\ t.secs <= Compact(t).secs
<1>1. t.secs \in Nat /\ t.nanos \in Nat /\ SecTicks \in Nat /\ SecTicks > 0
  BY SecondsAre DEF Time
<1>2. PICK q, r : q = t.nanos \div SecTicks /\ r = t.nanos % SecTicks
  OBVIOUS
<1>3. q \in Nat /\ r \in 0..SecTicks - 1 /\ t.nanos = Seconds(q) + r
  BY <1>1, <1>2, Division DEF Seconds
<1>4. Compact(t) = [secs |-> t.secs + q, nanos |-> r]
  BY <1>2 DEF Compact
<1>5. Compact(t) \in Time
  BY <1>1, <1>3, <1>4 DEF Time
<1>6. Ticks(Compact(t)) = Seconds(t.secs) + Seconds(q) + r
  BY <1>1, <1>3, <1>4, <1>5, TicksAre, SecondsAre
<1>7. Seconds(q) \in Nat /\ Seconds(t.secs) \in Nat
  BY <1>1, <1>3, SecondsAre
<1> QED BY <1>1, <1>3, <1>4, <1>5, <1>6, <1>7, TicksAre

\* A time that is not after another is no more ticks from the start.
LEMMA OrderOfTimes ==
    ASSUME NEW low \in Time, NEW high \in Time, low.nanos < SecTicks
    PROVE  /\ NotAfter(low, high) => Ticks(low) <= Ticks(high)
           /\ ~NotAfter(low, high) => high.secs <= low.secs
<1>1. low.secs \in Nat /\ high.secs \in Nat /\ low.nanos \in Nat /\ high.nanos \in Nat
  BY DEF Time
<1>2. low.secs < high.secs => Seconds(low.secs) + SecTicks <= Seconds(high.secs)
  BY <1>1, SecondsAre
<1>3. /\ Ticks(low) = Seconds(low.secs) + low.nanos /\ Seconds(low.secs) \in Nat
      /\ Ticks(high) = Seconds(high.secs) + high.nanos /\ Seconds(high.secs) \in Nat
      /\ SecTicks \in Nat
  BY TicksAre, SecondsAre
<1>5. low.secs < high.secs => Ticks(low) <= Ticks(high)
  BY <1>1, <1>2, <1>3
<1>6. low.secs = high.secs /\ low.nanos <= high.nanos => Ticks(low) <= Ticks(high)
  <2>1. low.secs = high.secs => Seconds(low.secs) = Seconds(high.secs)
    OBVIOUS
  <2> QED BY <1>1, <1>3, <2>1
<1>7. NotAfter(low, high) => Ticks(low) <= Ticks(high)
  BY <1>5, <1>6 DEF NotAfter
<1>4. ~NotAfter(low, high) => high.secs <= low.secs
  BY <1>1 DEF NotAfter
<1> QED BY <1>4, <1>7

\* The lower bytes of a number are fewer than they have values, the upper ones
\* grow with it, and so one put together from the lower bytes of a number and
\* the upper ones of a later number lies between them but for the lower bytes.
LEMMA BytesAre ==
    ASSUME NEW s \in Nat, NEW t \in Nat, NEW m \in Nat, m > 0
    PROVE  /\ s % m \in Nat /\ s % m < m /\ Upper(t, m) \in Nat /\ Upper(t, m) <= t
           /\ LowerFrom(s, t, m) \in Nat
           /\ s <= t => s <= (s % m) + Upper(t, m)
<1>1. PICK q1, q2, r1, r2 : q1 = s \div m /\ q2 = t \div m /\ r1 = s % m /\ r2 = t % m
  OBVIOUS
<1>2. q1 \in Nat /\ r1 \in 0..m - 1 /\ s = q1 * m + r1
  BY <1>1, Division
<1>3. q2 \in Nat /\ r2 \in 0..m - 1 /\ t = q2 * m + r2
  BY <1>1, Division
<1>4. q1 * m \in Nat /\ q2 * m \in Nat
  BY <1>2, <1>3
<1>5. s % m \in Nat /\ s % m < m
  BY <1>1, <1>2
<1>6. Upper(t, m) = q2 * m
  BY <1>1 DEF Upper
<1>7. Upper(t, m) \in Nat /\ Upper(t, m) <= t
  BY <1>3, <1>4, <1>6
<1>8. s <= t => q1 <= q2
  <2> SUFFICES ASSUME s <= t, q2 < q1 PROVE FALSE
    BY <1>2, <1>3
  <2>1. PICK k \in Nat : q1 = q2 + 1 + k
    <3>1. q1 - q2 - 1 \in Nat /\ q1 = q2 + 1 + (q1 - q2 - 1)
      BY <1>2, <1>3
    <3> QED BY <3>1
  <2>2. q1 * m = q2 * m + m + k * m /\ k * m \in Nat
    BY <1>2, <1>3, <2>1
  <2> QED BY <1>2, <1>3, <1>4, <2>2
<1>9. s <= t => q1 * m <= q2 * m
  <2> SUFFICES ASSUME s <= t PROVE q1 * m <= q2 * m
    OBVIOUS
  <2>1. PICK k \in Nat : q2 = q1 + k
    <3>1. q2 - q1 \in Nat /\ q2 = q1 + (q2 - q1)
      BY <1>2, <1>3, <1>8
    <3> QED BY <3>1
  <2>2. q2 * m = q1 * m + k * m /\ k * m \in Nat
    BY <1>2, <1>3, <2>1
  <2> QED BY <1>4, <2>2
<1>10. s <= t => s <= (s % m) + Upper(t, m)
  <2>1. s <= t => s <= r1 + q2 * m
    BY <1>2, <1>4, <1>9
  <2> QED BY <1>1, <1>6, <2>1
<1>11. LowerFrom(s, t, m) \in Nat
  BY <1>5, <1>7 DEF LowerFrom
<1> QED BY <1>5, <1>7, <1>10, <1>11

-----------------------------------------------------------------------------
AfterReads == {"write secs", "write secs high", "write nanos", "write nanos high",
               "compact", "compact high", "carry", "carry high", "activate"}

WTyped ==
    /\ WdtTypeOK
    /\ \A d \in Wdt : wdts[d].period.nanos < SecTicks
    /\ ~Idling => call.id \in Wdt
    /\ call.at \in AfterReads => now.nanos < SecTicks

Past ==
    /\ begun <= Clock
    /\ \A d \in Wdt : fed[d].from <= fed[d].to /\ fed[d].to <= Clock
    /\ ~Idling => \A d \in Wdt : fed[d].from <= begun

ReadAhead ==
    /\ call.at \in {"secs high", "low"} => now.nanos = 0
    /\ call.at = "high" => now.nanos < Half
    /\ call.at \in {"low", "high"} => now.secs <= sysTime.secs + ahead
    /\ call.at = "timer" => Ticks(now) < Ticks(sysTime) + Half + Seconds(ahead)
    /\ call.at \in AfterReads => Ticks(now) < Clock + Half + Seconds(ahead)

\* Not long before the seconds s began, the call did.
BegunBy(s) == begun < Seconds(s) + SecTicks + WakeupLimit

ReadBehind ==
    /\ call.at = "secs high" =>
           \E s \in Nat : /\ now.secs = s % call.split
                          /\ s <= sysTime.secs /\ BegunBy(s)
    /\ call.at \notin {"idle", "secs", "secs high"} => BegunBy(now.secs)

Written ==
    LET next == wdts[call.id].next
    IN  /\ call.at \in {"write nanos", "write nanos high", "compact", "compact high", "carry"} =>
               next.secs = NewSecs
        /\ call.at = "compact" => next.nanos = NewNanos
        /\ call.at = "compact high" => NewNanos >= SecTicks
        /\ call.at \in {"carry", "carry high"} => next.nanos + SecTicks = NewNanos
        /\ call.at = "activate" =>
               \/ next.secs = NewSecs /\ next.nanos = NewNanos
               \/ next.secs = NewSecs + 1 /\ next.nanos + SecTicks = NewNanos

NotLater == \A d \in Wdt : wdts[d].active /\ (Idling \/ call.id # d) =>
    LET bound == fed[d].to + Ticks(wdts[d].period) + Half + Seconds(fed[d].ahead)
    IN  Ticks(wdts[d].next) < bound /\ Ticks(sysTime) < bound + WakeupLimit

\* The deadline of d is not long before a period after its last call began.
DueAfter(d) == fed[d].from + Seconds(wdts[d].period.secs)
                 < Seconds(wdts[d].next.secs) + SecTicks + WakeupLimit

NotEarlier == \A d \in Wdt : wdts[d].active => DueAfter(d) \/ HalfWritten(d)

WInv == WTyped /\ Past /\ ReadAhead /\ ReadBehind /\ Written /\ NotLater /\ NotEarlier

\* What the parts say in numbers.
LEMMA ClockIs ==
    ASSUME WdtTypeOK
    PROVE  /\ sysTime \in Time /\ sysTime.secs \in Nat /\ sysTime.nanos \in 0..SecTicks - 1
           /\ osTimer \in 0..WakeupLimit /\ WakeupLimit \in Nat /\ Half \in Nat /\ Half > 0
           /\ Ticks(sysTime) \in Nat /\ Ticks(sysTime) = Seconds(sysTime.secs) + sysTime.nanos
           /\ Seconds(sysTime.secs) \in Nat
           /\ Clock = Ticks(sysTime) + osTimer /\ Clock \in Nat
           /\ begun \in Nat /\ ahead \in Nat /\ Seconds(ahead) \in Nat /\ now \in Time /\ now.secs \in Nat /\ now.nanos \in Nat
           /\ Ticks(now) \in Nat /\ Ticks(now) = Seconds(now.secs) + now.nanos
           /\ Seconds(now.secs) \in Nat
<1>1. sysTime \in [secs : Nat, nanos : 0..SecTicks - 1] /\ osTimer \in 0..WakeupLimit
      /\ begun \in Nat /\ ahead \in Nat /\ now \in Time
  BY DEF WdtTypeOK
<1>2. sysTime \in Time /\ sysTime.secs \in Nat /\ sysTime.nanos \in 0..SecTicks - 1
  BY <1>1, SecondsAre DEF Time
<1>3. now.secs \in Nat /\ now.nanos \in Nat
  BY <1>1 DEF Time
<1>4. WakeupLimit \in Nat /\ Half \in Nat /\ Half > 0
  BY WdtAssumption
<1>5. /\ Ticks(sysTime) \in Nat /\ Ticks(sysTime) = Seconds(sysTime.secs) + sysTime.nanos
      /\ Seconds(sysTime.secs) \in Nat
      /\ Ticks(now) \in Nat /\ Ticks(now) = Seconds(now.secs) + now.nanos
      /\ Seconds(now.secs) \in Nat
  BY <1>1, <1>2, TicksAre
<1>6. Clock = Ticks(sysTime) + osTimer /\ Clock \in Nat
  BY <1>1, <1>4, <1>5 DEF Clock
<1>7. Seconds(ahead) \in Nat
  BY <1>1, SecondsAre
<1> QED BY <1>1, <1>2, <1>3, <1>4, <1>5, <1>6, <1>7

LEMMA WdtIs ==
    ASSUME WdtTypeOK, NEW d \in Wdt
    PROVE  /\ wdts[d] \in [active : BOOLEAN, next : Time, period : Time]
           /\ wdts[d].next \in Time /\ wdts[d].period \in Time
           /\ wdts[d].next.secs \in Nat /\ wdts[d].next.nanos \in Nat
           /\ wdts[d].period.secs \in Nat /\ wdts[d].period.nanos \in Nat
           /\ Seconds(wdts[d].next.secs) \in Nat /\ Seconds(wdts[d].period.secs) \in Nat
           /\ Ticks(wdts[d].next) \in Nat /\ Ticks(wdts[d].period) \in Nat
           /\ Ticks(wdts[d].next) = Seconds(wdts[d].next.secs) + wdts[d].next.nanos
           /\ Ticks(wdts[d].period) = Seconds(wdts[d].period.secs) + wdts[d].period.nanos
           /\ fed[d].from \in Nat /\ fed[d].to \in Nat
           /\ fed[d].ahead \in Nat /\ Seconds(fed[d].ahead) \in Nat
<1>1. /\ wdts[d] \in [active : BOOLEAN, next : Time, period : Time]
      /\ fed[d] \in [from : Nat, to : Nat, ahead : Nat]
  BY DEF WdtTypeOK
<1>2. wdts[d].next \in Time /\ wdts[d].period \in Time
  BY <1>1
<1>3. /\ wdts[d].next.secs \in Nat /\ wdts[d].next.nanos \in Nat
      /\ wdts[d].period.secs \in Nat /\ wdts[d].period.nanos \in Nat
  BY <1>2 DEF Time
<1>4. fed[d].ahead \in Nat /\ Seconds(fed[d].ahead) \in Nat
  BY <1>1, SecondsAre
<1> QED BY <1>1, <1>2, <1>3, <1>4, TicksAre

LEMMA CallIs ==
    ASSUME WTyped
    PROVE  /\ Idling => call.at = "idle"
           /\ ~Idling => call.at # "idle" /\ call.id \in Wdt
           /\ call.split \in SecSplits \cup {1} /\ call.split \in Nat /\ call.split > 0
<1>1. call.split \in SecSplits \cup {1}
  BY DEF WTyped, WdtTypeOK
<1>2. call.split \in Nat /\ call.split > 0
  <2>1. \A m \in SecSplits : m \in Nat /\ m > 0
    BY WdtAssumption
  <2>2. CASE call.split \in SecSplits
    BY <2>1, <2>2
  <2>3. CASE call.split = 1
    BY <2>3
  <2> QED BY <1>1, <2>2, <2>3
<1>3. /\ Idling => call.at = "idle"
      /\ ~Idling => call.at # "idle" /\ call.id \in Wdt
  BY DEF WTyped, Idling
<1> QED BY <1>1, <1>2, <1>3

\* The deadline that the call writes, in numbers.
LEMMA NewIs ==
    ASSUME WTyped, ~Idling
    PROVE  /\ NewSecs \in Nat /\ NewNanos \in Nat /\ OldSecs \in Nat /\ OldNanos \in Nat
           /\ Seconds(NewSecs) = Seconds(now.secs) + Seconds(wdts[call.id].period.secs)
           /\ NewNanos = now.nanos + wdts[call.id].period.nanos
<1>1. WdtTypeOK /\ call.id \in Wdt
  BY DEF WTyped
<1>2. /\ now.secs \in Nat /\ now.nanos \in Nat
      /\ wdts[call.id].period.secs \in Nat /\ wdts[call.id].period.nanos \in Nat
  BY <1>1, ClockIs, WdtIs
<1>3. OldSecs \in Nat /\ OldNanos \in Nat
  BY <1>1, WdtIs DEF OldSecs, OldNanos
<1>4. NewSecs \in Nat /\ NewNanos \in Nat /\ NewNanos = now.nanos + wdts[call.id].period.nanos
  BY <1>2 DEF NewSecs, NewNanos
<1>5. Seconds(NewSecs) = Seconds(now.secs) + Seconds(wdts[call.id].period.secs)
  <2>1. PICK a, b \in Nat : a = now.secs /\ b = wdts[call.id].period.secs
    BY <1>2
  <2>2. NewSecs = a + b
    BY <2>1 DEF NewSecs
  <2>3. Seconds(a + b) = Seconds(a) + Seconds(b)
    BY SecondsAre
  <2> QED BY <2>1, <2>2, <2>3
<1> QED BY <1>3, <1>4, <1>5

-----------------------------------------------------------------------------
LEMMA WInit == WdtInit => WInv
<1> SUFFICES ASSUME WdtInit PROVE WInv
  OBVIOUS
<1>1. /\ sysTime = Stamp /\ osTimer = 0 /\ call = NoCall /\ now = Stamp /\ begun = 0 /\ ahead = 0
      /\ wdts = [d \in Wdt |-> Unused] /\ fed = [d \in Wdt |-> NotFed]
  BY DEF WdtInit
<1>2. /\ Stamp \in [secs : Nat, nanos : 0..SecTicks - 1] /\ Stamp \in Time
      /\ Unused \in [active : BOOLEAN, next : Time, period : Time]
      /\ Unused.period.nanos = 0 /\ Unused.active = FALSE
      /\ NotFed = [from |-> 0, to |-> 0, ahead |-> 0]
  BY SecondsAre DEF Stamp, Unused, Time, NotFed
<1>3. WdtTypeOK
  BY <1>1, <1>2, WdtAssumption DEF WdtTypeOK, NoCall
<1>4. Idling /\ call.at = "idle"
  BY <1>1 DEF NoCall, Idling
<1>5. WTyped
  BY <1>1, <1>2, <1>3, <1>4, SecondsAre DEF WTyped, AfterReads
<1>6. Past
  <2>1. Clock \in Nat
    BY <1>3, ClockIs
  <2> QED BY <1>1, <1>2, <1>4, <2>1 DEF Past
<1>7. \A d \in Wdt : wdts[d].active = FALSE
  BY <1>1, <1>2
<1> QED BY <1>4, <1>5, <1>6, <1>7 DEF WInv, ReadAhead, ReadBehind, Written, NotLater, NotEarlier,
                                       AfterReads

LEMMA ClockIsNext ==
    ASSUME WdtTypeOK'
    PROVE  /\ sysTime' \in Time /\ sysTime'.secs \in Nat /\ sysTime'.nanos \in 0..SecTicks - 1
           /\ osTimer' \in 0..WakeupLimit
           /\ Ticks(sysTime') \in Nat
           /\ Clock' = Ticks(sysTime') + osTimer' /\ Clock' \in Nat
<1>1. sysTime' \in [secs : Nat, nanos : 0..SecTicks - 1] /\ osTimer' \in 0..WakeupLimit
  BY DEF WdtTypeOK
<1>2. sysTime' \in Time /\ sysTime'.secs \in Nat /\ sysTime'.nanos \in 0..SecTicks - 1
  BY <1>1, SecondsAre DEF Time
<1>3. Ticks(sysTime') \in Nat
  BY <1>2, TicksAre
<1>4. Clock' = Ticks(sysTime') + osTimer'
  BY DEF Clock, Ticks
<1> QED BY <1>1, <1>2, <1>3, <1>4, WdtAssumption

\* The clock moves on under a call.
LEMMA ClockMoves ==
    ASSUME WInv, WdtTypeOK', UNCHANGED <<wdts, callingVars, fed>>,
           Clock <= Clock', Ticks(sysTime) <= Ticks(sysTime'), sysTime.secs <= sysTime'.secs
    PROVE  (WTyped /\ Past /\ ReadAhead /\ ReadBehind /\ Written /\ NotEarlier)'
<1>1. wdts' = wdts /\ call' = call /\ now' = now /\ begun' = begun /\ ahead' = ahead /\ fed' = fed
  BY DEF callingVars
<1>2. WdtTypeOK
  BY DEF WInv, WTyped
<1>3. Idling' <=> Idling
  BY <1>1 DEF Idling
<1>4. WTyped'
  BY <1>1, <1>3 DEF WInv, WTyped
<1>5. Clock \in Nat /\ Clock' \in Nat
  BY <1>2, ClockIs, ClockIsNext
<1>6. ReadBehind' /\ Written' /\ NotEarlier'
  <2>1. ReadBehind'
    <3>1. ASSUME NEW s \in Nat, s <= sysTime.secs PROVE s <= sysTime'.secs
      BY <1>2, <3>1, ClockIs, ClockIsNext
    <3>2. call.at = "secs high" =>
              \E s \in Nat : /\ now.secs = s % call.split
                             /\ s <= sysTime'.secs /\ BegunBy(s)
      BY <3>1 DEF WInv, ReadBehind
    <3>3. \A s : BegunBy(s)' <=> BegunBy(s)
      BY <1>1 DEF BegunBy
    <3>4. call.at \notin {"idle", "secs", "secs high"} => BegunBy(now.secs)
      BY DEF WInv, ReadBehind
    <3> QED BY <1>1, <3>2, <3>3, <3>4 DEF ReadBehind
  <2>2. Written'
    BY <1>1 DEF WInv, Written, NewSecs, NewNanos
  <2>3. NotEarlier'
    BY <1>1 DEF WInv, NotEarlier, DueAfter, HalfWritten, NewSecs, OldSecs
  <2> QED BY <2>1, <2>2, <2>3
<1>7. Past'
  <2>1. begun \in Nat /\ \A d \in Wdt : fed[d].to \in Nat
    BY <1>2, ClockIs, WdtIs
  <2> QED BY <1>1, <1>3, <1>5, <2>1 DEF WInv, Past
<1>8. ReadAhead'
  <2>1. call.at \in {"low", "high"} => now.secs <= sysTime'.secs + ahead
    <3>1. call.at \in {"low", "high"} => now.secs <= sysTime.secs + ahead
      BY DEF WInv, ReadAhead
    <3>2. now.secs \in Nat /\ sysTime.secs \in Nat /\ sysTime'.secs \in Nat /\ ahead \in Nat
      BY <1>2, ClockIs, ClockIsNext
    <3> QED BY <3>1, <3>2
  <2>2. call.at = "timer" => Ticks(now) < Ticks(sysTime') + Half + Seconds(ahead)
    <3>1. call.at = "timer" => Ticks(now) < Ticks(sysTime) + Half + Seconds(ahead)
      BY DEF WInv, ReadAhead
    <3>2. /\ Ticks(now) \in Nat /\ Ticks(sysTime) \in Nat /\ Ticks(sysTime') \in Nat
          /\ Half \in Nat /\ Seconds(ahead) \in Nat
      BY <1>2, ClockIs, ClockIsNext
    <3> QED BY <3>1, <3>2
  <2>3. call.at \in AfterReads => Ticks(now) < Clock' + Half + Seconds(ahead)
    <3>1. call.at \in AfterReads => Ticks(now) < Clock + Half + Seconds(ahead)
      BY DEF WInv, ReadAhead
    <3>2. Ticks(now) \in Nat /\ Half \in Nat /\ Seconds(ahead) \in Nat
      BY <1>2, ClockIs
    <3> QED BY <1>5, <3>1, <3>2
  <2>4. /\ call.at \in {"secs high", "low"} => now.nanos = 0
        /\ call.at = "high" => now.nanos < Half
    BY DEF WInv, ReadAhead
  <2>5. Ticks(now)' = Ticks(now) /\ Seconds(ahead)' = Seconds(ahead)
    BY <1>1 DEF Ticks, Seconds
  <2> QED BY <1>1, <2>1, <2>2, <2>3, <2>4, <2>5 DEF ReadAhead, Ticks, Seconds
<1> QED BY <1>4, <1>6, <1>7, <1>8

LEMMA Ticking == WInv /\ TimerTick => WInv'
<1> SUFFICES ASSUME WInv, TimerTick PROVE WInv'
  OBVIOUS
<1>1. WdtTypeOK
  BY DEF WInv, WTyped
<1>2. /\ osTimer < WakeupLimit /\ osTimer' = osTimer + 1
      /\ UNCHANGED <<sysTime, wdts, callingVars, fed>>
  BY DEF TimerTick
<1>3. WdtTypeOK'
  <2>1. osTimer' \in 0..WakeupLimit
    BY <1>1, <1>2, ClockIs
  <2> QED BY <1>1, <1>2, <2>1 DEF WdtTypeOK, callingVars
<1>4. Clock <= Clock' /\ Ticks(sysTime) <= Ticks(sysTime') /\ sysTime.secs <= sysTime'.secs
  BY <1>1, <1>2, <1>3, ClockIs, ClockIsNext
<1>5. (WTyped /\ Past /\ ReadAhead /\ ReadBehind /\ Written /\ NotEarlier)'
  BY <1>2, <1>3, <1>4, ClockMoves
<1>6. NotLater'
  BY <1>2 DEF WInv, NotLater, callingVars, Idling
<1> QED BY <1>5, <1>6 DEF WInv

\* The check lets an active deadline be behind by one run of the scheduler.
LEMMA Scheduling == WInv /\ SchedulerRuns => WInv'
<1> SUFFICES ASSUME WInv, SchedulerRuns PROVE WInv'
  OBVIOUS
<1>1. WdtTypeOK
  BY DEF WInv, WTyped
<1>2. /\ osTimer' = 0 /\ \A d \in Wdt : ~Expired(d)
      /\ sysTime' = Compact([sysTime EXCEPT !.nanos = @ + osTimer])
      /\ UNCHANGED <<wdts, callingVars, fed>>
  BY DEF SchedulerRuns
<1>3. PICK t \in Time : t.secs = sysTime.secs /\ t.nanos = sysTime.nanos + osTimer /\ sysTime' = Compact(t)
  <2>1. sysTime = [secs |-> sysTime.secs, nanos |-> sysTime.nanos]
    BY <1>1 DEF WdtTypeOK
  <2>2. [sysTime EXCEPT !.nanos = @ + osTimer]
          = [secs |-> sysTime.secs, nanos |-> sysTime.nanos + osTimer]
    BY <2>1
  <2>3. sysTime.nanos + osTimer \in Nat
    BY <1>1, ClockIs
  <2> QED BY <1>1, <1>2, <2>2, <2>3, ClockIs DEF Time
<1>4. /\ sysTime' \in [secs : Nat, nanos : 0..SecTicks - 1] /\ sysTime.secs <= sysTime'.secs
      /\ Ticks(sysTime') = Ticks(t)
  BY <1>3, CompactKeeps
<1>5. Ticks(sysTime') = Ticks(sysTime) + osTimer
  BY <1>1, <1>3, <1>4, ClockIs, TicksAre
<1>6. WdtTypeOK'
  <2>1. osTimer' \in 0..WakeupLimit
    BY <1>2, WdtAssumption
  <2> QED BY <1>1, <1>2, <1>4, <2>1 DEF WdtTypeOK, callingVars
<1>7. Clock <= Clock' /\ Ticks(sysTime) <= Ticks(sysTime')
  BY <1>1, <1>2, <1>5, <1>6, ClockIs, ClockIsNext
<1>8. (WTyped /\ Past /\ ReadAhead /\ ReadBehind /\ Written /\ NotEarlier)'
  BY <1>2, <1>4, <1>6, <1>7, ClockMoves
<1>9. NotLater'
  <2> SUFFICES ASSUME NEW d \in Wdt, wdts[d].active, Idling \/ call.id # d
               PROVE  LET bound == fed[d].to + Ticks(wdts[d].period) + Half + Seconds(fed[d].ahead)
                      IN  Ticks(wdts[d].next) < bound /\ Ticks(sysTime') < bound + WakeupLimit
    BY <1>2 DEF NotLater, callingVars, Idling
  <2>1. Ticks(wdts[d].next) < fed[d].to + Ticks(wdts[d].period) + Half + Seconds(fed[d].ahead)
    BY DEF WInv, NotLater
  <2>2. NotAfter(sysTime, wdts[d].next)
    BY <1>2 DEF Expired
  <2>3. Ticks(sysTime) <= Ticks(wdts[d].next)
    <3>1. sysTime \in Time /\ sysTime.nanos < SecTicks
      <4>1. sysTime \in Time /\ sysTime.nanos \in 0..SecTicks - 1 /\ SecTicks \in Nat
        BY <1>1, ClockIs, SecondsAre
      <4> QED BY <4>1
    <3>2. wdts[d].next \in Time
      BY <1>1, WdtIs
    <3> QED BY <2>2, <3>1, <3>2, OrderOfTimes
  <2> QED BY <1>1, <1>5, <2>1, <2>3, ClockIs, WdtIs
<1> QED BY <1>8, <1>9 DEF WInv

\* After a restart no watchdog is active and no call is under way.
LEMMA Restarting == WInv /\ WdtRestart => WInv'
<1> SUFFICES ASSUME WInv, WdtRestart PROVE WInv'
  OBVIOUS
<1>1. /\ sysTime' = Stamp /\ osTimer' = 0 /\ call' = NoCall /\ now' = Stamp /\ begun' = 0 /\ ahead' = 0
      /\ wdts' = [d \in Wdt |-> Unused] /\ fed' = [d \in Wdt |-> NotFed]
  BY DEF WdtRestart
<1>2. /\ Stamp \in [secs : Nat, nanos : 0..SecTicks - 1] /\ Stamp \in Time
      /\ Unused \in [active : BOOLEAN, next : Time, period : Time]
      /\ Unused.period.nanos = 0 /\ Unused.active = FALSE
      /\ NotFed = [from |-> 0, to |-> 0, ahead |-> 0]
  BY SecondsAre DEF Stamp, Unused, Time, NotFed
<1>3. WdtTypeOK'
  BY <1>1, <1>2, WdtAssumption DEF WdtTypeOK, NoCall
<1>4. Idling' /\ call'.at = "idle"
  BY <1>1 DEF NoCall, Idling
<1>5. WTyped'
  BY <1>1, <1>2, <1>3, <1>4, SecondsAre DEF WTyped, AfterReads
<1>6. Past'
  <2>1. Clock' \in Nat
    BY <1>3, ClockIsNext
  <2> QED BY <1>1, <1>2, <1>4, <2>1 DEF Past
<1>7. \A d \in Wdt : wdts'[d].active = FALSE
  BY <1>1, <1>2
<1> QED BY <1>4, <1>5, <1>6, <1>7 DEF WInv, ReadAhead, ReadBehind, Written, NotLater, NotEarlier,
                                       AfterReads

-----------------------------------------------------------------------------
\* nrk_sw_wdt_init and nrk_sw_wdt_stop leave the watchdog inactive.
LEMMA Disarming ==
    ASSUME WInv, NEW d \in Wdt, Idling, WdtTypeOK', UNCHANGED <<clockVars, callingVars, fed>>,
           wdts'[d].active = FALSE, wdts'[d].period.nanos < SecTicks,
           \A e \in Wdt \ {d} : wdts'[e] = wdts[e]
    PROVE  WInv'
<1>1. UNCHANGED <<sysTime, osTimer, call, now, begun, ahead, fed>>
  BY DEF clockVars, callingVars
<1>2. Idling' /\ call.at = "idle"
  BY <1>1 DEF Idling
<1>3. Clock' = Clock
  BY <1>1 DEF Clock
<1>4. WTyped'
  BY <1>1, <1>2 DEF WInv, WTyped
<1>5. Past' /\ ReadAhead' /\ ReadBehind'
  BY <1>1, <1>2, <1>3 DEF WInv, Past, ReadAhead, ReadBehind, AfterReads
<1>6. Written'
  BY <1>1, <1>2 DEF Written
<1>7. NotLater' /\ NotEarlier'
  BY <1>1, <1>2 DEF WInv, NotLater, NotEarlier, DueAfter, HalfWritten
<1> QED BY <1>4, <1>5, <1>6, <1>7 DEF WInv

LEMMA Initialising == ASSUME WInv, NEW d \in Wdt, NEW p \in WdtPeriod, InitWdt(d, p) PROVE WInv'
<1>1. /\ Idling /\ wdts' = [wdts EXCEPT ![d].period = p, ![d].active = FALSE]
      /\ UNCHANGED <<clockVars, callingVars, fed>>
  BY DEF InitWdt
<1>2. WdtTypeOK /\ p \in Time /\ p.nanos < SecTicks
  BY WdtAssumption DEF WInv, WTyped, Time
<1>3. wdts \in [Wdt -> [active : BOOLEAN, next : Time, period : Time]]
  BY <1>2 DEF WdtTypeOK
<1>4. /\ wdts' \in [Wdt -> [active : BOOLEAN, next : Time, period : Time]]
      /\ wdts'[d].active = FALSE /\ wdts'[d].period = p
      /\ \A e \in Wdt \ {d} : wdts'[e] = wdts[e]
  BY <1>1, <1>2, <1>3
<1>5. WdtTypeOK'
  BY <1>1, <1>2, <1>4 DEF WdtTypeOK, clockVars, callingVars
<1> QED BY <1>1, <1>2, <1>4, <1>5, Disarming

LEMMA Stopping == ASSUME WInv, NEW d \in Wdt, StopWdt(d) PROVE WInv'
<1>1. /\ Idling /\ wdts' = [wdts EXCEPT ![d].active = FALSE]
      /\ UNCHANGED <<clockVars, callingVars, fed>>
  BY DEF StopWdt
<1>2. WdtTypeOK /\ wdts[d].period.nanos < SecTicks
  BY DEF WInv, WTyped
<1>3. wdts \in [Wdt -> [active : BOOLEAN, next : Time, period : Time]]
  BY <1>2 DEF WdtTypeOK
<1>4. /\ wdts' \in [Wdt -> [active : BOOLEAN, next : Time, period : Time]]
      /\ wdts'[d].active = FALSE /\ wdts'[d].period = wdts[d].period
      /\ \A e \in Wdt \ {d} : wdts'[e] = wdts[e]
  BY <1>1, <1>3
<1>5. WdtTypeOK'
  BY <1>1, <1>2, <1>4 DEF WdtTypeOK, clockVars, callingVars
<1> QED BY <1>1, <1>2, <1>4, <1>5, Disarming

LEMMA Calling ==
    ASSUME WInv, NEW d \in Wdt, NEW name \in {"start", "update"}, Call(name, d)
    PROVE  WInv'
<1>1. /\ Idling /\ call' = [name |-> name, id |-> d, at |-> "secs", split |-> 1] /\ begun' = Clock
      /\ UNCHANGED <<sysTime, osTimer, wdts, now, ahead, fed>>
  BY DEF Call, clockVars
<1>2. WdtTypeOK /\ d \in Nat
  BY WdtAssumption DEF WInv, WTyped
<1>3. ~Idling' /\ call'.at = "secs" /\ call'.id = d /\ Clock' = Clock
  BY <1>1 DEF Idling, Clock
<1>4. WdtTypeOK'
  BY <1>1, <1>2, ClockIs DEF WdtTypeOK
<1>5. WTyped'
  BY <1>1, <1>3, <1>4 DEF WInv, WTyped, AfterReads
<1>6. Past'
  <2>1. Clock \in Nat
    BY <1>2, ClockIs
  <2>2. ASSUME NEW e \in Wdt PROVE fed[e].from <= Clock
    <3>1. fed[e].from \in Nat /\ fed[e].to \in Nat
      BY <1>2, WdtIs
    <3> QED BY <2>1, <3>1 DEF WInv, Past
  <2> QED BY <1>1, <1>3, <2>1, <2>2 DEF WInv, Past
<1>7. ReadAhead' /\ ReadBehind' /\ Written'
  BY <1>3 DEF ReadAhead, ReadBehind, Written, AfterReads
<1>8. NotLater' /\ NotEarlier'
  BY <1>1, <1>3 DEF WInv, NotLater, NotEarlier, DueAfter, HalfWritten, Idling
<1> QED BY <1>5, <1>6, <1>7, <1>8 DEF WInv

-----------------------------------------------------------------------------
\* A step of a call, from one point to the next, can only disturb what is said
\* of its own reads and of its own watchdog.
Updated ==
    /\ wdts' \in [Wdt -> [active : BOOLEAN, next : Time, period : Time]]
    /\ wdts'[call.id].period = wdts[call.id].period
    /\ wdts'[call.id].active = wdts[call.id].active
    /\ \A e \in Wdt \ {call.id} : wdts'[e] = wdts[e]

LEMMA InCall ==
    ASSUME WInv, NEW point \in AfterReads \cup {"secs high", "low", "high", "timer"},
           NEW m \in SecSplits \cup {1},
           ~Idling, call' = [call EXCEPT !.at = point, !.split = m],
           UNCHANGED <<clockVars, begun, fed>>, ahead' \in Nat,
           now' \in Time, point \in AfterReads => now'.nanos < SecTicks, Updated
    PROVE  /\ WTyped' /\ Past' /\ NotLater' /\ ~Idling'
           /\ call.id \in Wdt /\ call'.at = point /\ call'.id = call.id /\ call'.split = m
           /\ sysTime' = sysTime /\ Clock' = Clock /\ begun' = begun /\ fed' = fed
<1>1. sysTime' = sysTime /\ osTimer' = osTimer /\ begun' = begun /\ fed' = fed
  BY DEF clockVars
<1>2. WdtTypeOK /\ WTyped
  BY DEF WInv, WTyped
<1>3. /\ call.id \in Wdt /\ call'.at = point /\ call'.id = call.id /\ call'.split = m
      /\ call'.name = call.name
  BY <1>2, CallIs DEF WdtTypeOK
<1>4. ~Idling' /\ Clock' = Clock
  BY <1>1, <1>3 DEF Idling, Clock, AfterReads
<1>5. WdtTypeOK'
  <2>1. call' \in [name : {"none", "start", "update"}, id : Nat,
                at : {"idle", "secs", "secs high", "low", "high", "timer",
                      "write secs", "write secs high", "write nanos", "write nanos high",
                      "compact", "compact high", "carry", "carry high", "activate"},
                split : SecSplits \cup {1}]
    BY <1>2 DEF WdtTypeOK, AfterReads
  <2> QED BY <1>1, <1>2, <2>1 DEF WdtTypeOK, Updated
<1>6. WTyped'
  <2>1. \A d \in Wdt : wdts'[d].period.nanos < SecTicks
    BY <1>2 DEF WTyped, Updated
  <2> QED BY <1>3, <1>4, <1>5, <2>1 DEF WTyped
<1>7. Past'
  BY <1>1, <1>4 DEF WInv, Past
<1>8. NotLater'
  BY <1>1, <1>3, <1>4 DEF WInv, NotLater, Updated
<1> QED BY <1>1, <1>3, <1>4, <1>6, <1>7, <1>8

\* What a step that reads leaves alone.
LEMMA Reading ==
    ASSUME WInv, NEW point \in {"secs high", "low", "high", "timer", "write secs"},
           NEW m \in SecSplits \cup {1},
           call.at \in {"secs", "secs high", "low", "high", "timer"},
           call' = [call EXCEPT !.at = point, !.split = m],
           UNCHANGED <<clockVars, wdts, begun, fed>>, ahead' \in Nat,
           now' \in Time, point = "write secs" => now'.nanos < SecTicks
    PROVE  /\ WTyped' /\ Past' /\ NotLater' /\ NotEarlier' /\ Written'
           /\ call'.at = point /\ call'.split = m
           /\ Clock' = Clock /\ begun' = begun /\ sysTime' = sysTime
<1>1. WdtTypeOK /\ WTyped /\ ~Idling
  BY DEF WInv, WTyped, Idling
<1>2. Updated /\ (point \in AfterReads => now'.nanos < SecTicks)
  BY <1>1 DEF WdtTypeOK, AfterReads, Updated
<1>3. point \in AfterReads \cup {"secs high", "low", "high", "timer"}
  BY DEF AfterReads
<1>4. UNCHANGED <<clockVars, begun, fed>> /\ wdts' = wdts
  OBVIOUS
<1>5. /\ WTyped' /\ Past' /\ NotLater' /\ call'.at = point /\ call'.split = m
      /\ sysTime' = sysTime /\ Clock' = Clock /\ begun' = begun /\ fed' = fed
  BY <1>1, <1>2, <1>3, <1>4, InCall
<1>6. NotEarlier'
  <2>1. \A d \in Wdt : wdts[d].active => DueAfter(d)
    BY DEF WInv, NotEarlier, HalfWritten
  <2> QED BY <1>4, <1>5, <2>1 DEF NotEarlier, DueAfter
<1>7. Written'
  BY <1>5 DEF Written
<1> QED BY <1>5, <1>6, <1>7

LEMMA ReadingSecsLow == WInv /\ ReadSecsLow => WInv'
<1> SUFFICES ASSUME WInv, ReadSecsLow PROVE WInv'
  OBVIOUS
<1>1. call.at = "secs" /\ UNCHANGED <<clockVars, wdts, begun, ahead, fed>>
  BY DEF ReadSecsLow
<1>2. PICK m \in SecSplits : /\ now' = [secs |-> sysTime.secs % m, nanos |-> 0]
                             /\ call' = [call EXCEPT !.at = "secs high", !.split = m]
  BY DEF ReadSecsLow
<1>3. WdtTypeOK /\ WTyped /\ m \in SecSplits \cup {1} /\ m \in Nat /\ m > 0
  BY WdtAssumption DEF WInv, WTyped
<1>4. PICK s \in Nat : s = sysTime.secs
  BY <1>3, ClockIs
<1>5. s % m \in Nat
  BY <1>3, BytesAre
<1>6. now' \in Time /\ now'.secs = s % m /\ now'.nanos = 0 /\ ahead' \in Nat
  BY <1>1, <1>2, <1>3, <1>4, <1>5, ClockIs DEF Time
<1>7. /\ WTyped' /\ Past' /\ NotLater' /\ NotEarlier' /\ Written'
      /\ call'.at = "secs high" /\ call'.split = m /\ begun' = begun /\ sysTime' = sysTime
  BY <1>1, <1>2, <1>3, <1>6, Reading
<1>8. ReadAhead'
  BY <1>6, <1>7 DEF ReadAhead, AfterReads
<1>9. BegunBy(s)
  <2>1. begun <= Clock
    BY DEF WInv, Past
  <2>2. /\ begun \in Nat /\ Seconds(s) \in Nat /\ sysTime.nanos \in 0..SecTicks - 1
        /\ osTimer \in 0..WakeupLimit /\ WakeupLimit \in Nat /\ SecTicks \in Nat
        /\ Clock = Seconds(s) + sysTime.nanos + osTimer
    BY <1>3, <1>4, ClockIs, SecondsAre
  <2>3. begun < Seconds(s) + SecTicks + WakeupLimit
    BY <2>1, <2>2
  <2> QED BY <2>3 DEF BegunBy
<1>10. ReadBehind'
  <2>1. BegunBy(s)'
    BY <1>7, <1>9 DEF BegunBy
  <2>2. sysTime'.secs = s
    BY <1>4, <1>7
  <2>3. s <= sysTime'.secs
    BY <2>2
  <2> QED BY <1>6, <1>7, <2>1, <2>3 DEF ReadBehind
<1> QED BY <1>7, <1>8, <1>10 DEF WInv

LEMMA ReadingSecsHigh == WInv /\ ReadSecsHigh => WInv'
<1> SUFFICES ASSUME WInv, ReadSecsHigh PROVE WInv'
  OBVIOUS
<1>0. PICK m : m = call.split
  OBVIOUS
<1>1. /\ call.at = "secs high" /\ Goto("low")
      /\ now' = [now EXCEPT !.secs = @ + Upper(sysTime.secs, m)]
      /\ ahead' = IF now'.secs > sysTime.secs THEN m - 1 ELSE 0
      /\ UNCHANGED <<clockVars, wdts, begun, fed>>
  BY <1>0 DEF ReadSecsHigh
<1>2. WdtTypeOK /\ WTyped /\ m \in Nat /\ m > 0
  BY <1>0, CallIs DEF WInv, WTyped
<1>3. PICK s \in Nat : now.secs = s % m /\ s <= sysTime.secs /\ BegunBy(s)
  BY <1>0, <1>1 DEF WInv, ReadBehind
<1>4. PICK t \in Nat : t = sysTime.secs
  BY <1>2, ClockIs
<1>5. PICK low, high \in Nat : /\ low = s % m /\ high = Upper(t, m)
                               /\ low < m /\ high <= t /\ s <= low + high
  BY <1>2, <1>3, <1>4, BytesAre
<1>6. now' \in Time /\ now'.secs = low + high /\ now'.nanos = 0
  <2>1. now \in Time /\ now.secs = low /\ now.nanos = 0
    BY <1>1, <1>2, <1>3, <1>5, ClockIs DEF WInv, ReadAhead
  <2>2. now' = [now EXCEPT !.secs = low + high]
    BY <1>1, <1>4, <1>5, <2>1 DEF Time
  <2> QED BY <2>1, <2>2 DEF Time
<1>7. ahead' \in Nat /\ now'.secs <= t + ahead'
  <2>1. ahead' = IF now'.secs > sysTime.secs THEN m - 1 ELSE 0
    BY <1>1
  <2>2. now'.secs = low + high
    BY <1>6
  <2>3. ahead' = IF low + high > t THEN m - 1 ELSE 0
    BY <1>4, <2>1, <2>2
  <2> QED BY <1>2, <1>5, <2>2, <2>3
<1>8. /\ WTyped' /\ Past' /\ NotLater' /\ NotEarlier' /\ Written'
      /\ call'.at = "low" /\ begun' = begun /\ sysTime' = sysTime
  <2>1. call' = [call EXCEPT !.at = "low", !.split = 1]
    BY <1>1 DEF Goto
  <2> QED BY <1>1, <1>6, <1>7, <2>1, Reading
<1>9. ReadAhead'
  BY <1>4, <1>6, <1>7, <1>8 DEF ReadAhead, AfterReads
<1>10. ReadBehind'
  <2>1. Seconds(s) <= Seconds(low + high) /\ Seconds(s) \in Nat /\ Seconds(low + high) \in Nat
    <3>1. low + high \in Nat
      OBVIOUS
    <3> QED BY <1>5, <3>1, SecondsAre
  <2>2. begun < Seconds(low + high) + SecTicks + WakeupLimit
    <3>1. begun < Seconds(s) + SecTicks + WakeupLimit
      BY <1>3 DEF BegunBy
    <3>2. begun \in Nat /\ SecTicks \in Nat /\ WakeupLimit \in Nat
      BY <1>2, ClockIs, SecondsAre
    <3> QED BY <2>1, <3>1, <3>2
  <2> QED BY <1>6, <1>8, <2>2 DEF ReadBehind, BegunBy
<1> QED BY <1>8, <1>9, <1>10 DEF WInv

LEMMA ReadingNanosLow == WInv /\ ReadNanosLow => WInv'
<1> SUFFICES ASSUME WInv, ReadNanosLow PROVE WInv'
  OBVIOUS
<1>1. /\ call.at = "low" /\ now' = [now EXCEPT !.nanos = sysTime.nanos % Half]
      /\ call' = [call EXCEPT !.at = "high", !.split = 1]
      /\ UNCHANGED <<clockVars, wdts, begun, ahead, fed>>
  BY DEF ReadNanosLow, Goto
<1>2. WdtTypeOK /\ WTyped
  BY DEF WInv, WTyped
<1>3. sysTime.nanos % Half \in 0..Half - 1 /\ Half \in Nat
  BY <1>2, Division, ClockIs
<1>4. now' \in Time /\ now'.secs = now.secs /\ now'.nanos = sysTime.nanos % Half /\ ahead' \in Nat
  BY <1>1, <1>2, <1>3, ClockIs DEF Time
<1>5. /\ WTyped' /\ Past' /\ NotLater' /\ NotEarlier' /\ Written'
      /\ call'.at = "high" /\ begun' = begun /\ sysTime' = sysTime
  BY <1>1, <1>4, Reading
<1>6. now.secs <= sysTime.secs + ahead
  BY <1>1 DEF WInv, ReadAhead
<1>7. ReadAhead'
  BY <1>1, <1>3, <1>4, <1>5, <1>6 DEF ReadAhead, AfterReads
<1>8. ReadBehind'
  BY <1>1, <1>4, <1>5 DEF WInv, ReadBehind, BegunBy
<1> QED BY <1>5, <1>7, <1>8 DEF WInv

LEMMA ReadingNanosHigh == WInv /\ ReadNanosHigh => WInv'
<1> SUFFICES ASSUME WInv, ReadNanosHigh PROVE WInv'
  OBVIOUS
<1>1. /\ call.at = "high" /\ now' = [now EXCEPT !.nanos = @ + Upper(sysTime.nanos, Half)]
      /\ call' = [call EXCEPT !.at = "timer", !.split = 1]
      /\ UNCHANGED <<clockVars, wdts, begun, ahead, fed>>
  BY DEF ReadNanosHigh, Goto
<1>2. WdtTypeOK /\ WTyped
  BY DEF WInv, WTyped
<1>3. PICK high \in Nat : high = Upper(sysTime.nanos, Half) /\ high <= sysTime.nanos
  <2>1. Half \in Nat /\ Half > 0 /\ sysTime.nanos \in Nat
    BY <1>2, ClockIs, SecondsAre
  <2> QED BY <2>1, BytesAre
<1>4. now' \in Time /\ now'.secs = now.secs /\ now'.nanos = now.nanos + high /\ ahead' \in Nat
  BY <1>1, <1>2, <1>3, ClockIs DEF Time
<1>5. /\ WTyped' /\ Past' /\ NotLater' /\ NotEarlier' /\ Written'
      /\ call'.at = "timer" /\ begun' = begun /\ sysTime' = sysTime
  BY <1>1, <1>4, Reading
<1>6. ReadAhead'
  <2>1. now.secs <= sysTime.secs + ahead /\ now.nanos < Half
    BY <1>1 DEF WInv, ReadAhead
  <2>2. Seconds(now.secs) <= Seconds(sysTime.secs) + Seconds(ahead)
    <3>1. PICK a, b \in Nat : a = sysTime.secs /\ b = ahead
      BY <1>2, ClockIs
    <3>2. Seconds(a + b) = Seconds(a) + Seconds(b) /\ a + b \in Nat
      BY SecondsAre
    <3>3. now.secs <= a + b /\ now.secs \in Nat
      BY <1>2, <2>1, <3>1, ClockIs
    <3>4. Seconds(now.secs) <= Seconds(a + b)
      BY <3>2, <3>3, SecondsAre
    <3> QED BY <3>1, <3>2, <3>4
  <2>3. Ticks(now') = Seconds(now.secs) + (now.nanos + high)
    BY <1>4, TicksAre
  <2>4. Ticks(now') < Ticks(sysTime) + Half + Seconds(ahead)
    <3>1. Ticks(sysTime) = Seconds(sysTime.secs) + sysTime.nanos
      BY <1>2, ClockIs
    <3>2. /\ Seconds(sysTime.secs) \in Nat /\ Seconds(now.secs) \in Nat /\ now.nanos \in Nat
          /\ Half \in Nat /\ Seconds(ahead) \in Nat /\ high \in Nat /\ sysTime.nanos \in Nat
      BY <1>2, <1>3, ClockIs, SecondsAre
    <3> QED BY <1>3, <2>1, <2>2, <2>3, <3>1, <3>2
  <2> QED BY <1>1, <1>5, <2>4 DEF ReadAhead, AfterReads
<1>7. ReadBehind'
  BY <1>1, <1>4, <1>5 DEF WInv, ReadBehind, BegunBy
<1> QED BY <1>5, <1>6, <1>7 DEF WInv

LEMMA ReadingTimer == WInv /\ ReadTimer => WInv'
<1> SUFFICES ASSUME WInv, ReadTimer PROVE WInv'
  OBVIOUS
<1>1. /\ call.at = "timer" /\ now' = Compact([now EXCEPT !.nanos = @ + osTimer])
      /\ call' = [call EXCEPT !.at = "write secs", !.split = 1]
      /\ UNCHANGED <<clockVars, wdts, begun, ahead, fed>>
  BY DEF ReadTimer, Goto
<1>2. WdtTypeOK /\ WTyped
  BY DEF WInv, WTyped
<1>3. PICK t \in Time : t.secs = now.secs /\ t.nanos = now.nanos + osTimer /\ now' = Compact(t)
  <2>1. now \in Time /\ now.secs \in Nat /\ now.nanos + osTimer \in Nat
    BY <1>2, ClockIs
  <2>2. [now EXCEPT !.nanos = @ + osTimer] = [secs |-> now.secs, nanos |-> now.nanos + osTimer]
    BY <2>1 DEF Time
  <2> QED BY <1>1, <2>1, <2>2 DEF Time
<1>4. /\ now' \in [secs : Nat, nanos : 0..SecTicks - 1] /\ now' \in Time
      /\ now.secs <= now'.secs /\ Ticks(now') = Ticks(t)
  BY <1>3, CompactKeeps
<1>5. Ticks(now') = Ticks(now) + osTimer
  BY <1>2, <1>3, <1>4, ClockIs, TicksAre
<1>6. now'.nanos < SecTicks /\ now'.secs \in Nat /\ ahead' \in Nat
  <2>1. now'.nanos \in 0..SecTicks - 1 /\ now'.secs \in Nat /\ SecTicks \in Nat
    BY <1>4, SecondsAre
  <2>2. now'.nanos < SecTicks
    BY <2>1
  <2> QED BY <1>1, <1>2, <2>1, <2>2, ClockIs
<1>7. /\ WTyped' /\ Past' /\ NotLater' /\ NotEarlier' /\ Written' /\ Clock' = Clock
      /\ call'.at = "write secs" /\ begun' = begun /\ sysTime' = sysTime
  BY <1>1, <1>4, <1>6, Reading
<1>8. ReadAhead'
  <2>1. Ticks(now) < Ticks(sysTime) + Half + Seconds(ahead)
    BY <1>1 DEF WInv, ReadAhead
  <2>2. Ticks(now') < Clock + Half + Seconds(ahead)
    BY <1>2, <1>5, <2>1, ClockIs
  <2> QED BY <1>1, <1>7, <2>2 DEF ReadAhead, AfterReads
<1>9. ReadBehind'
  <2>1. begun < Seconds(now.secs) + SecTicks + WakeupLimit
    BY <1>1 DEF WInv, ReadBehind, BegunBy
  <2>2. Seconds(now.secs) <= Seconds(now'.secs) /\ Seconds(now'.secs) \in Nat
    BY <1>2, <1>4, <1>6, ClockIs, SecondsAre
  <2>3. begun < Seconds(now'.secs) + SecTicks + WakeupLimit
    BY <1>2, <2>1, <2>2, ClockIs, SecondsAre
  <2> QED BY <1>7, <2>3 DEF ReadBehind, BegunBy
<1> QED BY <1>7, <1>8, <1>9 DEF WInv

\* A deadline whose seconds are those the call writes, or more, is not early.
LEMMA NewIsDue ==
    ASSUME WInv, call.at \in AfterReads, NEW n \in Nat, NewSecs <= n
    PROVE  fed[call.id].from + Seconds(wdts[call.id].period.secs)
             < Seconds(n) + SecTicks + WakeupLimit
<1>1. WTyped /\ WdtTypeOK /\ ~Idling /\ call.id \in Wdt
  BY DEF WInv, WTyped, Idling, AfterReads
<1>2. fed[call.id].from <= begun /\ begun < Seconds(now.secs) + SecTicks + WakeupLimit
  BY <1>1 DEF WInv, Past, ReadBehind, BegunBy, AfterReads
<1>3. NewSecs \in Nat /\ Seconds(NewSecs) = Seconds(now.secs) + Seconds(wdts[call.id].period.secs)
  BY <1>1, NewIs
<1>4. Seconds(NewSecs) <= Seconds(n) /\ Seconds(n) \in Nat
  BY <1>3, SecondsAre
<1>5. /\ fed[call.id].from \in Nat /\ begun \in Nat /\ Seconds(now.secs) \in Nat
      /\ Seconds(wdts[call.id].period.secs) \in Nat /\ SecTicks \in Nat /\ WakeupLimit \in Nat
  BY <1>1, ClockIs, WdtIs, SecondsAre
<1> QED BY <1>2, <1>3, <1>4, <1>5

\* What a step that writes the deadline leaves alone.
LEMMA Writing ==
    ASSUME WInv, NEW point \in AfterReads \ {"write secs"},
           call.at \in AfterReads \ {"activate"}, Goto(point),
           UNCHANGED <<clockVars, now, begun, ahead, fed>>, Updated,
           NEW id, id = call.id,
           NewSecs <= wdts'[id].next.secs \/ HalfWritten(id)'
    PROVE  /\ WTyped' /\ Past' /\ ReadAhead' /\ ReadBehind' /\ NotLater' /\ NotEarlier'
           /\ call'.at = point /\ call'.id = id /\ NewSecs' = NewSecs /\ NewNanos' = NewNanos
<1>1. WdtTypeOK /\ WTyped
  BY DEF WInv, WTyped
<1>2. ~Idling /\ call.at \in AfterReads /\ point \in AfterReads
  BY DEF Idling, AfterReads
<1>3. now' = now /\ now' \in Time /\ now'.nanos < SecTicks /\ ahead' = ahead /\ ahead' \in Nat
  BY <1>1, <1>2 DEF WdtTypeOK, WTyped
<1>4. /\ WTyped' /\ Past' /\ NotLater' /\ id \in Wdt
      /\ call'.at = point /\ call'.id = id
      /\ sysTime' = sysTime /\ Clock' = Clock /\ begun' = begun /\ fed' = fed
  <2>1. call' = [call EXCEPT !.at = point, !.split = 1] /\ 1 \in SecSplits \cup {1}
    BY DEF Goto
  <2>2. UNCHANGED <<clockVars, begun, fed>>
    OBVIOUS
  <2> QED BY <1>2, <1>3, <2>1, <2>2, InCall
<1>5. ReadAhead'
  <2>1. Ticks(now) < Clock + Half + Seconds(ahead)
    BY <1>2 DEF WInv, ReadAhead
  <2> QED BY <1>2, <1>3, <1>4, <2>1 DEF ReadAhead, AfterReads
<1>6. ReadBehind'
  <2>1. BegunBy(now.secs)
    BY <1>2 DEF WInv, ReadBehind, AfterReads
  <2> QED BY <1>2, <1>3, <1>4, <2>1 DEF ReadBehind, BegunBy, AfterReads
<1>7. NotEarlier'
  <2> SUFFICES ASSUME NEW d \in Wdt, wdts'[d].active PROVE DueAfter(d)' \/ HalfWritten(d)'
    BY DEF NotEarlier
  <2>1. CASE d = id
    <3>1. CASE NewSecs <= wdts'[id].next.secs
      <4>1. PICK n \in Nat : n = wdts'[id].next.secs
        BY <1>4 DEF Updated, Time
      <4>2. fed[id].from + Seconds(wdts[id].period.secs) < Seconds(n) + SecTicks + WakeupLimit
        BY <1>2, <3>1, <4>1, NewIsDue
      <4> QED BY <1>4, <2>1, <4>1, <4>2 DEF DueAfter, Updated
    <3> QED BY <2>1, <3>1
  <2>2. CASE d # id
    <3>1. wdts'[d] = wdts[d] /\ ~HalfWritten(d)
      BY <2>2 DEF Updated, HalfWritten
    <3> QED BY <1>4, <3>1 DEF WInv, NotEarlier, DueAfter
  <2> QED BY <2>1, <2>2
<1>8. NewSecs' = NewSecs /\ NewNanos' = NewNanos
  BY <1>3, <1>4 DEF NewSecs, NewNanos, Updated
<1> QED BY <1>4, <1>5, <1>6, <1>7, <1>8

\* The effect of a write on the deadline.
LEMMA SecsWritten ==
    ASSUME WTyped, ~Idling, NEW n \in Nat, WriteSecs(n)
    PROVE  /\ Updated /\ wdts'[call.id].next.secs = n
           /\ wdts'[call.id].next.nanos = wdts[call.id].next.nanos
<1>1. /\ call.id \in Wdt /\ wdts \in [Wdt -> [active : BOOLEAN, next : Time, period : Time]]
      /\ wdts' = [wdts EXCEPT ![call.id].next.secs = n]
  BY DEF WTyped, WdtTypeOK, WriteSecs
<1> QED BY <1>1 DEF Updated, Time

LEMMA NanosWritten ==
    ASSUME WTyped, ~Idling, NEW n \in Nat, WriteNanos(n)
    PROVE  /\ Updated /\ wdts'[call.id].next.nanos = n
           /\ wdts'[call.id].next.secs = wdts[call.id].next.secs
<1>1. /\ call.id \in Wdt /\ wdts \in [Wdt -> [active : BOOLEAN, next : Time, period : Time]]
      /\ wdts' = [wdts EXCEPT ![call.id].next.nanos = n]
  BY DEF WTyped, WdtTypeOK, WriteNanos
<1> QED BY <1>1 DEF Updated, Time

\* A call that writes is in numbers what its new deadline is.
LEMMA WritesIn ==
    ASSUME WInv, call.at \in AfterReads
    PROVE  /\ WTyped /\ ~Idling /\ NewSecs \in Nat /\ NewNanos \in Nat
           /\ OldSecs \in Nat /\ OldNanos \in Nat /\ Half \in Nat /\ Half > 0
           /\ NewSecs <= NewSecs /\ NewSecs <= NewSecs + 1 /\ NewSecs + 1 \in Nat
<1>1. WTyped /\ ~Idling
  BY DEF WInv, Idling, AfterReads
<1>2. NewSecs \in Nat /\ NewNanos \in Nat /\ OldSecs \in Nat /\ OldNanos \in Nat
  BY <1>1, NewIs
<1> QED BY <1>1, <1>2, WdtAssumption

LEMMA WritingSecsLow == WInv /\ WriteSecsLow => WInv'
<1> SUFFICES ASSUME WInv, WriteSecsLow PROVE WInv'
  OBVIOUS
<1>1. /\ call.at = "write secs" /\ Goto("write secs high")
      /\ UNCHANGED <<clockVars, now, begun, ahead, fed>>
  BY DEF WriteSecsLow
<1>2. PICK m \in SecSplits : WriteSecs(LowerFrom(NewSecs, OldSecs, m))
  BY DEF WriteSecsLow
<1>3. /\ call.at \in AfterReads \ {"activate"}
      /\ "write secs high" \in AfterReads \ {"write secs"}
  BY <1>1 DEF AfterReads
<1>deadline. /\ WTyped /\ ~Idling /\ NewSecs \in Nat /\ NewNanos \in Nat
             /\ OldSecs \in Nat /\ OldNanos \in Nat /\ Half \in Nat /\ Half > 0
             /\ NewSecs <= NewSecs /\ NewSecs <= NewSecs + 1 /\ NewSecs + 1 \in Nat
  BY <1>3, WritesIn
<1>4. PICK n \in Nat : n = LowerFrom(NewSecs, OldSecs, m)
  <2>1. m \in Nat /\ m > 0
    BY WdtAssumption
  <2>2. LowerFrom(NewSecs, OldSecs, m) \in Nat
    BY <1>deadline, <2>1, BytesAre
  <2> QED BY <2>2
<1>5. Updated /\ wdts'[call.id].next.secs = n
  BY <1>2, <1>3, <1>4, <1>deadline, SecsWritten
<1>6. PICK id : id = call.id
  OBVIOUS
<1>7. NewSecs <= wdts'[id].next.secs \/ HalfWritten(id)'
  <2>1. call'.at = "write secs high" /\ call'.id = id
    BY <1>1, <1>6 DEF Goto, WInv, WTyped, WdtTypeOK
  <2>2. NewSecs' = NewSecs /\ OldSecs' = n
    BY <1>1, <1>5, <1>6, <2>1 DEF NewSecs, OldSecs, Updated
  <2>3. CASE n = NewSecs
    BY <1>3, <1>5, <1>6, <2>3, <1>deadline
  <2>4. CASE n # NewSecs
    BY <2>1, <2>2, <2>4 DEF HalfWritten
  <2> QED BY <2>3, <2>4
<1>8. /\ WTyped' /\ Past' /\ ReadAhead' /\ ReadBehind' /\ NotLater' /\ NotEarlier'
      /\ call'.at = "write secs high"
  BY <1>1, <1>3, <1>5, <1>6, <1>7, Writing
<1>9. Written'
  BY <1>8 DEF Written
<1> QED BY <1>8, <1>9 DEF WInv

LEMMA WritingSecsHigh == WInv /\ WriteSecsHigh => WInv'
<1> SUFFICES ASSUME WInv, WriteSecsHigh PROVE WInv'
  OBVIOUS
<1>1. /\ call.at = "write secs high" /\ Goto("write nanos") /\ WriteSecs(NewSecs)
      /\ UNCHANGED <<clockVars, now, begun, ahead, fed>>
  BY DEF WriteSecsHigh
<1>2. call.at \in AfterReads \ {"activate"} /\ "write nanos" \in AfterReads \ {"write secs"}
  BY <1>1 DEF AfterReads
<1>deadline. /\ WTyped /\ ~Idling /\ NewSecs \in Nat /\ NewNanos \in Nat
             /\ OldSecs \in Nat /\ OldNanos \in Nat /\ Half \in Nat /\ Half > 0
             /\ NewSecs <= NewSecs /\ NewSecs <= NewSecs + 1 /\ NewSecs + 1 \in Nat
  BY <1>2, WritesIn
<1>3. Updated /\ wdts'[call.id].next.secs = NewSecs /\ NewSecs <= NewSecs
  BY <1>1, <1>2, <1>deadline, SecsWritten
<1>4. PICK id : id = call.id
  OBVIOUS
<1>5. /\ WTyped' /\ Past' /\ ReadAhead' /\ ReadBehind' /\ NotLater' /\ NotEarlier'
      /\ call'.at = "write nanos" /\ call'.id = id /\ NewSecs' = NewSecs
  BY <1>1, <1>2, <1>3, <1>4, Writing
<1>6. Written'
  BY <1>3, <1>4, <1>5 DEF Written
<1> QED BY <1>5, <1>6 DEF WInv

LEMMA WritingNanosLow == WInv /\ WriteNanosLow => WInv'
<1> SUFFICES ASSUME WInv, WriteNanosLow PROVE WInv'
  OBVIOUS
<1>1. /\ call.at = "write nanos" /\ Goto("write nanos high")
      /\ WriteNanos(LowerFrom(NewNanos, OldNanos, Half))
      /\ UNCHANGED <<clockVars, now, begun, ahead, fed>>
  BY DEF WriteNanosLow
<1>2. /\ call.at \in AfterReads \ {"activate"}
      /\ "write nanos high" \in AfterReads \ {"write secs"}
  BY <1>1 DEF AfterReads
<1>deadline. /\ WTyped /\ ~Idling /\ NewSecs \in Nat /\ NewNanos \in Nat
             /\ OldSecs \in Nat /\ OldNanos \in Nat /\ Half \in Nat /\ Half > 0
             /\ NewSecs <= NewSecs /\ NewSecs <= NewSecs + 1 /\ NewSecs + 1 \in Nat
  BY <1>2, WritesIn
<1>3. PICK n \in Nat : n = LowerFrom(NewNanos, OldNanos, Half)
  BY <1>2, <1>deadline, BytesAre
<1>4. wdts[call.id].next.secs = NewSecs
  BY <1>1 DEF WInv, Written
<1>5. Updated /\ wdts'[call.id].next.secs = NewSecs /\ NewSecs <= NewSecs
  BY <1>1, <1>2, <1>3, <1>4, <1>deadline, NanosWritten
<1>6. PICK id : id = call.id
  OBVIOUS
<1>7. /\ WTyped' /\ Past' /\ ReadAhead' /\ ReadBehind' /\ NotLater' /\ NotEarlier'
      /\ call'.at = "write nanos high" /\ call'.id = id /\ NewSecs' = NewSecs
  BY <1>1, <1>2, <1>5, <1>6, Writing
<1>8. Written'
  BY <1>5, <1>6, <1>7 DEF Written
<1> QED BY <1>7, <1>8 DEF WInv

LEMMA WritingNanosHigh == WInv /\ WriteNanosHigh => WInv'
<1> SUFFICES ASSUME WInv, WriteNanosHigh PROVE WInv'
  OBVIOUS
<1>1. /\ call.at = "write nanos high" /\ WriteNanos(NewNanos)
      /\ UNCHANGED <<clockVars, now, begun, ahead, fed>>
  BY DEF WriteNanosHigh
<1>2. PICK point \in {"compact", "activate"} : Goto(point)
  BY DEF WriteNanosHigh
<1>3. call.at \in AfterReads \ {"activate"} /\ point \in AfterReads \ {"write secs"}
  BY <1>1 DEF AfterReads
<1>deadline. /\ WTyped /\ ~Idling /\ NewSecs \in Nat /\ NewNanos \in Nat
             /\ OldSecs \in Nat /\ OldNanos \in Nat /\ Half \in Nat /\ Half > 0
             /\ NewSecs <= NewSecs /\ NewSecs <= NewSecs + 1 /\ NewSecs + 1 \in Nat
  BY <1>3, WritesIn
<1>4. wdts[call.id].next.secs = NewSecs
  BY <1>1 DEF WInv, Written
<1>5. /\ Updated /\ wdts'[call.id].next.secs = NewSecs /\ NewSecs <= NewSecs
      /\ wdts'[call.id].next.nanos = NewNanos
  BY <1>1, <1>3, <1>4, <1>deadline, NanosWritten
<1>6. PICK id : id = call.id
  OBVIOUS
<1>7. /\ WTyped' /\ Past' /\ ReadAhead' /\ ReadBehind' /\ NotLater' /\ NotEarlier'
      /\ call'.at = point /\ call'.id = id /\ NewSecs' = NewSecs /\ NewNanos' = NewNanos
  BY <1>1, <1>2, <1>3, <1>5, <1>6, Writing
<1>8. Written'
  BY <1>5, <1>6, <1>7 DEF Written
<1> QED BY <1>7, <1>8 DEF WInv

LEMMA CompactingLow == WInv /\ CompactLow => WInv'
<1> SUFFICES ASSUME WInv, CompactLow PROVE WInv'
  OBVIOUS
<1>1. call.at = "compact" /\ UNCHANGED <<clockVars, now, begun, ahead, fed>>
  BY DEF CompactLow
<1>2. /\ call.at \in AfterReads \ {"activate"} /\ "compact high" \in AfterReads \ {"write secs"}
      /\ "activate" \in AfterReads \ {"write secs"}
  BY <1>1 DEF AfterReads
<1>deadline. /\ WTyped /\ ~Idling /\ NewSecs \in Nat /\ NewNanos \in Nat
             /\ OldSecs \in Nat /\ OldNanos \in Nat /\ Half \in Nat /\ Half > 0
             /\ NewSecs <= NewSecs /\ NewSecs <= NewSecs + 1 /\ NewSecs + 1 \in Nat
  BY <1>2, WritesIn
<1>3. wdts[call.id].next.secs = NewSecs /\ wdts[call.id].next.nanos = NewNanos
  BY <1>1 DEF WInv, Written
<1>4. PICK id : id = call.id
  OBVIOUS
<1>5. NewSecs <= NewSecs
  BY <1>2, <1>deadline
<1>6. CASE NewNanos >= SecTicks
  <2>1. WriteNanos(LowerFrom(NewNanos - SecTicks, OldNanos, Half)) /\ Goto("compact high")
    BY <1>6 DEF CompactLow
  <2>2. NewNanos - SecTicks \in Nat
    <3>1. NewNanos \in Nat /\ SecTicks \in Nat
      BY <1>deadline, SecondsAre
    <3> QED BY <1>6, <3>1
  <2>3. PICK n \in Nat : n = LowerFrom(NewNanos - SecTicks, OldNanos, Half)
    BY <1>2, <2>2, <1>deadline, BytesAre
  <2>4. Updated /\ wdts'[call.id].next.secs = NewSecs
    BY <1>2, <1>3, <2>1, <2>3, <1>deadline, NanosWritten
  <2>5. /\ WTyped' /\ Past' /\ ReadAhead' /\ ReadBehind' /\ NotLater' /\ NotEarlier'
        /\ call'.at = "compact high" /\ call'.id = id
        /\ NewSecs' = NewSecs /\ NewNanos' = NewNanos
    BY <1>1, <1>2, <1>4, <1>5, <2>1, <2>4, Writing
  <2>6. Written'
    BY <1>4, <1>6, <2>4, <2>5 DEF Written
  <2> QED BY <2>5, <2>6 DEF WInv
<1>7. CASE ~(NewNanos >= SecTicks)
  <2>1. wdts' = wdts /\ Goto("activate")
    BY <1>7 DEF CompactLow
  <2>2. Updated /\ wdts'[call.id].next.secs = NewSecs /\ wdts'[call.id].next.nanos = NewNanos
    BY <1>3, <2>1 DEF Updated, WInv, WTyped, WdtTypeOK
  <2>3. /\ WTyped' /\ Past' /\ ReadAhead' /\ ReadBehind' /\ NotLater' /\ NotEarlier'
        /\ call'.at = "activate" /\ call'.id = id
        /\ NewSecs' = NewSecs /\ NewNanos' = NewNanos
    BY <1>1, <1>2, <1>4, <1>5, <2>1, <2>2, Writing
  <2>4. Written'
    BY <1>4, <2>2, <2>3 DEF Written
  <2> QED BY <2>3, <2>4 DEF WInv
<1> QED BY <1>6, <1>7

LEMMA CompactingHigh == WInv /\ CompactHigh => WInv'
<1> SUFFICES ASSUME WInv, CompactHigh PROVE WInv'
  OBVIOUS
<1>1. /\ call.at = "compact high" /\ Goto("carry") /\ WriteNanos(NewNanos - SecTicks)
      /\ UNCHANGED <<clockVars, now, begun, ahead, fed>>
  BY DEF CompactHigh
<1>2. call.at \in AfterReads \ {"activate"} /\ "carry" \in AfterReads \ {"write secs"}
  BY <1>1 DEF AfterReads
<1>deadline. /\ WTyped /\ ~Idling /\ NewSecs \in Nat /\ NewNanos \in Nat
             /\ OldSecs \in Nat /\ OldNanos \in Nat /\ Half \in Nat /\ Half > 0
             /\ NewSecs <= NewSecs /\ NewSecs <= NewSecs + 1 /\ NewSecs + 1 \in Nat
  BY <1>2, WritesIn
<1>3. wdts[call.id].next.secs = NewSecs /\ NewNanos >= SecTicks
  BY <1>1 DEF WInv, Written
<1>4. PICK n \in Nat : n = NewNanos - SecTicks /\ n + SecTicks = NewNanos
  BY <1>2, <1>3, <1>deadline, SecondsAre
<1>5. /\ Updated /\ wdts'[call.id].next.secs = NewSecs /\ NewSecs <= NewSecs
      /\ wdts'[call.id].next.nanos = n
  BY <1>1, <1>2, <1>3, <1>4, <1>deadline, NanosWritten
<1>6. PICK id : id = call.id
  OBVIOUS
<1>7. /\ WTyped' /\ Past' /\ ReadAhead' /\ ReadBehind' /\ NotLater' /\ NotEarlier'
      /\ call'.at = "carry" /\ call'.id = id /\ NewSecs' = NewSecs /\ NewNanos' = NewNanos
  BY <1>1, <1>2, <1>5, <1>6, Writing
<1>8. Written'
  BY <1>4, <1>5, <1>6, <1>7 DEF Written
<1> QED BY <1>7, <1>8 DEF WInv

LEMMA CarryingLow == WInv /\ CarryLow => WInv'
<1> SUFFICES ASSUME WInv, CarryLow PROVE WInv'
  OBVIOUS
<1>1. /\ call.at = "carry" /\ Goto("carry high")
      /\ UNCHANGED <<clockVars, now, begun, ahead, fed>>
  BY DEF CarryLow
<1>2. PICK m \in SecSplits : WriteSecs(LowerFrom(NewSecs + 1, OldSecs, m))
  BY DEF CarryLow
<1>3. call.at \in AfterReads \ {"activate"} /\ "carry high" \in AfterReads \ {"write secs"}
  BY <1>1 DEF AfterReads
<1>deadline. /\ WTyped /\ ~Idling /\ NewSecs \in Nat /\ NewNanos \in Nat
             /\ OldSecs \in Nat /\ OldNanos \in Nat /\ Half \in Nat /\ Half > 0
             /\ NewSecs <= NewSecs /\ NewSecs <= NewSecs + 1 /\ NewSecs + 1 \in Nat
  BY <1>3, WritesIn
<1>4. NewSecs + 1 \in Nat /\ NewSecs <= NewSecs + 1
  BY <1>3, <1>deadline
<1>5. PICK n \in Nat : n = LowerFrom(NewSecs + 1, OldSecs, m)
  <2>1. m \in Nat /\ m > 0
    BY WdtAssumption
  <2>2. LowerFrom(NewSecs + 1, OldSecs, m) \in Nat
    BY <1>deadline, <2>1, BytesAre
  <2> QED BY <2>2
<1>6. wdts[call.id].next.nanos + SecTicks = NewNanos
  BY <1>1 DEF WInv, Written
<1>7. /\ Updated /\ wdts'[call.id].next.secs = n
      /\ wdts'[call.id].next.nanos + SecTicks = NewNanos
  BY <1>2, <1>3, <1>5, <1>6, <1>deadline, SecsWritten
<1>8. PICK id : id = call.id
  OBVIOUS
<1>9. NewSecs <= wdts'[id].next.secs \/ HalfWritten(id)'
  <2>1. call'.at = "carry high" /\ call'.id = id
    BY <1>1, <1>8 DEF Goto, WInv, WTyped, WdtTypeOK
  <2>2. NewSecs' = NewSecs /\ OldSecs' = n
    BY <1>1, <1>7, <1>8, <2>1 DEF NewSecs, OldSecs, Updated
  <2>3. CASE n = NewSecs + 1
    BY <1>4, <1>7, <1>8, <2>3
  <2>4. CASE n # NewSecs + 1
    BY <2>1, <2>2, <2>4 DEF HalfWritten
  <2> QED BY <2>3, <2>4
<1>10. /\ WTyped' /\ Past' /\ ReadAhead' /\ ReadBehind' /\ NotLater' /\ NotEarlier'
       /\ call'.at = "carry high" /\ call'.id = id /\ NewNanos' = NewNanos
  <2>1. Updated
    BY <1>7
  <2>2. Goto("carry high") /\ UNCHANGED <<clockVars, now, begun, ahead, fed>>
    BY <1>1
  <2> QED BY <1>3, <1>8, <1>9, <2>1, <2>2, Writing
<1>11. Written'
  BY <1>7, <1>8, <1>10 DEF Written
<1> QED BY <1>10, <1>11 DEF WInv

LEMMA CarryingHigh == WInv /\ CarryHigh => WInv'
<1> SUFFICES ASSUME WInv, CarryHigh PROVE WInv'
  OBVIOUS
<1>1. /\ call.at = "carry high" /\ Goto("activate") /\ WriteSecs(NewSecs + 1)
      /\ UNCHANGED <<clockVars, now, begun, ahead, fed>>
  BY DEF CarryHigh
<1>2. call.at \in AfterReads \ {"activate"} /\ "activate" \in AfterReads \ {"write secs"}
  BY <1>1 DEF AfterReads
<1>deadline. /\ WTyped /\ ~Idling /\ NewSecs \in Nat /\ NewNanos \in Nat
             /\ OldSecs \in Nat /\ OldNanos \in Nat /\ Half \in Nat /\ Half > 0
             /\ NewSecs <= NewSecs /\ NewSecs <= NewSecs + 1 /\ NewSecs + 1 \in Nat
  BY <1>2, WritesIn
<1>3. NewSecs + 1 \in Nat /\ NewSecs <= NewSecs + 1
  BY <1>2, <1>deadline
<1>4. wdts[call.id].next.nanos + SecTicks = NewNanos
  BY <1>1 DEF WInv, Written
<1>5. /\ Updated /\ wdts'[call.id].next.secs = NewSecs + 1
      /\ wdts'[call.id].next.nanos + SecTicks = NewNanos
  BY <1>1, <1>2, <1>3, <1>4, <1>deadline, SecsWritten
<1>6. PICK id : id = call.id
  OBVIOUS
<1>7. /\ WTyped' /\ Past' /\ ReadAhead' /\ ReadBehind' /\ NotLater' /\ NotEarlier'
      /\ call'.at = "activate" /\ call'.id = id /\ NewSecs' = NewSecs /\ NewNanos' = NewNanos
  BY <1>1, <1>2, <1>3, <1>5, <1>6, Writing
<1>8. Written'
  BY <1>5, <1>6, <1>7 DEF Written
<1> QED BY <1>7, <1>8 DEF WInv

\* The deadline is complete: it lies a period from a time read in the call.
LEMMA Activating == WInv /\ Activate => WInv'
<1> SUFFICES ASSUME WInv, Activate PROVE WInv'
  OBVIOUS
<1>0. PICK id : id = call.id
  OBVIOUS
<1>1. /\ call.at = "activate" /\ wdts' = [wdts EXCEPT ![id].active = TRUE]
      /\ fed' = [fed EXCEPT ![id] = [from |-> begun, to |-> Clock, ahead |-> ahead]]
      /\ call' = NoCall /\ now' = Stamp /\ begun' = 0 /\ ahead' = 0
      /\ sysTime' = sysTime /\ osTimer' = osTimer
  BY <1>0 DEF Activate, clockVars
<1>2. WdtTypeOK /\ WTyped /\ ~Idling /\ id \in Wdt
  BY <1>0, <1>1, CallIs DEF WInv, WTyped
<1>3. /\ wdts \in [Wdt -> [active : BOOLEAN, next : Time, period : Time]]
      /\ fed \in [Wdt -> [from : Nat, to : Nat, ahead : Nat]]
  BY <1>2 DEF WdtTypeOK
<1>4. begun \in Nat /\ Clock \in Nat /\ begun <= Clock /\ ahead \in Nat
  BY <1>2, ClockIs DEF WInv, Past
<1>5. /\ wdts' \in [Wdt -> [active : BOOLEAN, next : Time, period : Time]]
      /\ \A d \in Wdt : wdts'[d].next = wdts[d].next /\ wdts'[d].period = wdts[d].period
      /\ \A d \in Wdt \ {id} : wdts'[d].active = wdts[d].active
  BY <1>1, <1>2, <1>3
<1>6. /\ fed' \in [Wdt -> [from : Nat, to : Nat, ahead : Nat]]
      /\ fed'[id].from = begun /\ fed'[id].to = Clock /\ fed'[id].ahead = ahead
      /\ \A d \in Wdt \ {id} : fed'[d] = fed[d]
  BY <1>1, <1>2, <1>3, <1>4
<1>7. Idling' /\ call'.at = "idle" /\ Clock' = Clock
  BY <1>1 DEF NoCall, Idling, Clock
<1>8. WdtTypeOK'
  <2>1. Stamp \in Time
    BY DEF Stamp, Time
  <2> QED BY <1>1, <1>2, <1>5, <1>6, <2>1 DEF WdtTypeOK, NoCall
<1>9. WTyped'
  BY <1>2, <1>5, <1>7, <1>8 DEF WTyped, AfterReads
<1>10. Past'
  <2>1. begun' <= Clock'
    BY <1>1, <1>4, <1>7
  <2>2. ASSUME NEW d \in Wdt PROVE fed'[d].from <= fed'[d].to /\ fed'[d].to <= Clock
    <3>1. CASE d = id
      BY <1>4, <1>6, <3>1
    <3>2. CASE d # id
      BY <1>6, <3>2 DEF WInv, Past
    <3> QED BY <3>1, <3>2
  <2> QED BY <1>7, <2>1, <2>2 DEF Past
<1>11. ReadAhead' /\ ReadBehind' /\ Written'
  BY <1>7 DEF ReadAhead, ReadBehind, Written, AfterReads
<1>12. /\ Ticks(wdts[id].next) = Ticks(now) + Ticks(wdts[id].period)
       /\ NewSecs <= wdts[id].next.secs
  <2>1. \/ wdts[id].next.secs = NewSecs /\ wdts[id].next.nanos = NewNanos
        \/ wdts[id].next.secs = NewSecs + 1 /\ wdts[id].next.nanos + SecTicks = NewNanos
    BY <1>0, <1>1 DEF WInv, Written
  <2>2. /\ NewSecs \in Nat /\ NewNanos \in Nat
        /\ Seconds(NewSecs) = Seconds(now.secs) + Seconds(wdts[id].period.secs)
        /\ NewNanos = now.nanos + wdts[id].period.nanos
    BY <1>0, <1>2, NewIs
  <2>3. Seconds(NewSecs + 1) = Seconds(NewSecs) + SecTicks /\ Seconds(NewSecs) \in Nat
    BY <2>2, SecondsAre
  <2>4. /\ Seconds(now.secs) \in Nat /\ Seconds(wdts[id].period.secs) \in Nat
        /\ now.nanos \in Nat /\ wdts[id].period.nanos \in Nat /\ SecTicks \in Nat
        /\ wdts[id].next.nanos \in Nat
        /\ Ticks(now) = Seconds(now.secs) + now.nanos
        /\ Ticks(wdts[id].period) = Seconds(wdts[id].period.secs) + wdts[id].period.nanos
        /\ Ticks(wdts[id].next) = Seconds(wdts[id].next.secs) + wdts[id].next.nanos
    BY <1>2, ClockIs, WdtIs, SecondsAre
  <2>5. CASE wdts[id].next.secs = NewSecs /\ wdts[id].next.nanos = NewNanos
    <3>1. Seconds(wdts[id].next.secs) = Seconds(NewSecs)
      BY <2>5
    <3> QED BY <2>2, <2>4, <2>5, <3>1
  <2>6. CASE wdts[id].next.secs = NewSecs + 1 /\ wdts[id].next.nanos + SecTicks = NewNanos
    <3>1. Seconds(wdts[id].next.secs) = Seconds(NewSecs) + SecTicks
      BY <2>3, <2>6
    <3> QED BY <2>2, <2>3, <2>4, <2>6, <3>1
  <2> QED BY <2>1, <2>5, <2>6
<1>13. NotLater'
  <2> SUFFICES ASSUME NEW d \in Wdt, wdts'[d].active
               PROVE  LET bound == fed'[d].to + Ticks(wdts[d].period) + Half
                                     + Seconds(fed'[d].ahead)
                      IN  Ticks(wdts[d].next) < bound /\ Ticks(sysTime) < bound + WakeupLimit
    BY <1>1, <1>5 DEF NotLater
  <2>1. CASE d = id
    <3>1. Ticks(now) < Clock + Half + Seconds(ahead)
      BY <1>1 DEF WInv, ReadAhead, AfterReads
    <3>2. /\ Ticks(now) \in Nat /\ Ticks(wdts[id].period) \in Nat /\ Half \in Nat /\ Half > 0
          /\ Ticks(sysTime) \in Nat /\ WakeupLimit \in Nat /\ osTimer \in Nat
          /\ Clock = Ticks(sysTime) + osTimer /\ Seconds(ahead) \in Nat
      BY <1>2, ClockIs, WdtIs
    <3>3. Seconds(fed'[id].ahead) = Seconds(ahead)
      BY <1>6
    <3> QED BY <1>4, <1>6, <1>12, <2>1, <3>1, <3>2, <3>3
  <2>2. CASE d # id
    BY <1>0, <1>5, <1>6, <2>2 DEF WInv, NotLater
  <2> QED BY <2>1, <2>2
<1>14. NotEarlier'
  <2> SUFFICES ASSUME NEW d \in Wdt, wdts'[d].active PROVE DueAfter(d)'
    BY DEF NotEarlier
  <2>1. CASE d = id
    <3>1. PICK n \in Nat : n = wdts[id].next.secs
      BY <1>2, WdtIs
    <3>2. begun < Seconds(now.secs) + SecTicks + WakeupLimit
      BY <1>1 DEF WInv, ReadBehind, BegunBy
    <3>3. NewSecs \in Nat /\ Seconds(NewSecs) = Seconds(now.secs) + Seconds(wdts[id].period.secs)
      BY <1>0, <1>2, NewIs
    <3>4. Seconds(NewSecs) <= Seconds(n) /\ Seconds(n) \in Nat
      BY <1>12, <3>1, <3>3, SecondsAre
    <3>5. /\ Seconds(now.secs) \in Nat /\ Seconds(wdts[id].period.secs) \in Nat
          /\ SecTicks \in Nat /\ WakeupLimit \in Nat
      BY <1>2, ClockIs, WdtIs, SecondsAre
    <3>6. begun + Seconds(wdts[id].period.secs) < Seconds(n) + SecTicks + WakeupLimit
      BY <1>4, <3>2, <3>3, <3>4, <3>5
    <3> QED BY <1>5, <1>6, <2>1, <3>1, <3>6 DEF DueAfter
  <2>2. CASE d # id
    <3>1. wdts[d].active /\ ~HalfWritten(d)
      BY <1>0, <1>5, <2>2 DEF HalfWritten
    <3> QED BY <1>5, <1>6, <2>2, <3>1 DEF WInv, NotEarlier, DueAfter
  <2> QED BY <2>1, <2>2
<1> QED BY <1>9, <1>10, <1>11, <1>13, <1>14 DEF WInv

-----------------------------------------------------------------------------
LEMMA WStep == WInv /\ [WdtNext]_wdtVars => WInv'
<1> SUFFICES ASSUME WInv, [WdtNext]_wdtVars PROVE WInv'
  OBVIOUS
<1>1. CASE WdtCall
  <2>1. ASSUME NEW d \in Wdt, NEW p \in WdtPeriod, InitWdt(d, p) PROVE WInv'
    BY <2>1, Initialising
  <2>2. ASSUME NEW d \in Wdt, StopWdt(d) PROVE WInv'
    BY <2>2, Stopping
  <2>3. ASSUME NEW d \in Wdt, NEW name \in {"start", "update"}, Call(name, d) PROVE WInv'
    BY <2>3, Calling
  <2> QED BY <1>1, <2>1, <2>2, <2>3 DEF WdtCall
<1>2. CASE CallStep
  BY <1>2, ReadingSecsLow, ReadingSecsHigh, ReadingNanosLow, ReadingNanosHigh, ReadingTimer,
     WritingSecsLow, WritingSecsHigh, WritingNanosLow, WritingNanosHigh,
     CompactingLow, CompactingHigh, CarryingLow, CarryingHigh, Activating DEF CallStep
<1>3. CASE TimerTick
  BY <1>3, Ticking
<1>4. CASE SchedulerRuns
  BY <1>4, Scheduling
<1>5. CASE WdtRestart
  BY <1>5, Restarting
<1>6. CASE UNCHANGED wdtVars
  <2>1. UNCHANGED <<sysTime, osTimer, wdts, call, now, begun, ahead, fed>>
    BY <1>6 DEF wdtVars, clockVars, callingVars
  <2>2. Clock' = Clock /\ Idling' = Idling
    BY <2>1 DEF Clock, Idling
  <2>3. WTyped'
    BY <2>1, <2>2 DEF WInv, WTyped, WdtTypeOK
  <2>4. Past' /\ ReadAhead'
    BY <2>1, <2>2 DEF WInv, Past, ReadAhead
  <2>5. ReadBehind' /\ Written'
    BY <2>1 DEF WInv, ReadBehind, BegunBy, Written, NewSecs, NewNanos
  <2>6. NotLater'
    BY <2>1, <2>2 DEF WInv, NotLater
  <2>7. NotEarlier'
    BY <2>1 DEF WInv, NotEarlier, DueAfter, HalfWritten, NewSecs, OldSecs
  <2> QED BY <2>3, <2>4, <2>5, <2>6, <2>7 DEF WInv
<1> QED BY <1>1, <1>2, <1>3, <1>4, <1>5, <1>6 DEF WdtNext

\* The clock, the deadlines and the calls on them keep their types: a deadline
\* that is read between two writes is still a time (nrk_sw_wdt.c:35-96).
THEOREM WdtTypeCorrect == WdtSpec => []WdtTypeOK
<1>1. WInv => WdtTypeOK
  BY DEF WInv, WTyped
<1> QED BY <1>1, WInit, WStep, PTL DEF WdtSpec

\* A watchdog that is not fed expires in time, for every period, every tick
\* rate and any number of watchdogs (nrk_scheduler.c:79-81, nrk_sw_wdt.c:74-96).
THEOREM UnfedExpiresAlways == WdtSpec => []UnfedExpires
<1>1. WInv => UnfedExpires
  <2> SUFFICES ASSUME WInv, NEW d \in Wdt, wdts[d].active, Idling \/ call.id # d
               PROVE  Clock <= fed[d].to + Ticks(wdts[d].period) + 2 * WakeupLimit + Half
                               + fed[d].ahead * SecTicks
    BY DEF UnfedExpires
  <2>1. WdtTypeOK
    BY DEF WInv, WTyped
  <2>2. Ticks(sysTime) < fed[d].to + Ticks(wdts[d].period) + Half + Seconds(fed[d].ahead)
                           + WakeupLimit
    BY DEF WInv, NotLater
  <2>3. /\ Clock = Ticks(sysTime) + osTimer /\ Ticks(sysTime) \in Nat
        /\ osTimer \in 0..WakeupLimit /\ WakeupLimit \in Nat /\ Half \in Nat
        /\ fed[d].to \in Nat /\ Ticks(wdts[d].period) \in Nat /\ Seconds(fed[d].ahead) \in Nat
    BY <2>1, ClockIs, WdtIs
  <2>4. Seconds(fed[d].ahead) = fed[d].ahead * SecTicks
    BY DEF Seconds
  <2> QED BY <2>2, <2>3, <2>4
<1> QED BY <1>1, WInit, WStep, PTL DEF WdtSpec

\* No watchdog that is fed in time restarts the node, unless the check meets a
\* half-written deadline, for every period, every tick rate and any number of
\* watchdogs (nrk_sw_wdt.c:98-121).
THEOREM FedStaysUp == WdtSpec => FedIsNotRestarted
<1>1. WInv /\ WdtRestart =>
        \E d \in Wdt : /\ Expired(d)
                       /\ \/ HalfWritten(d)
                          \/ Clock - fed[d].from + 2 * SecTicks + WakeupLimit
                               > Ticks(wdts[d].period)
  <2> SUFFICES ASSUME WInv, NEW d \in Wdt, Expired(d), ~HalfWritten(d)
               PROVE  Clock - fed[d].from + 2 * SecTicks + WakeupLimit > Ticks(wdts[d].period)
    BY DEF WdtRestart
  <2>1. WdtTypeOK /\ wdts[d].active /\ ~NotAfter(sysTime, wdts[d].next)
    BY DEF WInv, WTyped, Expired
  <2>2. fed[d].from + Seconds(wdts[d].period.secs)
          < Seconds(wdts[d].next.secs) + SecTicks + WakeupLimit
    BY <2>1 DEF WInv, NotEarlier, DueAfter
  <2>3. wdts[d].next.secs <= sysTime.secs
    <3>1. /\ sysTime \in Time /\ sysTime.nanos \in 0..SecTicks - 1 /\ SecTicks \in Nat
          /\ wdts[d].next \in Time
      BY <2>1, ClockIs, WdtIs, SecondsAre
    <3>2. sysTime.nanos < SecTicks
      BY <3>1
    <3> QED BY <2>1, <3>1, <3>2, OrderOfTimes
  <2>4. Seconds(wdts[d].next.secs) <= Seconds(sysTime.secs)
    BY <2>1, <2>3, ClockIs, WdtIs, SecondsAre
  <2>5. /\ Clock = Seconds(sysTime.secs) + sysTime.nanos + osTimer
        /\ Seconds(sysTime.secs) \in Nat /\ sysTime.nanos \in Nat /\ osTimer \in Nat
        /\ fed[d].from \in Nat /\ Seconds(wdts[d].next.secs) \in Nat
        /\ Seconds(wdts[d].period.secs) \in Nat
        /\ Ticks(wdts[d].period) = Seconds(wdts[d].period.secs) + wdts[d].period.nanos
        /\ wdts[d].period.nanos \in Nat /\ SecTicks \in Nat /\ WakeupLimit \in Nat
    <3>1. sysTime.nanos \in Nat
      BY <2>1, ClockIs DEF Time
    <3> QED BY <2>1, <3>1, ClockIs, WdtIs, SecondsAre
  <2>6. wdts[d].period.nanos < SecTicks
    BY DEF WInv, WTyped
  <2> QED BY <2>1, <2>2, <2>4, <2>5, <2>6
<1> QED BY <1>1, WInit, WStep, PTL DEF WdtSpec, FedIsNotRestarted
=============================================================================
