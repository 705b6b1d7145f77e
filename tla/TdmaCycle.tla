----------------------------- MODULE TdmaCycle ------------------------------
(***************************************************************************)
(* The TDMA cycle on the air (pcf_tdma.c): the host sends a beacon and     *)
(* polls its slots, each client finds its slot by adding slot times to the *)
(* time at which it heard the beacon, sleeps to the end of the cycle and   *)
(* listens again.  A client takes any frame whose slot field is 0 for a    *)
(* beacon, and adopts its cycle; the frame of a client whose slot is 0,    *)
(* as the cadence node's is, has such a field, and cycle and slot length 0.*)
(* The client so misled passes a cycle of no length, but its waits may     *)
(* still suspend it for what is left of a kernel tick: a wait returns at   *)
(* once only from a time that is past.                                     *)
(*                                                                         *)
(* Time is counted in ticks; a frame lasts one.  All that is due in a tick *)
(* happens before the next one.                                            *)
(***************************************************************************)
EXTENDS Naturals, FiniteSets

CONSTANTS
    Client, Host,
    TxSched,        \* tdma_tx_sched[0] of each client
    SlotsPerCycle,  \* tdma_slots_per_cycle of the host
    SlotLength,     \* tdma_slot_len_ms of the host
    Guard,          \* TDMA_WAKEUP_GAURD_TIME_MS
    Jitter,         \* a wait ends at most this late: granularity of the kernel
    RestartTime,    \* time a node needs to restart
    MaxRestarts     \* bound: restarts in a behaviour

ASSUME CycleAssumption ==
    /\ Host \notin Client /\ TxSched \in [Client -> Nat]
    /\ SlotsPerCycle \in Nat \ {0} /\ SlotLength \in Nat /\ Jitter \in Nat
    /\ Guard \in Nat /\ MaxRestarts \in Nat
    /\ SlotLength > Jitter             \* a frame ends before the next slot begins
    /\ Guard > Jitter + 1           \* the last slot's frame, and a late client
    /\ RestartTime \in Nat /\ RestartTime > SlotsPerCycle * SlotLength + Guard

VARIABLES
    hostSlot,   \* slot of the host
    hostTimer,  \* ticks to its next step
    phase,      \* of each client: "search", "toSlot" or "toEnd"
    timer,      \* ticks to the end of its wait
    late,       \* how late it comes to its slot
    misled,     \* it goes by a client's frame, taken for a beacon: 0 slots of 0
    txData,     \* tx_data_ready
    sending,    \* who is on the air in this tick
    missed,     \* history: since the last beacon that every client heard, a
                \* client missed one or restarted
    restarts

hostClock == <<hostSlot, hostTimer>>
syncVars  == <<phase, timer, late, misled>>
cycleVars == <<hostClock, syncVars, txData, sending, missed, restarts>>

CycleInit ==
    /\ hostSlot = 0 /\ hostTimer = 0
    /\ phase = [n \in Client |-> "search"] /\ timer = [n \in Client |-> 0]
    /\ late = [n \in Client |-> 0] /\ misled = [n \in Client |-> FALSE]
    /\ txData = [n \in Client |-> FALSE] /\ sending = {}
    /\ missed = FALSE /\ restarts = 0

\* What a client has adopted, and the slot it sends in.
Cycle(n)     == IF misled[n] THEN 0 ELSE SlotsPerCycle
Length(n)    == IF misled[n] THEN 0 ELSE SlotLength
SendSlot(n)  == IF TxSched[n] > Cycle(n) THEN Cycle(n) ELSE TxSched[n]

\* Its frame looks like a beacon.
LooksLikeBeacon(n) == SendSlot(n) = 0

-----------------------------------------------------------------------------
(* The host.                                                               *)

\* Faulty variant: the host does not wait for late clients.
HostWithoutGuard ==
    /\ hostTimer = 0
    /\ sending' = IF hostSlot = 0 THEN sending \cup {Host} ELSE sending
    /\ IF hostSlot = SlotsPerCycle
       THEN hostSlot' = 0 /\ hostTimer' = 0
       ELSE hostSlot' = hostSlot + 1 /\ hostTimer' = SlotLength
    /\ UNCHANGED <<syncVars, txData, missed, restarts>>

\* The beacon and the slots after it, which end with a wait for late clients.
HostStep ==
    /\ hostTimer = 0
    /\ sending' = IF hostSlot = 0 THEN sending \cup {Host} ELSE sending
    /\ IF hostSlot = SlotsPerCycle
       THEN hostSlot' = 0 /\ hostTimer' = Guard
       ELSE hostSlot' = hostSlot + 1 /\ hostTimer' = SlotLength
    /\ UNCHANGED <<syncVars, txData, missed, restarts>>

-----------------------------------------------------------------------------
(* A client.                                                               *)

Sleeps(n) == phase[n] # "search" /\ timer[n] > 0

\* tdma_send: the sending task runs while the network task sleeps, a misled
\* client's for the rest of a tick too.
Fill(n) ==
    /\ Sleeps(n) /\ ~txData[n]
    /\ txData' = [txData EXCEPT ![n] = TRUE]
    /\ UNCHANGED <<hostClock, syncVars, sending, missed, restarts>>

\* The slot: a pending packet is sent.  The end of the cycle is counted from
\* the beacon, whatever the lateness of the slot.
AtSlot(n) ==
    /\ phase[n] = "toSlot" /\ timer[n] = 0
    /\ phase' = [phase EXCEPT ![n] = "toEnd"]
    /\ \E j \in 0..Jitter :
          LET rest == (Cycle(n) - SendSlot(n)) * Length(n) + j IN
          timer' = [timer EXCEPT ![n] = IF rest > late[n] THEN rest - late[n] ELSE 0]
    /\ late' = [late EXCEPT ![n] = 0]
    /\ IF txData[n]
       THEN sending' = sending \cup {n} /\ txData' = [txData EXCEPT ![n] = FALSE]
       ELSE UNCHANGED <<sending, txData>>
    /\ UNCHANGED <<hostClock, misled, missed, restarts>>

\* The end of the cycle: the client listens, and goes by no cycle until it
\* adopts another.
AtEnd(n) ==
    /\ phase[n] = "toEnd" /\ timer[n] = 0 /\ n \notin sending
    /\ phase' = [phase EXCEPT ![n] = "search"]
    /\ misled' = [misled EXCEPT ![n] = FALSE]
    /\ UNCHANGED <<hostClock, timer, late, txData, sending, missed, restarts>>

-----------------------------------------------------------------------------
(* Time, and what is heard at the end of a tick.                           *)

Due(n) == phase[n] # "search" /\ timer[n] = 0 /\ n \notin sending

Listening == {n \in Client : phase[n] = "search"}

Less(t) == IF t = 0 THEN 0 ELSE t - 1

\* Faulty variant: the last slot is out of the client's reach.
SlotsAheadBelow(n) == IF TxSched[n] >= SlotsPerCycle THEN SlotsPerCycle - 1 ELSE TxSched[n]

\* Faulty variant: the slot is not waited for.
SlotsAheadNone(n) == 0

\* From the host's beacon to the slot of a client.
SlotsAhead(n) == IF TxSched[n] > SlotsPerCycle THEN SlotsPerCycle ELSE TxSched[n]

\* Those who hear a frame that is alone on the air and looks like a beacon.
Hearers ==
    IF sending = {Host} \/ (\E n \in Client : sending = {n} /\ LooksLikeBeacon(n))
    THEN SUBSET Listening ELSE {{}}

Tick ==
    /\ hostTimer > 0 /\ \A n \in Client : ~Due(n)
    /\ \E hears \in Hearers :
       LET beacon == sending = {Host} IN
       /\ misled' = [n \in Client |-> IF n \in hears THEN ~beacon ELSE misled[n]]
       /\ \E j \in [hears -> 0..Jitter] :
          /\ late' = [n \in Client |-> IF n \in hears THEN j[n] ELSE late[n]]
          /\ timer' = [n \in Client |->
                         IF n \notin hears THEN Less(timer[n])
                         ELSE IF misled'[n] THEN j[n] ELSE SlotsAhead(n) * SlotLength + j[n]]
       /\ phase' = [n \in Client |-> IF n \in hears THEN "toSlot" ELSE phase[n]]
       /\ missed' = (/\ ~(beacon /\ hears = Client)
                     /\ missed \/ (Host \in sending /\ hears # Listening))
    /\ hostTimer' = hostTimer - 1
    /\ sending' = {}
    /\ UNCHANGED <<hostSlot, txData, restarts>>

\* A watchdog restarts a node; the host is silent meanwhile.
ClientRestart(n) ==
    /\ restarts < MaxRestarts
    /\ restarts' = restarts + 1
    /\ phase' = [phase EXCEPT ![n] = "search"] /\ timer' = [timer EXCEPT ![n] = 0]
    /\ late' = [late EXCEPT ![n] = 0] /\ misled' = [misled EXCEPT ![n] = FALSE]
    /\ txData' = [txData EXCEPT ![n] = FALSE] /\ sending' = sending \ {n}
    /\ missed' = TRUE
    /\ UNCHANGED hostClock

HostRestart ==
    /\ restarts < MaxRestarts
    /\ restarts' = restarts + 1
    /\ hostSlot' = 0 /\ hostTimer' = RestartTime
    /\ sending' = sending \ {Host}
    /\ UNCHANGED <<syncVars, txData, missed>>

CycleNext ==
    \/ HostStep \/ Tick \/ HostRestart
    \/ \E n \in Client : Fill(n) \/ AtSlot(n) \/ AtEnd(n) \/ ClientRestart(n)

\* Time goes on.
TimeGoesOn == HostStep \/ Tick \/ \E n \in Client : AtSlot(n) \/ AtEnd(n)

CycleSpec == CycleInit /\ [][CycleNext]_cycleVars /\ WF_cycleVars(TimeGoesOn)

-----------------------------------------------------------------------------
CycleTypeOK ==
    /\ hostSlot \in 0..SlotsPerCycle /\ hostTimer \in 0..RestartTime
    /\ phase \in [Client -> {"search", "toSlot", "toEnd"}]
    /\ timer \in [Client -> 0..SlotsPerCycle * SlotLength + Jitter]
    /\ late \in [Client -> 0..Jitter] /\ misled \in [Client -> BOOLEAN]
    /\ txData \in [Client -> BOOLEAN] /\ sending \subseteq Client \cup {Host}
    /\ missed \in BOOLEAN /\ restarts \in 0..MaxRestarts

\* Clients of different slots that go by the host's cycle are never on the
\* air together, whichever beacons each of them has missed and whenever nodes
\* restart (pcf_tdma.c:556, 626-666).
SlotsAreApart ==
    \A m, n \in sending \ {Host} :
        ~misled[m] /\ ~misled[n] /\ m # n => SendSlot(m) = SendSlot(n)

\* A client that goes by the host's cycle listens when the next beacon is sent:
\* the time the host adds to its last slot covers the time the beacon took and
\* the lateness of the client (pcf_tdma.c:534-538, 656-660).
AwakeForBeacon ==
    \A n \in Client : ~misled[n] /\ hostSlot = 0 /\ hostTimer = 0 =>
        phase[n] = "search" \/ (phase[n] = "toEnd" /\ timer[n] = 0)

\* A client takes another's frame for a beacon only if, since the last beacon
\* they all heard, a client has missed one or restarted: the frames that look
\* like one are sent while the clients that heard it sleep, and one beacon
\* that all hear ends the confusion (pcf_tdma.c:563-592, 626-661).
MisledByMiss == ~missed => \A n \in Client : ~misled[n]

\* A tick in which the host's beacon gets to n: no other frame is on the air,
\* and n is not away in a cycle it was misled into.
Reaches(n) == sending = {Host} /\ ~misled[n] /\ Tick

\* n hears a beacon.
TickHeard(n) == sending = {Host} /\ phase[n] = "search" /\ Tick /\ phase'[n] = "toSlot"

\* tdma_send while n waits in the host's cycle, for its slot unless that is 0.
FillInTime(n) == ~misled[n] /\ (SendSlot(n) > 0 => phase[n] = "toSlot") /\ Fill(n)

\* n does not miss every beacon, and its sending task runs again and again.
FairTo(n) == SF_cycleVars(FillInTime(n)) /\ SF_cycleVars(TickHeard(n))

\* A client goes on sending in its slot of the host's cycle, even if it was
\* misled or met restarts: every beacon it hears sets its cycle again.  Only
\* misled clients that go on answering each other's frames can keep it from
\* that, if they disturb every beacon, or have a client of slot 0 answer too
\* with the packet it has for its slot (pcf_tdma.c:585-592).
SendsInSlot ==
    \A n \in Client :
        FairTo(n) => \/ []<>(n \in sending /\ ~misled[n])
                     \/ <>[][~Reaches(n)]_cycleVars
                     \/ TxSched[n] = 0 /\ []<>(n \in sending /\ misled[n])
=============================================================================
