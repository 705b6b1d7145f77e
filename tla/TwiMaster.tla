------------------------------ MODULE TwiMaster ------------------------------
(***************************************************************************)
(* The I2C (TWI) driver of the nodes, TWI_Master.c, with the part of       *)
(* tdma_client/main.c that configures and reads the three sensors with it. *)
(* The driver is one interrupt handler and the functions that prepare its  *)
(* buffer; TWIE, the interrupt enable bit, says that a transfer is going   *)
(* on, and a task that finds it set spins.  A step of the bus is what the  *)
(* TWI unit reports in TWSR, with the handler it calls.                    *)
(*                                                                         *)
(* A byte is a tuple: what it is, whose it is, its position and the round  *)
(* of the sampling loop (modulo 2) it was measured in.                     *)
(***************************************************************************)
EXTENDS Naturals, Sequences

CONSTANTS
    DataSize,      \* ADXL_SIZE, ITG3200_SIZE and HMC5843_SIZE: 6
    BufferSize,    \* TWI_BUFFER_SIZE: 10
    MaxBusFaults   \* bound: faults of the bus in a behaviour

ASSUME TwiAssumption ==
    /\ DataSize \in Nat \ {0}
    /\ BufferSize \in Nat /\ BufferSize > DataSize /\ BufferSize > 2
    /\ MaxBusFaults \in Nat

VARIABLES
    op,           \* what the TWI unit does: TWCR; "off" when TWIE is clear
    twdr,         \* TWDR
    twiBuf,       \* TWI_buf
    msgSize,      \* TWI_msgSize
    bufPtr,       \* TWI_bufPtr, of the handler
    lastTransOK,  \* TWI_statusReg.lastTransOK
    step,         \* position of the node's program
    i2cBuf,       \* i2c_buf
    part,         \* the three parts of tx_buf
    watched,      \* sw_wdts[0].active: tx_task has started its watchdog
    addressed,    \* external: the sensor that answers, bytes of the transfer
    regPtr,       \* external: register pointer of each sensor, 0 when elsewhere
    round,        \* history: round of the loop, modulo 2
    tainted,      \* history: a fault in this round
    unset,        \* history: sensors whose configuration met a fault
    busFaults

driverVars == <<op, twdr, twiBuf, msgSize, bufPtr, lastTransOK>>
busVars    == <<addressed, regPtr>>
pastVars   == <<round, tainted, unset, busFaults>>
twiVars    == <<driverVars, step, i2cBuf, part, watched, busVars, pastVars>>

Sensor == {"adxl", "itg", "hmc"}
Zero   == <<"zero", "none", 0, 0>>
Sla(d, rw)   == <<"sla", d, rw, 0>>
Reg(d, what) == <<"reg", d, what, 0>>    \* 1: the first data register
Datum(d, k)  == <<"data", d, k, round>>  \* 0: not a measurement

\* init_adxl345, init_itg3200 and init_hmc5843, then a round of task_imu.
Setups == << <<"setup", "adxl">>, <<"setup", "adxl">>, <<"setup", "adxl">>,
             <<"setup", "adxl">>, <<"setup", "itg">>, <<"setup", "hmc">> >>
Round  == << <<"point", "adxl">>, <<"read", "adxl">>, <<"get", "adxl">>,
             <<"point", "itg">>, <<"read", "itg">>, <<"get", "itg">>,
             <<"point", "hmc">>, <<"read", "hmc">>, <<"get", "hmc">>, <<"publish", "none">> >>
Program    == Setups \o Round
RoundStart == Len(Setups) + 1

Doing(what) == Program[step][1] = what
Device      == Program[step][2]

TwiInit ==
    /\ op = "off" /\ twdr = Zero /\ twiBuf = [k \in 0..BufferSize - 1 |-> Zero]
    /\ msgSize = 0 /\ bufPtr = 0 /\ lastTransOK = FALSE
    /\ step = 1
    /\ i2cBuf = [k \in 0..DataSize + 2 |-> Zero]
    /\ part = [d \in Sensor |-> [k \in 1..DataSize |-> Zero]]
    /\ watched = FALSE
    /\ addressed = [first |-> FALSE, dev |-> "adxl", count |-> 0]
    /\ regPtr = [d \in Sensor |-> 0]
    /\ round = 0 /\ tainted = FALSE /\ unset = {} /\ busFaults = 0

-----------------------------------------------------------------------------
(* The functions of the driver, as the program calls them.                 *)

Busy == op # "off"      \* TWI_Transceiver_Busy

\* Faulty variant: the transfer before is not waited for.
StartAtOnce(msg, size, write) ==
    /\ msgSize' = size
    /\ twiBuf' = [k \in DOMAIN twiBuf |->
                     IF k = 0 \/ (write /\ k < size) THEN msg[k] ELSE twiBuf[k]]
    /\ lastTransOK' = FALSE
    /\ op' = "start"
    /\ UNCHANGED <<twdr, bufPtr>>

\* TWI_Start_Transceiver_With_Data, once the transfer before has ended.
StartWithData(msg, size, write) ==
    /\ ~Busy
    /\ msgSize' = size
    /\ twiBuf' = [k \in DOMAIN twiBuf |->
                     IF k = 0 \/ (write /\ k < size) THEN msg[k] ELSE twiBuf[k]]
    /\ lastTransOK' = FALSE
    /\ op' = "start"
    /\ UNCHANGED <<twdr, bufPtr>>

\* TWI_Get_Data_From_Transceiver; the program ignores what it returns.
GetData(size) ==
    /\ ~Busy
    /\ i2cBuf' = [k \in DOMAIN i2cBuf |->
                     IF lastTransOK /\ k < size THEN twiBuf[k] ELSE i2cBuf[k]]

\* One message of init_adxl345, init_itg3200 or init_hmc5843.
Setup ==
    /\ Doing("setup")
    /\ i2cBuf' = [i2cBuf EXCEPT ![0] = Sla(Device, 0), ![1] = Reg(Device, 0), ![2] = Zero]
    /\ StartWithData(i2cBuf', 3, TRUE)
    /\ step' = step + 1
    /\ UNCHANGED <<part, watched, busVars, pastVars>>

\* The register the read is to begin at ...
Point ==
    /\ Doing("point")
    /\ i2cBuf' = [i2cBuf EXCEPT ![0] = Sla(Device, 0), ![1] = Reg(Device, 1)]
    /\ StartWithData(i2cBuf', 2, TRUE)
    /\ step' = step + 1
    /\ UNCHANGED <<part, watched, busVars, pastVars>>

\* ... the read ...
ReadBurst ==
    /\ Doing("read")
    /\ i2cBuf' = [i2cBuf EXCEPT ![0] = Sla(Device, 1)]
    /\ StartWithData(i2cBuf', DataSize + 1, FALSE)
    /\ step' = step + 1
    /\ UNCHANGED <<part, watched, busVars, pastVars>>

\* ... and its bytes, copied behind those of the sensor before.
Collect ==
    /\ Doing("get")
    /\ GetData(DataSize + 1)
    /\ part' = [part EXCEPT ![Device] = [k \in 1..DataSize |-> i2cBuf'[k]]]
    /\ step' = step + 1
    /\ UNCHANGED <<driverVars, watched, busVars, pastVars>>

\* The packet is complete: task_imu copies it to pkt and waits.  tx_task, which
\* is next in the queue, starts the watchdog before task_imu runs again.
PublishSample ==
    /\ Doing("publish")
    /\ step' = RoundStart
    /\ round' = 1 - round
    /\ tainted' = FALSE /\ watched' = TRUE
    /\ UNCHANGED <<driverVars, i2cBuf, part, busVars, unset, busFaults>>

ProgramStep == Setup \/ Point \/ ReadBurst \/ Collect \/ PublishSample

-----------------------------------------------------------------------------
(* The interrupt handler.                                                  *)

\* The handler sends the next byte of the buffer, or stops.
SendNext(ptr) ==
    IF ptr < msgSize
    THEN /\ twdr' = twiBuf[ptr]
         /\ bufPtr' = ptr + 1
         /\ op' = "send"
         /\ UNCHANGED lastTransOK
    ELSE /\ lastTransOK' = TRUE
         /\ op' = "off"
         /\ bufPtr' = ptr
         /\ UNCHANGED twdr

\* Faulty variant: every byte is acknowledged.
AckEveryByte(ptr) == "recvAck"

\* Whether the byte that comes is acknowledged: not when it is the last.
AckBut(ptr) == IF ptr < msgSize - 1 THEN "recvAck" ELSE "recvNack"

\* TWI_START, TWI_REP_START
StartSent ==
    /\ op = "start"
    /\ SendNext(0)
    /\ addressed' = [addressed EXCEPT !.first = TRUE, !.count = 0]
    /\ UNCHANGED <<twiBuf, msgSize, step, i2cBuf, part, watched, regPtr, pastVars>>

\* TWI_MTX_ADR_ACK, TWI_MRX_ADR_ACK: a sensor answers its address.
AddressAcked ==
    /\ op = "send" /\ addressed.first /\ twdr[1] = "sla"
    /\ addressed' = [first |-> FALSE, dev |-> twdr[2], count |-> 0]
    /\ IF twdr[3] = 0
       THEN SendNext(bufPtr)
       ELSE op' = AckBut(bufPtr) /\ UNCHANGED <<twdr, bufPtr, lastTransOK>>
    /\ UNCHANGED <<twiBuf, msgSize, step, i2cBuf, part, watched, regPtr, pastVars>>

\* TWI_MTX_DATA_ACK: the first byte a sensor takes is its register pointer.
DataAcked ==
    /\ op = "send" /\ ~addressed.first
    /\ addressed' = [addressed EXCEPT !.count = 1]
    /\ regPtr' = [regPtr EXCEPT ![addressed.dev] =
                     IF addressed.count = 0 THEN twdr[3] ELSE @]
    /\ SendNext(bufPtr)
    /\ UNCHANGED <<twiBuf, msgSize, step, i2cBuf, part, watched, pastVars>>

\* The register a sensor sends, and the pointer after it.
Sent(d)    == Datum(d, IF d \in unset THEN 0 ELSE regPtr[d])
After(p)   == IF p = 0 \/ p = DataSize THEN 0 ELSE p + 1
Stored     == [twiBuf EXCEPT ![bufPtr] = Sent(addressed.dev)]

\* TWI_MRX_DATA_ACK, which goes on as TWI_MRX_ADR_ACK does
ByteReceived ==
    /\ op = "recvAck"
    /\ twdr' = Sent(addressed.dev)
    /\ twiBuf' = Stored
    /\ bufPtr' = bufPtr + 1
    /\ op' = AckBut(bufPtr + 1)
    /\ regPtr' = [regPtr EXCEPT ![addressed.dev] = After(@)]
    /\ UNCHANGED <<msgSize, lastTransOK, step, i2cBuf, part, watched, addressed, pastVars>>

\* TWI_MRX_DATA_NACK
LastByteReceived ==
    /\ op = "recvNack"
    /\ twdr' = Sent(addressed.dev)
    /\ twiBuf' = Stored
    /\ lastTransOK' = TRUE
    /\ op' = "off"
    /\ regPtr' = [regPtr EXCEPT ![addressed.dev] = After(@)]
    /\ UNCHANGED <<msgSize, bufPtr, step, i2cBuf, part, watched, addressed, pastVars>>

-----------------------------------------------------------------------------
(* Faults of the bus, and what the handler makes of them.                  *)

Fault ==
    /\ busFaults < MaxBusFaults
    /\ busFaults' = busFaults + 1
    /\ tainted' = TRUE
    /\ unset' = IF step <= RoundStart /\ step > 1
                THEN unset \cup {Program[step - 1][2]} ELSE unset
    /\ UNCHANGED <<twdr, twiBuf, msgSize, bufPtr, lastTransOK, step, i2cBuf, part,
                   watched, busVars, round>>

\* No acknowledgement, a bus error or a state the handler has no case for:
\* the interrupt is disabled, lastTransOK stays FALSE.
TransferError ==
    /\ op \in {"start", "send", "recvAck", "recvNack"}
    /\ op' = "off"
    /\ Fault

\* TWI_ARB_LOST: the transfer begins again, where the sensor's register
\* pointer is by now.
ArbitrationLost ==
    /\ op \in {"send", "recvNack"}
    /\ op' = "start"
    /\ Fault

\* A sensor holds the clock line: no interrupt comes any more.
BusHangs ==
    /\ op \in {"start", "send", "recvAck", "recvNack"}
    /\ op' = "hung"
    /\ Fault

\* The program spins on TWIE meanwhile.
Spin == op = "hung" /\ UNCHANGED twiVars

\* A message of main is on the bus when main asks for the next.
InMain == step <= Len(Setups)

\* Faulty variant: the restart leaves the TWI unit as it is.
RestartLeavesBus ==
    /\ op = "hung" /\ (InMain \/ watched)
    /\ step' = 1
    /\ i2cBuf' = [k \in 0..DataSize + 2 |-> Zero]
    /\ part' = [d \in Sensor |-> [k \in 1..DataSize |-> Zero]]
    /\ watched' = FALSE
    /\ tainted' = FALSE /\ unset' = {}
    /\ UNCHANGED <<driverVars, busVars, round, busFaults>>

\* A watchdog restarts the node: in main the hardware watchdog, in task_imu
\* the software watchdog that tx_task, of the same priority, no longer
\* updates.  In the first round of task_imu there is neither: the scheduler
\* runs and resets the one, tx_task has not started the other yet.
HangRestart ==
    /\ op = "hung" /\ (InMain \/ watched)
    /\ op' = "off" /\ twdr' = Zero /\ twiBuf' = [k \in 0..BufferSize - 1 |-> Zero]
    /\ msgSize' = 0 /\ bufPtr' = 0 /\ lastTransOK' = FALSE
    /\ step' = 1
    /\ i2cBuf' = [k \in 0..DataSize + 2 |-> Zero]
    /\ part' = [d \in Sensor |-> [k \in 1..DataSize |-> Zero]]
    /\ watched' = FALSE
    /\ tainted' = FALSE /\ unset' = {}
    /\ UNCHANGED <<busVars, round, busFaults>>

Handler == \/ StartSent \/ AddressAcked \/ DataAcked \/ ByteReceived \/ LastByteReceived
           \/ TransferError \/ ArbitrationLost

TwiNext == ProgramStep \/ Handler \/ BusHangs \/ Spin \/ HangRestart

\* The bus goes on unless it hangs, task_imu is run, and the watchdog that runs
\* out in a hang, if there is one, restarts the node.
Working == \/ StartSent \/ AddressAcked \/ DataAcked \/ ByteReceived \/ LastByteReceived
           \/ ProgramStep \/ HangRestart

TwiFairness == WF_twiVars(Working)

TwiSpec == TwiInit /\ [][TwiNext]_twiVars /\ TwiFairness

-----------------------------------------------------------------------------
Byte == {Zero} \cup {"sla", "reg", "data"} \X Sensor \X (0..DataSize) \X {0, 1}

\* Types; the handler writes inside TWI_buf although its store has no bound
\* of its own (TWI_Master.c:237-257).
TwiTypeOK ==
    /\ op \in {"off", "start", "send", "recvAck", "recvNack", "hung"}
    /\ twdr \in Byte /\ twiBuf \in [0..BufferSize - 1 -> Byte]
    /\ msgSize \in 0..BufferSize /\ bufPtr \in 0..BufferSize
    /\ op \in {"recvAck", "recvNack"} => bufPtr < msgSize
    /\ lastTransOK \in BOOLEAN /\ step \in 1..Len(Program)
    /\ i2cBuf \in [0..DataSize + 2 -> Byte] /\ part \in [Sensor -> [1..DataSize -> Byte]]
    /\ watched \in BOOLEAN
    /\ addressed \in [first : BOOLEAN, dev : Sensor, count : {0, 1}]
    /\ regPtr \in [Sensor -> 0..DataSize]
    /\ round \in {0, 1} /\ tainted \in BOOLEAN /\ unset \subseteq Sensor
    /\ busFaults \in 0..MaxBusFaults

\* A fault of the bus damages the sample that was being made and no other:
\* although task_imu looks at no error, and the driver leaves its pointer, its
\* status and the bus as the fault found them, a round without a fault yields
\* the measurements of this round, of the right sensor and in order
\* (TWI_Master.c:141-147, 216-223, 270-282; tdma_client/main.c:196-236).
FaultStaysInSample ==
    Doing("publish") /\ ~tainted =>
        \A d \in Sensor \ unset, k \in 1..DataSize : part[d][k] = Datum(d, k)

\* Sampling goes on: after the last fault of the bus a sample is published
\* again and again, the program is not left spinning on a transfer that has
\* ended, and a restart ends a hang.  The one exception is a hang in the first
\* round of task_imu, which lasts (TWI_Master.c:110, 131, 186, 270-282;
\* tdma_client/main.c:256-262, nrk_sw_wdt.c:35-53, nrk_scheduler.c:75-81).
SamplingGoesOn ==
    \/ []<>Doing("publish")
    \/ <>(op = "hung" /\ ~InMain /\ ~watched)
=============================================================================
