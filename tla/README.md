# Verification of the SafeBike sensor network

SafeBike puts sensor nodes on a bicycle. Each node is a FireFly board (an AVR with an
802.15.4 radio) that runs the Nano-RK real-time kernel. The wheel and frame nodes sample an
IMU and transmit packets in their TDMA slots; a master node polls the radio, takes the packets
and sends them in SLIP frames down a serial line to a laptop; the SLIPstream server there hands
them to a UDP client, which appends rows to a file. This directory holds TLA+ models of that
path, the configurations that check them with TLC, and proofs checked by TLAPS.

Paths below are relative to the repository: `kernel/` stands for
`src/firefly/src/kernel/source/`, `pcf_tdma.c` for
`src/firefly/src/net/pcf_tdma/rf231_soc/pcf_tdma.c`, `basic_rf.c` for
`src/firefly/src/radio/rf231_soc/source/basic_rf.c`, `tdma_client/`, `tdma_master/` and
`SLIPstream-server/` for directories of `src/firefly/safe_cyclist/`, and
`driver_accelerometers/` for the one under `src/data_collection/`.

## 1. Inventory

| Component | State it keeps | Operations | Model |
|---|---|---|---|
| Ready queue (`kernel/nrk_task.c`) | list threaded through a static node pool, free list | insert by priority and ceiling, remove, head | `NrkReadyList`, `NrkReadyQueue`, `NrkQueueOps` |
| Scheduler, waits, signals, semaphores (`nrk_scheduler.c`, `nrk_task.c`, `nrk_events.c`, `nrk.c`, `nrk_timer.c`) | TCBs, queue, timer registers, signal list, semaphore values | boot, tick, compare interrupt, every wait, signal and semaphore call, termination, restart | `NrkKernel` |
| Software watchdogs and system time (`nrk_sw_wdt.c`, `nrk_time.c`) | deadline and period per watchdog; seconds, nanoseconds, timer | init, start, update, stop, check by the scheduler; `nrk_time_get`, compaction, comparison | `NrkSwWdt`; a node's one watchdog also in `TdmaNode` |
| TDMA link layer (`pcf_tdma.c`) | one transmit and one receive buffer with a flag each, slot, mode | client: synchronise, transmit in the slot, `tdma_send`; host: beacon, poll, `tdma_recv` | client in `TdmaNode`, host in `SampleLog`, both on the time axis in `TdmaCycle` |
| Sensor node (`tdma_client/main.c`) | `tx_buf`, `pkt`, `packetReady`, sequence number | `task_imu`, `tx_task` | `TdmaNode`, its promise in `TdmaSender`, and by its packets in `SampleLog` |
| I2C driver (`tdma_client/TWI_Master.c`) | `TWI_buf`, its size and pointer, `lastTransOK`, the TWI registers | start a transfer, collect its bytes, interrupt handler | `TwiMaster`, with the sensors and the part of `main.c` that uses it |
| Master (`tdma_master/main.c`) | `rx_buf` | `rx_task` | `SampleLog` |
| Radio driver (`basic_rf.c`) | one frame buffer for both directions | receive, transmit, receiver off, receive interrupt | its buffer in `SampleLog`, its prints in `SlipLine`, its power in `Bmac` |
| B-MAC link layer (`bmac/rf231_soc/bmac.c`) | one receive buffer, one pending packet, flags, three signals | network task, blocking and other sends, receive, release, disable, enable | `Bmac` |
| SLIP codec and SLIPstream server (`slip.c`, `SLIPstream-server/main.c`) | byte-loop mode, `slip_buf`, the client | `slip_tx`; byte loop, `slip_rx`, `server_tx`, first datagram | `SlipLine` |
| Accelerometer logger (`driver_accelerometers/main.c`) | last sequence number of each node, the file | `unpack`, writing a row | `SampleLog` |
| Reserves table, statistics, stack check, drivers | tables and counters | | not modelled (section 9) |
| Hub prototype, GPS and AprilTag drivers, plotting, other link layers, Android library | | | not modelled (section 9) |

How they interact. On a node the timer's compare interrupt runs the scheduler, which walks all
tasks *with interrupts enabled*, ages their clocks, queues those that are due and picks the head of
the queue. Tasks enter the kernel by calls that disable interrupts for part of their work only, and
a call that waits first arms the task and then waits, in two steps. `task_imu` and `tx_task` have
one priority and share `pkt` without a lock; `tx_task` hands its packet to the network task (priority
20) through `tdma_tx_buf` and waits for a signal. On the master the network task hands packets to
`rx_task` through one buffer and a flag. Everything on the master's serial line, frames and printed
text, shares one byte stream. In `main` the sensors are configured with interrupts on and the
kernel not yet started; afterwards `task_imu` drives the I2C unit and spins until each transfer has
ended. The clients share the air by time alone: each computes its slot from the moment it heard the
host's beacon.

What is hard here: steps of a call that an interrupt can separate; clocks aged in a loop that can be
interrupted; a signal raised before its waiter waits; buffers that are announced before they are
filled; a radio buffer that both directions use; lost and repeated packets, wrapping numbers and
restarts; a byte stream that loses bytes; a clock that an 8-bit processor reads byte by byte while the
scheduler advances it; errors of the I2C bus that nobody looks at; frames that look like beacons. `PROJECT.json` lists each hazard at its line, with the
property that covers it or the reason none does.

## 2. Modules

```
NrkQueueOps ── NrkReadyQueue  (abstract)
     │     └── NrkReadyList   (implements NrkReadyQueue) ── MCNrkReadyList
     └── NrkKernel ── NrkKernelClaims ── MCNrkKernel
NrkQueueOps  ── NrkQueueLemmas ┐
NrkKernel ─────────────────────┼ NrkKernelProofs ── NrkSchedProofs
NrkReadyList ──────────────────┴ NrkReadyListProofs
NrkReadyList, NrkSwWdt ── MCNrkReadyList, NrkSwWdt ── NrkSwWdtProofs
TdmaSender ── TdmaNode; TdmaNode, TwiMaster ── TdmaNodeProofs
TdmaCycle, Bmac, SlipLine ── LinkProofs
TdmaNode, TwiMaster, TdmaCycle ── MCTdmaNode
SampleLog ── MCSampleLog, SampleLogProofs
SlipLine, Bmac ── MCSlipLine
```

The modules form a chain of abstractions. `NrkKernel` uses the queue as a sequence;
`NrkReadyList` shows that the C list gives exactly that sequence. `TdmaNode` takes from the kernel
that the highest priority runs and that equals take turns (`HighestRuns`, `EqualsTakeTurns`) and
models the tasks of one node; `TdmaSender` is what such a node promises, and `TdmaNode` is shown to
implement it. `SampleLog` takes from `TdmaSender` that a node transmits whole packets, each the newest
when it was handed over, repeats them, and restarts; from `SlipLine` that a frame arrives unchanged or
not at all. Where a module only takes something from another, the link is by argument: the nodes of
`SampleLog` are those of `TdmaSender` without `SendUnfilled`, the one frame of a life that goes out before
its sample has been copied.

### NrkQueueOps, NrkReadyQueue, NrkReadyList

`Add` and `Remove` give the order `nrk_add_to_readyQ` and `nrk_rem_from_readyQ` keep: behind the
tasks of the same or a higher priority, with the three tests of the code for tasks that hold a
semaphore and have its ceiling. Flags and ceilings are read at insertion only, so a change of them
does not move a queued task. A task may be queued twice, which the kernel makes happen. `NrkReadyQueue` is the specification over a
sequence; `NrkReadyList` is the code over `_readyQ`: two lists through one array, every pointer write
in its branch, a write through `NULL` recorded in `fault`. `ImplementsQueue` is the abstract
specification under the mapping "follow `next` from `head`".

### NrkSwWdt

The system time and the watchdogs measured with it, for any set of watchdogs. A task calls
`nrk_sw_wdt_start` or `nrk_sw_wdt_update`: `Call`, the reads of `nrk_time_get` (`ReadSecsLow`,
`ReadSecsHigh`, `ReadNanosLow`, `ReadNanosHigh`, `ReadTimer`), the writes of the deadline (`WriteSecsLow`,
`WriteSecsHigh`, `WriteNanosLow`, `WriteNanosHigh`), for an update the compaction (`CompactLow`,
`CompactHigh`, `CarryLow`, `CarryHigh`), and `Activate`. All of it runs with interrupts enabled on a
processor that moves 8 bits at a time, the lowest first (`src/firefly/safe_cyclist/cadence_client/main.lss`
shows the order), so an access to a 32-bit field is two steps, the lower bytes and the upper ones.
`Half` is where `nano_secs` is split. `secs` may be split after any byte: `SecSplits` are the numbers of
values the bytes below a split can have, 2^8, 2^16 and 2^24. Between any two steps the timer counts (`TimerTick`) and the scheduler runs:
`SchedulerRuns` checks the watchdogs with the time *before* the elapsed ticks are added to it, as the code
does, and `WdtRestart` is the case in which one has expired. `Clock` is the true time; `fed` remembers
when the last call of each watchdog began and ended, and by how much a carry between the bytes of the
seconds put the time it read ahead of the clock.

### NrkKernel

State is the TCB of each task (the fields of `nrk_task.h:49-75` that control flow reads), the
queue, the timer (`timer`, `compare` = `OCR2A + 1`, `prevTimer`), the interrupt flag and the pending
interrupt, the position of the scheduler, signals and semaphores, and for each task the point of
its program in a kernel call. A step is what the code does with interrupts disabled, or one iteration
of the scheduler's loop. Calls that wait have two or three steps:

| Code | Actions |
|---|---|
| `nrk_setup`, `nrk_init`, `nrk_activate_task`, `nrk_start` | `Init`, `ActivateTask`, `Start` |
| timer and compare interrupt | `Tick`, then `SchedEnter`, one `SchedTask` per task, `SchedPick` |
| `nrk_wait`, `nrk_wait_ticks`, `nrk_wait_until_next_period`, ... | one action each, all through `WaitForScheduler` |
| `nrk_event_wait` | `EventWait` (arm), `EventWaitBlock` (disable, wait), `EventWaitReturn` |
| `nrk_event_signal`, from a task and from an interrupt handler | `EventSignal`, `IsrSignal` |
| `nrk_sem_pend` | `SemPend` (test, arm), `SemPendBlock`, `SemPendTake` |
| `nrk_sem_post` | `SemPost` (test), `SemPostWake` |
| `nrk_terminate_task` | `TerminateDequeue`, `TerminateFinish`, `TerminateWait` |
| used-up reserve, hardware watchdog | `ReserveViolated`, `WatchdogReset`, both through `Boot` |

Tasks are programs that make any sequence of the calls in `Calls[t]`. Time is counted in kernel ticks:
a call and a run of the scheduler take less than one.

### TdmaNode

`tdma_client`: `ImuBuild` and `ImuPublish` are the two halves of `task_imu` (the copy to `pkt` can
be interrupted), `TxStart` and `TxLoop` the watchdog and the loop of `tx_task`, `SendBegin`,
`SendFill`, `SendFilled`, `SendWait` the four parts of `tdma_send`: announce, copy the head, copy the
rest and set the length, wait. The network task is `NoBeacon`, `HearBeacon`, `Slot`, `CycleEnd`; it may
take the CPU between any two steps of the others. Time for the watchdog is counted in TDMA cycles.

### TdmaSender

What a node promises to its listeners, without tasks, slots or watchdog: `NewSample` counts, `Load`
hands over the newest sample, `Send` transmits what was handed over, `Restart` begins a life. `SendUnfilled`
is the exception: the last frame goes out again, with its own number or the new sample's, and the node
is `mute` until it restarts. `Sender` in `TdmaNode` maps a node to it. The sample is new when its copy to
`pkt` ends, not when its number is counted (`Newest`); a frame is handed over when its copy ends
(`Loaded`), and until then the frame is what it was before the copy began (`LastFrame`); a node is mute
when its pending packet has been sent while `tx_task` had not begun to wait (`Mute`).

### TwiMaster

The I2C driver with the program that uses it. `Program` is what `main` and `task_imu` do with the
driver: six messages that configure the sensors, then for each of the three sensors point, read and
collect, then publish. A program step that needs the bus waits for `~Busy`. The handler's cases are
actions by what the TWI unit reports: `StartSent`, `AddressAcked`, `DataAcked`, `ByteReceived`,
`LastByteReceived`, `ArbitrationLost`, and `TransferError` for all the cases that disable the interrupt.
The sensors are external: each has a register pointer that a write sets and every byte read
advances. `BusHangs` is a sensor that holds the clock line, `Spin` the program that goes round meanwhile,
`HangRestart` the watchdog that ends this. There is one in `main`, where no scheduler runs and the hardware
watchdog is not reset (`InMain`), and one in `task_imu` as soon as `tx_task` has started its software watchdog
(`watched`), which it does while `task_imu` waits for the first time. In the first round there is none: the
scheduler resets the hardware watchdog at each of its runs, and the hang lasts. A byte carries whose it is, its register and the round it was measured in.

### TdmaCycle

What `TdmaNode` leaves out: time, and the other nodes. `HostStep` is the host at its beacon and at
each slot; `AtSlot` a client that transmits, `AtEnd` one that begins to listen, `Fill` the
sending task, which runs whenever the network task sleeps. `Tick` lets a tick go by and delivers
what was on the air: a frame that is alone may be heard by any of the listeners. A wait ends up to
`Jitter` late, as ticks of the kernel are coarser than the times it is given; a client adds times to
the moment it heard the beacon, so that lateness does not add up over the slots. A client takes any
frame whose slot field is 0 for a beacon (`LooksLikeBeacon`); the cadence node's slot is 0. The
client so `misled` adopts 0 slots of length 0, so all its times are that of the frame; but the clock
it compares them with has the grain of a tick, and `nrk_wait_until` suspends the network task for
what is left of one or two (`pcf_tdma.c:559, 642, 661`). Its waits are `0..Jitter` therefore, and `tx_task` may
hand over a packet in them (`Fill`), which the client then sends at once, with slot 0 in it as well.
`missed` is history: whether a client has missed a beacon or restarted since the last one all of them heard.

### Bmac

The network task runs above the others, so it goes from one wait to its next in one step: `Check` is
the loop from its top, `ListenEnd` the loop from the end of `_bmac_rx`'s wait, `DelayClear` from the
end of `_bmac_tx`'s. The application is three tasks: one that receives (`SetBuffer`, `TestReady`,
`WaitRx`, `GetPkt`, `Release`), one that sends (`TxPkt`, `Announce`, `SetPacket`, `WaitDone`: the flag
is set before the packet, and the wait comes last) and one that disables and enables the layer, in
two steps each. A signal reaches only a task that waits at that moment.

### SlipLine

Byte by byte: `SlipTx` frames and stuffs a payload; `ReadByte` is one turn of the server's byte loop
with `slip_rx`; `LoseByte` and `PrintByte` are the faults of the line, the second because
`basic_rf.c:650-678` prints from an interrupt handler on the serial line `slip_tx` is writing to.

### SampleLog

Nodes make samples (`NewSample`), load them into a frame (`Load`), repeatedly while the sample
stays, and restart (`Restart`). The master's network task polls once per slot (`Slot`) and sends its
beacon (`Beacon`) through the transceiver's one frame buffer; `rx_task` copies the packet in two parts,
releases the buffer and forwards it (`RecvHead`, `RecvData`, `RecvDone`, `Forward`). A packet is lost on
the way (`LosePacket`) or reaches the logger (`LoggerReads`), which makes a row unless it has seen the
number. A packet carries the sample it was made from beside its address and number, so that a mix
of two packets is visible.

## 3. Runs

| Run | Distinct states | What it asks |
|---|---|---|
| `kernel_timed` | 10 698 | three tasks, two of equal priority, all timed waits: the queue holds the READY tasks, the timer is set for the nearest sleeper, elapsed ticks are counted once, equals take turns, sleepers wake |
| `kernel_events` | 29 335 | a task waits for signals of another task and an interrupt handler: the highest priority runs, a waiting task is reachable, sleepers wake |
| `kernel_sem` | 40 998 | two tasks share a semaphore of count 1, one runs under a reserve that restarts the node: types, units add up, no task waits for a free semaphore |
| `kernel_faults` | 411 953 | signals created and deleted under their waiters, termination, the error return that leaves interrupts disabled: the idle task stays last, a finished task is gone, interrupts come back |
| `ready_list` | 2 158 205 | `NrkReadyList`: the C list implements the abstract queue and stays well formed, no write through NULL. `NrkSwWdt`: a watchdog fed in time does not restart the node unless the check meets a half-written deadline, one not fed does |
| `tdma_node` | 265 019 | `TdmaNode`: one sample is handed over, the loop never spins, what the node does implements `TdmaSender`, the node goes on transmitting. `TwiMaster`: a fault of the bus stays in its sample, sampling goes on. `TdmaCycle`: slots are apart, clients that go by the host's cycle are awake for the beacon, a client is misled only after a missed beacon or a restart, every client goes on sending in its slot |
| `slip_line` | 242 920 | `SlipLine`: intact frames are delivered, damaged ones never become another payload. `Bmac`: held packets do not change, a send that returns sent its own packet, what is received is got, a pending sender returns |
| `sample_log` | 1 681 884 | forwarded packets are whole, repeats make no second row, fresh samples of a known epoch are logged |
| `kernel_lost_ready`, `kernel_period`, `kernel_mutex`, `sample_seen` | stop at a violation | the four disagreements of section 6 |

Three runs check components that share no state side by side: `MCNrkReadyList`, `MCTdmaNode` and
`MCSlipLine` choose one in `Init` and leave the others' variables alone. The number of states is then
the sum of the components' and not their product, and each property is about the behaviours of its
own component; fairness is stated for the chosen one only.

A few of the properties deserve a word.

* `TicksAccounted`: the ticks the scheduler takes off every clock are the ticks that went by. The
  exception in its text is real: `_nrk_setup_timer` sets `_nrk_prev_timer_val` to 254 and then calls
  `_nrk_os_timer_reset`, which sets it to 0 (`nrk_timer.c:91, 205`), so that the first run of the scheduler takes
  off nothing and the whole first period is lost.
* `WaiterReachable`: `nrk_event_wait` arms the task with interrupts enabled and the scheduler decides
  later how to suspend it. The property says that a task is never left waiting for something that
  cannot come.
* `QueueExact` holds only where no signals and semaphores are used; with signals, a task may be queued
  twice (section 6).
* `SendsSamples`: `tdma_send` sets `tx_data_ready` before it copies the packet, so a slot can
  transmit half a packet. The same slot then raises the signal before `tx_task` waits for it, and the
  signal is lost: the node is silent until its watchdog restarts it. `TdmaSender` has exactly this
  exception, and every other frame of a node is one whole sample, the newest when it was handed over,
  although two tasks share `pkt` without a lock. `NodeTransmitsAgain` says that the watchdog gets the
  node going again. (`OneDamagedFrame`, one such frame in a life, follows and is proved.)
* `FedIsNotRestarted` and `UnfedExpires` bound the watchdog from both sides. The tolerances are what the
  code costs. A deadline may be early by a second that turns between two reads and, on top of it, by a second
  that `nrk_sw_wdt_start` leaves uncompacted or `nrk_sw_wdt_update` has taken off the nanoseconds and
  not yet carried, and by a run of the timer that is reset between the reads. It may be late by two runs of the
  scheduler, as the check reads the time before the elapsed ticks are added, and by a torn read of the
  nanoseconds, which can be ahead of the true time by a half word. Beyond these, each has one exception,
  and both are for the bytes of the seconds. A read that a carry between them tears (once in
  256 s, if the timer interrupt comes in those few instructions) is up to 255 s ahead, or more at the rarer
  carries of the bytes above, and the watchdog late by that (`ahead`). A write that the interrupt
  tears leaves the new low byte with the old upper ones, and the check then takes a deadline that is being moved
  forward for one that has passed: a node that feeds its watchdog in time is restarted (`HalfWritten`). Without
  either exception TLC refutes the property.
* `FaultStaysInSample`: nobody looks at the errors of the driver, and nothing is reset after one. That
  a fault damages the packet being made (with an earlier sensor's bytes in its place) is real; the
  property says that it damages no other. A configuration message that failed is its exception
  (`unset`): that sensor sends no measurements until the node restarts.
* `NodeSamplesAgain`: the node recovers from every fault of the bus, a hang included, except a hang in
  the first round of `task_imu`, which no watchdog ends (section 6).
* `MisledByMiss`: a client may be misled only after somebody has missed a beacon or restarted. The frames
  that look like a beacon are those of the client in slot 0 and of misled ones; the first is sent
  when the others, who heard the beacon with it, wait for their slots. A misled client that is handed a
  packet in time answers with one more such frame, which can mislead the next; how many follow each other has no bound, but one
  beacon that all hear ends it. `SlotsAreApart` is therefore about clients that go by the host's
  cycle, and `NodesSendInSlot` names the case in which the misled ones answer each other for ever.
* `SentIsOwn`: `bmac_tx_pkt` sets its flag before the packet, and the previous packet goes out once
  more if the network task comes in between. The wait comes after both, so a send that *returns* has
  sent its own packet, or met a radio that was powered down meanwhile.
* `NothingInvented` and `IntactIsDelivered` together: what becomes of a damaged frame may harm
  itself and, if it ends right behind an ESC, the next; nothing else.
* `ForwardsWhole`: the beacon is written into the buffer an unread frame may be in. What makes this
  harmless is a configuration rule, see section 5.

## 4. Bounds, and why they are enough

* Kernel: two tasks (three in `kernel_timed`) beside idle. Every property is about one task, or about
  one task and the one that displaces it; the third task gives two equals with another between
  them. `PoolSize` is one more than the tasks, as in the code, so that duplicates can fill the pool.
* Time: `MaxSleep` 4 to 6 ticks for 250, `TimerSize` 5 to 8 for 256, `TimePad` 2 as in the code;
  periods 3 and 4, so that the scheduler wakes before, at and after a wakeup, and periods drift past each
  other. Delays hold 0 where 0 means something. Clocks are bounded because no call adds to a clock: each
  sets it from its argument.
* `ready_list`: three tasks beside idle, four nodes, one fewer than the code has, so that the
  pool runs out. One watchdog (they share nothing but the clock) of three seconds and a tick (longer
  than what may be lost of it), three ticks to a second, a timer of two ticks. A call takes at most one tick with what
  interrupts it (it takes well under a millisecond): every boundary, of a second, a half
  word and the timer, falls between any two steps of a call. The lower bytes of `secs` have two or three values for 256 (`SecSplits`), so that their
  carries come within 8 seconds, on a second at which the nanoseconds carry too, or not. Interrupts at two of the
  three splits of one access add nothing: a call is much shorter than 256 s, so two of its reads cannot
  see two carries. Insertion at the head and in the middle, removal at both, and a full pool all occur.
* `tdma_node`: `SeqMod` 3, so that a number is used again; `WdtLimit` 24 cycles for about 300 (5 s
  of three slots of 2 ms and a guard time of 10 ms). It has to be larger than the cycles a healthy node may take for one turn of
  `tx_task`'s loop (three sends and up to one step per cycle), or the watchdog would restart a node
  that works.
  `TwiMaster`: three bytes per sensor for six, a buffer of five for ten; two faults, so that one can
  follow the other in the same round or the next. `TdmaCycle`: three clients in slots 0, 1 and 2, that is
  one whose frames look like beacons, one in the middle and one in the last slot; a slot of two ticks,
  one for the frame and one for the lateness, a guard of three; one restart of any node.
* `slip_line`: payloads of 1 to 4 bytes with every control byte in every place, and payloads that
  look like frames; one fault per frame (a sum cannot promise more); `BufSize` 7, below two frames,
  so that an overfull buffer occurs.
  `Bmac`: two payloads, so that a packet can be mistaken for another, and one task of each kind.
* `sample_log`: two nodes (a mix needs two), three slots with the last one free, numbers modulo 3;
  node 1 goes through a wrap or a restart, one packet on the wire. `BeaconSum` and `SlotLen` are any
  two numbers, here ones that no packet has in those places.

## 5. Configuration assumed

`SampleLog` assumes what `tdma_master/main.c:38` asks for: "SLOT NUMBER: number of clients + 1". The
last slot is then nobody's, so when the beacon is due the poll of that slot has emptied the
transceiver's buffer (`SpareSlot`). Without the spare slot the beacon's last header byte and checksum
overwrite the address and number of an unread frame, and the master forwards a packet with another
node's head: TLC finds it at once when a node has the last slot. This is worth
care, because `src/firefly/README.md:8` suggests addresses 1 to 4 while the master's `SLOT_NO` is 3.

`TdmaCycle` assumes a slot that holds a frame and the lateness of a wait, a guard time above both
together, and a host whose restart takes longer than its cycle (`CycleAssumption`). The guard is 10 ms
(`pcf_tdma.h:38`), and a restart, with the watchdog that causes it, takes a second or more.

Fairness. The kernel assumes that the boot goes on, the timer counts, the interrupt is served, and the
hardware watchdog resets a node whose scheduler does not run: these are hardware. Nothing is assumed
of a task: it may keep the CPU for ever. `TdmaNode` assumes that a beacon is heard in the end (or
`NoBeacon` goes on for ever, which `TransmitsAgain` names as its own case), that the network task's
timers run, that the watchdog is checked (the scheduler does so at each run), and that the head of the queue
runs when the network task sleeps (the kernel's `HighestRuns`). The guard `ran` of `CycleEnd` says
that a cycle leaves the application tasks time for at least one step; it has some 10 ms. `TwiMaster` assumes that the bus goes on unless it hangs, that
`task_imu` runs and that a watchdog, where one runs, ends a hang. `TdmaCycle` assumes only that time goes on. What
else a client needs is the premise of the property (`FairTo`), as it is not the code's to give: that one that
listens when a beacon gets through again and again hears one again and again, and that the sending task
runs before the slot again and again. `Bmac` assumes that the waits end, that each task finishes
the call it is in (not that it makes another) and that the channel is clear at one of its repeated
checks.

## 6. Disagreements found

Checked as violation runs:

1. `kernel_lost_ready`. `nrk_event_wait` arms a task with interrupts enabled (`nrk_events.c:202-203`).
   A signal in between leaves it queued but SUSPENDED, and the scheduler queues it again. Each time
   costs a node of the pool, until `nrk_add_to_readyQ` drops a READY task without an error.
2. `kernel_period`. `nrk_scheduler.c:209-211` computes `next_period` without the ticks that were left
   when the elapsed time passes the end of the period; the comment at 202 promises a consistent period.
3. `kernel_mutex`. A task woken by `nrk_sem_post` takes its unit without testing the value again, so two
   tasks can hold a semaphore that `BufferManager.c:578` calls a mutex.
4. `sample_seen`. The logger drops new samples as "sequence seen" after a wrap or restart whose
   packets with number 0 were all lost.

Seen while modelling `Bmac`: `bmac_tx_pkt` always returns `NRK_OK`, because `pkt_got_ack` is unsigned
and `NRK_ERROR` in it counts as true (`bmac.c:346`); a done signal raised before its wait is lost and
leaves the sender waiting for ever, unless somebody else sends (`bmac.c:335-341`;
`PendingSenderReturns` therefore speaks of the packet that is still pending); two senders can both
find the flag clear (`bmac.c:324`); and the network task powers the radio up before it looks at
`is_enabled` (`bmac.c:411-412`), so that a disabled layer waits with its radio on.

Seen while modelling the watchdogs, the driver and the cycle, each an exception in a property above and
in what the theorems say: `nrk_sw_wdt_update` writes an active deadline with interrupts enabled, so that the check can
restart a node that is just feeding its watchdog (`nrk_sw_wdt.c:74-84`); `nrk_time_get` reads the seconds with
interrupts enabled, so that a deadline can be set minutes too late (`nrk_time.c:54`); `tx_task` starts the
watchdog after the first sample (`tdma_client/main.c:256-262`), so that a bus that hangs before leaves the node
spinning for ever; and misled clients can go on answering each other (`pcf_tdma.c:563-592`).

Seen while reading, not run: `nrk_task.h:60` says priority 0 is highest, the code runs the
larger number first; `nrk_events.h:49` says of deleting a signal what the code does only for tasks
registered for that signal alone; `nrk_events.c:89` clears with `~SIG(x)` whose precedence takes
other signals too (comment at 115); a finished task is revived by a `nrk_signal_delete`
(`nrk_events.c:77-82`); `getc0` passes a signal number where a mask is due (`ulib.c:83`);
`tdma_aes_disable` enables; `nrk_sw_wdt_start` does not compact its deadline as `nrk_sw_wdt_update` does (modelled in `NrkSwWdt`); `nrk_reserve_delete` uses an index it never set; `slip.c`'s "Send end to flush any accumulated data" fails right behind an ESC;
`driver_accelerometers/main.c:195` tests a result for truth, and -1 is true, so a row of the last
timing data is written for every rejected packet, against the format `src/firefly/README.md`
documents for every line (`unpack_time` is never called).

## 7. Proved

Every theorem holds for all values of the constants under the named assumptions
(`KernelAssumption`, `NodeAssumption`, `TwiAssumption`, `WdtAssumption`, `LogAssumption`, `CycleAssumption`,
`BmacAssumption`, `SlipAssumption` and the ones of `NrkQueueOps`), which TLC evaluates in the runs.

* `NrkKernelProofs`: `TypeCorrect` and `IdleAlwaysLast`. The idle task is queued once, at the end, for
  any tasks, priorities, programs, signals and semaphores: the head of the list is never NULL,
  also when duplicates fill the pool. `IdleLast` is not inductive by itself:
  the invariant adds that the idle task's TCB is untouched (it stays READY, so the scheduler neither
  suspends nor wakes it), that a semaphore index in a call exists, and that activation starts behind the
  idle task. `NrkQueueLemmas` says what `Add` and `Remove` do to a
  sequence; the preservation proof has one lemma per action.
  Its second part is about semaphores: `SemAlwaysAccounted` for any programs, `SemWakeupNeverLost` for programs
  that delete no signal (a deletion clears what it should not, section 6). The first needs that a
  task inside `nrk_sem_post` still holds what it posts and one inside `nrk_sem_pend` does not hold it yet
  (`AtSem`); the second that a task armed for a semaphore is armed for the one it wants and found it at 0
  (`ArmedAtZero`).
* `NrkReadyListProofs`: `ListAlwaysSound`, `NeverNullWrite` and the refinement `ListImplementsQueue`, for any
  tasks, priorities, ceilings and pools of two nodes or more. The invariant `IInv` names what the pointers
  stand for: there are a sequence `q` of nodes that `next` threads from `head` and a sequence `f` that it
  threads from `free`; together they are the pool, no node twice; `prev` mirrors `q`; the idle task's node
  ends `q` (`Sound`). `ListAddIsAdd` and `ListRemoveIsRemove` say of every such array that the pointer
  writes of an insertion or a removal give one whose `q` is `Add` or `Remove` of the old one, in each
  branch of the code: the pool is used up, at the head, in the middle, the task is not there. What
  following the list computes (`PathFrom`, the scan of `nrk_add_to_readyQ`, the search of
  `nrk_rem_from_readyQ`) is derived once: on a `Sound` array a function that satisfies the recursive
  equation is written down from `q` and `f`, and any other has the same values along them, from the
  end to the start (`FromTheEnd`, by the least position at which they differ).
* `NrkSchedProofs`: `AlwaysWokenOnTime` for any programs: the loop carries the nearest wakeup of the tasks it has
  passed (`NearestSleeper`). The other properties of the scheduler are false for some programs, and each
  theorem names the ones it is about:
  `TicksAlwaysAccounted` (`IntsKept`: nobody calls `nrk_set_next_wakeup`, whose error return leaves
  interrupts disabled until the timer has passed its compare value),
  `HighestAlwaysRuns` and `EqualsAlwaysTakeTurns` (`NoSemCalls`: a ceiling raised while a task is queued
  does not move it), `FinishedStaysGone` (`TerminatorsPlain`: a task that terminates uses no signals and
  semaphores, since one that is queued twice is only removed once), `QueueAlwaysExact` (`OnlyWaits`
  and `PoolFits`: calls that wait for time only, and a node for every task), `WaiterAlwaysReachable` (`OnlyArms`: no
  deletion, no unregistration, no semaphores). The TLC runs of these properties satisfy the same
  hypotheses; tasks without the named calls share the node with tasks that raise signals or terminate.
  `NrkQueueLemmas` supplies the order: `Add` and `Remove` keep a sorted queue sorted, and `Add` puts a task
  behind its equals.
* `TdmaNodeProofs`: `TypeCorrect`, `AlwaysOneSample`, `DamagesOnce` and the refinement
  `NodeImplementsSender`. The strengthening is `HeadStays`: a
  task between two steps of a copy is at the head of the queue and stays there, which is why the absence
  of a lock does no harm. With it, `pkt` and the frame can be followed half by half (`PktWhole`,
  `HalfFrame`). For `DamagesOnce`, a frame damaged in this life implies that the signal is lost and that
  `tx_task` is on its way into, or in, the wait nothing ends but a restart.
  For the refinement, `Counting` says what the numbers tell of the sample that is published next, and that a
  task that sends has one to send; `FrameKept` that the frame is whole, or none yet, except for the part a
  copy has written, until the node is mute. Each step of the tasks, the slots and the watchdog is then one
  step of `TdmaSender` or none.
  `NeverGoesRound` needs one more fact, `ImuAhead`: while no packet is ready, the head is `task_imu`.
  Its second part is about the I2C driver: `TwiTypeCorrect`, by which the handler, which tests nothing
  itself, never writes outside `TWI_buf`; and `FaultsStayInSample`. A byte is followed from the sensor's
  register through `TWI_buf` and `i2c_buf` to the packet. In a round without a failed transfer the three
  sensors are at their places of the round (`Order`): what is pointed at has its register pointer at the first
  measurement (`Pointing`), the bytes received so far are that sensor's, in order and of this round
  (`Reading`, `Receiving`), and what has been collected stays (`Collected`). What a fault leaves behind, a
  transfer cut short, an old status, a register pointer half way, is overwritten before it is read again
  (`Clean`).
* `NrkSwWdtProofs`: `WdtTypeCorrect`, `UnfedExpiresAlways`, `FedStaysUp`, for any watchdogs, periods, rates,
  sizes of the bytes and lengths of a call. What a call has read is bounded against the clock on both sides: from
  above by reads that see the time move forward (`ReadAhead`, with `ahead` for a carry of the seconds'
  bytes), from below by the seconds, which are read first and may be out of date by one (`ReadBehind`): their
  lower part is that of a second no earlier than the call (`BegunBy`), and the upper part comes later. The deadline
  is bounded through the fields written so far (`Written`), and every active deadline against the
  history of the call that wrote it: not later for all who are not being written (`NotLater`), not earlier
  unless it is half written (`NotEarlier`). `BytesAre` is the arithmetic of lower and upper bytes. The
  proof corrected a property once: with the tolerance of one second `FedIsNotRestarted` held in the
  small instance checked before and not for other periods, since a second may be lost in the reads *and* in
  the writes.
* `LinkProofs`, first part, the cycle: `CycleTypeCorrect`, `AlwaysApart`, `AlwaysAwake`, `OnlyAMissMisleads`, for any number of clients, any slots
  and any times that satisfy `CycleAssumption`. The nodes' clocks have nothing in common but the last
  beacon, so the invariant is about the ticks that have passed since then, a number that no variable
  holds: for *some* `e`, every client that goes by the host's cycle has `SlotTime - e` ticks, and its
  lateness, before it (`Waits`), or has its slot's time within `Jitter` of `e` when it sends (`Sends`), and the
  host's own slots agree (`AtSlots`). A host that is about to send the next beacon, after its guard time
  or after a restart, has let so many ticks pass that no such client can be waiting (`AtCycle`,
  `NobodyWaits`). Times of two slots are less than `Jitter` apart only if the slots
  are the same (`TimeUnique`). For `MisledByMiss`, as long as nobody has missed a beacon: nobody is
  misled, and who listens does so no earlier than the cycle's end (`Searches`), as the wait for it is counted from the
  beacon whatever the slot's lateness (`EndsLate`); a frame of slot 0 is on the air at most `Jitter` after
  the beacon (`Sends`), which is before that.
  Second part, B-MAC: `BmacTypeCorrect`, `HeldPacketStays`, `ReturnsWithOwn`. Two facts that outlast a wait carry them:
  the network task listens only while the buffer is free, and a packet that is in use keeps it full
  (`Held`); from its setting to the end of the wait the pending packet is the caller's (`OwnPending`).
  Third part, the serial line: `SlipTypeCorrect` and `IntactAlwaysDelivered`, for payloads of any bytes and of any length
  `slip_tx` accepts, whatever became of the frames before. `SlipAssumption` asks that the five control
  bytes differ and that neither a length nor a checksum can be `END` or `ESC`, which holds because both are at
  most 128. What the loops of `slip_tx` compute is proved
  from the least turn at which it would fail: the checksum is a number (`SumIsNat`), and a stuffed payload
  is the code of its first byte followed by the rest, stuffed (`StuffedStep`). The invariant says where in
  an intact frame the server is (`OnTrack`): what it has stored and what is still on the line make up the
  payload (`InPayload`, and `InEscape` between an ESC and its code), so at the END the length and the sum
  agree (`StoredIs`).
  Fourth part, a damaged frame: `NothingEverInvented`, for payloads of any bytes and length, under
  `SingleFault`: at most one byte of a frame is lost or printed into it, a full-length frame and one byte more fit
  `slip_buf` (130 of 1023 bytes), printed bytes are at most 128 (they are ASCII), and the checksum modulo 128
  tells `END` and `ESC` from their codes (192 and 219 from 220 and 221), also with the ESC of the code left in.
  These are facts of `slip.h`, `slip.c` and the server, and of the instance of `serial_line`. For two
  faults in a frame the property is not claimed: two that leave the length and the sum modulo 128 as they were
  go unnoticed. The argument is about one thing, the buffer the server will have at the END: what it has
  stored, and what is still on the line, decoded from where it stands (`InFrame`, `InCode`, and `AtCode` and
  `NoCode` for an ESC lost or printed). A fault changes that buffer once, and what results has a length that its
  first byte does not give (`WrongLength`), a sum its last byte does not give (`WrongSum`), or is an
  end of the buffer that was sent, whose inside is part of the payload (`EndOfBuffer`): `Damaged`. The server may
  also be in a buffer longer than its length, which no further byte mends (`Over`), looking for a START and
  finding one in the payload (`Hunting`), or with the last payload still to be flushed because its END was lost
  (`Leftover`, `Stale`). `LineInv` lists these places; that each step goes from one to another was checked with
  TLC before it was proved.
* `SampleLogProofs`: `TypeCorrect`, `AlwaysForwardsWhole`. A packet on the wire is followed back through
  `rx_task`'s copy, the link's buffer and the transceiver to the node's frame; `SpareSlot` is the
  part about the beacon. `NeverSampleTwice` and `FreshAlwaysLogged` rest on the order of the samples. The
  wire, `rx_task`'s copy, the two buffers, the frames and the nodes' current samples are seven stages
  with the file; what is at a stage does not come after what is at a stage nearer to the node (`Ordered`),
  packets on the wire are in order (`WireOrdered`), and the number the logger remembers is that of the
  last sample it filed (`Remembered`). Each action moves a sample on by one stage, drops it or makes a
  newer one (`Flow`), whatever nodes restart and however often a frame is sent.

## 8. Only model-checked

All liveness properties (`SleeperWakes`, `InterruptsComeBack`, `NodeTransmitsAgain`, `NodeSamplesAgain`,
`NodesSendInSlot`, `ReceivedIsGot`, `PendingSenderReturns`): they need fairness and
`ENABLED`, which the prover does not handle. (`TypesOK` of `MCTdmaNode` and `MCSlipLine` are conjunctions for
one run; each of their parts is proved, in `TdmaNodeProofs` and `LinkProofs`.) `NothingInvented` is proved for
one fault in a frame, the number its run allows; two, a byte lost and one printed in its place that is the same modulo 128, refute it.

## 9. Not modelled, and why

* Kernel: the reserves table (no program uses it), statistics, stack check, drivers and the idle
  loop's sleep (nobody else reads their state), conversions of times to ticks. Within
  `NrkKernel`, one iteration of the scheduler's loop is one step, although a signal could come between the
  bytes of a 32-bit clock; and the removal from the list in `nrk_terminate_task` is one step, although
  it runs with interrupts enabled.
* Link layer: the network task's error callback and time-out of synchronisation, encryption, wakeup
  packets, reserves, and the delay by TTL, none of which the programs enable. Two nodes in one slot; frames that are heard in part.
* I2C: the sensors' own timing, and faults the driver does not see. B-MAC: reserves, channel and rate
  settings, counts, the result of a send.
* Radio: registers, channel assessment and acknowledgement.
* Logger: rows of rejected packets and the conversion of the measurements. Cadence client: differs in how
  a sample is made. SLIP from the laptop to the node: the master never reads it.
* Hub prototype, GPS and vision drivers, plotting, other link layers, Android library: a sketch that
  is not run, line-by-line I/O, or vendored code.

## 10. Plan

Done so far, in this order: the ready queue; the kernel; the proofs about both; the node; the serial
line; the path to the logger; proofs about the node and that path; the watchdogs and the clock; the I2C
driver; the cycle on the air; B-MAC; proofs about these two; the scheduler's and the semaphores' properties;
the refinement of the ready queue; the order of the samples in the file; proofs about the I2C driver,
the watchdogs and the serial line; the refinement of the node; damaged frames.

1. Model: nested ceilings and signals with semaphores in one instance (a semaphore's index
   read as a signal mask); the removal window of `nrk_terminate_task` and the bytes of the clocks; the
   reserves table; the acknowledged send of the SLIP client library; the cadence client; `SampleLog`
   over nodes that are instances of `TdmaSender`, the unfilled frame included.
2. Prove: weaker hypotheses for the theorems of `NrkSchedProofs`.
