# A verification project for the gem5 IGbE network card, its DPDK driver and distributed gem5

The repository is a gem5 full-system simulator with an extended Intel 8254x
network card (`gem5/src/dev/net/i8254xGBe.cc`): several queues, several packet
DMA engines and several descriptor DMA engines per queue, and a second way of
talking to the host (M2func). DPDK's e1000 poll-mode driver
(`buildroot/package/dpdk/dpdk-source/drivers/net/e1000/em_rxtx.c`) is changed to
match. The card is upstream gem5's no longer: everything that used to be done by
one engine in order now is done by engines that finish in any order, and is put
back into order by queues and sequence numbers. That is the logic this project
models first. The second subject is the Data Transfer Accelerator (DTA) that the
repository puts into the I/O cache (`gem5/src/mem/cache/base.cc`): it takes jobs from
the driver, reads packets from the card and writes them to memory. The third is
what joins several such simulators into one
run: the barrier of distributed gem5 (`gem5/src/dev/net/dist_iface.cc`), where
simulation threads, receiver threads and processes really are concurrent.

## Inventory

| Component | State | Operations | Talks to | What makes it correct |
|---|---|---|---|---|
| Descriptor engines (`DescDMAEngine`, per-direction arrays of `DescCacheGlobal`) | job queue, working/done flags, base, count and buffer per engine, `cur*DMAPnt`, `cur*ingNum` | register, delay event, DMA, completion | DMA port, descriptor cache | jobs tile the ring and retire oldest first |
| Descriptor cache (`DescCacheGlobal`) | `usedCache`, `unusedCache`, `processingCache`, `cachePnt`, `moreToWb`, `wbAlignment` | `writebackGlobal`, `fetchDescriptorsGlobal`, both completions, `manageUsedCache`, `reset`, `areaChanged` | engines, state machines, register writes | counters and pointers agree; never more than its size; nothing used stays behind |
| Receive path (`rxStateMachine`, `RxDescCacheGlobal`, `ethRxPkt`, `tick`) | receive FIFO, `rxPacketArray`, packet engines, `rxTick`, delay timers | packet arrival, tick, packet DMA and its completion, timers | link, cache, driver (ring in memory, RDT) | packets reach the application once, in order, in memory that is the card's |
| Transmit path (`txStateMachine`, `TxDescCacheGlobal`, `txWire`) | transmit FIFO with reservations, packet engines, context descriptors, round robin | tick, header and packet DMA, completion, wire done | link, cache, driver (TDT) | packets leave once; the FIFO never overflows |
| Drain and checkpoint (`drain`, `checkDrain`, `drainResume`, `serialize`, `unserialize`) | drain state, what is saved | drain cycle, resume, save, restore | drain manager, DMA port | a drain ends; nothing is lost by it; a restore continues the run |
| Interrupts (`postInterrupt`, `cpuPostInt`, `chkInterrupt`) | ICR, IMR, ITR, moderation timer | post, delay, mask, clear | all paths, driver | no cause is left pending for good |
| M2func contexts and port | request buffers, bitmasks, packet slots | request, state machines, refusal | DTA, or driver by CXL writes and reads | requests are answered once |
| DTA | job flits, contexts, queue of reads, workers, queue of writes | parse, read, allocate, write, complete | driver (jobs, completion word), card, I/O cache | jobs are what was submitted; packets are written before they are reported; every job ends |
| e1000 driver | `rx_tail`, `sw_ring`, `nb_rx_hold`, the ring | receive, give back, transmit, reclaim | card | a slot is given back only when it is re-armed |
| DMA port, DDIO bridge, packet queues, crossbars | pending counts, retry flags | send, refuse, retry, answer | card, memory | every request is answered |
| Ethernet link, load generators | packet in flight, delay queue | transmit, done, loss check | card | order and delay of packets |
| Distributed synchronisation (`SyncNode`, `SyncSwitch`, `SyncEvent`, `RecvScheduler`, `TCPIface`) | `waitNum`, `isAbort`, `nextAt`, `do*`, `need*`, `num*Req`, receive queue, streams | barrier, request, progress, abort, packet out and in, drain, save | event queue, other processes | nobody runs ahead of a packet; all exit and save together; nobody is left waiting |
| Event queue, drain manager | scheduled events, count of undrained objects | schedule, run, drain, resume | everything | events run in time order |

The hard behaviour is in the interleavings: a tick, a DMA answer, a delayed
event, a drain and the driver's reads and writes of the ring come in any order.
`PROJECT.json` lists the hazards one by one with their lines.

Not modelled, and not planned: gem5's processors, caches (but for the DTA and what the I/O cache does with its writes) and memories, the other
network devices, DPDK outside the e1000 driver, buildroot, the applications and
the log scripts. They are vendored or are the substrate; the card only sees
that memory answers.

## Modules

* `DescDMAJobs`: one bank of descriptor engines, a record `j` with the arrays the
  source keeps per direction. `Register`, `Issue`, `Beat`, `Complete` are what
  register, delay event, memory and completion event do to it. `RetiredJobs` is
  the loop that pops finished jobs off the front of the queue.
* `DescCacheGlobal`: the cache, a record `q` holding two banks; its operators are
  the class's methods, `q` before the call to `q` after it, so a handler calling
  several of them stays one step.
* `IGbERx`: the receive path of one queue with the driver: the specification.
* `RxChannel`: the abstract specification, a bounded channel that delivers
  packets 1, 2, 3, ... in order. `IGbERx` implements it with
  `accepted` and `delivered` as they are and a capacity of FIFO plus ring.
* `IGbERxCheckpoint`: `IGbERx` with saving and restoring of a drained system.
* `PacketFifo`: the packet FIFO in bytes, with reservations.
* `IGbETx`: the transmit path of one queue, over the same `DescCacheGlobal`, with
  the driver at one end and the link at the other.
* `TxChannel`: its abstract specification: every submitted packet is sent at most
  once and is overtaken by at most `Window` later ones; with liveness, every one
  is sent. `IGbETx` implements it with `Window` one less than the packet engines.
* `IGbEIntr`: the interrupt registers and timers with a driver that may do
  anything to them at any time.
* `DistSync`: a switch process and node processes, their simulation and receiver
  threads and the TCP streams between them.
* `QuantumClock`: its abstract specification: a clock per process, none of which
  passes a boundary before all have reached it, nor goes back.
* `DTARx`: the receive side of the DTA in its I/O cache, with the card's M2func context at one end and
  the driver at the other.
* `MCIGbERx`, `MCIGbETx`, `MCIGbEIntr`, `MCDistSync`, `MCDTARx`: what TLC runs; the `.cfg`
  files give the constants.
* `DescDMAJobsProofs`, `DescCacheGlobalProofs`, `IGbERxProofs`, `IGbETxProofs`,
  `IGbETxRingProofs`, `IGbEIntrProofs`, `DistSyncProofs`, `DistTogetherProofs`: the theorems.

How `IGbERx`'s actions correspond to the code:

| Action | Code |
|---|---|
| `ethRxPkt` | `IGbE::ethRxPkt`; the FIFO counts packets, so all have one length |
| `tick` | `IGbE::tick` for the receive side: `rxStateMachine` (`PacketCompleted`, `writePacketGlobal` or `NothingToWrite`) and then `rxFifotoRxDesc`. `rxTickQueue` is or-ed with its old value, so the tick never stops itself, although the messages say so |
| `PacketDma`, `onDMAComplete` | packet write in memory; `pktComplete` and `onDMAComplete` |
| `fetchRegister1`, `FetchDma`, `fetchComplete` | delay event, one descriptor read from the ring, completion event of a fetch engine |
| `writebackRegister1`, `WritebackDma`, `writebackComplete` | the same for a write-back engine |
| `rdtrProcess` | `_rdtrProcess` or `_radvProcess` |
| `drain`, `drainResume` | `IGbE::drain` each time the drain manager asks (again while something is pending), and the resume |
| `eth_em_recv_pkts`, `WriteRDT` | one round of the driver's loop; the end of the call with the card's RDT handler |

Init is the state after `eth_em_rx_init`: all slots armed, RDH 0, RDT at the last
slot, the first fetch registered.

Abstractions. A packet is its number; a buffer is its allocation number; a
descriptor is its buffer and its DD bit; statistics, logs, checksums, latency and
the interrupt causes are left out. Time is left out: an event that is due may
run at any later step. Memory performs the descriptors of one transfer one at a
time in address order, transfers of different engines in any order, and the
driver may look in between. The count -1 and base -1 of an idle engine are 0.
The delay event that only reschedules itself while draining is a stuttering
step. The driver has masked all interrupts (it polls), so that `cpuPostInt`
returns early and never cancels the timers. One queue, RSS off, one buffer per
packet (`ADV_ONEBUF`), receiver enabled.

The repository's build defines `EM_SVE_512` (`e1000_ethdev.h:14`), which selects
vector receive and transmit functions on processors that have them
(`em_ethdev.c:274`). The models are of the scalar functions those replace.

### The transmit path

| Action | Code |
|---|---|
| `eth_em_xmit_pkts`, `em_xmit_cleanup`, `WriteTDT` | one round of the driver's loop, the clean-up at its start or when descriptors run out, and the end of the call with the card's TDT handler |
| `tick` | `IGbE::tick` for the transmit side: `txStateMachine` (`PushPacket`, `NoDescriptor`, `getPacketDataGlobal` or `NothingToRead`) and then `txWire` |
| `PacketDma`, `onDMAComplete` | a packet engine's read, `pktComplete` and `onDMAComplete` with `manageUsedCache` |
| `ethTxDone` | the link is idle again |
| `fetch...`, `writeback...`, `drain`, `drainResume` | as on the receive side |

A packet is its number, a segment's buffer is the packet and the segment, and a
frame remembers whether its buffer still belonged to the driver when it was read:
the driver frees a buffer when it uses its slot of `sw_ring` again, and a free
buffer may hold anything. The thresholds are assumed to be ones that
`eth_em_tx_queue_setup` accepts. The driver never sets the IDE bit, so that the TIDV
and TADV timers never run. It offers no TCP segmentation. Like `rxTick`, `txTick`
once set is only cleared by a drain. The passing runs have packets of
one descriptor without offloads. What the code does with a context descriptor is
shown by `TxContext`. With two segments (`MaxSegs` 2) every data descriptor gets a
packet of its own and goes to the FIFO alone, and with fewer engines than segments
the queue stops.

### Interrupts

Time is relative: a timer holds the ticks left, and `since` the ticks since the
last interrupt. A handler is an operator on the record of registers, since
`postInterrupt` and `chkInterrupt` call `cpuPostInt` in the middle of others.
`ITR`, `RDTR`, `RADV` and `IAM` are chosen once; the driver reads and writes ICR,
ICS, IMS and IMC with any causes at any moment. `PacketReceived` is the end of the
receive path's `onDMAComplete`; the write-back that the timers' handlers also do is
in `IGbERx`.

### The Data Transfer Accelerator

| Action | Code |
|---|---|
| `SubmitFlit` | one 64-byte store of the driver's job, with `DTA::recvTimingReq`, which filters it |
| `DTATick` | `DTA::tick`: `sendRequestToNIC`, `sendIOCacheRequest`, `DTARXStateMachine` (`checkRXJobCompletion`, all workers' `DTAWork`, `allocateWorkerFromQueue`), `checkSubmissionQueue`; the argument is what the I/O cache does with the write at the front: there is none, it hits, it misses, the cache is blocked |
| `serviceMSHRTargets` | a line the cache has asked for is there, and the writes that wait for it are performed in their order |
| `handleDMACompletion` | the cache's answer for a line of a packet |
| `rxM2funcStateMachine` | the card's tick: answer the read at the front, then take over the packet that has arrived |
| `recvTimingRespfromNIC` | the card's answer reaches the DTA |
| `TakePackets`, `JobFailed`, `GiveUp` | the three ways the driver's poll ends: all packets, -1, a hundred zeros |

A job flit is a sequence of words, because the parser tells a count from an address
by its size: an address is a number above the limit of counts. A packet is its number and
its length in units of 16 bytes, the size of a descriptor; a flit and a cache line have
four. A buffer holds, line by line, the number of the packet written there, so that
a torn or foreign packet shows. An assert or a panic that fails puts its name into `aborted`, and nothing happens
after it. `abandoned` notes that the driver has given up a job the DTA was working
on; the properties about delivery leave out what follows, as the buffers are then
in use twice.

The I/O cache is modelled as far as its answers show: whether a line is present and
writable is left open, a write to it that hits is visible and answered at once, one that
misses waits in `mshrQueue` (a later write to the same line behind it) until
`serviceMSHRTargets`; different lines come in any order, and the cache is blocked while
`NumMSHRs` lines are on their way (those of others that use the cache are not modelled). The
workers wait for the answers of their lines; nobody waits for those of descriptors and
of the completion word.

Assumed: only receive jobs, timing mode, no zero copy. A packet has 48 bytes at least
(what the first flit has room for). No flit of a packet is all zeros. DTA and card have one
clock, so that at most one answer arrives between two ticks of the DTA, and a store of
the processor arrives after the one before it was parsed. An assert that fails stops
the simulation; with asserts compiled out (gem5.fast) the worker of a packet that does not fill its
flits would wait for ever for the received size to equal the announced one. The pool hands out the buffers
freed last. After a restore the DTA knows of no job, the driver is anywhere in its
call with 0 in the completion word, and the card's FIFO may hold whole packets; a
restored card has `isLoadGenStarted` false. Jobs of several flits meet an empty
FIFO before the first packet only in `DtaEarly`. In the source as it stands the
ring functions are selected; the lines that select the DTA's are commented out
(`em_rxtx.c:6929`).

### Distributed synchronisation

Each process has a simulation thread, whose place is `pc`: `simulate` (events of
the quantum; `unsynced` after a barrier was aborted), `run`, `wait` and `return`
(in `Sync::run`, before it has the lock, waiting in it, and after it), `drain`
and `save` (a checkpoint), `exited`. `caller` says for whom `run` was called.
Each end of a stream has a receiver thread; `chan` is what TCP has accepted and
the receiver has not read. A step is one event, or a stretch of code between two
points where a lock is taken or let go: in particular `ProcessReturns`, which reads
`doCkpt` and `doExit`, is apart from the step that completes the barrier. The sync
event comes last at its tick, and an exit event that is due at the same tick
before it. A message to a process that is gone is lost, or makes the sender panic
(`SendFails`, `transmitFails`); a command to several peers may get to some of them.

Assumed, as the configuration scripts arrange it: `Repeat <= LinkDelay`, `Repeat <=
SyncStart`, a first sync that the run reaches (`SyncStart <= MaxTick`), and no packet before the first sync, as the unsigned `when() - repeat`
of `pushPacket` wraps there.

## Runs

| Run | Instance | Shows |
|---|---|---|
| `RxSafety` | ring 4, cache 6, 2 descriptor engines per direction, 2 packet engines, FIFO 2, WTHRESH 2, 5 packets, 1 drain | `TypeOK`, the inductive invariant `IInv` and its parts `RingPointersAgree`, `BanksInOrder`, `EnginesAgree`; `CardOwnsWhatItHolds`; `HeadFollowsMemory`; `ChannelSafety` (refinement of the safety part of `RxChannel`) |
| `RxLive` | ring 3, cache 3, 1 descriptor engine per direction, 2 packet engines, FIFO 1, WTHRESH 1, RDTR on, 3 packets, 1 drain | `ChannelSpec` (refinement with liveness), `UsedWrittenBack`, `DrainEnds` |
| `RxStranded` | as `RxLive` with WTHRESH 0, no RDTR or RADV, low-water mark 32, 2 packets, no drain | `UsedWrittenBack` violated (finding) |
| `RxRestored` | ring 3, WTHRESH 1, 2 packets, 1 checkpoint | `WritebackStartsAtHead` violated (finding) |
| `TxSafety` | ring 5, cache 3, 2 descriptor engines per direction, 2 packet engines, FIFO 5 bytes, packets of 2 bytes, 6 packets | `TxTypeOK`; `TxCacheAgrees`; `WritesBackInPlace`; `ReservationsKept`; `CleanedAreDone`; `TxChannelSafety` (refinement) |
| `TxRecycle` | ring 6, cache 2, 1 packet engine, a status for every second descriptor, 7 packets, 1 drain | `CleanedAreDone`; `AllSent`; `TxChannelSpec` (refinement with liveness) |
| `TxContext` | as `TxSafety` with a context descriptor per packet, cache 4, 4 packets | `CleanedAreDone` violated (finding) |
| `Intr` | causes RXT, RXO, SRPD, TXQE; ITR off or 2 ticks; no receive delays or 2 and 3 ticks; IAM off or the receive causes | `IntrTypeOK`; `LineFollowsCauses`; `IntervalKept`; `EnabledCauseInterrupts`; `DelayedPacketReported` |
| `DistSync` | 2 nodes and a switch, quantum, link delay and first sync 2, up to tick 6, collective requests; exits with at most one process that dies, or a checkpoint with one packet | `SyncTypeOK`; `PacketsArriveInTime`; `BarrierAsserts`; `AllActTogether`; `CheckpointDrainsNetwork`; `ClockSpec` (refinement of `QuantumClock`); `Progress`; `ExitsTogether`; `EndsSpread` |
| `DistImmediate` | the same, immediate exit requests, no death, no packet | `AllActTogether` violated (finding) |
| `DtaRx` | jobs of 2 or 4 packets, 2 addresses in the first flit, 2 contexts, 2 workers, 2 MSHRs, packets of 1, 1, 2 and 1 flits or one of 64 bytes first, 2 jobs, 1 give-up | `DTATypeOK`; `AssertsExplained`; `JobsAsSubmitted`; `OnlyFrontJobServed`; `DeliveredInOrder`; `JobsEnd` |
| `DtaEarly` | jobs of 3 packets, 1 address in the first flit, before the first packet | `JobsAsSubmitted` violated (finding) |

Bounds: `MaxPkts` and `MaxDrains` bound the environment. Five packets go once
round a ring of four, so every pointer wraps, slots are re-armed and used again,
and write-backs are cut at the end of the ring; two engines are enough to finish
in the other order; a cache larger than the ring lets the card fetch a slot again
before its head has passed it, which the default cache of 1024 descriptors allows
for every shorter ring. `RxLive` uses a smaller instance because liveness needs
the whole graph at once. Deadlock is checked: the state where all is delivered
is not one, because the card goes on ticking. The same holds for the transmit path,
where more packets than slots make the driver clean and use slots again; a FIFO
that holds two packets and no third makes reservations meet a full FIFO.
In `DistSync`, two nodes are enough for one to be ahead of the other and of the
switch, and three quanta for the first barrier, one that decides and one after it.
`MaxDrain` 1 is less than the quantum: a longer drain meets the periodic sync and
the panic that `SyncEvent::process` documents. All processes stop at tick 6 or
exit, so that deadlock is not checked there: `Progress` says what it should.
In `DtaRx`, jobs of 4 packets take two flits and two lines of descriptors; of two jobs
of 2 the first may end with zeros while its second read is still at the card. Two workers
are enough for a job of 2 and half of what a job of 4 has packets, as the 16 workers of `Cache.py:82` are
for l2fwd's bursts of 32: its third packet, the one of two flits with two lines, may have to
wait. Two MSHRs let any two lines come in either order and block the cache at the third. A request buffer
of 4, as many as a job has packets, is never too small. Deadlock is not
checked there, because an assert that fails stops the simulator: `JobsEnd` says what it should.

Fairness (`Fairness` in `IGbERx`): weak fairness of each event handler, because
the event queue runs every scheduled event; of the memory's answers; of the
resume, because a drained simulation is resumed; of the driver's poll, because
the application polls in a loop and mbufs come back. None on packet arrival or
drain requests. In `IGbETx` likewise, with the link's completion and, for `AllSent`
and `TxChannelSpec`, an application that sends until all is sent. In `IGbEIntr`:
events that are due run and time passes; nothing of the driver. In `DistSync`: the
host's scheduler runs every simulation thread and every receiver thread that has
something to do, and a stream delivers; nothing of the guests, the packets or the
deaths. In `DTARx`: both clocks tick, the cache gets its lines and answers, the
card's answers and the packets arrive, and the driver is called again and again.

### What the violations show

* `RxStranded`. With one write-back in flight and no free engine,
  `writebackGlobal(0)` leaves `moreToWb` set for the completion to see. The same
  tick then calls `writebackGlobal(WTHRESH - 1)`; with WTHRESH 0 that mask is all
  ones, the count becomes 0, and `moreToWb` was cleared at the top. The
  completion does nothing and the descriptor, with its packet, waits for the next
  packet. WTHRESH is 0 unless the application gives the driver another; restoring a checkpoint sets it to 1,
  with which `RxLive` passes.
* `RxRestored`. `unserialize` sets `curFetchDMAPnt` from `cachePnt` but not
  `curWbDMAPnt` from the head: after a restore with a head other than 0, the next
  write-back starts at slot 0.
* `TxContext`. `processContextDesc` moves a context descriptor from `unusedCache`
  straight to `usedCache`, while older data descriptors are in `processingCache`.
  Write-backs go to consecutive slots, so the context descriptor, with DD, is
  written over the slot of an older data descriptor; the driver takes the
  status for that one's and frees a buffer that is not read yet.
* `DistImmediate`. The switch has answered a barrier and is about to look at
  `doExit`; a fast node simulates its next quantum, asks for the next barrier with
  an immediate exit, and the switch's receiver thread sets `doExit`. The switch
  leaves at the earlier boundary, alone.
* `DtaEarly`. A flit that carries a job on is accepted because a context waits for it.
  Before it is parsed, the card answers a read of the job with zeros, as no packet
  has ever come, and the context is cleared. The parser finds no context
  waiting and opens a job: completion address and number of packets are two
  buffers' addresses.

What `DtaRx` reaches besides, and its properties say the extent of:

* an assert of `checkThreshold` (`base.cc:7668`). The reads a packet needs beyond its
  first are counted when a worker takes its first flit (`base.cc:8299`), those received when they arrive
  (`base.cc:8129`). With all workers busy the first flit waits, the second arrives, and
  more have been received than are needed. `AssertsExplained`: this happens only to a
  packet of several flits, in a job of more packets than there are workers. The
  shipped 16 workers and bursts of 32 are such a case;
* an assert of `processDTAResponse` (`base.cc:8321`). Each answer of the card counts as
  64 bytes of payload, the padding of the last flit (`i8254xGBe.cc:3578`) included.
  `AssertsExplained`: this happens only to a packet that does not fill its flits, that is,
  one of several flits whose length is not 48 bytes and a multiple of 64;
* descriptors of before. They count as written when their line is queued
  (`base.cc:7840`), and the completion word follows without their answers, although the comment at
  `base.cc:7806` wants them to be in memory first. The line misses and waits in an
  MSHR (`base.cc:564`), the word hits, and the driver reads what was there before.
  `DeliveredInOrder`: a descriptor is wrong in no other way, and the packets themselves
  never are, as the workers wait for the answers of their lines.

Explored and not kept as a run: with a workload of a checkpoint and a death, a
process that loses its connection during the drain goes on without its peers,
because `m5.drain` drops the exit event (as its comment warns) and `drainComplete`
ignores the result of `run`. `EndsSpread` therefore speaks of runs without
checkpoints, and the deaths of `DistSync.cfg` come with exits only. With a workload of
exits and checkpoints together, an exit can be decided in the second barrier of a
checkpoint (`dist_iface.cc:267`): the nodes' receiver threads end, `drainComplete`
simulates on, the switch leaves at the next barrier, and the nodes wait in it for ever
(the deadlock among the hazards).

## Proofs

Every theorem is for all values of the constants that satisfy the named
assumptions of its modules (sizes are positive, thresholds six bits wide, the
quantum is not above the link delay, ...). Those of `IGbETxProofs`, `IGbETxRingProofs`, `DistSyncProofs` and
`DistTogetherProofs` need more, and say so in the statement; the hypotheses are at the end of this section.

| Theorem | States | Rests on |
|---|---|---|
| `RxTypeCorrect`, `RxPointersAgree`, `RxBanksInOrder`, `RxEnginesAgree`, `RxInvariant` | `TypeOK`, `RingPointersAgree`, `BanksInOrder`, `EnginesAgree`, `IInv` of `IGbERx` | `IInv` |
| `RxNumbersAgree`; `RxCardOwns`, `RxHeadFollows`, `RxChannelSafe` | `CardOwnsWhatItHolds`, `HeadFollowsMemory`, `ChannelSafety` of `IGbERx` | `IInv`, `RInv` |
| `TxTypeCorrect`, `TxCacheCorrect`, `TxReservationsKept` | `TxTypeOK`, `TxCacheAgrees`, `ReservationsKept` of `IGbETx` | `TxInv`, `ThresholdsFit` |
| `TxNumbersAgree`; `TxWritesBackInPlace`, `TxCleanedAreDone`, `TxChannelSafe` | `WritesBackInPlace`, `CleanedAreDone`, `TxChannelSafety` of `IGbETx` | `TxInv`, `TxRingInv`, `ThresholdsFit`, `OnePerPacket`, `StatusInOrder` |
| `IntrTypeCorrect`, `IntrLineFollowsCauses`, `IntrIntervalKept` | `IntrTypeOK`, `LineFollowsCauses`, `IntervalKept` of `IGbEIntr` | `IntrInv` |
| `SyncTypeCorrect`, `BarrierAssertsHold` | `SyncTypeOK`, `BarrierAsserts` of `DistSync` | `SyncInv`, `CollectiveOnly` |
| `ActTogether`, `CheckpointDrains` | `AllActTogether`, `CheckpointDrainsNetwork` | `SyncInv`, `TogetherInv`, `CollectiveOnly` |
| `PacketsInTime` | `PacketsArriveInTime` | the above, `ModeInv`, `WindowInv`, `QueueOK`, `FailuresApart` |
| `ClockRefined` | `ClockSpec`: `DistSync` implements `QuantumClock` | the above, `ClockInv`, `FailuresApart` |

Receive path. `IInv == TypeOK /\ CacheInv(Desc, cache) /\ EnginesAgree`, checked by
TLC in `RxSafety` first. Neither part is inductive alone: that the head and `cachePnt`
move by what retires needs the jobs to tile the ring from them (`BanksContiguous`);
that a retired fetch fills `unused` by as much as `cachePnt` moves needs the buffers
to hold what memory delivered (`BuffersFilled`); that `manageUsedCache` moves as many
descriptors as it frees needs the sequence numbers to be consecutive and unique
(`ProcessingInOrder`), which needs an engine to be busy exactly while its descriptor
is unfinished (`EnginesAgree`). The argument has three layers, one module each.
`DescDMAJobsProofs`: `Register`, `Issue`, `Beat` and `Complete` preserve
`JobsContiguous` and `TransfersAgree`; `Ahead` (how many descriptors the first k jobs
hold) is a cardinality, so that its additivity follows from `FiniteSetTheorems`.
`DescCacheGlobalProofs`: each method of the cache preserves `CacheInv`.
`IGbERxProofs`: each action preserves `IInv`.

Receive path, contents. That the card owns what it holds and that packets arrive in
order are about contents, not counts: `IInv` would allow a cache full of the wrong
descriptors. `RInv == CardKept /\ RingKept /\ FifoKept /\ PacketsKept` numbers the
descriptors through all rounds of the ring, the number that `nextSeqToProcess` and
`seqIdx` count. Descriptor `b` has slot `b % DescLen`, buffer `b` and, because packets
meet descriptors in order, packet `b + 1`. `CardKept`: `used`, the processing engines,
`unused` and the buffers of both banks hold consecutive numbers (`CacheInOrder`, proved of
every method of the cache in `DescCacheGlobalProofs`), and the card has fetched none the
driver did not give it (`WithinGiven`). `RingKept`: memory holds the `DescLen` descriptors from
the driver's next one on, each with a status exactly if its write-back has reached it
(`Written`), and all earlier ones were written. `FifoKept`: the packets
waiting follow the ones taken. `PacketsKept`: an engine has its descriptor's packet, and a
buffer keeps it once it is filled. The window of the ring is where the parts meet: a fetch must see
the re-armed descriptor and never the previous round's (the driver is at most `DescLen`
ahead and re-arms only what is `Written`), and a write-back may reach a slot only in its
own round (the driver does not pass what is not `Written`). Each transition is shown to
move `Written` by at most the one descriptor that memory performs (`SameStory`), and
`HeadKept`, proved of every step along the way, gives `HeadFollowsMemory`. TLC checked `RInv`
on the instance of `RxSafety` (412,975 states) before it was proved.

Transmit path. `TxInv` has the same cache invariant, from the same
`DescCacheGlobalProofs`; the engines' part; what a packet engine reads, against the
bytes reserved for it (`Bytes` is a cardinality too, so that a reservation that is
taken or given back changes the sum by its length); and the driver's queue:
the slots in use follow the last one cleaned and end before `tx_id`, and the last slot of
each packet is among them (`UsedInOrder`).

Transmit path, contents. `TxRingInv` numbers the descriptors as `RInv` does; with one
descriptor for a packet, descriptor `b` is that of packet `b + 1`. `DriverInRing`: `tx_id` and
`last_desc_cleaned` are the slots of `submitted` and of `Cleaned`, and `sw_ring` holds the
buffers of all numbers between. `RingInv(A, g)`: the card holds the descriptors `A` that the driver filled
in, in order and none from `g` on, the number the tail register stands for (the same
`CacheInOrder` and `WithinGiven`); the ring holds those from `Cleaned` on, with the status
the driver asked for once they are `Written`; and all before `Cleaned` are `Written`. The
last part is the hard one. `em_xmit_cleanup` sees one status and takes it for all the
descriptors before it, so one that is `Written` has to imply the earlier ones: at once when every
descriptor has a status, and otherwise because a single engine writes back in order
(`OneEngineReached`). `PacketsUnderWay` follows the packets on: the numbers in the FIFO, on the
link and gone (`OutNums`) and in the engines (`ReadNums`) are together those that were taken,
each once (`LineOK`), and a packet in an engine is less than `NumDMAEngines` behind the last
one taken, which bounds how often a packet is overtaken. An engine's read comes while its buffer is
the driver's, because its number is not below `Cleaned`. TLC checked `TxRingInv`, with the
ring's contents for `A`, on the instance of `TxSafety` (994,687 states), with one descriptor engine
and a status for every second descriptor (2,879,929) and with three packet engines (265,978)
before it was proved.

Interrupts. The handlers call each other in the middle, so `IGbEIntrProofs` says what
each makes of the record of registers: `Settled` is what holds between two handlers
(and is the conjunction of the three properties), `Unsettled` what is left of it once
a handler has changed causes or mask and has not looked at the line yet.

Barrier. `SyncInv` relates a node, the switch and the two streams between them: which
barrier each is in or goes to next (`Kind`), an acknowledgement on the wire counted as
read; requests counted, on the wire and still to come add up to the nodes
(`CountsOK`); a node whose barrier is aborted has lost the switch. `TogetherInv` adds that once an
exit has been decided and anybody has heard of it everybody stops at that tick
(`LeaveOK`), that the numbers of checkpoints agree, and that packets in a stream were
sent after its receiver's checkpoints, those behind an acknowledgement after the one it
completes too. `ModeInv` says that a run either takes no checkpoint, or nobody has
failed and no drain reaches the next sync; then a process that simulates without a sync is
about to exit. `WindowInv`: the packets in a stream were sent in the quantum that ends at
the receiver's next sync, those behind an acknowledgement in the quantum that
acknowledgement opens. `QueueOK`: so were those that `RecvScheduler` holds, or earlier.
`ClockInv`: the next sync of a process is a multiple of the quantum after the first, and
all clocks have reached the one before. Each is needed: a packet's window moves when
an acknowledgement is read, so it must be known of packets behind the acknowledgement
before that; and the assertions of `pushPacket` compare a packet with a `when()` that
`ProcessReturns` moves later than the barrier completes.

Hypotheses, each satisfied by the instances of the runs that pass, and none of which can
just be left out:

* `ThresholdsFit` (`tx_rs_thresh + tx_free_thresh` and `tx_rs_thresh` plus a packet's
  descriptors fit into the ring). `eth_em_tx_queue_setup` (`em_rxtx.c:5786-5815`)
  checks each threshold against the ring and never their sum. With a larger sum
  `em_xmit_cleanup` looks at a slot that was never used, whose DD bit is set from the
  start, and `nb_tx_free` exceeds the ring.
* `OnePerPacket` (packets of one segment, no checksum offload), as the applications in the
  repository send them. With a context descriptor `CleanedAreDone` is false (`TxContext`); with two
  segments a frame is not a whole packet.
* `StatusInOrder` (`tx_rs_thresh` is 1, or there is one descriptor engine per direction, which is
  the default of `num_desc_dma_engines`, `Ethernet.py:208`). With two engines and a status for
  every second descriptor (ring 6, 7 packets) TLC finds a late write-back that overwrites a slot
  the driver has cleaned and used again.
* `CollectiveOnly` (no immediate request). With immediate ones a node's request reaches
  the switch between its completing a barrier and its looking at `doExit`: TLC violates
  `AllActTogether` (`DistImmediate`) and `BarrierAsserts`.
* `FailuresApart` (a workload that takes checkpoints has no deaths, and `MaxDrain <
  Repeat`). `m5.drain` drops the exit event of a lost connection and the process goes on
  without its peers; a drain that lasts to the next sync panics there (`SyncEvent::process`)
  and is a death too. TLC violates `PacketsArriveInTime` and `ClockSpec` in both cases.

Only model-checked:

* liveness (`ChannelSpec`, `UsedWrittenBack`, `DrainEnds`, `AllSent`, `TxChannelSpec`,
  `EnabledCauseInterrupts`, `DelayedPacketReported`, `Progress`, `ExitsTogether`,
  `EndsSpread`, `JobsEnd`), which is outside the prover's reach;
* the properties of `DTARx`;
* the transmit path with several descriptors per packet, where the safety properties do not
  all hold (`TxContext`).

## Not modelled

* The DTA's transmit side, its atomic mode and zero copy, the M2func transmit context
  with its bitmasks, M2func without the DTA, and the driver's functions for them; the
  DDIO bridge and the retries between ports, the
  receiving end of the link and the load generators: see the plan.
* Registers that change the set-up with work in flight: reset, a ring that is moved (the
  hazard at `i8254xGBe.cc:1512`), and TCTL, whose handler assigns the register before
  it saves the old value (`:827`), so that enabling the transmitter never resets its cache.
* The checkpoint of the transmit path; liveness after a restore, which needs the
  write-back pointer restored first.
* In `DistSync`: stopping and starting synchronisation from the guest, restoring,
  several interfaces per node, setting the connections up. In `IGbEIntr`: INTx
  disabled in PCI, a change of an interval while its timer runs.
* gem5's processors, caches and memories, other network devices, DPDK outside the
  e1000 driver and its vector functions, buildroot, applications: vendored or
  substrate. They are nearly all of the repository's three million lines, so that
  the share of lines the map covers is small although the card's ring mode, its
  driver's scalar functions and the barrier are covered for the most part.

## Plan

1. Done: `DescDMAJobs`, `DescCacheGlobal`, `IGbERx`, `RxChannel`, their proofs,
   and restoring a checkpoint of the receive path.
2. Done: `PacketFifo`, `IGbETx`, `TxChannel`; `IGbEIntr`; `DistSync`,
   `QuantumClock`; `DTARx`.
3. Proofs. Done: all the safety of `IGbERx`, its refinement of `RxChannel` included;
   `IGbEIntr`; all the safety of `IGbETx` for packets of one descriptor, its refinement of
   `TxChannel` included; all the safety of `DistSync` and its refinement of `QuantumClock`.
   Next: `JobsAsSubmitted` and `OnlyFrontJobServed` of `DTARx`.
4. Registers: `reset`, `areaChanged`, RCTL and TCTL with work in flight; the
   checkpoint of the transmit path.
5. The DTA's transmit side with `TxM2funcContext`, and saving the M2func contexts.
6. The receiving end of `EtherLink` and the load generator; the retry protocol of
   DMA port, packet queue and DDIO bridge.
