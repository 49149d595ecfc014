------------------------------- MODULE IGbERx -------------------------------
(***************************************************************************)
(* The receive path of one queue of the gem5 IGbE network card in ring     *)
(* mode, with the DPDK e1000 poll-mode driver at the other end of the      *)
(* descriptor ring:                                                        *)
(*   src/gem5/src/dev/net/i8254xGBe.cc, .hh   the card                     *)
(*   src/buildroot/package/dpdk/dpdk-source/drivers/net/e1000/em_rxtx.c    *)
(*                                            the driver, eth_em_recv_pkts *)
(* Packets are named 1, 2, 3, ... in the order in which the receive FIFO   *)
(* accepts them.  Packet buffers (mbufs) are named by allocation order, so *)
(* the buffer of a freshly armed descriptor is one nobody else holds.      *)
(* Events run one at a time, as in gem5's event queue; the order in which  *)
(* due events run, and how long memory takes, is left open.                *)
(*                                                                         *)
(* The receiver is enabled, every packet fits in one buffer, and the driver*)
(* polls: it has masked all interrupts, so that cpuPostInt returns before  *)
(* it does anything.                                                       *)
(***************************************************************************)
EXTENDS DescCacheGlobal

CONSTANTS
    RxFifoSize,     \* packets the receive FIFO holds
    Wthresh,        \* RXDCTL.WTHRESH
    Pthresh,        \* RXDCTL.PTHRESH
    Hthresh,        \* RXDCTL.HTHRESH
    RdmtsRatio,     \* 2, 4 or 8, from RCTL.RDMTS
    LowDescs,       \* the state machine's fixed low-water mark, 32
    RxIntDelay,     \* TRUE when one of RDTR and RADV is set
    RxFreeThresh,   \* the driver's rx_free_thresh
    MaxPkts,        \* bound: packets the wire delivers
    MaxDrains       \* bound: drain requests

ASSUME RxAssumption ==
    /\ RxFifoSize \in Nat \ {0}
    /\ Wthresh \in 0 .. 63 /\ Pthresh \in 0 .. 63 /\ Hthresh \in 0 .. 63
    /\ RdmtsRatio \in {2, 4, 8}
    /\ LowDescs \in Nat
    /\ RxIntDelay \in BOOLEAN
    /\ RxFreeThresh \in Nat
    /\ MaxPkts \in Nat /\ MaxDrains \in Nat

ASSUME NullAssumption == NULL \notin [buf : Nat, dd : BOOLEAN] /\ NULL \notin Nat

VARIABLES
    cache,       \* rxDescCacheArray[queue]
    engine,      \* the packet DMA engines of the queue
    rxFifo,      \* packets received and not yet chosen for a queue
    rxPacket,    \* rxPacketArray[queue]: the queue's next packet
    rxTick,      \* the receive state machine is ticking
    drainState,  \* Drainable::drainState()
    rxTimer,     \* _rdtrEvent or _radvEvent is scheduled
    ring,        \* the descriptor ring in host memory
    swRing,      \* the driver's sw_ring: the buffer armed in each slot
    mbuf,        \* what the buffers hold in host memory, 0 for nothing yet
    rx_tail,     \* the driver's next slot
    nb_rx_hold,  \* slots the driver has re-armed and not yet given back
    accepted,    \* history: packets the receive FIFO accepted
    delivered,   \* history: what the driver handed to the application
    drains       \* how many drains were requested

card   == <<cache, engine, rxFifo, rxPacket, rxTick, drainState, rxTimer>>
driver == <<swRing, rx_tail, nb_rx_hold, delivered>>
vars   == <<cache, engine, rxFifo, rxPacket, rxTick, drainState, rxTimer, ring,
            swRing, mbuf, rx_tail, nb_rx_hold, accepted, delivered, drains>>

Pkts  == 1 .. MaxPkts
Bufs  == 0 .. DescLen + MaxPkts - 1
Desc  == [buf : Bufs, dd : BOOLEAN]

Armed(b) == [buf |-> b, dd |-> FALSE]

IdleEngine == [pkt |-> NULL, ev |-> "idle", pktDone |-> FALSE]

(* The driver has initialised the ring: every slot is armed, RDH is 0 and  *)
(* the write of RDT has started the first fetch.                           *)
Init ==
    /\ cache      = fetchDescriptorsGlobal([EmptyCache EXCEPT !.tail = DescLen - 1])
    /\ engine     = [e \in PktEngines |-> IdleEngine]
    /\ rxFifo     = <<>>
    /\ rxPacket   = NULL
    /\ rxTick     = FALSE
    /\ drainState = "Running"
    /\ rxTimer    = FALSE
    /\ ring       = [s \in Slots |-> Armed(s)]
    /\ swRing     = [s \in Slots |-> s]
    /\ mbuf       = [b \in Bufs |-> 0]
    /\ rx_tail    = 0
    /\ nb_rx_hold = 0
    /\ accepted   = 0
    /\ delivered  = <<>>
    /\ drains     = 0

-----------------------------------------------------------------------------
(* Drain. *)

(* What the card itself counts; a transfer still in memory is the DMA      *)
(* port's to count.                                                        *)
Outstanding(q, eng) ==
    \/ hasOutstandingEvents(q.fetch) \/ hasOutstandingEvents(q.wb)
    \/ \E e \in PktEngines : eng[e].ev = "event"

(* The DMA port's count of requests that memory has not answered. *)
DmaPending ==
    \/ \E e \in DescEngines : cache.fetch.ev[e] = "dma" \/ cache.wb.ev[e] = "dma"
    \/ \E e \in PktEngines : engine[e].ev = "dma"

(* checkDrain, as the last thing but enableSm a completion handler does;   *)
(* wake says that the handler calls enableSm.  Wrong: the drain manager is *)
(* never told.                                                             *)
CheckDrainSilent(q, eng, wake) ==
    /\ drainState' = drainState
    /\ rxTick' = (drainState # "Draining" /\ (rxTick \/ wake))

CheckDrain(q, eng, wake) ==
    /\ drainState' = IF drainState = "Draining" /\ ~ Outstanding(q, eng)
                     THEN "Drained" ELSE drainState
    /\ rxTick' = IF drainState = "Draining" THEN wake /\ ~ Outstanding(q, eng)
                 ELSE rxTick \/ wake

drain ==
    /\ \/ drainState = "Running" /\ drains < MaxDrains /\ drains' = drains + 1
       \/ drainState = "Drained" /\ (DmaPending \/ Outstanding(cache, engine))
          /\ UNCHANGED drains
    /\ drainState' = IF Outstanding(cache, engine) THEN "Draining" ELSE "Drained"
    /\ rxTick' = FALSE
    /\ UNCHANGED <<cache, engine, rxFifo, rxPacket, rxTimer, ring, mbuf, accepted, driver>>

(* The simulation resumes once every object is drained, the DMA port too.  *)
(* Wrong: the state machine is not restarted.                              *)
drainResumeAsleep ==
    /\ drainState = "Drained" /\ ~ DmaPending /\ ~ Outstanding(cache, engine)
    /\ drainState' = "Running"
    /\ UNCHANGED <<cache, engine, rxFifo, rxPacket, rxTick, rxTimer, ring, mbuf, accepted,
                   driver, drains>>

drainResume ==
    /\ drainState = "Drained" /\ ~ DmaPending /\ ~ Outstanding(cache, engine)
    /\ drainState' = "Running"
    /\ rxTick' = TRUE
    /\ UNCHANGED <<cache, engine, rxFifo, rxPacket, rxTimer, ring, mbuf, accepted,
                   driver, drains>>

-----------------------------------------------------------------------------
(* The wire. *)

(* A packet arrives.  One that does not fit in the FIFO is dropped. *)
ethRxPkt ==
    /\ accepted < MaxPkts
    /\ rxTick' = (drainState # "Draining")
    /\ \/ /\ Len(rxFifo) < RxFifoSize
          /\ rxFifo' = Append(rxFifo, accepted + 1)
          /\ accepted' = accepted + 1
       \/ /\ Len(rxFifo) >= RxFifoSize
          /\ UNCHANGED <<rxFifo, accepted>>
    /\ UNCHANGED <<cache, engine, rxPacket, drainState, rxTimer, ring, mbuf, driver, drains>>

-----------------------------------------------------------------------------
(* The tick. *)

WthreshMask == IF Wthresh < 4 THEN Wthresh - 1 ELSE 3

(* What rxStateMachine does with the cache after a packet has completed:   *)
(* q1, q2, ... are the cache after each of its conditional calls.          *)
AfterPacket ==
    LET left == descLeft(cache) IN
    \E q1 \in {WbIf(left * RdmtsRatio <= DescLen, cache, 0)} :
    \E q2 \in {WbIf(left < LowDescs, q1, 0)} :
    \E q3 \in {WbIf(rxFifo = <<>>, q2, 0)} :
    \E q4 \in {WbIf(left = 0, q3, 0)} :
    \E q5 \in {WbIf(Wthresh <= descUsed(q4), q4, WthreshMask)} :
    \E q6 \in {FetchIf(/\ descUnused(q5) < Pthresh
                       /\ descLeft(q5) - descUnused(q5) > Hthresh, q5)} :
        cache' = FetchIf(descUnused(q6) = 0, q6)

ReadyEngines == {e \in PktEngines : engine[e].pktDone}

FreeEngines ==
    {e \in PktEngines : engine[e] = IdleEngine /\ cache.processing[e].desc = NULL}

Lowest(S) == CHOOSE e \in S : \A f \in S : e <= f

(* One of the three things a tick of rxStateMachine does for the queue. *)
PacketCompleted ==
    /\ ReadyEngines # {}
    /\ engine' = [engine EXCEPT ![Lowest(ReadyEngines)].pktDone = FALSE]
    /\ AfterPacket

writePacketGlobal ==
    /\ ReadyEngines = {} /\ FreeEngines # {} /\ descUnused(cache) > 0
    /\ rxPacket # NULL /\ cache.unused # <<>>
    /\ LET e == Lowest(FreeEngines) IN
       /\ cache' = TakeDesc(cache, e)
       /\ engine' = [engine EXCEPT ![e].pkt = rxPacket, ![e].ev = "dma"]

NothingToWrite ==
    /\ ReadyEngines = {}
    /\ \/ FreeEngines = {} /\ cache' = cache
       \/ FreeEngines # {} /\ descUnused(cache) = 0 /\ cache' = fetchDescriptorsGlobal(cache)
       \/ FreeEngines # {} /\ descUnused(cache) > 0 /\ cache' = cache
          /\ (rxPacket = NULL \/ cache.unused = <<>>)
    /\ UNCHANGED engine

(* rxFifotoRxDesc, on the queue's packet slot as the state machine left it.*)
rxFifotoRxDesc(slot) ==
    IF slot = NULL /\ rxFifo # <<>>
    THEN rxPacket' = Head(rxFifo) /\ rxFifo' = Tail(rxFifo)
    ELSE rxPacket' = slot /\ UNCHANGED rxFifo

tick ==
    /\ rxTick /\ drainState = "Running"
    /\ \/ PacketCompleted   /\ rxFifotoRxDesc(rxPacket)
       \/ writePacketGlobal /\ rxFifotoRxDesc(NULL)
       \/ NothingToWrite    /\ rxFifotoRxDesc(rxPacket)
    /\ UNCHANGED <<rxTick, drainState, rxTimer, ring, mbuf, accepted, driver, drains>>

-----------------------------------------------------------------------------
(* Packet DMA. *)

(* Memory has performed the write of the packet into its buffer. *)
PacketDma(e) ==
    /\ engine[e].ev = "dma"
    /\ mbuf' = [mbuf EXCEPT ![cache.processing[e].desc.buf] = engine[e].pkt]
    /\ engine' = [engine EXCEPT ![e].ev = "event"]
    /\ UNCHANGED <<cache, rxFifo, rxPacket, rxTick, drainState, rxTimer, ring,
                   accepted, driver, drains>>

(* pktComplete and the onDMAComplete it calls: the descriptor gets its     *)
(* status, and moves to the used cache when those before it have.          *)
onDMAComplete(e) ==
    LET eng == [engine EXCEPT ![e] = [pkt |-> NULL, ev |-> "idle", pktDone |-> TRUE]]
        d   == [cache.processing[e].desc EXCEPT !.dd = TRUE]
        q   == manageUsedCache(FinishDesc(cache, e, d))
    IN  /\ engine[e].ev = "event"
        /\ engine' = eng
        /\ cache' = q
        /\ rxTimer' = (rxTimer \/ RxIntDelay)
        /\ CheckDrain(q, eng, TRUE)
        /\ UNCHANGED <<rxFifo, rxPacket, ring, mbuf, accepted, driver, drains>>

(* _rdtrProcess or _radvProcess: the receive interrupt delay has run out. *)
rdtrProcess ==
    /\ rxTimer
    /\ rxTimer' = FALSE
    /\ cache' = writebackGlobal(cache, 0)
    /\ UNCHANGED <<engine, rxFifo, rxPacket, rxTick, drainState, ring, mbuf, accepted,
                   driver, drains>>

-----------------------------------------------------------------------------
(* Descriptor DMA. *)

restOfCard == <<engine, rxFifo, rxPacket, rxTimer>>

(* fetchRegister1: while the system drains the event only reschedules.     *)
fetchRegister1(e) ==
    /\ cache.fetch.ev[e] = "delay" /\ drainState = "Running"
    /\ cache' = [cache EXCEPT !.fetch = Issue(@, e)]
    /\ UNCHANGED <<restOfCard, rxTick, drainState, ring, mbuf, accepted, driver, drains>>

FetchDma(e) ==
    /\ cache.fetch.ev[e] = "dma"
    /\ LET slot == cache.fetch.base[e] + cache.fetch.moved[e] IN
       cache' = [cache EXCEPT !.fetch = FetchBeat(@, e, ring[slot])]
    /\ UNCHANGED <<restOfCard, rxTick, drainState, ring, mbuf, accepted, driver, drains>>

fetchComplete(e) ==
    LET q == fetchCompleteGlobal(cache, e) IN
    /\ cache.fetch.ev[e] = "event"
    /\ cache' = q
    (* enableSm comes before checkDrain here, and checkDrain undoes it. *)
    /\ drainState' = IF drainState = "Draining" /\ ~ Outstanding(q, engine)
                     THEN "Drained" ELSE drainState
    /\ rxTick' = (drainState # "Draining")
    /\ UNCHANGED <<restOfCard, ring, mbuf, accepted, driver, drains>>

writebackRegister1(e) ==
    /\ cache.wb.ev[e] = "delay" /\ drainState = "Running"
    /\ cache' = [cache EXCEPT !.wb = Issue(@, e)]
    /\ UNCHANGED <<restOfCard, rxTick, drainState, ring, mbuf, accepted, driver, drains>>

WritebackDma(e) ==
    /\ cache.wb.ev[e] = "dma"
    /\ LET n == cache.wb.moved[e] IN
       ring' = [ring EXCEPT ![cache.wb.base[e] + n] = cache.wb.buf[e][n + 1]]
    /\ cache' = [cache EXCEPT !.wb = Beat(@, e)]
    /\ UNCHANGED <<restOfCard, rxTick, drainState, mbuf, accepted, driver, drains>>

writebackComplete(e) ==
    LET q == wbCompleteGlobal(cache, e) IN
    /\ cache.wb.ev[e] = "event"
    /\ CheckDrain(q, engine, FALSE)
    (* fetchAfterWb *)
    /\ cache' = FetchIf(~ rxTick /\ drainState = "Running", q)
    /\ UNCHANGED <<restOfCard, ring, mbuf, accepted, driver, drains>>

-----------------------------------------------------------------------------
(* The driver. *)

(* One round of eth_em_recv_pkts: the packet of a written-back descriptor  *)
(* goes to the application and the slot is re-armed with a new buffer.     *)
eth_em_recv_pkts ==
    LET nmb == DescLen + Len(delivered) IN
    /\ ring[rx_tail].dd
    /\ nmb \in Bufs     \* rte_mbuf_raw_alloc finds one
    /\ delivered'  = Append(delivered, mbuf[swRing[rx_tail]])
    /\ swRing'     = [swRing EXCEPT ![rx_tail] = nmb]
    /\ ring'       = [ring EXCEPT ![rx_tail] = Armed(nmb)]
    /\ rx_tail'    = Wrap(rx_tail + 1)
    /\ nb_rx_hold' = nb_rx_hold + 1
    /\ UNCHANGED <<card, mbuf, accepted, drains>>

(* The end of a call of eth_em_recv_pkts, and the card's write handler for *)
(* RDT: the re-armed slots are given back.                                 *)
WriteRDT ==
    LET q == [cache EXCEPT !.tail = IF rx_tail = 0 THEN DescLen - 1 ELSE rx_tail - 1] IN
    /\ nb_rx_hold > RxFreeThresh
    /\ nb_rx_hold' = 0
    /\ cache' = FetchIf(drainState = "Running", q)
    /\ UNCHANGED <<restOfCard, rxTick, drainState, ring, mbuf, swRing, rx_tail, accepted,
                   delivered, drains>>

-----------------------------------------------------------------------------
Next ==
    \/ ethRxPkt \/ tick \/ rdtrProcess \/ drain \/ drainResume
    \/ \E e \in PktEngines : PacketDma(e) \/ onDMAComplete(e)
    \/ \E e \in DescEngines : \/ fetchRegister1(e) \/ FetchDma(e) \/ fetchComplete(e)
                              \/ writebackRegister1(e) \/ WritebackDma(e)
                              \/ writebackComplete(e)
    \/ eth_em_recv_pkts \/ WriteRDT

Spec == Init /\ [][Next]_vars

(* Fairness.  Scheduled events run, the memory system answers, a drained   *)
(* simulation is resumed, and the application keeps polling the driver.    *)
(* Nothing is assumed of the wire or of who requests a drain.              *)
Fairness ==
    /\ WF_vars(tick) /\ WF_vars(rdtrProcess) /\ WF_vars(drainResume)
    /\ \A e \in PktEngines : WF_vars(PacketDma(e)) /\ WF_vars(onDMAComplete(e))
    /\ \A e \in DescEngines :
          /\ WF_vars(fetchRegister1(e)) /\ WF_vars(FetchDma(e)) /\ WF_vars(fetchComplete(e))
          /\ WF_vars(writebackRegister1(e)) /\ WF_vars(WritebackDma(e))
          /\ WF_vars(writebackComplete(e))
    /\ WF_vars(eth_em_recv_pkts) /\ WF_vars(WriteRDT)

FairSpec == Spec /\ Fairness

-----------------------------------------------------------------------------
(* Properties. *)

TypeOK ==
    /\ cache \in CacheType(Desc)
    /\ engine \in [PktEngines -> [pkt : Pkts \cup {NULL}, ev : Stages, pktDone : BOOLEAN]]
    /\ rxFifo \in Seq(Pkts)
    /\ rxPacket \in Pkts \cup {NULL}
    /\ rxTick \in BOOLEAN /\ rxTimer \in BOOLEAN
    /\ drainState \in {"Running", "Draining", "Drained"}
    /\ ring \in [Slots -> Desc] /\ swRing \in [Slots -> Bufs]
    /\ mbuf \in [Bufs -> 0 .. MaxPkts]
    /\ rx_tail \in Slots /\ nb_rx_hold \in Nat
    /\ accepted \in 0 .. MaxPkts /\ drains \in 0 .. MaxDrains
    /\ delivered \in Seq(0 .. MaxPkts)

(* The head, tail and cache pointers and the cache's counters tell one     *)
(* story at every step (PointersAgree), as the asserts of writebackGlobal, *)
(* wbCompleteGlobal and fetchCompleteGlobal expect.                        *)
RingPointersAgree == PointersAgree(cache)

(* Descriptor DMA jobs are retired in ring order whatever the order in     *)
(* which the engines finish, and no engine is given two (the asserts on    *)
(* the job queues).                                                        *)
BanksInOrder == BanksContiguous(cache)

(* Packets take descriptors, and descriptors become used, in one order,    *)
(* and a packet DMA engine is busy exactly while its descriptor is         *)
(* unfinished (the asserts of writePacketGlobal and onDMAComplete).        *)
EnginesAgree ==
    /\ ProcessingInOrder(cache)
    /\ \A e \in PktEngines :
          /\ engine[e].ev # "idle" <=>
                cache.processing[e].desc # NULL /\ ~ cache.processing[e].done
          /\ engine[e].ev # "idle" => engine[e].pkt # NULL
          /\ cache.processing[e].done =>
                cache.processing[e].seqIdx # cache.nextSeqToWriteback

(* The inductive invariant behind TypeOK, RingPointersAgree, BanksInOrder  *)
(* and EnginesAgree.                                                       *)
IInv == TypeOK /\ CacheInv(Desc, cache) /\ EnginesAgree

(* The descriptors the card holds and host memory has not got back yet. *)
Unwritten ==
    {cache.used[i] : i \in (cache.wb.ing + 1) .. Len(cache.used)}
    \cup {cache.unused[i] : i \in 1 .. Len(cache.unused)}
    \cup ({cache.processing[e].desc : e \in PktEngines} \ {NULL})
    \cup UNION {{cache.wb.buf[e][x] : x \in (cache.wb.moved[e] + 1) .. Len(cache.wb.buf[e])} :
                  e \in {f \in DescEngines : cache.wb.ev[f] # "idle"}}

(* The card holds no stale descriptor: until it has written a descriptor   *)
(* back, the ring slot still holds it armed and its buffer is still the    *)
(* one the driver keeps for that slot, so neither a packet nor a status is *)
(* ever written over memory that is no longer the card's.                  *)
CardOwnsWhatItHolds ==
    \A d \in Unwritten :
        \E s \in Slots : ring[s] = Armed(d.buf) /\ swRing[s] = d.buf

(* The head register passes a descriptor only after its write-back has     *)
(* reached host memory, though the write-back engines finish in any order. *)
HeadFollowsMemory ==
    [][\A i \in 1 .. Len(cache.used) - Len(cache'.used) :
            cache.head # cache'.head =>
                \A s \in Slots : ring[s] # Armed(cache.used[i].buf)]_vars

(* The channel between the wire and the application. *)
Chan == INSTANCE RxChannel WITH Capacity <- RxFifoSize + DescLen

(* The card and the driver together are a channel that loses, repeats and  *)
(* reorders no packet the receive FIFO accepted, and never has more under  *)
(* way than the FIFO and the ring can hold, whatever the order in which    *)
(* packet, write-back and fetch DMA finish and wherever a drain falls.     *)
ChannelSafety == Chan!Safety

(* The same, and every accepted packet is delivered in the end: no event   *)
(* the card needs (a tick, a completion, a delayed DMA) is lost.           *)
ChannelSpec == Chan!Spec

(* Finished descriptors are written back: the oldest used descriptor is    *)
(* the one at the head, and the head does not stay there for good.  This is*)
(* what wbCompleteGlobal's "If we still have more to wb, call wb now" is   *)
(* there for.                                                              *)
UsedWrittenBack ==
    \A s \in Slots : (cache.head = s /\ cache.used # <<>>) ~> (cache.head # s)

(* A drain ends: the card never waits for an event that will not come. *)
DrainEnds == (drainState = "Draining") ~> (drainState # "Draining")

=============================================================================
