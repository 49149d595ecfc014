------------------------------- MODULE IGbETx -------------------------------
(***************************************************************************)
(* The transmit path of one queue of the gem5 IGbE network card in ring    *)
(* mode, with the DPDK e1000 driver at one end and the Ethernet link at    *)
(* the other:                                                              *)
(*   src/gem5/src/dev/net/i8254xGBe.cc, .hh   the card                     *)
(*   src/gem5/src/dev/net/etherlink.cc        the link                     *)
(*   src/buildroot/package/dpdk/dpdk-source/drivers/net/e1000/em_rxtx.c    *)
(*                                            the driver, eth_em_xmit_pkts *)
(* Packets are named 1, 2, 3, ... in the order in which the driver queues  *)
(* them.  A packet has one or more segments, each in a buffer of its own   *)
(* and with a data descriptor of its own, and may need a context           *)
(* descriptor before them (checksum offload).                              *)
(*                                                                         *)
(* The transmitter is enabled, TCP segmentation is off (the driver does    *)
(* not offer it) and the driver masks all interrupts.                      *)
(***************************************************************************)
EXTENDS DescCacheGlobal, PacketFifo

CONSTANTS
    TxWthresh,      \* TXDCTL.WTHRESH
    TxRsThresh,     \* the driver's tx_rs_thresh
    TxFreeThresh,   \* the driver's tx_free_thresh
    SegLens,        \* lengths of segments
    MaxSegs,        \* bound: segments of a packet
    Offload,        \* set of BOOLEAN: may a packet need a context descriptor
    MaxPkts,        \* bound: packets the application sends
    MaxDrains       \* bound: drain requests

(* The thresholds are those eth_em_tx_queue_setup accepts. *)
ASSUME TxAssumption ==
    /\ TxRsThresh \in Nat \ {0} /\ TxFreeThresh \in Nat /\ TxWthresh \in 0 .. 63
    /\ TxFreeThresh < DescLen - 3 /\ TxRsThresh <= TxFreeThresh
    /\ TxWthresh # 0 => TxRsThresh = 1
    /\ SegLens \subseteq Nat \ {0} /\ MaxSegs \in Nat \ {0}
    /\ Offload \subseteq BOOLEAN
    /\ MaxPkts \in Nat /\ MaxDrains \in Nat

VARIABLES
    cache,          \* txDescCacheArray[queue]
    engine,         \* the packet DMA engines, with processingPktArray
    pktMultiDesc,   \* the last finished descriptor was not a packet's last
    roundRobinIdx,  \* where the search for a ready packet starts
    txFifo,         \* the transmit FIFO
    txTick,         \* the transmit state machine is ticking
    txFifoTick,     \* the wire is due
    drainState,     \* Drainable::drainState()
    link,           \* the packet the link is transmitting
    ring,           \* the descriptor ring in host memory
    txq,            \* the driver's queue
    submitted,      \* history: packets the driver queued
    sent,           \* history: what left on the wire
    drains          \* how many drains were requested

vars == <<cache, engine, pktMultiDesc, roundRobinIdx, txFifo, txTick, txFifoTick,
          drainState, link, ring, txq, submitted, sent, drains>>

Pkts == 1 .. MaxPkts
Segs == 1 .. MaxSegs

(* A buffer is named by the packet and the segment it holds. *)
Bufs == Pkts \X Segs

Desc ==
    [ctx : BOOLEAN, buf : Bufs \cup {NULL}, len : SegLens \cup {0},
     eop : BOOLEAN, rs : BOOLEAN, dd : BOOLEAN]

ContextDesc == [ctx |-> TRUE, buf |-> NULL, len |-> 0, eop |-> FALSE, rs |-> FALSE, dd |-> FALSE]

(* What the card makes of a data descriptor: a frame holding the segment,  *)
(* intact unless its buffer was freed before it was read.                  *)
Frame == [buf : Bufs, len : SegLens, last : BOOLEAN, intact : BOOLEAN]

ASSUME TxNullAssumption == NULL \notin Desc /\ NULL \notin Frame /\ NULL \notin Bufs

IdleEngine == [pkt |-> NULL, ev |-> "idle", pktDone |-> FALSE]

(* The driver's queue after em_reset_tx_queue. *)
NewTxq ==
    [tx_id             |-> 0,
     tx_tail           |-> 0,
     nb_tx_used        |-> 0,
     nb_tx_free        |-> DescLen - 1,
     last_desc_cleaned |-> DescLen - 1,
     last_id           |-> [s \in Slots |-> s],
     sw_ring           |-> [s \in Slots |-> NULL]]

(* eth_em_tx_init has set the ring up and enabled the transmitter; all the *)
(* descriptors count as done.                                              *)
Init ==
    /\ cache         = EmptyCache
    /\ engine        = [e \in PktEngines |-> IdleEngine]
    /\ pktMultiDesc  = FALSE
    /\ roundRobinIdx = 0
    /\ txFifo        = EmptyFifo
    /\ txTick        = TRUE
    /\ txFifoTick    = FALSE
    /\ drainState    = "Running"
    /\ link          = NULL
    /\ ring          = [s \in Slots |->
                          [ctx |-> FALSE, buf |-> NULL, len |-> 0,
                           eop |-> FALSE, rs |-> FALSE, dd |-> TRUE]]
    /\ txq           = NewTxq
    /\ submitted     = 0
    /\ sent          = <<>>
    /\ drains        = 0

-----------------------------------------------------------------------------
(* The driver. *)

DescToClean == txq.last_id[Wrap(txq.last_desc_cleaned + TxRsThresh)]

(* The slots from the last one cleaned to the next with the RS bit.  Wrong:*)
(* both ends are counted.                                                  *)
CleanCountBothEnds ==
    LET to == DescToClean IN
    1 + (IF txq.last_desc_cleaned > to THEN DescLen - txq.last_desc_cleaned + to
                                       ELSE to - txq.last_desc_cleaned)

CleanCount ==
    LET to == DescToClean IN
    IF txq.last_desc_cleaned > to THEN DescLen - txq.last_desc_cleaned + to
                                  ELSE to - txq.last_desc_cleaned

(* At the start of a call of eth_em_xmit_pkts, or when a packet does not   *)
(* fit: one done descriptor stands for all those up to it.                 *)
em_xmit_cleanup ==
    /\ \/ txq.tx_id = txq.tx_tail /\ txq.nb_tx_free < TxFreeThresh
       \/ \E n \in Segs, c \in Offload :
             n + (IF c THEN 1 ELSE 0) > txq.nb_tx_free
    /\ submitted < MaxPkts
    /\ ring[DescToClean].dd
    /\ ring' = [ring EXCEPT ![DescToClean].dd = FALSE]
    /\ txq' = [txq EXCEPT !.last_desc_cleaned = DescToClean,
                          !.nb_tx_free = @ + CleanCount]
    /\ UNCHANGED <<cache, engine, pktMultiDesc, roundRobinIdx, txFifo, txTick, txFifoTick,
                   drainState, link, submitted, sent, drains>>

(* The driver queues one packet of a burst: n segments of length len, with *)
(* a context descriptor before them if c.  Whatever the slots held before  *)
(* is freed.  Wrong: the check for free descriptors is off by one.         *)
QueuePacketUnchecked(n, len, c) ==
    LET p        == submitted + 1
        nb_used  == n + (IF c THEN 1 ELSE 0)
        slot(i)  == Wrap(txq.tx_id + i)
        tx_last  == slot(nb_used - 1)
        setRs    == txq.nb_tx_used + nb_used >= TxRsThresh
        seg(i)   == IF c THEN i ELSE i + 1
        data(i)  == [ctx |-> FALSE, buf |-> <<p, seg(i)>>, len |-> len, dd |-> FALSE,
                     eop |-> i = nb_used - 1, rs |-> i = nb_used - 1 /\ setRs]
        isCtx(i) == c /\ i = 0
        index(s) == CHOOSE i \in 0 .. nb_used - 1 : slot(i) = s
        written  == {slot(i) : i \in 0 .. nb_used - 1}
    IN  /\ submitted < MaxPkts
        /\ submitted' = p
        /\ ring' = [s \in Slots |->
                      IF s \notin written THEN ring[s]
                      ELSE IF isCtx(index(s)) THEN ContextDesc ELSE data(index(s))]
        /\ txq' = [txq EXCEPT
                     !.tx_id      = Wrap(@ + nb_used),
                     !.nb_tx_used = IF setRs THEN 0 ELSE @ + nb_used,
                     !.nb_tx_free = @ - nb_used,
                     !.last_id    = [s \in Slots |-> IF s \in written THEN tx_last ELSE @[s]],
                     !.sw_ring    = [s \in Slots |->
                                       IF s \notin written THEN @[s]
                                       ELSE IF isCtx(index(s)) THEN NULL
                                       ELSE data(index(s)).buf]]
        /\ UNCHANGED <<cache, engine, pktMultiDesc, roundRobinIdx, txFifo, txTick,
                       txFifoTick, drainState, link, sent, drains>>

eth_em_xmit_pkts(n, len, c) ==
    /\ n + (IF c THEN 1 ELSE 0) <= txq.nb_tx_free
    /\ QueuePacketUnchecked(n, len, c)

(* The end of a call of eth_em_xmit_pkts, and the card's handler for TDT. *)
WriteTDT ==
    LET q == [cache EXCEPT !.tail = txq.tx_id] IN
    /\ txq.tx_id # txq.tx_tail
    /\ txq' = [txq EXCEPT !.tx_tail = txq.tx_id]
    /\ cache' = FetchIf(drainState = "Running", q)
    /\ UNCHANGED <<engine, pktMultiDesc, roundRobinIdx, txFifo, txTick, txFifoTick,
                   drainState, link, ring, submitted, sent, drains>>

-----------------------------------------------------------------------------
(* Drain: the card's checks are the same as on the receive side. *)

Outstanding(q, eng) ==
    \/ hasOutstandingEvents(q.fetch) \/ hasOutstandingEvents(q.wb)
    \/ \E e \in PktEngines : eng[e].ev = "event"

DmaPending ==
    \/ \E e \in DescEngines : cache.fetch.ev[e] = "dma" \/ cache.wb.ev[e] = "dma"
    \/ \E e \in PktEngines : engine[e].ev = "dma"

(* The end of a completion handler: enableSm, where the handler calls it   *)
(* (wake), and then checkDrain.                                            *)
CheckDrain(q, eng, wake) ==
    /\ drainState' = IF drainState = "Draining" /\ ~ Outstanding(q, eng)
                     THEN "Drained" ELSE drainState
    /\ txTick' = (drainState # "Draining" /\ (txTick \/ wake))
    /\ txFifoTick' = (drainState # "Draining" /\ txFifoTick)

drain ==
    /\ \/ drainState = "Running" /\ drains < MaxDrains /\ drains' = drains + 1
       \/ drainState = "Drained" /\ (DmaPending \/ Outstanding(cache, engine))
          /\ UNCHANGED drains
    /\ drainState' = IF Outstanding(cache, engine) THEN "Draining" ELSE "Drained"
    /\ txTick' = FALSE /\ txFifoTick' = FALSE
    /\ UNCHANGED <<cache, engine, pktMultiDesc, roundRobinIdx, txFifo, link, ring, txq,
                   submitted, sent>>

drainResume ==
    /\ drainState = "Drained" /\ ~ DmaPending /\ ~ Outstanding(cache, engine)
    /\ drainState' = "Running"
    /\ txTick' = TRUE /\ txFifoTick' = TRUE
    /\ UNCHANGED <<cache, engine, pktMultiDesc, roundRobinIdx, txFifo, link, ring, txq,
                   submitted, sent, drains>>

-----------------------------------------------------------------------------
(* The tick. *)

BlockMask == 3    \* (cacheBlockSize() - 1) >> 4

ReadyEngines == {e \in PktEngines : ~ pktMultiDesc /\ engine[e].pktDone /\ engine[e].pkt # NULL}

(* An engine is free when it moves nothing, has no finished packet waiting *)
(* for the FIFO and its last descriptor has become used.  Wrong: the last  *)
(* condition is left out.                                                  *)
FreeEnginesEarly == {e \in PktEngines : engine[e].ev = "idle" /\ ~ engine[e].pktDone}

FreeEngines == {e \in PktEngines : /\ engine[e].ev = "idle" /\ ~ engine[e].pktDone
                                  /\ cache.processing[e].desc = NULL}

Lowest(S) == CHOOSE e \in S : \A f \in S : e <= f

(* The search for a finished packet goes on from where it left off. *)
getReadyEthPacket ==
    LET at(i) == (roundRobinIdx + i) % NumDMAEngines
        hits  == {i \in PktEngines : at(i) \in ReadyEngines}
    IN  at(Lowest(hits))

(* Context descriptors at the front of the unused cache are done at once,  *)
(* and go straight to the used cache.                                      *)
processContextDesc(q) ==
    LET n == CHOOSE k \in 0 .. Len(q.unused) :
                /\ \A i \in 1 .. k : q.unused[i].ctx
                /\ k < Len(q.unused) => ~ q.unused[k + 1].ctx
    IN  [q EXCEPT !.used   = @ \o [i \in 1 .. n |-> [q.unused[i] EXCEPT !.dd = TRUE]],
                  !.unused = SubSeq(@, n + 1, Len(@))]

getPacketSize(q) == IF q.unused = <<>> THEN 0 ELSE Head(q.unused).len

(* The wire, at the end of the tick: the link takes the oldest packet of   *)
(* the FIFO when it is idle.  The link's answer comes in a later event, so *)
(* that txWire runs once per tick.                                         *)
txWire(fifo, due) ==
    /\ txFifoTick' = FALSE
    /\ IF due /\ fifo.size > 0 /\ link = NULL
       THEN link' = Head(fifo.fifo) /\ txFifo' = pop(fifo)
       ELSE link' = link /\ txFifo' = fifo

(* What a tick of txStateMachine does for the queue: a finished packet     *)
(* goes to the FIFO ...                                                    *)
PushPacket ==
    /\ ReadyEngines # {}
    /\ LET e == getReadyEthPacket IN
       /\ engine' = [engine EXCEPT ![e].pkt = NULL, ![e].pktDone = FALSE]
       /\ roundRobinIdx' = (e + 1) % NumDMAEngines
       /\ txWire(push(txFifo, engine[e].pkt), TRUE)
    /\ cache' = writebackGlobal(cache, BlockMask)

(* ... or a data descriptor gets a packet of its own and a DMA engine to   *)
(* fill it, with room in the FIFO reserved for it; q is the cache after    *)
(* processContextDesc ...                                                  *)
getPacketDataGlobal(q) ==
    LET e == Lowest(FreeEngines)
        d == Head(q.unused)
    IN  /\ getPacketSize(q) > 0 /\ availExceeds(txFifo, getPacketSize(q))
        /\ cache' = TakeDesc(q, e)
        /\ engine' = [engine EXCEPT ![e].ev = "dma",
                         ![e].pkt = [buf |-> d.buf, len |-> d.len, last |-> d.eop,
                                     intact |-> FALSE]]
        /\ txWire(reserve(txFifo, getPacketSize(q)), txFifoTick)

(* ... or there is nothing to read, or no room for it. *)
NothingToRead(q) ==
    /\ \/ /\ getPacketSize(q) = 0
          /\ cache' = writebackGlobal(q, 0)
       \/ /\ getPacketSize(q) > 0 /\ ~ availExceeds(txFifo, getPacketSize(q))
          /\ cache' = q
    /\ UNCHANGED engine
    /\ txWire(txFifo, txFifoTick)

NoDescriptor ==
    /\ \/ descLeft(cache) = 0 /\ cache' = fetchDescriptorsGlobal(writebackGlobal(cache, 0))
       \/ descLeft(cache) # 0 /\ cache' = fetchDescriptorsGlobal(cache)
    /\ UNCHANGED engine
    /\ txWire(txFifo, txFifoTick)

tick ==
    /\ txTick /\ drainState = "Running"
    /\ \/ PushPacket
       \/ /\ ReadyEngines = {} /\ UNCHANGED roundRobinIdx
          /\ \/ FreeEngines = {} /\ txWire(txFifo, txFifoTick) /\ UNCHANGED <<cache, engine>>
             \/ FreeEngines # {} /\ descUnused(cache) = 0 /\ NoDescriptor
             \/ /\ FreeEngines # {} /\ descUnused(cache) > 0
                /\ LET q == processContextDesc(cache) IN
                   getPacketDataGlobal(q) \/ NothingToRead(q)
    /\ UNCHANGED <<pktMultiDesc, txTick, drainState, ring, txq, submitted, sent, drains>>

-----------------------------------------------------------------------------
(* The link. *)

(* txDone of the link, and the ethTxDone it calls. *)
ethTxDone ==
    /\ link # NULL
    /\ sent' = Append(sent, link)
    /\ link' = NULL
    /\ txFifoTick' = (drainState # "Draining")
    /\ txTick' = (txTick \/ (descLeft(cache) # 0 /\ drainState # "Draining"))
    /\ UNCHANGED <<cache, engine, pktMultiDesc, roundRobinIdx, txFifo, drainState, ring,
                   txq, submitted, drains>>

-----------------------------------------------------------------------------
(* Packet DMA. *)

(* Memory has read the packet's buffer, which holds the packet as long as  *)
(* the driver has not freed it.                                            *)
Held(b) == \E s \in Slots : txq.sw_ring[s] = b

PacketDma(e) ==
    /\ engine[e].ev = "dma"
    /\ engine' = [engine EXCEPT ![e].ev = "event",
                                ![e].pkt.intact = Held(engine[e].pkt.buf)]
    /\ UNCHANGED <<cache, pktMultiDesc, roundRobinIdx, txFifo, txTick, txFifoTick,
                   drainState, link, ring, txq, submitted, sent, drains>>

(* The last descriptor of a packet gets its status if the driver asked for *)
(* one.  Wrong: never.                                                     *)
NoStatus(d) == d
SetStatus(d) == IF d.eop /\ d.rs THEN [d EXCEPT !.dd = TRUE] ELSE d

(* A finished descriptor becomes used when those before it have.  Unless   *)
(* it is not its packet's last one, used descriptors are written back from *)
(* WTHRESH on.                                                             *)
onDMAComplete(e) ==
    LET eng == [engine EXCEPT ![e].ev = "idle", ![e].pktDone = TRUE]
        d   == cache.processing[e].desc
        q   == manageUsedCache(FinishDesc(cache, e, SetStatus(d)))
        w   == CASE ~ d.eop -> q
                 [] d.eop /\ TxWthresh = 0 -> writebackGlobal(q, 0)
                 [] d.eop /\ TxWthresh > 0 -> WbIf(TxWthresh <= descUsed(q), q, BlockMask)
    IN  /\ engine[e].ev = "event"
        /\ engine' = eng
        /\ pktMultiDesc' = ~ d.eop
        /\ cache' = w
        /\ CheckDrain(w, eng, TRUE)
        /\ UNCHANGED <<roundRobinIdx, txFifo, link, ring, txq, submitted, sent, drains>>

-----------------------------------------------------------------------------
(* Descriptor DMA, as on the receive side. *)

restOfCard == <<engine, pktMultiDesc, roundRobinIdx, txFifo, link>>

fetchRegister1(e) ==
    /\ cache.fetch.ev[e] = "delay" /\ drainState = "Running"
    /\ cache' = [cache EXCEPT !.fetch = Issue(@, e)]
    /\ UNCHANGED <<restOfCard, txTick, txFifoTick, drainState, ring, txq, submitted, sent, drains>>

FetchDma(e) ==
    /\ cache.fetch.ev[e] = "dma"
    /\ LET slot == cache.fetch.base[e] + cache.fetch.moved[e] IN
       cache' = [cache EXCEPT !.fetch = FetchBeat(@, e, ring[slot])]
    /\ UNCHANGED <<restOfCard, txTick, txFifoTick, drainState, ring, txq, submitted, sent, drains>>

fetchComplete(e) ==
    LET q == fetchCompleteGlobal(cache, e) IN
    /\ cache.fetch.ev[e] = "event"
    /\ cache' = q
    /\ CheckDrain(q, engine, TRUE)
    /\ UNCHANGED <<restOfCard, ring, txq, submitted, sent, drains>>

writebackRegister1(e) ==
    /\ cache.wb.ev[e] = "delay" /\ drainState = "Running"
    /\ cache' = [cache EXCEPT !.wb = Issue(@, e)]
    /\ UNCHANGED <<restOfCard, txTick, txFifoTick, drainState, ring, txq, submitted, sent, drains>>

WritebackDma(e) ==
    /\ cache.wb.ev[e] = "dma"
    /\ LET n == cache.wb.moved[e] IN
       ring' = [ring EXCEPT ![cache.wb.base[e] + n] = cache.wb.buf[e][n + 1]]
    /\ cache' = [cache EXCEPT !.wb = Beat(@, e)]
    /\ UNCHANGED <<restOfCard, txTick, txFifoTick, drainState, txq, submitted, sent, drains>>

writebackComplete(e) ==
    LET q == wbCompleteGlobal(cache, e) IN
    /\ cache.wb.ev[e] = "event"
    /\ CheckDrain(q, engine, FALSE)
    (* fetchAfterWb *)
    /\ cache' = FetchIf(~ txTick /\ drainState = "Running", q)
    /\ UNCHANGED <<restOfCard, ring, txq, submitted, sent, drains>>

-----------------------------------------------------------------------------
Next ==
    \/ em_xmit_cleanup \/ WriteTDT
    \/ \E n \in Segs, len \in SegLens, c \in Offload : eth_em_xmit_pkts(n, len, c)
    \/ tick \/ ethTxDone \/ drain \/ drainResume
    \/ \E e \in PktEngines : PacketDma(e) \/ onDMAComplete(e)
    \/ \E e \in DescEngines : \/ fetchRegister1(e) \/ FetchDma(e) \/ fetchComplete(e)
                              \/ writebackRegister1(e) \/ WritebackDma(e)
                              \/ writebackComplete(e)

Spec == Init /\ [][Next]_vars

(* Fairness.  Scheduled events run, memory and the link answer, a drained  *)
(* simulation is resumed, and a call of the driver ends.  Of the steps of  *)
(* one engine at most one is enabled at a time.                            *)
CardFairness ==
    /\ WF_vars(tick) /\ WF_vars(ethTxDone) /\ WF_vars(drainResume) /\ WF_vars(WriteTDT)
    /\ \A e \in PktEngines : WF_vars(PacketDma(e) \/ onDMAComplete(e))
    /\ \A e \in DescEngines :
          /\ WF_vars(fetchRegister1(e) \/ FetchDma(e) \/ fetchComplete(e))
          /\ WF_vars(writebackRegister1(e) \/ WritebackDma(e) \/ writebackComplete(e))

(* The application sends until it has sent everything. *)
DriverFairness ==
    /\ WF_vars(em_xmit_cleanup)
    /\ WF_vars(\E n \in Segs, len \in SegLens, c \in Offload : eth_em_xmit_pkts(n, len, c))

FairSpec == Spec /\ CardFairness /\ DriverFairness

-----------------------------------------------------------------------------
(* Properties. *)

(* The variables keep their types: the driver never counts more free       *)
(* descriptors than the ring has, and every index stays within it.         *)
TxTypeOK ==
    /\ cache \in CacheType(Desc)
    /\ engine \in [PktEngines -> [pkt : Frame \cup {NULL}, ev : Stages, pktDone : BOOLEAN]]
    /\ pktMultiDesc \in BOOLEAN /\ roundRobinIdx \in PktEngines
    /\ txFifo \in FifoType(Frame)
    /\ txTick \in BOOLEAN /\ txFifoTick \in BOOLEAN
    /\ drainState \in {"Running", "Draining", "Drained"}
    /\ link \in Frame \cup {NULL}
    /\ ring \in [Slots -> Desc]
    /\ txq \in [tx_id : Slots, tx_tail : Slots, last_desc_cleaned : Slots,
                nb_tx_used : Nat, nb_tx_free : 0 .. DescLen - 1,
                last_id : [Slots -> Slots], sw_ring : [Slots -> Bufs \cup {NULL}]]
    /\ submitted \in 0 .. MaxPkts /\ drains \in 0 .. MaxDrains
    /\ sent \in Seq(Frame)

(* The cache's pointers, counters and banks agree on the transmit side too,*)
(* and a packet engine reads exactly while its descriptor is unfinished    *)
(* and holds a packet from then until the FIFO gets it (the asserts of     *)
(* getPacketDataGlobal and onDMAComplete).                                 *)
TxCacheAgrees ==
    /\ CacheInv(Desc, cache)
    /\ \A e \in PktEngines :
          /\ engine[e].ev # "idle" <=>
                cache.processing[e].desc # NULL /\ ~ cache.processing[e].done
          /\ engine[e].pkt # NULL <=> engine[e].ev # "idle" \/ engine[e].pktDone
          /\ engine[e].pktDone => engine[e].ev = "idle"

(* The bytes each packet engine reads or holds, and each packet of the FIFO.*)
ReadLens == [e \in PktEngines |-> IF engine[e].pkt = NULL THEN 0 ELSE engine[e].pkt.len]
FifoLens == [i \in 1 .. Len(txFifo.fifo) |-> txFifo.fifo[i].len]

(* The FIFO's reservations are exactly the packets that are being read or  *)
(* wait for the FIFO, reserved and used bytes never exceed it, and so the  *)
(* push that txStateMachine asserts succeeds for every packet in any order.*)
ReservationsKept ==
    /\ txFifo.reserved = Bytes(ReadLens)
    /\ txFifo.size = Bytes(FifoLens)
    /\ txFifo.size + txFifo.reserved <= FifoMax
    /\ \A e \in PktEngines : engine[e].pktDone => pushSucceeds(txFifo, engine[e].pkt)

SameButStatus(a, b) == [a EXCEPT !.dd = b.dd] = b

InProcess == {e \in PktEngines : cache.processing[e].desc # NULL}

(* The descriptors the card holds, from the head on. *)
Holds ==
    cache.used
    \o [i \in 1 .. descProcessing(cache) |->
           cache.processing[CHOOSE e \in InProcess :
              cache.processing[e].seqIdx = cache.nextSeqToWriteback + i - 1].desc]
    \o cache.unused

(* The card holds the ring's descriptors in ring order: whatever it has yet*)
(* to write back goes to the slot it came from, and the driver has not     *)
(* reused that slot.                                                       *)
WritesBackInPlace ==
    /\ \A i \in cache.wb.ing + 1 .. Len(Holds) :
          SameButStatus(Holds[i], ring[(cache.head + i - 1) % DescLen])
    /\ \A e \in DescEngines : cache.wb.ev[e] # "idle" =>
          \A x \in cache.wb.moved[e] + 1 .. cache.wb.num[e] :
             SameButStatus(cache.wb.buf[e][x], ring[cache.wb.base[e] + x - 1])

(* The buffers of data descriptors the driver has given and the card has   *)
(* not read.                                                               *)
UnreadBufs ==
    {cache.unused[i].buf : i \in 1 .. Len(cache.unused)}
    \cup {engine[e].pkt.buf : e \in {f \in PktEngines : engine[f].ev = "dma"}}
    \cup {ring[(cache.cachePnt + i) % DescLen].buf :
             i \in 0 .. descLeft(cache) - descUnused(cache) - 1}

(* The slots the driver counts as done: all but the ones from the last it  *)
(* cleaned to the last it filled.                                          *)
CleanedSlots ==
    {(txq.tx_id + i) % DescLen : i \in 0 .. txq.nb_tx_free}

(* em_xmit_cleanup's comment: "The last descriptor to clean is done, so    *)
(* that means all the descriptors from the last descriptor that was cleaned*)
(* up to the last descriptor with the RS bit set are done."  No slot the   *)
(* driver has cleaned has a buffer the card still has to read.             *)
CleanedAreDone ==
    \A s \in CleanedSlots : txq.sw_ring[s] \notin UnreadBufs \ {NULL}

WholePacket(f) == f.buf[2] = 1 /\ f.last

(* What left on the wire: the packet's name, or 0 for a frame that is not  *)
(* all of a packet, or was read from a freed buffer.                       *)
OnTheWire ==
    [i \in DOMAIN sent |->
        IF WholePacket(sent[i]) /\ sent[i].intact THEN sent[i].buf[1] ELSE 0]

Chan == INSTANCE TxChannel WITH sent <- OnTheWire, Window <- NumDMAEngines - 1

(* Driver, card and link together send every packet the driver queued at   *)
(* most once and intact, and no packet is overtaken by as many others as   *)
(* there are packet engines.                                               *)
TxChannelSafety == Chan!Safety

(* The same, and every queued packet is sent. *)
TxChannelSpec == Chan!Spec

(* The driver gets its slots back until it has queued all it has to send,  *)
(* all of it leaves, and every drain on the way ends and is resumed from   *)
(* (em_xmit_cleanup's "better luck next time" comes true).                 *)
AllSent == <>[](Len(sent) = MaxPkts /\ drainState = "Running")

=============================================================================
