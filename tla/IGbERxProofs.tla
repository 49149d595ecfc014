---------------------------- MODULE IGbERxProofs ----------------------------
(***************************************************************************)
(* The receive path keeps its pointers, its two banks of descriptor        *)
(* engines and its packet engines in agreement, for every ring length,     *)
(* cache size, number of engines and threshold.                            *)
(***************************************************************************)
EXTENDS IGbERx, DescCacheGlobalProofs

(* NULL is not a descriptor, and the names of buffers are numbers. *)
LEMMA NullIsNoDesc == NULL \notin Desc /\ Desc \in SUBSET [buf : Nat, dd : BOOLEAN]
<1>1. Bufs \in SUBSET Nat
  BY DescLenAssumption, RxAssumption DEF Bufs
<1>2. Desc \in SUBSET [buf : Nat, dd : BOOLEAN]
  BY <1>1 DEF Desc
<1> QED
  BY <1>2, NullAssumption

LEMMA ArmedIsDesc ==
    ASSUME NEW b \in Bufs
    PROVE  Armed(b) \in Desc
BY DEF Armed, Desc

(* The packet engines stay in agreement with a cache whose processing part *)
(* does not change.                                                        *)
LEMMA EnginesKept ==
    ASSUME IInv, CacheInv(Desc, cache'),
           cache'.processing = cache.processing,
           cache'.nextSeqToWriteback = cache.nextSeqToWriteback,
           \A e \in PktEngines : engine'[e].ev = engine[e].ev /\ engine'[e].pkt = engine[e].pkt
    PROVE  EnginesAgree'
<1>1. ProcessingInOrder(cache')
  BY DEF CacheInv
<1>2. EnginesAgree
  BY DEF IInv
<1> QED
  BY <1>1, <1>2, Zenon DEF EnginesAgree

(* The mask that WTHRESH gives is one of those the cache knows. *)
LEMMA WthreshMaskOK == WthreshMask \in WbMasks /\ 0 \in WbMasks
BY RxAssumption DEF WthreshMask, WbMasks, AllOnes

(* A round of the ring names each slot once. *)
InRound(w, b) == b \in w .. (w + DescLen) - 1

LEMMA SlotsDistinct ==
    ASSUME NEW w \in Nat, NEW a, NEW b, InRound(w, a), InRound(w, b), a # b
    PROVE  a % DescLen # b % DescLen
<1>1. a \in w .. w + DescLen - 1 /\ b \in w .. w + DescLen - 1
  BY DescLenAssumption DEF InRound
<1>2. a % DescLen = b % DescLen => a = b
  BY <1>1, ModWindow, DescLenAssumption
<1> QED
  BY <1>2

LEMMA LowestFound ==
    ASSUME NEW S \in SUBSET PktEngines, S # {}
    PROVE  Lowest(S) \in S
<1>1. S \in SUBSET Nat
  BY NumDMAEnginesAssumption DEF PktEngines
<1>2. \E m \in S : \A x \in S : m <= x
  BY <1>1, LeastNat
<1> QED
  BY <1>2, Zenon DEF Lowest

-----------------------------------------------------------------------------
LEMMA InitIInv == Init => IInv
<1> SUFFICES ASSUME Init PROVE IInv
  OBVIOUS
<1> DEFINE q == [EmptyCache EXCEPT !.tail = DescLen - 1]
<1>0. /\ engine = [e \in PktEngines |-> IdleEngine]
      /\ rxFifo = <<>> /\ rxPacket = NULL
      /\ rxTick = FALSE /\ drainState = "Running" /\ rxTimer = FALSE
      /\ ring = [s \in Slots |-> Armed(s)] /\ swRing = [s \in Slots |-> s]
      /\ mbuf = [b \in Bufs |-> 0]
      /\ rx_tail = 0 /\ nb_rx_hold = 0
      /\ accepted = 0 /\ delivered = <<>> /\ drains = 0
  BY Zenon DEF Init
<1>1. DescLen - 1 \in Slots /\ 0 \in Slots
  BY DescLenAssumption DEF Slots
<1>2. /\ CacheInv(Desc, q) /\ q.processing = EmptyCache.processing
      /\ q.nextSeqToWriteback = EmptyCache.nextSeqToWriteback
  BY <1>1, EmptyCacheInv, TailKeeps
<1>3. cache = fetchDescriptorsGlobal(q)
  BY DEF Init
<1> HIDE DEF q
<1>4. CacheInv(Desc, cache) /\ cache.processing = q.processing
  BY <1>2, <1>3, FetchKeeps
<1>5. cache.processing = [e \in PktEngines |-> NoEntry]
  BY <1>2, <1>4 DEF EmptyCache
<1>6. EnginesAgree
  <2>1. ProcessingInOrder(cache)
    BY <1>4 DEF CacheInv
  <2>2. \A e \in PktEngines : /\ cache.processing[e].desc = NULL
                             /\ ~ cache.processing[e].done
                             /\ engine[e].ev = "idle"
    BY <1>0, <1>5 DEF IdleEngine, NoEntry
  <2> QED
    BY <2>1, <2>2 DEF EnginesAgree
<1>7. TypeOK
  <2>1. cache \in CacheType(Desc)
    BY <1>4 DEF CacheInv
  <2>2. engine \in [PktEngines -> [pkt : Pkts \cup {NULL}, ev : Stages, pktDone : BOOLEAN]]
    BY <1>0 DEF IdleEngine, Stages
  <2>3. \A s \in Slots : s \in Bufs
    BY DescLenAssumption, RxAssumption DEF Slots, Bufs
  <2>4. ring \in [Slots -> Desc] /\ swRing \in [Slots -> Bufs]
    BY <1>0, <2>3, ArmedIsDesc
  <2>5. mbuf \in [Bufs -> 0 .. MaxPkts]
    BY <1>0, RxAssumption
  <2>6. /\ rxFifo \in Seq(Pkts) /\ rxPacket \in Pkts \cup {NULL}
        /\ rxTick \in BOOLEAN /\ rxTimer \in BOOLEAN
        /\ drainState \in {"Running", "Draining", "Drained"}
        /\ rx_tail \in Slots /\ nb_rx_hold \in Nat
        /\ accepted \in 0 .. MaxPkts /\ drains \in 0 .. MaxDrains
        /\ delivered \in Seq(0 .. MaxPkts)
    BY <1>0, <1>1, RxAssumption
  <2> QED
    BY <2>1, <2>2, <2>4, <2>5, <2>6 DEF TypeOK
<1> QED
  BY <1>4, <1>6, <1>7 DEF IInv

-----------------------------------------------------------------------------
(* The steps. *)

(* A step that changes the cache without touching what is in process, and  *)
(* leaves the packet engines and all that the driver and memory hold.      *)
LEMMA CacheStep ==
    ASSUME IInv, CacheInv(Desc, cache'),
           cache'.processing = cache.processing,
           cache'.nextSeqToWriteback = cache.nextSeqToWriteback,
           UNCHANGED <<engine, rxFifo, rxPacket, ring, mbuf, swRing, rx_tail, accepted,
                       delivered, drains>>,
           rxTick' \in BOOLEAN, rxTimer' \in BOOLEAN,
           drainState' \in {"Running", "Draining", "Drained"},
           nb_rx_hold' \in Nat
    PROVE  IInv'
<1>1. EnginesAgree'
  BY EnginesKept
<1>2. cache' \in CacheType(Desc)
  BY DEF CacheInv
<1>3. TypeOK'
  BY <1>2 DEF IInv, TypeOK
<1> QED
  BY <1>1, <1>3 DEF IInv

(* A step that leaves the cache and the packet engines alone. *)
LEMMA CacheSame ==
    ASSUME IInv, UNCHANGED <<cache, engine>>, TypeOK'
    PROVE  IInv'
<1>1. CacheInv(Desc, cache)' /\ EnginesAgree'
  BY DEF IInv, EnginesAgree
<1> QED
  BY <1>1 DEF IInv

LEMMA BasicTypes ==
    ASSUME IInv
    PROVE  /\ CacheInv(Desc, cache)
           /\ rxTick \in BOOLEAN /\ rxTimer \in BOOLEAN
           /\ drainState \in {"Running", "Draining", "Drained"}
           /\ nb_rx_hold \in Nat
BY DEF IInv, TypeOK

LEMMA CheckDrainType ==
    ASSUME IInv, NEW q, NEW eng, NEW wake \in BOOLEAN, CheckDrain(q, eng, wake)
    PROVE  rxTick' \in BOOLEAN /\ drainState' \in {"Running", "Draining", "Drained"}
BY BasicTypes DEF CheckDrain

LEMMA DescDmaSteps ==
    ASSUME IInv, NEW e \in DescEngines,
           \/ fetchRegister1(e) \/ FetchDma(e) \/ fetchComplete(e)
           \/ writebackRegister1(e) \/ writebackComplete(e)
    PROVE  IInv'
<1>0. /\ CacheInv(Desc, cache) /\ rxTick \in BOOLEAN /\ rxTimer \in BOOLEAN
      /\ drainState \in {"Running", "Draining", "Drained"} /\ nb_rx_hold \in Nat
  BY BasicTypes
<1>1. CASE fetchRegister1(e)
  <2>1. /\ CacheInv(Desc, cache') /\ cache'.processing = cache.processing
        /\ cache'.nextSeqToWriteback = cache.nextSeqToWriteback
    BY <1>0, <1>1, IssueFetchKeeps DEF fetchRegister1
  <2> QED
    BY <1>0, <1>1, <2>1, CacheStep DEF fetchRegister1, restOfCard, driver
<1>2. CASE FetchDma(e)
  <2> DEFINE d == ring[cache.fetch.base[e] + cache.fetch.moved[e]]
  <2>1. cache.fetch.ev[e] = "dma" /\ cache' = [cache EXCEPT !.fetch = FetchBeat(@, e, d)]
    BY <1>2 DEF FetchDma
  <2>2. d \in Desc
    <3>1. cache.fetch.base[e] + cache.fetch.moved[e] \in Slots
      BY <1>0, <2>1, FetchSlot
    <3>2. ring \in [Slots -> Desc]
      BY DEF IInv, TypeOK
    <3> QED
      BY <3>1, <3>2, Zenon
  <2> HIDE DEF d
  <2>3. /\ CacheInv(Desc, cache') /\ cache'.processing = cache.processing
        /\ cache'.nextSeqToWriteback = cache.nextSeqToWriteback
    BY <1>0, <2>1, <2>2, BeatFetchKeeps
  <2> QED
    BY <1>0, <1>2, <2>3, CacheStep DEF FetchDma, restOfCard, driver
<1>3. CASE fetchComplete(e)
  <2>1. Completing(cache.fetch, e) /\ cache' = fetchCompleteGlobal(cache, e)
    BY <1>3 DEF fetchComplete, Completing
  <2>2. /\ CacheInv(Desc, cache') /\ cache'.processing = cache.processing
        /\ cache'.nextSeqToWriteback = cache.nextSeqToWriteback
    BY <1>0, <2>1, FetchCompleteKeeps
  <2>3. rxTick' \in BOOLEAN /\ drainState' \in {"Running", "Draining", "Drained"}
    BY <1>0, <1>3 DEF fetchComplete
  <2> QED
    BY <1>0, <1>3, <2>2, <2>3, CacheStep DEF fetchComplete, restOfCard, driver
<1>4. CASE writebackRegister1(e)
  <2>1. /\ CacheInv(Desc, cache') /\ cache'.processing = cache.processing
        /\ cache'.nextSeqToWriteback = cache.nextSeqToWriteback
    BY <1>0, <1>4, IssueWbKeeps DEF writebackRegister1
  <2> QED
    BY <1>0, <1>4, <2>1, CacheStep DEF writebackRegister1, restOfCard, driver
<1>5. CASE writebackComplete(e)
  <2> DEFINE q == wbCompleteGlobal(cache, e)
             c == ~ rxTick /\ drainState = "Running"
  <2>1. Completing(cache.wb, e) /\ cache' = FetchIf(c, q) /\ CheckDrain(q, engine, FALSE)
    BY <1>5 DEF writebackComplete, Completing
  <2>2. /\ CacheInv(Desc, q) /\ q.processing = cache.processing
        /\ q.nextSeqToWriteback = cache.nextSeqToWriteback
    BY <1>0, <2>1, WbCompleteKeeps
  <2> HIDE DEF q, c
  <2>3. /\ CacheInv(Desc, cache') /\ cache'.processing = q.processing
        /\ cache'.nextSeqToWriteback = q.nextSeqToWriteback
    BY <2>1, <2>2, FetchIfKeeps
  <2>4. rxTick' \in BOOLEAN /\ drainState' \in {"Running", "Draining", "Drained"}
    BY <2>1, CheckDrainType
  <2> QED
    BY <1>0, <1>5, <2>2, <2>3, <2>4, CacheStep DEF writebackComplete, restOfCard, driver
<1> QED
  BY <1>1, <1>2, <1>3, <1>4, <1>5

LEMMA WritebackDmaStep ==
    ASSUME IInv, NEW e \in DescEngines, WritebackDma(e)
    PROVE  IInv'
<1> DEFINE d == cache.wb.buf[e][cache.wb.moved[e] + 1]
           s == cache.wb.base[e] + cache.wb.moved[e]
<1>1. cache.wb.ev[e] = "dma" /\ cache' = [cache EXCEPT !.wb = Beat(@, e)]
      /\ ring' = [ring EXCEPT ![s] = d]
  BY DEF WritebackDma
<1>2. CacheInv(Desc, cache)
  BY BasicTypes
<1>3. d \in Desc
  BY <1>1, <1>2, WritebackValue
<1>4. /\ CacheInv(Desc, cache') /\ cache'.processing = cache.processing
      /\ cache'.nextSeqToWriteback = cache.nextSeqToWriteback
  BY <1>1, <1>2, BeatWbKeeps
<1>5. UNCHANGED <<engine, rxFifo, rxPacket, rxTimer, rxTick, drainState, mbuf, accepted,
                  swRing, rx_tail, nb_rx_hold, delivered, drains>>
  BY Zenon DEF WritebackDma, restOfCard, driver
<1> HIDE DEF d, s
<1>6. EnginesAgree'
  BY <1>4, <1>5, EnginesKept
<1>7. TypeOK'
  <2>1. ring' \in [Slots -> Desc]
    BY <1>1, <1>3 DEF IInv, TypeOK
  <2>2. cache' \in CacheType(Desc)
    BY <1>4 DEF CacheInv
  <2> QED
    BY <1>5, <2>1, <2>2 DEF IInv, TypeOK
<1> QED
  BY <1>4, <1>6, <1>7 DEF IInv

(* What the engines' entries look like while a packet is under way. *)
LEMMA EngineFacts ==
    ASSUME IInv
    PROVE  /\ engine \in [PktEngines -> [pkt : Pkts \cup {NULL}, ev : Stages, pktDone : BOOLEAN]]
           /\ \A e \in PktEngines :
                 engine[e].ev # "idle" => /\ cache.processing[e].desc # NULL
                                          /\ ~ cache.processing[e].done
                                          /\ cache.processing[e].desc \in Desc
                                          /\ engine[e].pkt \in Pkts
<1>1. CacheInv(Desc, cache) /\ EnginesAgree
  BY DEF IInv
<1>2. engine \in [PktEngines -> [pkt : Pkts \cup {NULL}, ev : Stages, pktDone : BOOLEAN]]
  BY DEF IInv, TypeOK
<1>3. \A e \in PktEngines : cache.processing[e].desc \in Desc \cup {NULL}
  BY <1>1, ProcessingFacts
<1>4. \A e \in PktEngines : engine[e].pkt \in Pkts \cup {NULL}
  BY <1>2
<1>5. \A e \in PktEngines :
          /\ engine[e].ev # "idle" => /\ cache.processing[e].desc # NULL
                                      /\ ~ cache.processing[e].done
          /\ engine[e].ev # "idle" => engine[e].pkt # NULL
  BY <1>1, Zenon DEF EnginesAgree
<1> QED
  BY <1>2, <1>3, <1>4, <1>5, Zenon

LEMMA PacketDmaStep ==
    ASSUME IInv, NEW e \in PktEngines, PacketDma(e)
    PROVE  IInv'
<1>1. /\ engine[e].ev = "dma"
      /\ mbuf' = [mbuf EXCEPT ![cache.processing[e].desc.buf] = engine[e].pkt]
      /\ engine' = [engine EXCEPT ![e].ev = "event"]
      /\ UNCHANGED <<cache, rxFifo, rxPacket, rxTick, drainState, rxTimer, ring, accepted,
                     swRing, rx_tail, nb_rx_hold, delivered, drains>>
  BY Zenon DEF PacketDma, driver
<1>2. /\ engine \in [PktEngines -> [pkt : Pkts \cup {NULL}, ev : Stages, pktDone : BOOLEAN]]
      /\ engine[e].pkt \in Pkts
  BY <1>1, EngineFacts
<1>3. engine' \in [PktEngines -> [pkt : Pkts \cup {NULL}, ev : Stages, pktDone : BOOLEAN]]
  BY <1>1, <1>2 DEF Stages
<1>4. mbuf' \in [Bufs -> 0 .. MaxPkts]
  <2>1. engine[e].pkt \in 0 .. MaxPkts
    BY <1>2, RxAssumption DEF Pkts
  <2> QED
    BY <1>1, <2>1 DEF IInv, TypeOK
<1>5. TypeOK'
  BY <1>1, <1>3, <1>4 DEF IInv, TypeOK
<1>6. /\ engine'[e].ev = "event" /\ engine'[e].pkt = engine[e].pkt
      /\ \A f \in PktEngines : f # e => engine'[f] = engine[f]
  BY <1>1, <1>2
<1>7. EnginesAgree'
  <2>1. EnginesAgree /\ cache' = cache
    BY <1>1 DEF IInv
  <2> QED
    BY <1>1, <1>6, <2>1 DEF EnginesAgree
<1>8. CacheInv(Desc, cache)'
  BY <1>1 DEF IInv
<1> QED
  BY <1>5, <1>7, <1>8 DEF IInv

LEMMA OnDMACompleteStep ==
    ASSUME IInv, NEW e \in PktEngines, onDMAComplete(e)
    PROVE  IInv'
<1> DEFINE d   == [cache.processing[e].desc EXCEPT !.dd = TRUE]
           m   == FinishDesc(cache, e, d)
           q   == manageUsedCache(m)
           eng == [engine EXCEPT ![e] = [pkt |-> NULL, ev |-> "idle", pktDone |-> TRUE]]
           p   == cache.processing
<1>1. /\ engine[e].ev = "event" /\ engine' = eng /\ cache' = q
      /\ rxTimer' = (rxTimer \/ RxIntDelay)
      /\ CheckDrain(q, eng, TRUE)
      /\ UNCHANGED <<rxFifo, rxPacket, ring, mbuf, accepted, swRing, rx_tail, nb_rx_hold,
                     delivered, drains>>
  BY Zenon DEF onDMAComplete, driver
<1>2. /\ engine \in [PktEngines -> [pkt : Pkts \cup {NULL}, ev : Stages, pktDone : BOOLEAN]]
      /\ p[e].desc # NULL /\ p[e].desc \in Desc
  BY <1>1, EngineFacts
<1>3. d \in Desc
  BY <1>2 DEF Desc
<1>4. CacheInv(Desc, cache)
  BY BasicTypes
<1> HIDE DEF d
<1>5. /\ CacheInv(Desc, m)
      /\ m.processing = [p EXCEPT ![e] = [desc |-> d, seqIdx |-> p[e].seqIdx, done |-> TRUE]]
  BY <1>2, <1>3, <1>4, NullIsNoDesc, FinishDescKeeps
<1> HIDE DEF m
<1>6. /\ CacheInv(Desc, q)
      /\ \A f \in PktEngines : \/ q.processing[f] = m.processing[f]
                               \/ m.processing[f].done /\ q.processing[f] = NoEntry
      /\ \A f \in PktEngines :
            q.processing[f].done => q.processing[f].seqIdx # q.nextSeqToWriteback
  BY <1>5, NullIsNoDesc, ManageKeeps
<1> HIDE DEF q
<1>7. /\ engine' \in [PktEngines -> [pkt : Pkts \cup {NULL}, ev : Stages, pktDone : BOOLEAN]]
      /\ engine'[e].ev = "idle"
      /\ \A f \in PktEngines : f # e => engine'[f] = engine[f]
  BY <1>1, <1>2 DEF Stages
<1>8. /\ m.processing[e].done
      /\ \A f \in PktEngines : f # e => m.processing[f] = p[f]
  <2>1. p \in [PktEngines -> [desc : Desc \cup {NULL}, seqIdx : Nat, done : BOOLEAN]]
    BY <1>4, ProcessingFacts
  <2> HIDE DEF p
  <2> QED
    BY <1>5, <2>1
<1> HIDE DEF eng
<1>9. EnginesAgree'
  <2>1. ProcessingInOrder(cache')
    BY <1>1, <1>6 DEF CacheInv
  <2>2. /\ NoEntry.desc = NULL /\ ~ NoEntry.done
    BY DEF NoEntry
  <2>3. \A f \in PktEngines :
            /\ engine[f].ev # "idle" <=> p[f].desc # NULL /\ ~ p[f].done
            /\ engine[f].ev # "idle" => engine[f].pkt # NULL
    BY Zenon DEF IInv, EnginesAgree
  <2> HIDE DEF p
  <2>4. ~ (q.processing[e].desc # NULL /\ ~ q.processing[e].done)
    BY <1>6, <1>8, <2>2, Zenon
  <2>5. ASSUME NEW f \in PktEngines, f # e
        PROVE  /\ engine'[f].ev # "idle" <=>
                     q.processing[f].desc # NULL /\ ~ q.processing[f].done
               /\ engine'[f].ev # "idle" => engine'[f].pkt # NULL
    <3>1. engine'[f] = engine[f] /\ m.processing[f] = p[f]
      BY <1>7, <1>8, <2>5
    <3>2. CASE q.processing[f] = m.processing[f]
      BY <2>3, <3>1, <3>2, Zenon
    <3>3. CASE m.processing[f].done /\ q.processing[f] = NoEntry
      BY <2>2, <2>3, <3>1, <3>3, Zenon
    <3> QED
      BY <1>6, <3>2, <3>3
  <2>6. \A f \in PktEngines :
            /\ engine'[f].ev # "idle" <=>
                  q.processing[f].desc # NULL /\ ~ q.processing[f].done
            /\ engine'[f].ev # "idle" => engine'[f].pkt # NULL
    BY <1>7, <2>4, <2>5, Zenon
  <2> QED
    BY <1>1, <1>6, <2>1, <2>6, Zenon DEF EnginesAgree
<1>10. rxTick' \in BOOLEAN /\ drainState' \in {"Running", "Draining", "Drained"}
  BY <1>1, CheckDrainType
<1>11. rxTimer' \in BOOLEAN
  BY <1>1, BasicTypes, RxAssumption
<1>12. TypeOK'
  <2>1. cache' \in CacheType(Desc)
    BY <1>1, <1>6 DEF CacheInv
  <2>2. UNCHANGED <<rxFifo, rxPacket, ring, mbuf, accepted, swRing, rx_tail, nb_rx_hold,
                    delivered, drains>>
    BY <1>1
  <2> QED
    BY <1>7, <1>10, <1>11, <2>1, <2>2 DEF IInv, TypeOK
<1> QED
  BY <1>1, <1>6, <1>9, <1>12 DEF IInv

LEMMA RdtrStep ==
    ASSUME IInv, rdtrProcess
    PROVE  IInv'
<1>1. /\ CacheInv(Desc, cache) /\ rxTick \in BOOLEAN
      /\ drainState \in {"Running", "Draining", "Drained"} /\ nb_rx_hold \in Nat
  BY BasicTypes
<1>2. /\ CacheInv(Desc, cache') /\ cache'.processing = cache.processing
      /\ cache'.nextSeqToWriteback = cache.nextSeqToWriteback
  BY <1>1, WthreshMaskOK, WritebackKeeps DEF rdtrProcess
<1> QED
  BY <1>1, <1>2, CacheStep DEF rdtrProcess, driver

LEMMA DrainSteps ==
    ASSUME IInv, drain \/ drainResume
    PROVE  IInv'
<1>1. UNCHANGED <<cache, engine, rxFifo, rxPacket, rxTimer, ring, mbuf, accepted, swRing,
                  rx_tail, nb_rx_hold, delivered>>
  BY Zenon DEF drain, drainResume, driver
<1>2. rxTick' \in BOOLEAN /\ drainState' \in {"Running", "Draining", "Drained"}
  BY DEF drain, drainResume
<1>3. drains' \in 0 .. MaxDrains
  BY RxAssumption DEF drain, drainResume, IInv, TypeOK
<1>4. TypeOK'
  BY <1>1, <1>2, <1>3 DEF IInv, TypeOK
<1> QED
  BY <1>1, <1>4, CacheSame

LEMMA EthRxPktStep ==
    ASSUME IInv, ethRxPkt
    PROVE  IInv'
<1>1. UNCHANGED <<cache, engine, rxPacket, drainState, rxTimer, ring, mbuf, swRing, rx_tail,
                  nb_rx_hold, delivered, drains>>
  BY Zenon DEF ethRxPkt, driver
<1>2. rxTick' \in BOOLEAN
  BY DEF ethRxPkt
<1>3. rxFifo' \in Seq(Pkts) /\ accepted' \in 0 .. MaxPkts
  <2>1. rxFifo \in Seq(Pkts) /\ accepted \in 0 .. MaxPkts /\ accepted < MaxPkts
    BY DEF IInv, TypeOK, ethRxPkt
  <2>2. accepted + 1 \in Pkts /\ accepted + 1 \in 0 .. MaxPkts
    BY <2>1, RxAssumption DEF Pkts
  <2>3. Append(rxFifo, accepted + 1) \in Seq(Pkts)
    BY <2>1, <2>2
  <2> QED
    BY <2>1, <2>2, <2>3, Zenon DEF ethRxPkt
<1>4. TypeOK'
  BY <1>1, <1>2, <1>3 DEF IInv, TypeOK
<1> QED
  BY <1>1, <1>4, CacheSame

-----------------------------------------------------------------------------
(* The tick: first what the state machine does with the cache and the      *)
(* engines, then the FIFO.                                                 *)

LEMMA AfterPacketKeeps ==
    ASSUME IInv, AfterPacket
    PROVE  /\ CacheInv(Desc, cache') /\ cache'.processing = cache.processing
           /\ cache'.nextSeqToWriteback = cache.nextSeqToWriteback
<1> DEFINE left == descLeft(cache)
           K(q) == /\ CacheInv(Desc, q) /\ q.processing = cache.processing
                   /\ q.nextSeqToWriteback = cache.nextSeqToWriteback
<1>1. K(cache)
  BY BasicTypes
<1>2. ASSUME NEW q, K(q), NEW c, NEW mask \in WbMasks
      PROVE  K(WbIf(c, q, mask))
  BY <1>2, WbIfKeeps
<1>3. ASSUME NEW q, K(q), NEW c
      PROVE  K(FetchIf(c, q))
  BY <1>3, FetchIfKeeps
<1>4. PICK q1 \in {WbIf(left * RdmtsRatio <= DescLen, cache, 0)} :
      \E q2 \in {WbIf(left < LowDescs, q1, 0)} :
      \E q3 \in {WbIf(rxFifo = <<>>, q2, 0)} :
      \E q4 \in {WbIf(left = 0, q3, 0)} :
      \E q5 \in {WbIf(Wthresh <= descUsed(q4), q4, WthreshMask)} :
      \E q6 \in {FetchIf(/\ descUnused(q5) < Pthresh
                         /\ descLeft(q5) - descUnused(q5) > Hthresh, q5)} :
          cache' = FetchIf(descUnused(q6) = 0, q6)
  BY Zenon DEF AfterPacket
<1>5. PICK q2 \in {WbIf(left < LowDescs, q1, 0)} :
      \E q3 \in {WbIf(rxFifo = <<>>, q2, 0)} :
      \E q4 \in {WbIf(left = 0, q3, 0)} :
      \E q5 \in {WbIf(Wthresh <= descUsed(q4), q4, WthreshMask)} :
      \E q6 \in {FetchIf(/\ descUnused(q5) < Pthresh
                         /\ descLeft(q5) - descUnused(q5) > Hthresh, q5)} :
          cache' = FetchIf(descUnused(q6) = 0, q6)
  BY <1>4, Zenon
<1>6. PICK q3 \in {WbIf(rxFifo = <<>>, q2, 0)} :
      \E q4 \in {WbIf(left = 0, q3, 0)} :
      \E q5 \in {WbIf(Wthresh <= descUsed(q4), q4, WthreshMask)} :
      \E q6 \in {FetchIf(/\ descUnused(q5) < Pthresh
                         /\ descLeft(q5) - descUnused(q5) > Hthresh, q5)} :
          cache' = FetchIf(descUnused(q6) = 0, q6)
  BY <1>5, Zenon
<1>7. PICK q4 \in {WbIf(left = 0, q3, 0)} :
      \E q5 \in {WbIf(Wthresh <= descUsed(q4), q4, WthreshMask)} :
      \E q6 \in {FetchIf(/\ descUnused(q5) < Pthresh
                         /\ descLeft(q5) - descUnused(q5) > Hthresh, q5)} :
          cache' = FetchIf(descUnused(q6) = 0, q6)
  BY <1>6, Zenon
<1>8. PICK q5 \in {WbIf(Wthresh <= descUsed(q4), q4, WthreshMask)} :
      \E q6 \in {FetchIf(/\ descUnused(q5) < Pthresh
                         /\ descLeft(q5) - descUnused(q5) > Hthresh, q5)} :
          cache' = FetchIf(descUnused(q6) = 0, q6)
  BY <1>7, Zenon
<1>9. PICK q6 \in {FetchIf(/\ descUnused(q5) < Pthresh
                           /\ descLeft(q5) - descUnused(q5) > Hthresh, q5)} :
          cache' = FetchIf(descUnused(q6) = 0, q6)
  BY <1>8, Zenon
<1> HIDE DEF K, left
<1>10. K(q1)
  <2>1. q1 = WbIf(left * RdmtsRatio <= DescLen, cache, 0)
    BY <1>4
  <2> QED
    BY <1>2, <1>1, <2>1, WthreshMaskOK
<1>11. K(q2)
  <2>1. q2 = WbIf(left < LowDescs, q1, 0)
    BY <1>5
  <2> QED
    BY <1>2, <1>10, <2>1, WthreshMaskOK
<1>12. K(q3)
  <2>1. q3 = WbIf(rxFifo = <<>>, q2, 0)
    BY <1>6
  <2> QED
    BY <1>2, <1>11, <2>1, WthreshMaskOK
<1>13. K(q4)
  <2>1. q4 = WbIf(left = 0, q3, 0)
    BY <1>7
  <2> QED
    BY <1>2, <1>12, <2>1, WthreshMaskOK
<1>14. K(q5)
  BY <1>2, <1>8, <1>13, WthreshMaskOK, Zenon
<1>15. K(q6)
  BY <1>3, <1>9, <1>14, Zenon
<1>16. K(cache')
  BY <1>3, <1>9, <1>15, Zenon
<1> QED
  BY <1>16 DEF K

(* What a tick of the state machine establishes. *)
LEMMA StateMachineKeeps ==
    ASSUME IInv, PacketCompleted \/ writePacketGlobal \/ NothingToWrite
    PROVE  /\ CacheInv(Desc, cache') /\ EnginesAgree'
           /\ engine' \in [PktEngines ->
                             [pkt : Pkts \cup {NULL}, ev : Stages, pktDone : BOOLEAN]]
<1>1. CacheInv(Desc, cache)
  BY BasicTypes
<1>2. engine \in [PktEngines -> [pkt : Pkts \cup {NULL}, ev : Stages, pktDone : BOOLEAN]]
  BY EngineFacts
<1>3. CASE PacketCompleted
  <2> DEFINE e == Lowest(ReadyEngines)
  <2>1. engine' = [engine EXCEPT ![e].pktDone = FALSE] /\ AfterPacket
    BY <1>3 DEF PacketCompleted
  <2> HIDE DEF e
  <2>2. /\ engine' \in [PktEngines ->
                          [pkt : Pkts \cup {NULL}, ev : Stages, pktDone : BOOLEAN]]
        /\ \A f \in PktEngines : engine'[f].ev = engine[f].ev /\ engine'[f].pkt = engine[f].pkt
    BY <1>2, <2>1
  <2>3. /\ CacheInv(Desc, cache') /\ cache'.processing = cache.processing
        /\ cache'.nextSeqToWriteback = cache.nextSeqToWriteback
    BY <2>1, AfterPacketKeeps
  <2>4. EnginesAgree'
    BY <2>2, <2>3, EnginesKept
  <2> QED
    BY <2>2, <2>3, <2>4
<1>4. CASE writePacketGlobal
  <2> DEFINE e == Lowest(FreeEngines)
             h == Head(cache.unused)
             p == cache.processing
             n == cache.nextSeqToProcess
  <2>1. /\ FreeEngines # {} /\ rxPacket # NULL /\ cache.unused # <<>>
        /\ cache' = TakeDesc(cache, e)
        /\ engine' = [engine EXCEPT ![e].pkt = rxPacket, ![e].ev = "dma"]
    BY <1>4 DEF writePacketGlobal
  <2>2. FreeEngines \in SUBSET PktEngines
    BY DEF FreeEngines
  <2>3. e \in FreeEngines
    BY <2>1, <2>2, LowestFound
  <2>4. e \in PktEngines /\ p[e].desc = NULL
    BY <2>3 DEF FreeEngines
  <2> HIDE DEF e
  <2>5. /\ CacheInv(Desc, cache')
        /\ cache'.processing = [p EXCEPT ![e] = [desc |-> h, seqIdx |-> n, done |-> FALSE]]
        /\ h \in Desc
        /\ cache'.nextSeqToWriteback = cache.nextSeqToWriteback
    BY <1>1, <2>1, <2>4, NullIsNoDesc, TakeDescKeeps
  <2>6. rxPacket \in Pkts
    BY <2>1 DEF IInv, TypeOK
  <2>7. /\ engine' \in [PktEngines ->
                          [pkt : Pkts \cup {NULL}, ev : Stages, pktDone : BOOLEAN]]
        /\ engine'[e].ev = "dma" /\ engine'[e].pkt = rxPacket
        /\ \A f \in PktEngines : f # e => engine'[f] = engine[f]
    BY <1>2, <2>1, <2>4, <2>6 DEF Stages
  <2>8. p \in [PktEngines -> [desc : Desc \cup {NULL}, seqIdx : Nat, done : BOOLEAN]]
    BY <1>1, ProcessingFacts
  <2> HIDE DEF h, n, p
  <2>9. /\ cache'.processing[e].desc = h /\ ~ cache'.processing[e].done
        /\ \A f \in PktEngines : f # e => cache'.processing[f] = p[f]
    BY <2>4, <2>5, <2>8
  <2>10. EnginesAgree'
    <3>1. ProcessingInOrder(cache')
      BY <2>5 DEF CacheInv
    <3>2. h # NULL
      BY <2>5, NullIsNoDesc
    <3>3. \A f \in PktEngines :
              /\ engine[f].ev # "idle" <=> p[f].desc # NULL /\ ~ p[f].done
              /\ engine[f].ev # "idle" => engine[f].pkt # NULL
              /\ p[f].done => p[f].seqIdx # cache.nextSeqToWriteback
      BY Zenon DEF IInv, EnginesAgree, p
    <3>4. ASSUME NEW f \in PktEngines
          PROVE  /\ engine'[f].ev # "idle" <=>
                       cache'.processing[f].desc # NULL /\ ~ cache'.processing[f].done
                 /\ engine'[f].ev # "idle" => engine'[f].pkt # NULL
                 /\ cache'.processing[f].done =>
                       cache'.processing[f].seqIdx # cache'.nextSeqToWriteback
      <4>1. CASE f = e
        BY <2>1, <2>7, <2>9, <3>2, <4>1
      <4>2. CASE f # e
        <5>1. engine'[f] = engine[f] /\ cache'.processing[f] = p[f]
          BY <2>7, <2>9, <4>2
        <5> QED
          BY <2>5, <3>3, <5>1, Zenon
      <4> QED
        BY <4>1, <4>2
    <3> QED
      BY <3>1, <3>4, Zenon DEF EnginesAgree
  <2> QED
    BY <2>5, <2>7, <2>10
<1>5. CASE NothingToWrite
  <2>1. engine' = engine /\ (cache' = cache \/ cache' = fetchDescriptorsGlobal(cache))
    BY <1>5, Zenon DEF NothingToWrite
  <2>2. /\ CacheInv(Desc, cache') /\ cache'.processing = cache.processing
        /\ cache'.nextSeqToWriteback = cache.nextSeqToWriteback
    BY <1>1, <2>1, FetchKeeps
  <2>3. EnginesAgree'
    BY <2>1, <2>2, EnginesKept
  <2> QED
    BY <1>2, <2>1, <2>2, <2>3
<1> QED
  BY <1>3, <1>4, <1>5

LEMMA TickStep ==
    ASSUME IInv, tick
    PROVE  IInv'
<1>1. PacketCompleted \/ writePacketGlobal \/ NothingToWrite
  BY Zenon DEF tick
<1>2. /\ CacheInv(Desc, cache') /\ EnginesAgree'
      /\ engine' \in [PktEngines -> [pkt : Pkts \cup {NULL}, ev : Stages, pktDone : BOOLEAN]]
  BY <1>1, StateMachineKeeps
<1>3. UNCHANGED <<rxTick, drainState, rxTimer, ring, mbuf, accepted, swRing, rx_tail,
                  nb_rx_hold, delivered, drains>>
  BY Zenon DEF tick, driver
<1>4. rxFifo' \in Seq(Pkts) /\ rxPacket' \in Pkts \cup {NULL}
  <2>1. rxFifo \in Seq(Pkts) /\ rxPacket \in Pkts \cup {NULL}
    BY DEF IInv, TypeOK
  <2>2. ASSUME NEW slot \in Pkts \cup {NULL}, rxFifotoRxDesc(slot)
        PROVE  rxFifo' \in Seq(Pkts) /\ rxPacket' \in Pkts \cup {NULL}
    <3>1. CASE slot = NULL /\ rxFifo # <<>>
      <4>1. rxPacket' = Head(rxFifo) /\ rxFifo' = Tail(rxFifo)
        BY <2>2, <3>1 DEF rxFifotoRxDesc
      <4> QED
        BY <2>1, <3>1, <4>1
    <3>2. CASE ~ (slot = NULL /\ rxFifo # <<>>)
      <4>1. rxPacket' = slot /\ rxFifo' = rxFifo
        BY <2>2, <3>2 DEF rxFifotoRxDesc
      <4> QED
        BY <2>1, <4>1
    <3> QED
      BY <3>1, <3>2
  <2>3. rxFifotoRxDesc(rxPacket) \/ rxFifotoRxDesc(NULL)
    BY Zenon DEF tick
  <2> QED
    BY <2>1, <2>2, <2>3
<1>5. cache' \in CacheType(Desc)
  BY <1>2 DEF CacheInv
<1>6. TypeOK'
  BY <1>2, <1>3, <1>4, <1>5 DEF IInv, TypeOK
<1> QED
  BY <1>2, <1>6 DEF IInv

-----------------------------------------------------------------------------
(* The driver. *)

LEMMA RecvStep ==
    ASSUME IInv, eth_em_recv_pkts
    PROVE  IInv'
<1> DEFINE nmb == DescLen + Len(delivered)
<1>1. /\ nmb \in Bufs
      /\ delivered' = Append(delivered, mbuf[swRing[rx_tail]])
      /\ swRing' = [swRing EXCEPT ![rx_tail] = nmb]
      /\ ring' = [ring EXCEPT ![rx_tail] = Armed(nmb)]
      /\ rx_tail' = Wrap(rx_tail + 1)
      /\ nb_rx_hold' = nb_rx_hold + 1
      /\ UNCHANGED <<cache, engine, rxFifo, rxPacket, rxTick, drainState, rxTimer, mbuf,
                     accepted, drains>>
  BY Zenon DEF eth_em_recv_pkts, card
<1> HIDE DEF nmb
<1>2. /\ ring \in [Slots -> Desc] /\ swRing \in [Slots -> Bufs]
      /\ mbuf \in [Bufs -> 0 .. MaxPkts] /\ rx_tail \in Slots /\ nb_rx_hold \in Nat
      /\ delivered \in Seq(0 .. MaxPkts)
  BY DEF IInv, TypeOK
<1>3. ring' \in [Slots -> Desc] /\ swRing' \in [Slots -> Bufs]
  <2>1. Armed(nmb) \in Desc
    BY <1>1, ArmedIsDesc
  <2> QED
    BY <1>1, <1>2, <2>1
<1>4. delivered' \in Seq(0 .. MaxPkts)
  <2>1. mbuf[swRing[rx_tail]] \in 0 .. MaxPkts
    BY <1>2
  <2> QED
    BY <1>1, <1>2, <2>1
<1>5. rx_tail' \in Slots
  <2>1. rx_tail + 1 <= DescLen
    BY <1>2, DescLenAssumption DEF Slots
  <2> QED
    BY <1>1, <1>2, <2>1, WrapIsMod
<1>6. nb_rx_hold' \in Nat
  BY <1>1, <1>2
<1>7. TypeOK'
  <2>1. UNCHANGED <<cache, engine, rxFifo, rxPacket, rxTick, drainState, rxTimer, mbuf,
                    accepted, drains>>
    BY <1>1
  <2> QED
    BY <1>3, <1>4, <1>5, <1>6, <2>1 DEF IInv, TypeOK
<1> QED
  BY <1>1, <1>7, CacheSame

LEMMA WriteRDTStep ==
    ASSUME IInv, WriteRDT
    PROVE  IInv'
<1> DEFINE t == IF rx_tail = 0 THEN DescLen - 1 ELSE rx_tail - 1
           q == [cache EXCEPT !.tail = t]
           c == drainState = "Running"
<1>1. /\ CacheInv(Desc, cache) /\ rxTick \in BOOLEAN /\ rxTimer \in BOOLEAN
      /\ drainState \in {"Running", "Draining", "Drained"}
  BY BasicTypes
<1>2. t \in Slots
  <2>1. rx_tail \in Slots
    BY DEF IInv, TypeOK
  <2> QED
    BY <2>1, DescLenAssumption DEF Slots
<1>3. /\ cache' = FetchIf(c, q) /\ nb_rx_hold' = 0
      /\ UNCHANGED <<engine, rxFifo, rxPacket, rxTimer, rxTick, drainState, ring, mbuf, swRing,
                     rx_tail, accepted, delivered, drains>>
  BY Zenon DEF WriteRDT, restOfCard
<1> HIDE DEF t, c
<1>4. /\ CacheInv(Desc, q) /\ q.processing = cache.processing
      /\ q.nextSeqToWriteback = cache.nextSeqToWriteback
  BY <1>1, <1>2, TailKeeps
<1> HIDE DEF q
<1>5. /\ CacheInv(Desc, cache') /\ cache'.processing = q.processing
      /\ cache'.nextSeqToWriteback = q.nextSeqToWriteback
  BY <1>3, <1>4, FetchIfKeeps
<1> QED
  BY <1>1, <1>3, <1>4, <1>5, CacheStep

-----------------------------------------------------------------------------
(* IInv is inductive. *)
LEMMA NextIInv == IInv /\ [Next]_vars => IInv'
<1> SUFFICES ASSUME IInv, [Next]_vars PROVE IInv'
  OBVIOUS
<1>1. CASE ethRxPkt
  BY <1>1, EthRxPktStep
<1>2. CASE tick
  BY <1>2, TickStep
<1>3. CASE rdtrProcess
  BY <1>3, RdtrStep
<1>4. CASE drain \/ drainResume
  BY <1>4, DrainSteps
<1>5. CASE \E e \in PktEngines : PacketDma(e) \/ onDMAComplete(e)
  BY <1>5, PacketDmaStep, OnDMACompleteStep
<1>6. CASE \E e \in DescEngines : \/ fetchRegister1(e) \/ FetchDma(e) \/ fetchComplete(e)
                                  \/ writebackRegister1(e) \/ WritebackDma(e)
                                  \/ writebackComplete(e)
  BY <1>6, DescDmaSteps, WritebackDmaStep
<1>7. CASE eth_em_recv_pkts
  BY <1>7, RecvStep
<1>8. CASE WriteRDT
  BY <1>8, WriteRDTStep
<1>9. CASE UNCHANGED vars
  <2>1. TypeOK' /\ UNCHANGED <<cache, engine>>
    BY <1>9 DEF vars, IInv, TypeOK
  <2> QED
    BY <2>1, CacheSame
<1> QED
  BY <1>1, <1>2, <1>3, <1>4, <1>5, <1>6, <1>7, <1>8, <1>9, Zenon DEF Next

(* The invariant the other results rest on: the types, the agreement of    *)
(* the descriptor cache with its two banks of engines (CacheInv), and the  *)
(* agreement of the packet engines with it hold together after every       *)
(* handler of the card, every answer of memory and every call of the       *)
(* driver.                                                                 *)
THEOREM RxInvariant == Spec => []IInv
<1> QED
  BY InitIInv, NextIInv, PTL DEF Spec

(* The state of the card, the ring and the driver keeps its types: in      *)
(* particular no pointer leaves the ring, and no handler reads a null      *)
(* descriptor or packet.                                                   *)
THEOREM RxTypeCorrect == Spec => []TypeOK
<1>1. IInv => TypeOK
  BY DEF IInv
<1> QED
  BY <1>1, RxInvariant, PTL

(* The ring pointers and the counters of the cache agree after every       *)
(* handler: what writebackGlobal, wbCompleteGlobal and fetchCompleteGlobal *)
(* compute from them is what is in the cache, and it never overflows.      *)
THEOREM RxPointersAgree == Spec => []RingPointersAgree
<1>1. IInv => RingPointersAgree
  BY DEF IInv, CacheInv, RingPointersAgree
<1> QED
  BY <1>1, RxInvariant, PTL

(* The jobs of both banks of descriptor engines are retired in ring order  *)
(* without a gap, whatever the order in which the engines finish.          *)
THEOREM RxBanksInOrder == Spec => []BanksInOrder
<1>1. IInv => BanksInOrder
  BY DEF IInv, CacheInv, BanksInOrder
<1> QED
  BY <1>1, RxInvariant, PTL

(* Packets take descriptors and descriptors become used in one order, and  *)
(* a packet engine is busy exactly while its descriptor is unfinished.     *)
THEOREM RxEnginesAgree == Spec => []EnginesAgree
<1>1. IInv => EnginesAgree
  BY DEF IInv
<1> QED
  BY <1>1, RxInvariant, PTL

-----------------------------------------------------------------------------
(* Who owns what.  Descriptors, buffers and packets have one numbering:    *)
(* descriptor b of the ring's rounds is armed with buffer b, which is to   *)
(* receive packet b + 1.                                                   *)

ArmedOf == [b \in Nat |-> Armed(b)]
UsedOf  == [b \in Nat |-> [buf |-> b, dd |-> TRUE]]

(* The driver has told the card of the descriptors before this one. *)
Given == (Len(delivered) - nb_rx_hold) + (DescLen - 1)

(* What the card holds is in order, and it asks for nothing it was not     *)
(* given.                                                                  *)
CardKept ==
    /\ nb_rx_hold <= Len(delivered)
    /\ Ordered(cache, ArmedOf, UsedOf, Given)

(* The ring holds the DescLen descriptors from the driver's next one on,   *)
(* each with a status exactly if the card has written it back, and the     *)
(* driver has its buffers; all descriptors before were written back.       *)
RingKept ==
    /\ \A b \in Len(delivered) .. (Len(delivered) + DescLen) - 1 :
          /\ ring[b % DescLen] = [buf |-> b, dd |-> Written(cache, b)]
          /\ swRing[b % DescLen] = b
    /\ \A b \in 0 .. Len(delivered) - 1 : Written(cache, b)
    /\ rx_tail = Len(delivered) % DescLen

(* The packets that no engine has taken, when the engines have taken n:    *)
(* pkt is the queue's packet and f the FIFO.                               *)
Waiting(pkt) == IF pkt = NULL THEN 0 ELSE 1

FifoInOrder(n, acc, pkt, f) ==
    /\ pkt # NULL => pkt = n + 1
    /\ \A i \in 1 .. Len(f) : f[i] = (n + Waiting(pkt)) + i
    /\ acc = (n + Waiting(pkt)) + Len(f)

FifoKept == FifoInOrder(cache.nextSeqToProcess, accepted, rxPacket, rxFifo)

(* A busy engine has the packet of its descriptor, and a finished one has  *)
(* put it into the descriptor's buffer, where it stays.                    *)
PacketsKept ==
    /\ \A e \in PktEngines :
          engine[e].ev # "idle" => engine[e].pkt = cache.processing[e].seqIdx + 1
    /\ \A b \in 0 .. cache.nextSeqToWriteback - 1 : mbuf[b] = b + 1
    /\ \A e \in PktEngines :
          /\ cache.processing[e].desc # NULL
          /\ cache.processing[e].done \/ engine[e].ev = "event"
          => mbuf[cache.processing[e].seqIdx] = cache.processing[e].seqIdx + 1

RInv == CardKept /\ RingKept /\ FifoKept /\ PacketsKept

(* What no step may do to the cache: it may not take back a retirement, nor*)
(* let the head pass a descriptor in the step that writes it back.         *)
HeadKept ==
    /\ cache.nextSeqToWriteback <= cache'.nextSeqToWriteback
    /\ \/ cache'.used = cache.used
       \/ \A b \in Nat : Written(cache', b) <=> Written(cache, b)

(* The numbers, in their order around the ring. *)
LEMMA Numbers ==
    ASSUME IInv, RInv
    PROVE  /\ CacheInv(Desc, cache) /\ CacheInOrder(cache, ArmedOf, UsedOf)
           /\ Ordered(cache, ArmedOf, UsedOf, Given)
           /\ Len(delivered) \in Nat /\ nb_rx_hold \in Nat /\ Given \in Nat
           /\ cache.nextSeqToWriteback \in Nat /\ cache.nextSeqToProcess \in Nat
           /\ CacheSeq(cache) \in Nat /\ FetchSeq(cache) \in Nat
           /\ Len(delivered) <= cache.nextSeqToWriteback
           /\ cache.nextSeqToWriteback <= cache.nextSeqToProcess
           /\ cache.nextSeqToProcess <= CacheSeq(cache)
           /\ CacheSeq(cache) <= FetchSeq(cache)
           /\ FetchSeq(cache) <= Given /\ Given <= Len(delivered) + (DescLen - 1)
<1> DEFINE D == Len(delivered)
           w == cache.nextSeqToWriteback
<1>1. CacheInv(Desc, cache) /\ nb_rx_hold \in Nat
  BY BasicTypes
<1>2. D \in Nat
  <2>1. delivered \in Seq(0 .. MaxPkts)
    BY DEF IInv, TypeOK
  <2> QED
    BY <2>1
<1>3. /\ nb_rx_hold <= D /\ Ordered(cache, ArmedOf, UsedOf, Given)
      /\ CacheInOrder(cache, ArmedOf, UsedOf) /\ FetchSeq(cache) <= Given
  BY DEF RInv, CardKept, Ordered, WithinGiven
<1>4. /\ CacheSeq(cache) \in Nat /\ FetchSeq(cache) \in Nat
      /\ w <= cache.nextSeqToProcess
      /\ cache.nextSeqToProcess <= CacheSeq(cache) /\ CacheSeq(cache) <= FetchSeq(cache)
  BY <1>1, <1>3, OrderFacts
<1>5. w \in Nat /\ cache.nextSeqToProcess \in Nat
  BY <1>1, ProcessingFacts
<1>6. \A b \in 0 .. D - 1 : Written(cache, b)
  BY DEF RInv, RingKept
<1>7. Given \in Nat /\ Given <= D + (DescLen - 1)
  BY <1>1, <1>2, <1>3, DescLenAssumption DEF Given
<1> HIDE DEF D, w
<1>8. D <= w
  <2>1. CASE D = 0
    BY <1>5, <2>1
  <2>2. CASE D # 0
    <3>1. D - 1 \in 0 .. D - 1 /\ D - 1 \in Nat
      BY <1>2, <2>2
    <3>2. D - 1 < w
      BY <1>1, <1>3, <1>6, <3>1, WrittenBound DEF w
    <3> QED
      BY <1>2, <1>5, <3>1, <3>2
  <2> QED
    BY <2>1, <2>2
<1> QED
  BY <1>1, <1>2, <1>3, <1>4, <1>5, <1>7, <1>8 DEF D, w

(* The ring is as it was when nobody wrote to it and nothing was written   *)
(* back.                                                                   *)
LEMMA RingSame ==
    ASSUME IInv, RInv, \A b \in Nat : Written(cache', b) <=> Written(cache, b),
           UNCHANGED <<ring, swRing, rx_tail, delivered>>
    PROVE  RingKept'
<1> DEFINE D == Len(delivered)
           W == D .. (D + DescLen) - 1
           P == 0 .. D - 1
<1>1. W \in SUBSET Nat /\ P \in SUBSET Nat
  BY Numbers, DescLenAssumption
<1>2. /\ \A b \in W : /\ ring[b % DescLen] = [buf |-> b, dd |-> Written(cache, b)]
                      /\ swRing[b % DescLen] = b
      /\ \A b \in P : Written(cache, b)
      /\ rx_tail = D % DescLen
  BY DEF RInv, RingKept
<1>3. delivered' = delivered /\ ring' = ring /\ swRing' = swRing /\ rx_tail' = rx_tail
  OBVIOUS
<1>4. Len(delivered') = D
  BY <1>3
<1> HIDE DEF D, W, P
<1>5. \A b \in W : Written(cache', b) = Written(cache, b)
  <2> SUFFICES ASSUME NEW b \in W PROVE Written(cache', b) = Written(cache, b)
    OBVIOUS
  <2>1. Written(cache', b) <=> Written(cache, b)
    BY <1>1
  <2>2. Written(cache', b) \in BOOLEAN /\ Written(cache, b) \in BOOLEAN
    BY DEF Written, Reached
  <2> QED
    BY <2>1, <2>2
<1>6. \A b \in P : Written(cache', b)
  BY <1>1, <1>2
<1>7. \A b \in W : /\ ring'[b % DescLen] = [buf |-> b, dd |-> Written(cache', b)]
                   /\ swRing'[b % DescLen] = b
  BY <1>2, <1>3, <1>5, Zenon
<1>8. rx_tail' = Len(delivered') % DescLen
  BY <1>2, <1>3, <1>4, Zenon
<1> QED
  BY <1>4, <1>6, <1>7, <1>8 DEF RingKept, W, P

(* The packets are where they were when nothing happened to them. *)
LEMMA PacketsSame ==
    ASSUME PacketsKept,
           cache'.processing = cache.processing,
           cache'.nextSeqToWriteback = cache.nextSeqToWriteback,
           \A e \in PktEngines : engine'[e].ev = engine[e].ev /\ engine'[e].pkt = engine[e].pkt,
           mbuf' = mbuf
    PROVE  PacketsKept'
BY Zenon DEF PacketsKept

(* A step of the card that moves no packet and writes nothing back. *)
LEMMA QuietStep ==
    ASSUME IInv, RInv, Ordered(cache', ArmedOf, UsedOf, Given'), SameStory(cache, cache'),
           nb_rx_hold' <= Len(delivered'),
           UNCHANGED <<engine, rxFifo, rxPacket, ring, swRing, mbuf, rx_tail, accepted,
                       delivered>>
    PROVE  RInv' /\ HeadKept
<1>1. /\ cache'.nextSeqToProcess = cache.nextSeqToProcess
      /\ cache'.nextSeqToWriteback = cache.nextSeqToWriteback
      /\ cache'.processing = cache.processing
      /\ \A b \in Nat : Written(cache', b) <=> Written(cache, b)
  BY Zenon DEF SameStory
<1>2. CardKept'
  BY DEF CardKept
<1>3. RingKept'
  BY <1>1, RingSame
<1>4. FifoKept'
  BY <1>1 DEF RInv, FifoKept, FifoInOrder
<1>5. PacketsKept'
  BY <1>1, PacketsSame DEF RInv
<1>6. HeadKept
  BY <1>1, Numbers DEF HeadKept
<1> QED
  BY <1>2, <1>3, <1>4, <1>5, <1>6 DEF RInv

(* The same, for a step that leaves the driver alone. *)
LEMMA QuietCardStep ==
    ASSUME IInv, RInv, Ordered(cache', ArmedOf, UsedOf, Given), SameStory(cache, cache'),
           UNCHANGED <<engine, rxFifo, rxPacket, ring, swRing, mbuf, rx_tail, nb_rx_hold,
                       accepted, delivered>>
    PROVE  RInv' /\ HeadKept
<1>1. Given' = Given /\ nb_rx_hold' <= Len(delivered')
  BY DEF Given, RInv, CardKept
<1>2. Ordered(cache', ArmedOf, UsedOf, Given')
  BY <1>1
<1> QED
  BY <1>1, <1>2, QuietStep

LEMMA RestKept ==
    ASSUME IInv, RInv,
           UNCHANGED <<cache, engine, rxFifo, rxPacket, ring, swRing, mbuf, rx_tail,
                       nb_rx_hold, accepted, delivered>>
    PROVE  RInv' /\ HeadKept
<1>1. Ordered(cache', ArmedOf, UsedOf, Given) /\ SameStory(cache, cache')
  BY Numbers, SameStorySelf
<1> QED
  BY <1>1, QuietCardStep

LEMMA RdtrOwns ==
    ASSUME IInv, RInv, rdtrProcess
    PROVE  RInv' /\ HeadKept
<1>1. /\ cache' = writebackGlobal(cache, 0)
      /\ UNCHANGED <<engine, rxFifo, rxPacket, ring, swRing, mbuf, rx_tail, nb_rx_hold,
                     accepted, delivered>>
  BY DEF rdtrProcess, driver
<1>2. Ordered(cache', ArmedOf, UsedOf, Given) /\ SameStory(cache, cache')
  BY <1>1, Numbers, WthreshMaskOK, WritebackOrder
<1> QED
  BY <1>1, <1>2, QuietCardStep

LEMMA RegisterOwns ==
    ASSUME IInv, RInv, NEW e \in DescEngines, fetchRegister1(e) \/ writebackRegister1(e)
    PROVE  RInv' /\ HeadKept
<1>1. /\ \/ cache' = [cache EXCEPT !.fetch = Issue(@, e)]
         \/ cache' = [cache EXCEPT !.wb = Issue(@, e)]
      /\ UNCHANGED <<engine, rxFifo, rxPacket, ring, swRing, mbuf, rx_tail, nb_rx_hold,
                     accepted, delivered>>
  BY DEF fetchRegister1, writebackRegister1, driver, restOfCard
<1>2. Ordered(cache', ArmedOf, UsedOf, Given) /\ SameStory(cache, cache')
  BY <1>1, Numbers, IssueWbOrder, IssueFetchOrder
<1> QED
  BY <1>1, <1>2, QuietCardStep

LEMMA FetchCompleteOwns ==
    ASSUME IInv, RInv, NEW e \in DescEngines, fetchComplete(e)
    PROVE  RInv' /\ HeadKept
<1>1. /\ cache.fetch.ev[e] = "event" /\ cache' = fetchCompleteGlobal(cache, e)
      /\ UNCHANGED <<engine, rxFifo, rxPacket, ring, swRing, mbuf, rx_tail, nb_rx_hold,
                     accepted, delivered>>
  BY DEF fetchComplete, driver, restOfCard
<1>2. Ordered(cache', ArmedOf, UsedOf, Given) /\ SameStory(cache, cache')
  BY <1>1, Numbers, FetchCompleteOrder DEF Completing
<1> QED
  BY <1>1, <1>2, QuietCardStep

LEMMA WritebackCompleteOwns ==
    ASSUME IInv, RInv, NEW e \in DescEngines, writebackComplete(e)
    PROVE  RInv' /\ HeadKept
<1> DEFINE q == wbCompleteGlobal(cache, e)
           c == ~ rxTick /\ drainState = "Running"
<1>1. /\ cache.wb.ev[e] = "event" /\ cache' = FetchIf(c, q)
      /\ UNCHANGED <<engine, rxFifo, rxPacket, ring, swRing, mbuf, rx_tail, nb_rx_hold,
                     accepted, delivered>>
  BY Zenon DEF writebackComplete, driver, restOfCard
<1> HIDE DEF c
<1>2. CacheInv(Desc, q)
  BY <1>1, Numbers, WbCompleteKeeps DEF Completing
<1>3. Ordered(q, ArmedOf, UsedOf, Given) /\ SameStory(cache, q)
  BY <1>1, Numbers, WbCompleteOrder DEF Completing
<1> HIDE DEF q
<1>4. Ordered(cache', ArmedOf, UsedOf, Given) /\ SameStory(q, cache')
  BY <1>1, <1>2, <1>3, Numbers, FetchIfOrder
<1>5. SameStory(cache, cache')
  BY <1>3, <1>4, SameStoryTrans
<1> QED
  BY <1>1, <1>4, <1>5, QuietCardStep

(* A fetch reads a descriptor that the driver has armed and the card has   *)
(* not used yet.                                                           *)
LEMMA FetchDmaOwns ==
    ASSUME IInv, RInv, NEW e \in DescEngines, FetchDma(e)
    PROVE  RInv' /\ HeadKept
<1> DEFINE slot == cache.fetch.base[e] + cache.fetch.moved[e]
           D == Len(delivered)
<1>1. /\ cache.fetch.ev[e] = "dma"
      /\ cache' = [cache EXCEPT !.fetch = FetchBeat(@, e, ring[slot])]
      /\ UNCHANGED <<engine, rxFifo, rxPacket, ring, swRing, mbuf, rx_tail, nb_rx_hold,
                     accepted, delivered>>
  BY DEF FetchDma, driver, restOfCard
<1>2. PICK p \in Nat :
          /\ CacheSeq(cache) <= p /\ p < FetchSeq(cache) /\ slot = p % DescLen
          /\ \A d \in Desc : d = ArmedOf[p] =>
                LET r == [cache EXCEPT !.fetch = FetchBeat(@, e, d)] IN
                Ordered(r, ArmedOf, UsedOf, Given) /\ SameStory(cache, r)
  BY <1>1, Numbers, BeatFetchOrder
<1>3. p \in D .. (D + DescLen) - 1 /\ ~ (p < cache.nextSeqToWriteback)
  <2> DEFINE w == cache.nextSeqToWriteback
             n == cache.nextSeqToProcess
             c == CacheSeq(cache)
             f == FetchSeq(cache)
  <2>1. /\ D \in Nat /\ w \in Nat /\ n \in Nat /\ c \in Nat /\ f \in Nat /\ Given \in Nat
        /\ D <= w /\ w <= n /\ n <= c /\ f <= Given /\ Given <= D + (DescLen - 1)
    BY Numbers
  <2>2. c <= p /\ p < f
    BY <1>2
  <2> HIDE DEF D, w, n, c, f
  <2>3. p \in D .. (D + DescLen) - 1 /\ ~ (p < w)
    BY <2>1, <2>2, DescLenAssumption
  <2> QED
    BY <2>3 DEF w, D
<1>4. ~ Written(cache, p)
  BY <1>3, Numbers, WrittenBound
<1>5. ring[slot] = ArmedOf[p]
  <2>1. ring[p % DescLen] = [buf |-> p, dd |-> Written(cache, p)]
    BY <1>3 DEF RInv, RingKept
  <2>2. Written(cache, p) = FALSE
    BY <1>4 DEF Written, Reached
  <2> QED
    BY <1>2, <2>1, <2>2 DEF ArmedOf, Armed
<1>6. ring[slot] \in Desc
  <2>1. slot \in Slots
    BY <1>2, ModInSlots
  <2> QED
    BY <2>1 DEF IInv, TypeOK
<1>7. Ordered(cache', ArmedOf, UsedOf, Given) /\ SameStory(cache, cache')
  BY <1>1, <1>2, <1>5, <1>6
<1> QED
  BY <1>1, <1>7, QuietCardStep

(* The driver gives back the slots it has re-armed. *)
LEMMA WriteRDTOwns ==
    ASSUME IInv, RInv, WriteRDT
    PROVE  RInv' /\ HeadKept
<1> DEFINE t == IF rx_tail = 0 THEN DescLen - 1 ELSE rx_tail - 1
           q == [cache EXCEPT !.tail = t]
           c == drainState = "Running"
           D == Len(delivered)
           g == D + (DescLen - 1)
<1>1. /\ cache' = FetchIf(c, q) /\ nb_rx_hold' = 0
      /\ UNCHANGED <<engine, rxFifo, rxPacket, ring, mbuf, swRing, rx_tail, accepted, delivered>>
  BY Zenon DEF WriteRDT, restOfCard
<1>2. rx_tail \in Slots /\ rx_tail = D % DescLen
  BY DEF IInv, TypeOK, RInv, RingKept
<1>3. t \in Slots
  BY <1>2, DescLenAssumption DEF Slots
<1>4. D \in Nat /\ g \in Nat /\ FetchSeq(cache) <= g /\ g < cache.nextSeqToWriteback + DescLen
  <2> DEFINE w == cache.nextSeqToWriteback
             f == FetchSeq(cache)
  <2>1. /\ D \in Nat /\ w \in Nat /\ f \in Nat /\ Given \in Nat
        /\ D <= w /\ f <= Given /\ Given <= D + (DescLen - 1)
    BY Numbers
  <2> HIDE DEF D, w, f
  <2>2. g \in Nat /\ f <= g
    BY <2>1, DescLenAssumption
  <2>3. g < w + DescLen
    BY <2>1, DescLenAssumption
  <2> HIDE DEF g
  <2> QED
    BY <2>1, <2>2, <2>3 DEF w, f
<1> HIDE DEF D
<1>5. t = g % DescLen
  <2>1. ((D % DescLen) + (DescLen - 1)) % DescLen = g % DescLen
    <3>1. D \in Nat /\ DescLen - 1 \in Nat
      BY <1>4, DescLenAssumption
    <3> QED
      BY <3>1, ModAdd, DescLenAssumption
  <2>2. CASE rx_tail = 0
    <3>1. ((DescLen * 0) + (DescLen - 1)) % DescLen = DescLen - 1
      BY ModUnique, DescLenAssumption
    <3>2. (DescLen * 0) + (DescLen - 1) = 0 + (DescLen - 1)
      BY DescLenAssumption
    <3> QED
      BY <1>2, <2>1, <2>2, <3>1, <3>2
  <2>3. CASE rx_tail # 0
    <3>1. rx_tail - 1 \in 0 .. DescLen - 1
      BY <1>2, <2>3, DescLenAssumption DEF Slots
    <3>2. ((DescLen * 1) + (rx_tail - 1)) % DescLen = rx_tail - 1
      BY <3>1, ModUnique, DescLenAssumption
    <3>3. (DescLen * 1) + (rx_tail - 1) = rx_tail + (DescLen - 1)
      BY <1>2, DescLenAssumption DEF Slots
    <3> QED
      BY <1>2, <2>1, <2>3, <3>2, <3>3
  <2> QED
    BY <2>2, <2>3
<1> HIDE DEF t, c
<1>6. CacheInv(Desc, q)
  BY <1>3, Numbers, TailKeeps
<1>7. Ordered(q, ArmedOf, UsedOf, g) /\ SameStory(cache, q)
  BY <1>4, <1>5, Numbers, TailOrder
<1> HIDE DEF q, g
<1>8. Ordered(cache', ArmedOf, UsedOf, g) /\ SameStory(q, cache')
  BY <1>1, <1>4, <1>6, <1>7, FetchIfOrder
<1>9. SameStory(cache, cache')
  BY <1>7, <1>8, SameStoryTrans
<1>10. Given' = g /\ nb_rx_hold' <= Len(delivered')
  <2>1. Given' = (D - 0) + (DescLen - 1) /\ Len(delivered') = D
    BY <1>1 DEF Given, D
  <2> QED
    BY <1>1, <1>4, <2>1 DEF g
<1>11. Ordered(cache', ArmedOf, UsedOf, Given')
  BY <1>8, <1>10
<1> QED
  BY <1>1, <1>9, <1>10, <1>11, QuietStep

(* A write-back reaches a slot that still holds the descriptor as the      *)
(* driver armed it.                                                        *)
LEMMA WritebackDmaOwns ==
    ASSUME IInv, RInv, NEW e \in DescEngines, WritebackDma(e)
    PROVE  RInv' /\ HeadKept
<1> DEFINE m == cache.wb.moved[e]
           slot == cache.wb.base[e] + m
           x == cache.wb.buf[e][m + 1]
           D == Len(delivered)
           W == D .. (D + DescLen) - 1
           P == 0 .. D - 1
<1>1. /\ cache.wb.ev[e] = "dma"
      /\ ring' = [ring EXCEPT ![slot] = x]
      /\ cache' = [cache EXCEPT !.wb = Beat(@, e)]
      /\ UNCHANGED <<engine, rxFifo, rxPacket, swRing, mbuf, rx_tail, nb_rx_hold,
                     accepted, delivered>>
  BY DEF WritebackDma, driver, restOfCard
<1>2. /\ Ordered(cache', ArmedOf, UsedOf, Given)
      /\ cache'.nextSeqToProcess = cache.nextSeqToProcess
      /\ cache'.nextSeqToWriteback = cache.nextSeqToWriteback
      /\ cache'.processing = cache.processing
      /\ \E p \in Nat :
            /\ ~ Written(cache, p) /\ p < cache.nextSeqToWriteback
            /\ slot = p % DescLen /\ x = UsedOf[p]
            /\ \A b \in Nat : Written(cache', b) <=> (Written(cache, b) \/ b = p)
  BY <1>1, Numbers, BeatWbOrder
<1>3. PICK p \in Nat :
            /\ ~ Written(cache, p) /\ p < cache.nextSeqToWriteback
            /\ slot = p % DescLen /\ x = UsedOf[p]
            /\ \A b \in Nat : Written(cache', b) <=> (Written(cache, b) \/ b = p)
  BY <1>2
<1>4. cache'.used = cache.used
  <2>1. cache \in CacheType(Desc)
    BY DEF IInv, TypeOK
  <2> QED
    BY <1>1, <2>1, Zenon DEF CacheType
<1>5. ring \in [Slots -> Desc]
  BY DEF IInv, TypeOK
<1>6. /\ \A b \in W : /\ ring[b % DescLen] = [buf |-> b, dd |-> Written(cache, b)]
                      /\ swRing[b % DescLen] = b
      /\ \A b \in P : Written(cache, b)
      /\ rx_tail = D % DescLen
  BY DEF RInv, RingKept
<1>7. /\ p \in W /\ D \in Nat /\ P \in SUBSET Nat /\ W \in SUBSET Nat
  <2> DEFINE w == cache.nextSeqToWriteback
             n == cache.nextSeqToProcess
             c == CacheSeq(cache)
             f == FetchSeq(cache)
  <2>1. /\ D \in Nat /\ w \in Nat /\ n \in Nat /\ c \in Nat /\ f \in Nat /\ Given \in Nat
        /\ w <= n /\ n <= c /\ c <= f /\ f <= Given /\ Given <= D + (DescLen - 1)
    BY Numbers
  <2>2. p < w /\ ~ (p \in P)
    BY <1>3, <1>6
  <2> HIDE DEF w, n, c, f
  <2>3. p \in W
    BY <2>1, <2>2, DescLenAssumption
  <2> QED
    BY <2>1, <2>3, DescLenAssumption
<1> HIDE DEF slot, x, m
<1>8. \A b \in W : b # p => b % DescLen # p % DescLen
  BY <1>7, SlotsDistinct DEF InRound
<1>9. \A b \in Nat : (b % DescLen) \in Slots
  BY ModInSlots
<1>10. ring'[p % DescLen] = [buf |-> p, dd |-> TRUE]
  <2>1. p % DescLen \in Slots
    BY <1>9
  <2>2. ring'[slot] = x
    BY <1>1, <1>3, <1>5, <2>1, Zenon
  <2> QED
    BY <1>3, <2>2 DEF UsedOf
<1>11. \A b \in Nat : b % DescLen # p % DescLen => ring'[b % DescLen] = ring[b % DescLen]
  BY <1>1, <1>3, <1>5, <1>9
<1>12. \A b \in Nat : b # p => Written(cache', b) = Written(cache, b)
  <2> SUFFICES ASSUME NEW b \in Nat, b # p PROVE Written(cache', b) = Written(cache, b)
    OBVIOUS
  <2>1. Written(cache', b) <=> Written(cache, b)
    BY <1>3
  <2>2. Written(cache', b) \in BOOLEAN /\ Written(cache, b) \in BOOLEAN
    BY DEF Written, Reached
  <2> QED
    BY <2>1, <2>2
<1>13. Written(cache', p) = TRUE
  <2>1. Written(cache', p)
    BY <1>3
  <2>2. Written(cache', p) \in BOOLEAN
    BY DEF Written, Reached
  <2> QED
    BY <2>1, <2>2
<1>14. D' = D /\ swRing' = swRing /\ rx_tail' = rx_tail
  BY <1>1
<1>15. RingKept'
  <2>1. \A b \in W : ring'[b % DescLen] = [buf |-> b, dd |-> Written(cache', b)]
    <3> SUFFICES ASSUME NEW b \in W
                 PROVE  ring'[b % DescLen] = [buf |-> b, dd |-> Written(cache', b)]
      OBVIOUS
    <3>1. CASE b = p
      BY <1>10, <1>13, <3>1
    <3>2. CASE b # p
      <4>1. b \in Nat
        BY <1>7
      <4> HIDE DEF W
      <4> QED
        BY <1>6, <1>8, <1>11, <1>12, <3>2, <4>1, Zenon
    <3> QED
      BY <3>1, <3>2
  <2>2. \A b \in P : Written(cache', b)
    BY <1>3, <1>6, <1>7
  <2> HIDE DEF W, P
  <2>3. \A b \in W : swRing'[b % DescLen] = b
    BY <1>6, <1>14, Zenon
  <2>4. rx_tail' = Len(delivered') % DescLen
    BY <1>6, <1>14, Zenon
  <2> QED
    BY <1>14, <2>1, <2>2, <2>3, <2>4 DEF RingKept, W, P
<1>16. CardKept'
  <2>1. Given' = Given
    BY <1>1 DEF Given
  <2> QED
    BY <1>1, <1>2, <2>1 DEF CardKept, RInv
<1>17. FifoKept'
  BY <1>1, <1>2 DEF RInv, FifoKept, FifoInOrder
<1>18. PacketsKept'
  BY <1>1, <1>2, PacketsSame DEF RInv
<1>19. HeadKept
  BY <1>2, <1>4, Numbers DEF HeadKept
<1> QED
  BY <1>15, <1>16, <1>17, <1>18, <1>19 DEF RInv

(* What the driver finds in its next slot: a status only if the descriptor *)
(* was written back, and then the packet in its buffer.                    *)
LEMMA NextSlot ==
    ASSUME IInv, RInv, ring[rx_tail].dd
    PROVE  /\ Len(delivered) < cache.nextSeqToWriteback
           /\ Written(cache, Len(delivered))
           /\ mbuf[swRing[rx_tail]] = Len(delivered) + 1
<1> DEFINE D == Len(delivered)
<1>1. D \in D .. (D + DescLen) - 1 /\ D \in Nat
  BY Numbers, DescLenAssumption
<1>2. /\ ring[D % DescLen] = [buf |-> D, dd |-> Written(cache, D)]
      /\ swRing[D % DescLen] = D /\ rx_tail = D % DescLen
  BY <1>1 DEF RInv, RingKept
<1> HIDE DEF D
<1>3. Written(cache, D)
  BY <1>2
<1>4. D < cache.nextSeqToWriteback
  BY <1>1, <1>3, Numbers, WrittenBound
<1>5. D \in 0 .. cache.nextSeqToWriteback - 1
  BY <1>1, <1>4, Numbers
<1>6. mbuf[D] = D + 1
  BY <1>5 DEF RInv, PacketsKept
<1> QED
  BY <1>2, <1>3, <1>4, <1>6 DEF D

LEMMA RecvOwns ==
    ASSUME IInv, RInv, eth_em_recv_pkts
    PROVE  RInv' /\ HeadKept
<1> DEFINE D == Len(delivered)
           nmb == DescLen + D
           W == D .. (D + DescLen) - 1
           V == (D + 1) .. ((D + 1) + DescLen) - 1
<1>1. /\ ring[rx_tail].dd
      /\ delivered' = Append(delivered, mbuf[swRing[rx_tail]])
      /\ swRing' = [swRing EXCEPT ![rx_tail] = nmb]
      /\ ring' = [ring EXCEPT ![rx_tail] = Armed(nmb)]
      /\ rx_tail' = Wrap(rx_tail + 1)
      /\ nb_rx_hold' = nb_rx_hold + 1
      /\ UNCHANGED <<cache, engine, rxFifo, rxPacket, mbuf, accepted>>
  BY Zenon DEF eth_em_recv_pkts, card
<1>2. /\ ring \in [Slots -> Desc] /\ swRing \in [Slots -> Bufs] /\ rx_tail \in Slots
      /\ delivered \in Seq(0 .. MaxPkts)
  BY DEF IInv, TypeOK
<1>3. D \in Nat /\ Len(delivered') = D + 1
  BY <1>1, <1>2
<1>4. /\ \A b \in W : /\ ring[b % DescLen] = [buf |-> b, dd |-> Written(cache, b)]
                      /\ swRing[b % DescLen] = b
      /\ \A b \in 0 .. D - 1 : Written(cache, b)
      /\ rx_tail = D % DescLen
  BY DEF RInv, RingKept
<1>5. Written(cache, D)
  BY <1>1, NextSlot
<1>6. rx_tail' = (D + 1) % DescLen
  <2>1. rx_tail + 1 <= DescLen
    BY <1>2, DescLenAssumption DEF Slots
  <2>2. Wrap(rx_tail + 1) = (rx_tail + 1) % DescLen
    BY <1>2, <2>1, WrapIsMod
  <2>3. ((D % DescLen) + 1) % DescLen = (D + 1) % DescLen
    BY <1>3, ModAdd, DescLenAssumption
  <2> QED
    BY <1>1, <1>4, <2>2, <2>3
<1>7. ~ Written(cache, nmb) /\ nmb \in Nat
  <2> DEFINE w == cache.nextSeqToWriteback
             n == cache.nextSeqToProcess
             c == CacheSeq(cache)
             f == FetchSeq(cache)
  <2>1. /\ w \in Nat /\ n \in Nat /\ c \in Nat /\ f \in Nat /\ Given \in Nat
        /\ w <= n /\ n <= c /\ c <= f /\ f <= Given /\ Given <= D + (DescLen - 1)
    BY Numbers
  <2>2. Written(cache, nmb) /\ nmb \in Nat => nmb < w
    BY Numbers, WrittenBound
  <2> HIDE DEF w, n, c, f, D
  <2>3. nmb \in Nat /\ ~ (nmb < w)
    BY <1>3, <2>1, DescLenAssumption
  <2> QED
    BY <2>2, <2>3
<1> HIDE DEF D
<1>8. nmb % DescLen = rx_tail
  <2>1. ((D % DescLen) + DescLen) % DescLen = (D + DescLen) % DescLen
    BY <1>3, ModAdd, DescLenAssumption
  <2>2. rx_tail \in 0 .. DescLen - 1
    BY <1>2 DEF Slots
  <2>3. ((DescLen * 1) + rx_tail) % DescLen = rx_tail
    BY <2>2, ModUnique, DescLenAssumption
  <2>4. (DescLen * 1) + rx_tail = rx_tail + DescLen /\ D + DescLen = nmb
    BY <1>3, <2>2, DescLenAssumption
  <2> QED
    BY <1>4, <2>1, <2>3, <2>4
<1>9. \A b \in V : b # nmb => /\ b \in W /\ b \in Nat /\ b % DescLen # rx_tail
                              /\ b % DescLen \in Slots
  <2> SUFFICES ASSUME NEW b \in V, b # nmb
               PROVE  b \in W /\ b \in Nat /\ b % DescLen # rx_tail /\ b % DescLen \in Slots
    OBVIOUS
  <2>1. b \in W /\ b \in Nat /\ b # D /\ D \in W
    BY <1>3, DescLenAssumption
  <2>2. b % DescLen # D % DescLen
    BY <1>3, <2>1, SlotsDistinct DEF InRound
  <2> QED
    BY <1>4, <2>1, <2>2, ModInSlots
<1>10. Written(cache, nmb) = FALSE
  BY <1>7 DEF Written, Reached
<1> HIDE DEF nmb
<1>11. \A b \in V : /\ ring'[b % DescLen] = [buf |-> b, dd |-> Written(cache, b)]
                    /\ swRing'[b % DescLen] = b
  <2> SUFFICES ASSUME NEW b \in V
               PROVE  /\ ring'[b % DescLen] = [buf |-> b, dd |-> Written(cache, b)]
                      /\ swRing'[b % DescLen] = b
    OBVIOUS
  <2>1. CASE b = nmb
    <3>1. ring'[rx_tail] = Armed(nmb) /\ swRing'[rx_tail] = nmb
      BY <1>1, <1>2
    <3> QED
      BY <1>8, <1>10, <2>1, <3>1 DEF Armed
  <2>2. CASE b # nmb
    <3>1. b \in W /\ b % DescLen # rx_tail /\ b % DescLen \in Slots
      BY <1>9, <2>2
    <3>2. ring'[b % DescLen] = ring[b % DescLen] /\ swRing'[b % DescLen] = swRing[b % DescLen]
      BY <1>1, <1>2, <3>1, Zenon
    <3> QED
      BY <1>4, <3>1, <3>2
  <2> QED
    BY <2>1, <2>2
<1>12. \A b \in 0 .. (D + 1) - 1 : Written(cache, b)
  <2> SUFFICES ASSUME NEW b \in 0 .. (D + 1) - 1 PROVE Written(cache, b)
    OBVIOUS
  <2>1. b \in 0 .. D - 1 \/ b = D
    BY <1>3
  <2> QED
    BY <1>4, <1>5, <2>1
<1>13. RingKept'
  BY <1>1, <1>3, <1>6, <1>11, <1>12 DEF RingKept, V
<1>14. CardKept'
  <2>1. nb_rx_hold \in Nat /\ nb_rx_hold <= D
    BY Numbers DEF RInv, CardKept, D
  <2>2. Given' = ((D + 1) - (nb_rx_hold + 1)) + (DescLen - 1)
    BY <1>1, <1>3 DEF Given
  <2>3. Given = (D - nb_rx_hold) + (DescLen - 1)
    BY DEF Given, D
  <2>4. Given' = Given
    BY <1>3, <2>1, <2>2, <2>3, DescLenAssumption
  <2>5. nb_rx_hold' <= Len(delivered')
    BY <1>1, <1>3, <2>1
  <2> QED
    BY <1>1, <2>4, <2>5, Numbers DEF CardKept
<1>15. FifoKept'
  BY <1>1 DEF RInv, FifoKept, FifoInOrder
<1>16. PacketsKept'
  BY <1>1 DEF RInv, PacketsKept
<1>17. HeadKept
  BY <1>1, Numbers DEF HeadKept
<1> QED
  BY <1>13, <1>14, <1>15, <1>16, <1>17 DEF RInv

(* A packet arrives at the end of the FIFO. *)
LEMMA EthRxPktOwns ==
    ASSUME IInv, RInv, ethRxPkt
    PROVE  RInv' /\ HeadKept
<1> DEFINE n == cache.nextSeqToProcess
           w == Waiting(rxPacket)
           len == Len(rxFifo)
<1>1. /\ UNCHANGED <<cache, engine, rxPacket, ring, mbuf, swRing, rx_tail, nb_rx_hold,
                     delivered>>
      /\ \/ rxFifo' = Append(rxFifo, accepted + 1) /\ accepted' = accepted + 1
         \/ UNCHANGED <<rxFifo, accepted>>
  BY DEF ethRxPkt, driver
<1>2. CASE UNCHANGED <<rxFifo, accepted>>
  BY <1>1, <1>2, RestKept
<1>3. CASE rxFifo' = Append(rxFifo, accepted + 1) /\ accepted' = accepted + 1
  <2>1. rxFifo \in Seq(Pkts) /\ len \in Nat
    BY DEF IInv, TypeOK
  <2>2. /\ rxPacket # NULL => rxPacket = n + 1
        /\ \A i \in 1 .. len : rxFifo[i] = (n + w) + i
        /\ accepted = (n + w) + len
    BY DEF RInv, FifoKept, FifoInOrder
  <2>3. n \in Nat /\ w \in Nat
    BY Numbers DEF Waiting
  <2>4. /\ Len(rxFifo') = len + 1 /\ rxFifo'[len + 1] = accepted + 1
        /\ \A i \in 1 .. len : rxFifo'[i] = rxFifo[i]
    BY <1>3, <2>1
  <2> HIDE DEF n, w, len
  <2>5. accepted' = (n + w) + (len + 1)
    BY <1>3, <2>1, <2>2, <2>3
  <2>6. \A i \in 1 .. len + 1 : rxFifo'[i] = (n + w) + i
    <3> SUFFICES ASSUME NEW i \in 1 .. len + 1 PROVE rxFifo'[i] = (n + w) + i
      OBVIOUS
    <3>1. CASE i = len + 1
      BY <1>3, <2>4, <2>5, <3>1
    <3>2. CASE i # len + 1
      <4>1. i \in 1 .. len
        BY <2>1, <3>2
      <4> QED
        BY <2>2, <2>4, <4>1
    <3> QED
      BY <3>1, <3>2
  <2>7. FifoKept'
    <3>1. cache'.nextSeqToProcess = n /\ Waiting(rxPacket') = w /\ rxPacket' = rxPacket
      BY <1>1 DEF n, w
    <3> QED
      BY <2>2, <2>4, <2>5, <2>6, <3>1 DEF FifoKept, FifoInOrder
  <2>8. CardKept'
    BY <1>1 DEF CardKept, Given, RInv
  <2>9. RingKept'
    BY <1>1, RingSame
  <2>10. PacketsKept'
    BY <1>1, PacketsSame DEF RInv
  <2>11. HeadKept
    BY <1>1, Numbers DEF HeadKept
  <2> QED
    BY <2>7, <2>8, <2>9, <2>10, <2>11 DEF RInv
<1> QED
  BY <1>1, <1>2, <1>3

(* The number of a descriptor in process is that of its buffer. *)
LEMMA SeqIdxIsBuf ==
    ASSUME IInv, RInv, NEW e \in PktEngines, cache.processing[e].desc # NULL
    PROVE  /\ cache.processing[e].desc.buf = cache.processing[e].seqIdx
           /\ cache.processing[e].seqIdx \in Bufs /\ cache.processing[e].seqIdx \in Nat
           /\ [cache.processing[e].desc EXCEPT !.dd = TRUE] = UsedOf[cache.processing[e].seqIdx]
<1> DEFINE d == cache.processing[e].desc
           s == cache.processing[e].seqIdx
<1>1. d \in Desc /\ s \in Nat
  BY Numbers, ProcessingFacts
<1>2. d = IF cache.processing[e].done THEN UsedOf[s] ELSE ArmedOf[s]
  BY Numbers DEF CacheInOrder
<1> HIDE DEF s, d
<1>3. d.buf = s
  BY <1>1, <1>2 DEF ArmedOf, UsedOf, Armed
<1>4. d.buf \in Bufs
  BY <1>1 DEF Desc
<1>5. [d EXCEPT !.dd = TRUE] = UsedOf[s]
  <2>1. [d EXCEPT !.dd = TRUE] = [buf |-> d.buf, dd |-> TRUE]
    <3>1. ASSUME NEW B, NEW S, NEW y, d \in [buf : B, dd : S]
          PROVE  [d EXCEPT !.dd = y] = [buf |-> d.buf, dd |-> y]
      BY <3>1
    <3>2. d \in [buf : Bufs, dd : BOOLEAN]
      BY <1>1 DEF Desc
    <3> QED
      BY <3>1, <3>2, Zenon
  <2>2. UsedOf[s] = [buf |-> s, dd |-> TRUE]
    BY <1>1 DEF UsedOf
  <2> QED
    BY <1>3, <2>1, <2>2
<1> QED
  BY <1>1, <1>3, <1>4, <1>5 DEF s, d

(* A packet goes into the buffer of the descriptor it took, which no other *)
(* packet has or had.                                                      *)
LEMMA PacketDmaOwns ==
    ASSUME IInv, RInv, NEW e \in PktEngines, PacketDma(e)
    PROVE  RInv' /\ HeadKept
<1> DEFINE p == cache.processing
           s == p[e].seqIdx
           w == cache.nextSeqToWriteback
<1>1. /\ engine[e].ev = "dma"
      /\ mbuf' = [mbuf EXCEPT ![p[e].desc.buf] = engine[e].pkt]
      /\ engine' = [engine EXCEPT ![e].ev = "event"]
      /\ UNCHANGED <<cache, rxFifo, rxPacket, ring, accepted, swRing, rx_tail, nb_rx_hold,
                     delivered>>
  BY DEF PacketDma, driver
<1>2. /\ engine \in [PktEngines -> [pkt : Pkts \cup {NULL}, ev : Stages, pktDone : BOOLEAN]]
      /\ p[e].desc # NULL /\ p[e].desc \in Desc
  BY <1>1, EngineFacts
<1>4. \A f \in PktEngines : p[f].seqIdx \in Nat
  BY Numbers, ProcessingFacts
<1>6. p[e].desc.buf = s /\ s \in Bufs
  BY <1>2, SeqIdxIsBuf
<1>7. engine[e].pkt = s + 1
  BY <1>1 DEF RInv, PacketsKept
<1>8. mbuf \in [Bufs -> 0 .. MaxPkts]
  BY DEF IInv, TypeOK
<1>9. mbuf'[s] = s + 1 /\ \A b \in Bufs : b # s => mbuf'[b] = mbuf[b]
  <2>1. mbuf' = [mbuf EXCEPT ![s] = s + 1]
    BY <1>1, <1>6, <1>7
  <2> HIDE DEF s
  <2> QED
    BY <1>6, <1>8, <2>1
<1>10. /\ \A f \in PktEngines : f # e => engine'[f] = engine[f]
       /\ engine'[e].ev = "event" /\ engine'[e].pkt = s + 1
  BY <1>1, <1>2, <1>7
<1>11. /\ \A f \in PktEngines : p[f].desc # NULL => w <= p[f].seqIdx
       /\ \A f \in PktEngines : p[f].desc # NULL /\ p[f].seqIdx = s => f = e
  <2>1. ProcessingInOrder(cache)
    BY Numbers DEF CacheInv
  <2> QED
    BY <1>2, <2>1 DEF ProcessingInOrder
<1>12. PacketsKept'
  <2> HIDE DEF p, s
  <2>1. /\ \A f \in PktEngines : engine[f].ev # "idle" => engine[f].pkt = p[f].seqIdx + 1
        /\ \A b \in 0 .. w - 1 : mbuf[b] = b + 1
        /\ \A f \in PktEngines :
              p[f].desc # NULL /\ (p[f].done \/ engine[f].ev = "event")
              => mbuf[p[f].seqIdx] = p[f].seqIdx + 1
    BY DEF RInv, PacketsKept, p
  <2>2. \A f \in PktEngines : engine'[f].ev # "idle" => engine'[f].pkt = p[f].seqIdx + 1
    <3>1. engine'[e].pkt = p[e].seqIdx + 1
      BY <1>10 DEF s
    <3> QED
      BY <1>10, <2>1, <3>1, Zenon
  <2>3. \A b \in 0 .. w - 1 : mbuf'[b] = b + 1
    <3>1. \A b \in 0 .. w - 1 : b \in Bufs /\ b # s
      <4>1. w \in Nat /\ s \in Nat /\ w <= s
        BY <1>2, <1>4, <1>11, Numbers DEF s
      <4> QED
        BY <1>6, <4>1, DescLenAssumption, RxAssumption DEF Bufs
    <3> QED
      BY <1>9, <2>1, <3>1
  <2>4. \A f \in PktEngines :
           p[f].desc # NULL /\ (p[f].done \/ engine'[f].ev = "event")
           => mbuf'[p[f].seqIdx] = p[f].seqIdx + 1
    <3> SUFFICES ASSUME NEW f \in PktEngines, p[f].desc # NULL,
                        p[f].done \/ engine'[f].ev = "event"
                 PROVE  mbuf'[p[f].seqIdx] = p[f].seqIdx + 1
      OBVIOUS
    <3>1. CASE f = e
      BY <1>9, <3>1 DEF s
    <3>2. CASE f # e
      <4>1. p[f].seqIdx \in Bufs
        BY SeqIdxIsBuf DEF p
      <4> QED
        BY <1>9, <1>10, <1>11, <2>1, <3>2, <4>1, Zenon
    <3> QED
      BY <3>1, <3>2
  <2>5. cache'.processing = p /\ cache'.nextSeqToWriteback = w
    BY <1>1 DEF p
  <2> QED
    BY <2>2, <2>3, <2>4, <2>5, Zenon DEF PacketsKept
<1>13. CardKept'
  BY <1>1 DEF CardKept, Given, RInv
<1>14. RingKept'
  BY <1>1, RingSame
<1>15. FifoKept'
  BY <1>1 DEF RInv, FifoKept, FifoInOrder
<1>16. HeadKept
  BY <1>1, Numbers DEF HeadKept
<1> QED
  BY <1>12, <1>13, <1>14, <1>15, <1>16 DEF RInv

(* A finished descriptor waits for those before it, and those that retire  *)
(* all have their packet.                                                  *)
LEMMA OnDMACompleteOwns ==
    ASSUME IInv, RInv, NEW e \in PktEngines, onDMAComplete(e)
    PROVE  RInv' /\ HeadKept
<1> DEFINE d   == [cache.processing[e].desc EXCEPT !.dd = TRUE]
           m   == FinishDesc(cache, e, d)
           q   == manageUsedCache(m)
           eng == [engine EXCEPT ![e] = [pkt |-> NULL, ev |-> "idle", pktDone |-> TRUE]]
           p   == cache.processing
           w   == cache.nextSeqToWriteback
<1>1. /\ engine[e].ev = "event" /\ engine' = eng /\ cache' = q
      /\ UNCHANGED <<rxFifo, rxPacket, ring, mbuf, accepted, swRing, rx_tail, nb_rx_hold,
                     delivered>>
  BY Zenon DEF onDMAComplete, driver
<1>2. /\ engine \in [PktEngines -> [pkt : Pkts \cup {NULL}, ev : Stages, pktDone : BOOLEAN]]
      /\ p[e].desc # NULL /\ p[e].desc \in Desc
  BY <1>1, EngineFacts
<1>3. d \in Desc
  BY <1>2 DEF Desc
<1>4. /\ CacheInv(Desc, cache) /\ Ordered(cache, ArmedOf, UsedOf, Given)
      /\ Given \in Nat /\ w \in Nat
  BY Numbers
<1>5. d = UsedOf[p[e].seqIdx]
  BY <1>2, SeqIdxIsBuf
<1> HIDE DEF d
<1>6. /\ CacheInv(Desc, m)
      /\ m.processing = [p EXCEPT ![e] = [desc |-> d, seqIdx |-> p[e].seqIdx, done |-> TRUE]]
      /\ m.nextSeqToWriteback = w
  BY <1>2, <1>3, <1>4, NullIsNoDesc, FinishDescKeeps
<1>7. /\ Ordered(m, ArmedOf, UsedOf, Given)
      /\ m.nextSeqToProcess = cache.nextSeqToProcess
      /\ \A b : Written(m, b) <=> Written(cache, b)
  BY <1>4, <1>5, FinishDescOrder
<1> HIDE DEF m
<1>8. \A f \in PktEngines : \/ q.processing[f] = m.processing[f]
                            \/ m.processing[f].done /\ q.processing[f] = NoEntry
  BY <1>6, NullIsNoDesc, ManageKeeps
<1>9. /\ Ordered(q, ArmedOf, UsedOf, Given)
      /\ q.nextSeqToProcess = m.nextSeqToProcess
      /\ q.nextSeqToWriteback \in Nat /\ w <= q.nextSeqToWriteback
      /\ \A t \in w .. (q.nextSeqToWriteback - 1) :
            \E f \in PktEngines : m.processing[f].done /\ m.processing[f].seqIdx = t
      /\ \A b : Written(q, b) <=> Written(m, b)
  <2>1. LET r == manageUsedCache(m) IN
        /\ Ordered(r, ArmedOf, UsedOf, Given)
        /\ r.nextSeqToProcess = m.nextSeqToProcess
        /\ r.nextSeqToWriteback \in Nat /\ m.nextSeqToWriteback <= r.nextSeqToWriteback
        /\ \A t \in m.nextSeqToWriteback .. (r.nextSeqToWriteback - 1) :
              \E f \in PktEngines : m.processing[f].done /\ m.processing[f].seqIdx = t
        /\ \A b : Written(r, b) <=> Written(m, b)
    BY <1>4, <1>6, <1>7, NullIsNoDesc, ManageOrder, Zenon
  <2> QED
    BY <1>6, <2>1, Zenon
<1> HIDE DEF q
<1>10. /\ engine'[e].ev = "idle"
       /\ \A f \in PktEngines : f # e => engine'[f] = engine[f]
  BY <1>1, <1>2
<1> HIDE DEF eng
<1>11. /\ m.processing[e].done /\ m.processing[e].seqIdx = p[e].seqIdx
       /\ \A f \in PktEngines : f # e => m.processing[f] = p[f]
  <2>1. p \in [PktEngines -> [desc : Desc \cup {NULL}, seqIdx : Nat, done : BOOLEAN]]
    BY <1>4, ProcessingFacts
  <2> HIDE DEF p
  <2> QED
    BY <1>6, <2>1
<1>12. NoEntry.desc = NULL /\ ~ NoEntry.done
  BY DEF NoEntry
<1>13. /\ \A f \in PktEngines : engine[f].ev # "idle" => engine[f].pkt = p[f].seqIdx + 1
       /\ \A b \in 0 .. w - 1 : mbuf[b] = b + 1
       /\ \A f \in PktEngines :
             p[f].desc # NULL /\ (p[f].done \/ engine[f].ev = "event")
             => mbuf[p[f].seqIdx] = p[f].seqIdx + 1
  BY DEF RInv, PacketsKept
<1>14. \A f \in PktEngines : /\ p[f].done => p[f].desc # NULL
                             /\ engine[f].ev # "idle" => ~ p[f].done
  <2>1. ProcessingInOrder(cache)
    BY <1>4 DEF CacheInv
  <2> QED
    BY <2>1, Zenon DEF ProcessingInOrder, IInv, EnginesAgree
<1> HIDE DEF p
<1>15. \A f \in PktEngines :
          m.processing[f].done => mbuf[m.processing[f].seqIdx] = m.processing[f].seqIdx + 1
  <2> SUFFICES ASSUME NEW f \in PktEngines, m.processing[f].done
               PROVE  mbuf[m.processing[f].seqIdx] = m.processing[f].seqIdx + 1
    OBVIOUS
  <2>1. CASE f = e
    <3>1. mbuf[p[e].seqIdx] = p[e].seqIdx + 1
      BY <1>1, <1>2, <1>13, Zenon
    <3> QED
      BY <1>11, <2>1, <3>1
  <2>2. CASE f # e
    <3>1. m.processing[f] = p[f]
      BY <1>11, <2>2
    <3> QED
      BY <1>13, <1>14, <3>1, Zenon
  <2> QED
    BY <2>1, <2>2
<1>16. PacketsKept'
  <2>1. \A f \in PktEngines : engine'[f].ev # "idle" =>
                                 engine'[f].pkt = q.processing[f].seqIdx + 1
    <3> SUFFICES ASSUME NEW f \in PktEngines, engine'[f].ev # "idle"
                 PROVE  engine'[f].pkt = q.processing[f].seqIdx + 1
      OBVIOUS
    <3>1. f # e
      BY <1>10
    <3>2. engine'[f] = engine[f] /\ m.processing[f] = p[f]
      BY <1>10, <1>11, <3>1
    <3>3. ~ m.processing[f].done
      BY <1>14, <3>2, Zenon
    <3>4. q.processing[f] = p[f]
      BY <1>8, <3>2, <3>3, Zenon
    <3> QED
      BY <1>13, <3>2, <3>4, Zenon
  <2>2. \A b \in 0 .. q.nextSeqToWriteback - 1 : mbuf[b] = b + 1
    <3> SUFFICES ASSUME NEW b \in 0 .. q.nextSeqToWriteback - 1
                 PROVE  mbuf[b] = b + 1
      OBVIOUS
    <3>1. CASE b < w
      <4>1. b \in 0 .. w - 1
        BY <1>4, <1>9, <3>1
      <4> QED
        BY <1>13, <4>1
    <3>2. CASE ~ (b < w)
      <4>1. b \in w .. q.nextSeqToWriteback - 1
        BY <1>4, <1>9, <3>2
      <4>2. PICK f \in PktEngines : m.processing[f].done /\ m.processing[f].seqIdx = b
        BY <1>9, <4>1, Zenon
      <4>3. mbuf[m.processing[f].seqIdx] = m.processing[f].seqIdx + 1
        BY <1>15, <4>2, Zenon
      <4> QED
        BY <4>2, <4>3
    <3> QED
      BY <3>1, <3>2
  <2>3. \A f \in PktEngines :
           q.processing[f].desc # NULL /\ (q.processing[f].done \/ engine'[f].ev = "event")
           => mbuf[q.processing[f].seqIdx] = q.processing[f].seqIdx + 1
    <3> SUFFICES ASSUME NEW f \in PktEngines, q.processing[f].desc # NULL,
                        q.processing[f].done \/ engine'[f].ev = "event"
                 PROVE  mbuf[q.processing[f].seqIdx] = q.processing[f].seqIdx + 1
      OBVIOUS
    <3>1. q.processing[f] = m.processing[f]
      BY <1>8, <1>12, Zenon
    <3>2. CASE m.processing[f].done
      BY <1>15, <3>1, <3>2, Zenon
    <3>3. CASE ~ m.processing[f].done
      <4>1. engine'[f].ev = "event"
        BY <3>1, <3>3, Zenon
      <4>2. f # e
        BY <1>10, <4>1
      <4>3. engine'[f] = engine[f] /\ m.processing[f] = p[f]
        BY <1>10, <1>11, <4>2
      <4> QED
        BY <1>13, <3>1, <4>1, <4>3, Zenon
    <3> QED
      BY <3>2, <3>3
  <2>4. mbuf' = mbuf
    BY <1>1
  <2> QED
    BY <1>1, <2>1, <2>2, <2>3, <2>4, Zenon DEF PacketsKept
<1>17. \A b \in Nat : Written(cache', b) <=> Written(cache, b)
  BY <1>1, <1>7, <1>9, Zenon
<1>18. CardKept'
  <2>1. Given' = Given /\ nb_rx_hold' <= Len(delivered')
    BY <1>1 DEF Given, RInv, CardKept
  <2> QED
    BY <1>1, <1>9, <2>1 DEF CardKept
<1>19. RingKept'
  BY <1>1, <1>17, RingSame
<1>20. FifoKept'
  BY <1>1, <1>7, <1>9 DEF RInv, FifoKept, FifoInOrder
<1>21. HeadKept
  BY <1>1, <1>9, <1>17, Zenon DEF HeadKept
<1> QED
  BY <1>16, <1>18, <1>19, <1>20, <1>21 DEF RInv

-----------------------------------------------------------------------------
(* The tick keeps what the card holds in order. *)

LEMMA AfterPacketOrder ==
    ASSUME IInv, RInv, AfterPacket
    PROVE  Ordered(cache', ArmedOf, UsedOf, Given) /\ SameStory(cache, cache')
<1> DEFINE left == descLeft(cache)
           K(q) == /\ CacheInv(Desc, q) /\ Ordered(q, ArmedOf, UsedOf, Given)
                   /\ SameStory(cache, q)
<1>1. K(cache)
  BY Numbers, SameStorySelf
<1>2. ASSUME NEW q, K(q), NEW c, NEW mask \in WbMasks
      PROVE  K(WbIf(c, q, mask))
  <2>1. CacheInv(Desc, WbIf(c, q, mask))
    BY <1>2, WbIfKeeps
  <2>2. Ordered(WbIf(c, q, mask), ArmedOf, UsedOf, Given) /\ SameStory(q, WbIf(c, q, mask))
    BY <1>2, WbIfOrder
  <2>3. SameStory(cache, WbIf(c, q, mask))
    BY <1>2, <2>2, SameStoryTrans
  <2> QED
    BY <2>1, <2>2, <2>3
<1>3. ASSUME NEW q, K(q), NEW c
      PROVE  K(FetchIf(c, q))
  <2>1. CacheInv(Desc, FetchIf(c, q))
    BY <1>3, FetchIfKeeps
  <2>2. Ordered(FetchIf(c, q), ArmedOf, UsedOf, Given) /\ SameStory(q, FetchIf(c, q))
    BY <1>3, Numbers, FetchIfOrder
  <2>3. SameStory(cache, FetchIf(c, q))
    BY <1>3, <2>2, SameStoryTrans
  <2> QED
    BY <2>1, <2>2, <2>3
<1>4. PICK q1 \in {WbIf(left * RdmtsRatio <= DescLen, cache, 0)} :
      \E q2 \in {WbIf(left < LowDescs, q1, 0)} :
      \E q3 \in {WbIf(rxFifo = <<>>, q2, 0)} :
      \E q4 \in {WbIf(left = 0, q3, 0)} :
      \E q5 \in {WbIf(Wthresh <= descUsed(q4), q4, WthreshMask)} :
      \E q6 \in {FetchIf(/\ descUnused(q5) < Pthresh
                         /\ descLeft(q5) - descUnused(q5) > Hthresh, q5)} :
          cache' = FetchIf(descUnused(q6) = 0, q6)
  BY Zenon DEF AfterPacket
<1>5. PICK q2 \in {WbIf(left < LowDescs, q1, 0)} :
      \E q3 \in {WbIf(rxFifo = <<>>, q2, 0)} :
      \E q4 \in {WbIf(left = 0, q3, 0)} :
      \E q5 \in {WbIf(Wthresh <= descUsed(q4), q4, WthreshMask)} :
      \E q6 \in {FetchIf(/\ descUnused(q5) < Pthresh
                         /\ descLeft(q5) - descUnused(q5) > Hthresh, q5)} :
          cache' = FetchIf(descUnused(q6) = 0, q6)
  BY <1>4, Zenon
<1>6. PICK q3 \in {WbIf(rxFifo = <<>>, q2, 0)} :
      \E q4 \in {WbIf(left = 0, q3, 0)} :
      \E q5 \in {WbIf(Wthresh <= descUsed(q4), q4, WthreshMask)} :
      \E q6 \in {FetchIf(/\ descUnused(q5) < Pthresh
                         /\ descLeft(q5) - descUnused(q5) > Hthresh, q5)} :
          cache' = FetchIf(descUnused(q6) = 0, q6)
  BY <1>5, Zenon
<1>7. PICK q4 \in {WbIf(left = 0, q3, 0)} :
      \E q5 \in {WbIf(Wthresh <= descUsed(q4), q4, WthreshMask)} :
      \E q6 \in {FetchIf(/\ descUnused(q5) < Pthresh
                         /\ descLeft(q5) - descUnused(q5) > Hthresh, q5)} :
          cache' = FetchIf(descUnused(q6) = 0, q6)
  BY <1>6, Zenon
<1>8. PICK q5 \in {WbIf(Wthresh <= descUsed(q4), q4, WthreshMask)} :
      \E q6 \in {FetchIf(/\ descUnused(q5) < Pthresh
                         /\ descLeft(q5) - descUnused(q5) > Hthresh, q5)} :
          cache' = FetchIf(descUnused(q6) = 0, q6)
  BY <1>7, Zenon
<1>9. PICK q6 \in {FetchIf(/\ descUnused(q5) < Pthresh
                           /\ descLeft(q5) - descUnused(q5) > Hthresh, q5)} :
          cache' = FetchIf(descUnused(q6) = 0, q6)
  BY <1>8, Zenon
<1> HIDE DEF K, left
<1>10. K(q1)
  <2>1. q1 = WbIf(left * RdmtsRatio <= DescLen, cache, 0)
    BY <1>4
  <2> QED
    BY <1>2, <1>1, <2>1, WthreshMaskOK
<1>11. K(q2)
  <2>1. q2 = WbIf(left < LowDescs, q1, 0)
    BY <1>5
  <2> QED
    BY <1>2, <1>10, <2>1, WthreshMaskOK
<1>12. K(q3)
  <2>1. q3 = WbIf(rxFifo = <<>>, q2, 0)
    BY <1>6
  <2> QED
    BY <1>2, <1>11, <2>1, WthreshMaskOK
<1>13. K(q4)
  <2>1. q4 = WbIf(left = 0, q3, 0)
    BY <1>7
  <2> QED
    BY <1>2, <1>12, <2>1, WthreshMaskOK
<1>14. K(q5)
  BY <1>2, <1>8, <1>13, WthreshMaskOK, Zenon
<1>15. K(q6)
  BY <1>3, <1>9, <1>14, Zenon
<1>16. K(cache')
  BY <1>3, <1>9, <1>15, Zenon
<1> QED
  BY <1>16 DEF K

(* The queue's next packet leaves the FIFO in its turn. *)
LEMMA RefillOrder ==
    ASSUME NEW n \in Nat, NEW slot, FifoInOrder(n, accepted, slot, rxFifo),
           rxFifotoRxDesc(slot), rxFifo \in Seq(Pkts), slot \in Pkts \cup {NULL}
    PROVE  FifoInOrder(n, accepted, rxPacket', rxFifo')
<1>1. CASE slot = NULL /\ rxFifo # <<>>
  <2>1. rxPacket' = Head(rxFifo) /\ rxFifo' = Tail(rxFifo)
    BY <1>1 DEF rxFifotoRxDesc
  <2>2. /\ Len(rxFifo) \in Nat /\ Len(rxFifo) >= 1 /\ Head(rxFifo) = rxFifo[1]
        /\ Len(Tail(rxFifo)) = Len(rxFifo) - 1
        /\ \A i \in 1 .. Len(rxFifo) - 1 : Tail(rxFifo)[i] = rxFifo[i + 1]
    BY <1>1
  <2>3. /\ \A i \in 1 .. Len(rxFifo) : rxFifo[i] = n + i
        /\ accepted = n + Len(rxFifo)
    <3>1. Waiting(slot) = 0
      BY <1>1 DEF Waiting
    <3> QED
      BY <3>1, <2>2 DEF FifoInOrder
  <2>4. rxPacket' = n + 1 /\ rxPacket' # NULL
    <3>1. rxPacket' = n + 1
      BY <2>1, <2>2, <2>3
    <3> QED
      BY <3>1, NullAssumption
  <2>5. Waiting(rxPacket') = 1
    BY <2>4 DEF Waiting
  <2>6. \A i \in 1 .. Len(rxFifo') : rxFifo'[i] = (n + 1) + i
    <3> SUFFICES ASSUME NEW i \in 1 .. Len(rxFifo) - 1
                 PROVE  Tail(rxFifo)[i] = (n + 1) + i
      BY <2>1, <2>2
    <3>1. i \in Nat /\ i + 1 \in 1 .. Len(rxFifo)
      BY <2>2
    <3>2. Tail(rxFifo)[i] = rxFifo[i + 1] /\ rxFifo[i + 1] = n + (i + 1)
      BY <2>2, <2>3, <3>1
    <3> QED
      BY <3>1, <3>2
  <2>7. accepted = (n + 1) + Len(rxFifo')
    <3> DEFINE len == Len(rxFifo)
    <3>1. Len(rxFifo') = len - 1
      BY <2>1, <2>2, Zenon
    <3>2. accepted = n + len /\ len \in Nat
      BY <2>2, <2>3
    <3> HIDE DEF len
    <3> QED
      BY <3>1, <3>2
  <2> QED
    BY <2>4, <2>5, <2>6, <2>7 DEF FifoInOrder
<1>2. CASE ~ (slot = NULL /\ rxFifo # <<>>)
  BY <1>2 DEF rxFifotoRxDesc
<1> QED
  BY <1>1, <1>2

(* A tick that starts no packet. *)
LEMMA IdleTickOwns ==
    ASSUME IInv, RInv, Ordered(cache', ArmedOf, UsedOf, Given), SameStory(cache, cache'),
           \A e \in PktEngines : engine'[e].ev = engine[e].ev /\ engine'[e].pkt = engine[e].pkt,
           rxFifotoRxDesc(rxPacket),
           UNCHANGED <<ring, mbuf, accepted, swRing, rx_tail, nb_rx_hold, delivered>>
    PROVE  RInv' /\ HeadKept
<1>1. /\ cache'.nextSeqToProcess = cache.nextSeqToProcess
      /\ cache'.nextSeqToWriteback = cache.nextSeqToWriteback
      /\ cache'.processing = cache.processing
      /\ \A b \in Nat : Written(cache', b) <=> Written(cache, b)
  BY Zenon DEF SameStory
<1>2. CardKept'
  <2>1. Given' = Given /\ nb_rx_hold' <= Len(delivered')
    BY DEF Given, RInv, CardKept
  <2> QED
    BY <2>1 DEF CardKept
<1>3. RingKept'
  BY <1>1, RingSame
<1>4. FifoKept'
  <2>1. FifoInOrder(cache.nextSeqToProcess, accepted, rxPacket, rxFifo)
    BY DEF RInv, FifoKept
  <2>2. rxFifo \in Seq(Pkts) /\ rxPacket \in Pkts \cup {NULL}
    BY DEF IInv, TypeOK
  <2>3. FifoInOrder(cache.nextSeqToProcess, accepted, rxPacket', rxFifo')
    BY <2>1, <2>2, Numbers, RefillOrder
  <2>4. accepted' = accepted
    OBVIOUS
  <2> QED
    BY <1>1, <2>3, <2>4 DEF FifoKept
<1>5. PacketsKept'
  BY <1>1, PacketsSame DEF RInv
<1>6. HeadKept
  BY <1>1, Numbers DEF HeadKept
<1> QED
  BY <1>2, <1>3, <1>4, <1>5, <1>6 DEF RInv

(* A packet takes the next descriptor. *)
LEMMA WritePacketOwns ==
    ASSUME IInv, RInv, writePacketGlobal, rxFifotoRxDesc(NULL),
           UNCHANGED <<ring, mbuf, accepted, swRing, rx_tail, nb_rx_hold, delivered>>
    PROVE  RInv' /\ HeadKept
<1> DEFINE e == Lowest(FreeEngines)
           h == Head(cache.unused)
           p == cache.processing
           n == cache.nextSeqToProcess
<1>1. /\ FreeEngines # {} /\ rxPacket # NULL /\ cache.unused # <<>>
      /\ cache' = TakeDesc(cache, e)
      /\ engine' = [engine EXCEPT ![e].pkt = rxPacket, ![e].ev = "dma"]
  BY DEF writePacketGlobal
<1>2. e \in PktEngines /\ p[e].desc = NULL
  <2>1. FreeEngines \in SUBSET PktEngines
    BY DEF FreeEngines
  <2>2. e \in FreeEngines
    BY <1>1, <2>1, LowestFound
  <2> QED
    BY <2>2 DEF FreeEngines
<1> HIDE DEF e
<1>3. /\ CacheInv(Desc, cache) /\ Ordered(cache, ArmedOf, UsedOf, Given) /\ n \in Nat
      /\ cache.nextSeqToWriteback \in Nat
  BY Numbers
<1>4. /\ cache'.processing = [p EXCEPT ![e] = [desc |-> h, seqIdx |-> n, done |-> FALSE]]
      /\ cache'.nextSeqToWriteback = cache.nextSeqToWriteback
  BY <1>1, <1>2, <1>3, NullIsNoDesc, TakeDescKeeps
<1>5. /\ Ordered(cache', ArmedOf, UsedOf, Given)
      /\ cache'.nextSeqToProcess = n + 1
      /\ \A b : Written(cache', b) <=> Written(cache, b)
  BY <1>1, <1>2, <1>3, TakeDescOrder
<1>6. /\ p \in [PktEngines -> [desc : Desc \cup {NULL}, seqIdx : Nat, done : BOOLEAN]]
      /\ engine \in [PktEngines -> [pkt : Pkts \cup {NULL}, ev : Stages, pktDone : BOOLEAN]]
  BY <1>3, ProcessingFacts, EngineFacts
<1> HIDE DEF h, p
<1>7. /\ cache'.processing[e].seqIdx = n /\ ~ cache'.processing[e].done
      /\ \A f \in PktEngines : f # e => cache'.processing[f] = p[f]
  BY <1>2, <1>4, <1>6
<1>8. /\ engine'[e].ev = "dma" /\ engine'[e].pkt = rxPacket
      /\ \A f \in PktEngines : f # e => engine'[f] = engine[f]
  BY <1>1, <1>2, <1>6
<1>9. /\ rxFifo \in Seq(Pkts) /\ FifoInOrder(n, accepted, rxPacket, rxFifo)
      /\ Len(rxFifo) \in Nat
  BY DEF IInv, TypeOK, RInv, FifoKept
<1>10. rxPacket = n + 1 /\ Waiting(rxPacket) = 1
  BY <1>1, <1>9 DEF FifoInOrder, Waiting
<1>11. FifoInOrder(n + 1, accepted, NULL, rxFifo)
  <2>1. /\ \A i \in 1 .. Len(rxFifo) : rxFifo[i] = (n + 1) + i
        /\ accepted = (n + 1) + Len(rxFifo)
    BY <1>9, <1>10 DEF FifoInOrder
  <2>2. (n + 1) + Waiting(NULL) = n + 1
    BY <1>3 DEF Waiting
  <2> QED
    BY <2>1, <2>2 DEF FifoInOrder
<1>12. FifoKept'
  <2>1. n + 1 \in Nat
    BY <1>3
  <2>2. FifoInOrder(n + 1, accepted, rxPacket', rxFifo')
    BY <1>9, <1>11, <2>1, RefillOrder
  <2>3. accepted' = accepted
    OBVIOUS
  <2> QED
    BY <1>5, <2>2, <2>3 DEF FifoKept
<1>13. PacketsKept'
  <2> DEFINE q == cache'
  <2>1. /\ \A f \in PktEngines : engine[f].ev # "idle" => engine[f].pkt = p[f].seqIdx + 1
        /\ \A b \in 0 .. cache.nextSeqToWriteback - 1 : mbuf[b] = b + 1
        /\ \A f \in PktEngines :
              p[f].desc # NULL /\ (p[f].done \/ engine[f].ev = "event")
              => mbuf[p[f].seqIdx] = p[f].seqIdx + 1
    BY DEF RInv, PacketsKept, p
  <2>2. engine'[e].pkt = q.processing[e].seqIdx + 1
    BY <1>7, <1>8, <1>10
  <2> HIDE DEF q, n
  <2>3. \A f \in PktEngines : engine'[f].ev # "idle" =>
                                 engine'[f].pkt = q.processing[f].seqIdx + 1
    BY <1>7, <1>8, <2>1, <2>2, Zenon DEF q
  <2>4. \A f \in PktEngines :
           q.processing[f].desc # NULL /\ (q.processing[f].done \/ engine'[f].ev = "event")
           => mbuf[q.processing[f].seqIdx] = q.processing[f].seqIdx + 1
    <3> SUFFICES ASSUME NEW f \in PktEngines, q.processing[f].desc # NULL,
                        q.processing[f].done \/ engine'[f].ev = "event"
                 PROVE  mbuf[q.processing[f].seqIdx] = q.processing[f].seqIdx + 1
      OBVIOUS
    <3>1. ~ q.processing[e].done /\ engine'[e].ev # "event"
      BY <1>7, <1>8 DEF q
    <3>2. f # e
      BY <3>1
    <3>3. q.processing[f] = p[f] /\ engine'[f] = engine[f]
      BY <1>7, <1>8, <3>2 DEF q
    <3> QED
      BY <2>1, <3>3, Zenon
  <2>5. mbuf' = mbuf
    OBVIOUS
  <2> QED
    BY <1>4, <2>1, <2>3, <2>4, <2>5, Zenon DEF PacketsKept, q
<1>14. CardKept'
  <2>1. Given' = Given /\ nb_rx_hold' <= Len(delivered')
    BY DEF Given, RInv, CardKept
  <2> QED
    BY <1>5, <2>1 DEF CardKept
<1>15. \A b \in Nat : Written(cache', b) <=> Written(cache, b)
  BY <1>5, Zenon
<1>16. RingKept'
  BY <1>15, RingSame
<1>17. HeadKept
  BY <1>3, <1>4, <1>15 DEF HeadKept
<1> QED
  BY <1>12, <1>13, <1>14, <1>16, <1>17 DEF RInv

LEMMA TickOwns ==
    ASSUME IInv, RInv, tick
    PROVE  RInv' /\ HeadKept
<1>1. UNCHANGED <<ring, mbuf, accepted, swRing, rx_tail, nb_rx_hold, delivered>>
  BY Zenon DEF tick, driver
<1>2. CASE PacketCompleted /\ rxFifotoRxDesc(rxPacket)
  <2> DEFINE e == Lowest(ReadyEngines)
  <2>1. engine' = [engine EXCEPT ![e].pktDone = FALSE] /\ AfterPacket
    BY <1>2 DEF PacketCompleted
  <2>2. engine \in [PktEngines -> [pkt : Pkts \cup {NULL}, ev : Stages, pktDone : BOOLEAN]]
    BY EngineFacts
  <2> HIDE DEF e
  <2>3. \A f \in PktEngines : engine'[f].ev = engine[f].ev /\ engine'[f].pkt = engine[f].pkt
    BY <2>1, <2>2
  <2>4. Ordered(cache', ArmedOf, UsedOf, Given) /\ SameStory(cache, cache')
    BY <2>1, AfterPacketOrder
  <2> QED
    BY <1>1, <1>2, <2>3, <2>4, IdleTickOwns
<1>3. CASE writePacketGlobal /\ rxFifotoRxDesc(NULL)
  BY <1>1, <1>3, WritePacketOwns
<1>4. CASE NothingToWrite /\ rxFifotoRxDesc(rxPacket)
  <2>1. engine' = engine /\ (cache' = cache \/ cache' = fetchDescriptorsGlobal(cache))
    BY <1>4, Zenon DEF NothingToWrite
  <2>2. Ordered(cache', ArmedOf, UsedOf, Given) /\ SameStory(cache, cache')
    BY <2>1, Numbers, FetchOrder, SameStorySelf
  <2> QED
    BY <1>1, <1>4, <2>1, <2>2, IdleTickOwns
<1> QED
  BY <1>2, <1>3, <1>4, Zenon DEF tick

-----------------------------------------------------------------------------
(* RInv is inductive relative to IInv. *)

LEMMA InitRInv == Init => RInv
<1> SUFFICES ASSUME Init PROVE RInv
  OBVIOUS
<1> DEFINE q == [EmptyCache EXCEPT !.tail = DescLen - 1]
<1>0. /\ engine = [e \in PktEngines |-> IdleEngine]
      /\ rxFifo = <<>> /\ rxPacket = NULL
      /\ ring = [s \in Slots |-> Armed(s)] /\ swRing = [s \in Slots |-> s]
      /\ rx_tail = 0 /\ nb_rx_hold = 0
      /\ accepted = 0 /\ delivered = <<>>
  BY Zenon DEF Init
<1>1. DescLen - 1 \in Slots /\ DescLen - 1 \in Nat
  BY DescLenAssumption DEF Slots
<1>2. CacheInv(Desc, q)
  BY <1>1, EmptyCacheInv, TailKeeps
<1>3. /\ Ordered(q, ArmedOf, UsedOf, DescLen - 1)
      /\ q.nextSeqToProcess = 0 /\ q.nextSeqToWriteback = 0
      /\ q.processing = [e \in PktEngines |-> NoEntry]
      /\ \A b \in Nat : ~ Written(q, b)
  BY EmptyCacheOrder
<1>4. cache = fetchDescriptorsGlobal(q)
  BY DEF Init
<1> HIDE DEF q
<1>5. Ordered(cache, ArmedOf, UsedOf, DescLen - 1) /\ SameStory(q, cache)
  BY <1>1, <1>2, <1>3, <1>4, FetchOrder
<1>6. /\ cache.nextSeqToProcess = 0 /\ cache.nextSeqToWriteback = 0
      /\ cache.processing = [e \in PktEngines |-> NoEntry]
      /\ \A b \in Nat : ~ Written(cache, b)
  BY <1>3, <1>5, Zenon DEF SameStory
<1>7. Len(delivered) = 0
  BY <1>0
<1>8. CardKept
  <2>1. Given = DescLen - 1
    BY <1>0, <1>1, <1>7 DEF Given
  <2> QED
    BY <1>0, <1>5, <1>7, <2>1 DEF CardKept
<1>9. RingKept
  <2>1. ASSUME NEW b \in 0 .. (0 + DescLen) - 1
        PROVE  /\ ring[b % DescLen] = [buf |-> b, dd |-> Written(cache, b)]
               /\ swRing[b % DescLen] = b
    <3>1. b \in Nat /\ b \in 0 .. (DescLen - 1) /\ b \in Slots
      BY DescLenAssumption DEF Slots
    <3>2. b % DescLen = b
      BY <3>1, DescLenAssumption
    <3>3. Written(cache, b) = FALSE
      <4>1. ~ Written(cache, b)
        BY <1>6, <3>1
      <4>2. Written(cache, b) \in BOOLEAN
        BY DEF Written, Reached
      <4> QED
        BY <4>1, <4>2
    <3>4. ring[b] = [buf |-> b, dd |-> FALSE] /\ swRing[b] = b
      BY <1>0, <3>1 DEF Armed
    <3> QED
      BY <3>2, <3>3, <3>4, Zenon
  <2>2. \A b \in 0 .. 0 - 1 : Written(cache, b)
    OBVIOUS
  <2>3. 0 % DescLen = 0
    BY DescLenAssumption
  <2> QED
    BY <1>0, <1>7, <2>1, <2>2, <2>3, Zenon DEF RingKept
<1>10. FifoKept
  BY <1>0, <1>6 DEF FifoKept, FifoInOrder, Waiting
<1>11. PacketsKept
  <2>1. \A e \in PktEngines : engine[e].ev = "idle" /\ cache.processing[e].desc = NULL
    BY <1>0, <1>6 DEF IdleEngine, NoEntry
  <2>2. \A b \in 0 .. cache.nextSeqToWriteback - 1 : mbuf[b] = b + 1
    BY <1>6
  <2> QED
    BY <2>1, <2>2, Zenon DEF PacketsKept
<1> QED
  BY <1>8, <1>9, <1>10, <1>11 DEF RInv

LEMMA NextRInv == IInv /\ RInv /\ [Next]_vars => RInv' /\ HeadKept
<1> SUFFICES ASSUME IInv, RInv, [Next]_vars PROVE RInv' /\ HeadKept
  OBVIOUS
<1>1. CASE ethRxPkt
  BY <1>1, EthRxPktOwns
<1>2. CASE tick
  BY <1>2, TickOwns
<1>3. CASE rdtrProcess
  BY <1>3, RdtrOwns
<1>4. CASE drain \/ drainResume
  <2>1. UNCHANGED <<cache, engine, rxFifo, rxPacket, ring, swRing, mbuf, rx_tail,
                    nb_rx_hold, accepted, delivered>>
    BY <1>4, Zenon DEF drain, drainResume, driver
  <2> QED
    BY <2>1, RestKept
<1>5. CASE \E e \in PktEngines : PacketDma(e) \/ onDMAComplete(e)
  BY <1>5, PacketDmaOwns, OnDMACompleteOwns
<1>6. CASE \E e \in DescEngines : fetchRegister1(e) \/ writebackRegister1(e)
  BY <1>6, RegisterOwns
<1>7. CASE \E e \in DescEngines : FetchDma(e) \/ fetchComplete(e)
  BY <1>7, FetchDmaOwns, FetchCompleteOwns
<1>8. CASE \E e \in DescEngines : WritebackDma(e) \/ writebackComplete(e)
  BY <1>8, WritebackDmaOwns, WritebackCompleteOwns
<1>9. CASE eth_em_recv_pkts
  BY <1>9, RecvOwns
<1>10. CASE WriteRDT
  BY <1>10, WriteRDTOwns
<1>11. CASE UNCHANGED vars
  <2>1. UNCHANGED <<cache, engine, rxFifo, rxPacket, ring, swRing, mbuf, rx_tail,
                    nb_rx_hold, accepted, delivered>>
    BY <1>11, Zenon DEF vars
  <2> QED
    BY <2>1, RestKept
<1> QED
  BY <1>1, <1>2, <1>3, <1>4, <1>5, <1>6, <1>7, <1>8, <1>9, <1>10, <1>11, Zenon DEF Next

(* The descriptors and the packets keep their numbers: what the card holds,*)
(* what lies in the ring, in the FIFO, in the engines and in the buffers   *)
(* agree on which packet goes with which descriptor, after every handler of*)
(* the card, every answer of memory and every call of the driver.          *)
THEOREM RxNumbersAgree == Spec => [](IInv /\ RInv)
<1>1. Init => IInv /\ RInv
  BY InitIInv, InitRInv
<1>2. (IInv /\ RInv) /\ [Next]_vars => (IInv /\ RInv)'
  BY NextIInv, NextRInv
<1> QED
  BY <1>1, <1>2, PTL DEF Spec

-----------------------------------------------------------------------------
(* What follows from the numbers. *)

(* A descriptor the card has cached and not written back is in the ring as *)
(* the driver armed it.                                                    *)
LEMMA OwnedSlot ==
    ASSUME IInv, RInv, NEW b \in Nat, b < CacheSeq(cache), ~ Written(cache, b)
    PROVE  \E s \in Slots : ring[s] = Armed(b) /\ swRing[s] = b
<1> DEFINE D == Len(delivered)
<1>1. D \in Nat /\ b <= D + (DescLen - 1)
  <2> DEFINE c == CacheSeq(cache)
             f == FetchSeq(cache)
  <2>1. /\ c \in Nat /\ f \in Nat /\ Given \in Nat /\ D \in Nat
        /\ c <= f /\ f <= Given /\ Given <= D + (DescLen - 1) /\ b < c
    BY Numbers
  <2> HIDE DEF c, f, D
  <2> QED
    BY <2>1, DescLenAssumption
<1>2. /\ \A a \in D .. (D + DescLen) - 1 :
            /\ ring[a % DescLen] = [buf |-> a, dd |-> Written(cache, a)]
            /\ swRing[a % DescLen] = a
      /\ \A a \in 0 .. D - 1 : Written(cache, a)
  BY DEF RInv, RingKept
<1> HIDE DEF D
<1>3. ~ (b < D)
  BY <1>1, <1>2
<1>4. b \in D .. (D + DescLen) - 1
  BY <1>1, <1>3, DescLenAssumption
<1>5. Written(cache, b) = FALSE
  <2>1. Written(cache, b) \in BOOLEAN
    BY DEF Written, Reached
  <2> QED
    BY <2>1
<1>6. ring[b % DescLen] = [buf |-> b, dd |-> FALSE] /\ swRing[b % DescLen] = b
  BY <1>2, <1>4, <1>5, Zenon
<1>7. b % DescLen \in Slots
  BY ModInSlots
<1> QED
  BY <1>6, <1>7, Zenon DEF Armed

LEMMA CardOwns ==
    ASSUME IInv, RInv
    PROVE  CardOwnsWhatItHolds
<1> DEFINE h == HeadSeq(cache)
           w == cache.nextSeqToWriteback
           n == cache.nextSeqToProcess
           c == CacheSeq(cache)
           Own(d) == \E s \in Slots : ring[s] = Armed(d.buf) /\ swRing[s] = d.buf
<1>1. /\ CacheInv(Desc, cache) /\ CacheInOrder(cache, ArmedOf, UsedOf)
      /\ w \in Nat /\ n \in Nat /\ c \in Nat /\ w <= n /\ n <= c
  BY Numbers
<1>2. /\ cache.wb \in JobsType(Desc) /\ cache.head \in Slots /\ cache.wb.ing \in Nat
      /\ cache.used \in Seq(Desc) /\ cache.unused \in Seq(Desc)
      /\ Len(cache.used) \in Nat /\ Len(cache.unused) \in Nat
  BY <1>1, CacheFacts
<1>3. /\ JobsContiguous(cache.wb, cache.head) /\ TransfersAgree(cache.wb)
      /\ BuffersFilled(cache) /\ ProcessingInOrder(cache)
  BY <1>1 DEF CacheInv, BanksContiguous, BuffersFilled
<1>4. h \in Nat /\ h + Len(cache.used) = w /\ h + cache.wb.ing <= w
  BY <1>1, OrderFacts
<1>5. c = n + Len(cache.unused)
  BY DEF CacheSeq
<1>6. \A b \in Nat : /\ ArmedOf[b].buf = b /\ UsedOf[b].buf = b
  BY DEF ArmedOf, UsedOf, Armed
<1>7. ASSUME NEW b \in Nat, b < c, ~ Written(cache, b), NEW d, d.buf = b
      PROVE  Own(d)
  BY <1>7, OwnedSlot
<1> HIDE DEF Own
<1>8. ASSUME NEW i \in (cache.wb.ing + 1) .. Len(cache.used)
      PROVE  Own(cache.used[i])
  <2> DEFINE b == h + (i - 1)
  <2>1. /\ i \in 1 .. Len(cache.used) /\ b \in Nat /\ b < c /\ ~ (b < h + cache.wb.ing)
    <3> DEFINE k   == cache.wb.ing
               len == Len(cache.used)
    <3>1. /\ k \in Nat /\ len \in Nat /\ h \in Nat /\ i \in (k + 1) .. len
          /\ h + len = w /\ w \in Nat /\ c \in Nat /\ w <= c
      <4> HIDE DEF h, c, w
      <4>1. w <= c
        BY <1>1
      <4> QED
        BY <1>1, <1>2, <1>4, <4>1
    <3> HIDE DEF h, c, w, k, len
    <3>2. i \in 1 .. len /\ b \in Nat /\ b < c /\ ~ (b < h + k)
      BY <3>1
    <3> QED
      BY <3>2 DEF k, len
  <2>2. cache.used[i] = UsedOf[b]
    BY <1>1, <2>1 DEF CacheInOrder
  <2>3. ~ Written(cache, b)
    BY <1>2, <1>3, <1>4, <2>1, ReachedBound DEF Written
  <2> HIDE DEF b
  <2> QED
    BY <1>6, <1>7, <2>1, <2>2, <2>3
<1>9. ASSUME NEW i \in 1 .. Len(cache.unused)
      PROVE  Own(cache.unused[i])
  <2> DEFINE b == n + (i - 1)
  <2>1. b \in Nat /\ b < c /\ ~ (b < w)
    <3> HIDE DEF c
    <3> QED
      BY <1>1, <1>2, <1>5
  <2>2. cache.unused[i] = ArmedOf[b]
    BY <1>1 DEF CacheInOrder
  <2>3. ~ Written(cache, b)
    BY <1>1, <2>1, WrittenBound
  <2> HIDE DEF b
  <2> QED
    BY <1>6, <1>7, <2>1, <2>2, <2>3
<1>10. ASSUME NEW e \in PktEngines, cache.processing[e].desc # NULL
       PROVE  Own(cache.processing[e].desc)
  <2> DEFINE b == cache.processing[e].seqIdx
  <2>1. b \in Nat /\ cache.processing[e].desc.buf = b
    BY <1>10, SeqIdxIsBuf
  <2>2. w <= b /\ b < n
    BY <1>3, <1>10 DEF ProcessingInOrder
  <2> HIDE DEF b
  <2>3. b < c /\ ~ (b < w)
    <3> HIDE DEF c
    <3> QED
      BY <1>1, <2>1, <2>2
  <2>4. ~ Written(cache, b)
    BY <1>1, <2>1, <2>3, WrittenBound
  <2> QED
    BY <1>7, <2>1, <2>3, <2>4
<1>11. ASSUME NEW e \in DescEngines, cache.wb.ev[e] # "idle",
              NEW x \in (cache.wb.moved[e] + 1) .. Len(cache.wb.buf[e])
       PROVE  Own(cache.wb.buf[e][x])
  <2> DEFINE j == cache.wb
  <2>1. /\ j.working[e] /\ ~ j.done[e]
        /\ \E i \in 1 .. Len(j.queue) : j.queue[i] = e
    BY <1>3, <1>11, Zenon DEF JobsContiguous
  <2>2. PICK i \in 1 .. Len(j.queue) : j.queue[i] = e
    BY <2>1
  <2>3. Len(j.buf[e]) = j.num[e] /\ Got(j, e) = j.moved[e]
    BY <1>3, <2>1 DEF BuffersFilled, Got
  <2>4. j.moved[e] \in Nat
    BY <1>2 DEF JobsType
  <2>5. /\ Ahead(j, i - 1) \in Nat /\ Ahead(j, i) = Ahead(j, i - 1) + j.num[e]
        /\ j.ing \in Nat /\ Ahead(j, i) <= j.ing /\ j.num[e] \in Nat
    BY <1>2, <1>3, <2>2, GotBound
  <2>6. x \in Nat /\ Got(j, j.queue[i]) < x /\ x <= j.num[j.queue[i]]
        /\ x \in 1 .. Len(j.buf[j.queue[i]])
    BY <2>2, <2>3, <2>4, <2>5
  <2> DEFINE a == Ahead(j, i - 1)
             b == h + (a + (x - 1))
  <2>7. ~ Written(cache, b)
    BY <1>2, <1>3, <1>4, <2>2, <2>6, NotReached DEF Written
  <2>8. j.buf[e][x] = UsedOf[b]
    <3>1. BufsInOrder(j, h, UsedOf)
      BY <1>1 DEF CacheInOrder
    <3>2. j.buf[j.queue[i]][x] = UsedOf[h + (Ahead(j, i - 1) + (x - 1))]
      BY <2>6, <3>1 DEF BufsInOrder
    <3> QED
      BY <2>2, <3>2
  <2>9. b \in Nat /\ b < c
    <3> DEFINE m == j.num[e]
               k == j.ing
    <3>1. a \in Nat /\ m \in Nat /\ k \in Nat /\ a + m <= k /\ x \in Nat /\ x >= 1 /\ x <= m
      BY <2>2, <2>4, <2>5, <2>6
    <3>2. h \in Nat /\ h + k <= w
      BY <1>4
    <3> HIDE DEF a, m, k, h, c
    <3> QED
      BY <1>1, <3>1, <3>2
  <2> HIDE DEF b
  <2> QED
    BY <1>6, <1>7, <2>7, <2>8, <2>9
<1>12. ASSUME NEW d \in Unwritten PROVE Own(d)
  <2>1. CASE d \in {cache.used[i] : i \in (cache.wb.ing + 1) .. Len(cache.used)}
    BY <1>8, <2>1, Zenon
  <2>2. CASE d \in {cache.unused[i] : i \in 1 .. Len(cache.unused)}
    BY <1>9, <2>2, Zenon
  <2>3. CASE d \in {cache.processing[e].desc : e \in PktEngines} \ {NULL}
    BY <1>10, <2>3, Zenon
  <2>4. CASE d \in UNION {{cache.wb.buf[e][x] :
                             x \in (cache.wb.moved[e] + 1) .. Len(cache.wb.buf[e])} :
                             e \in {f \in DescEngines : cache.wb.ev[f] # "idle"}}
    BY <1>11, <2>4, Zenon
  <2> QED
    BY <1>12, <2>1, <2>2, <2>3, <2>4, Zenon DEF Unwritten
<1> QED
  BY <1>12 DEF CardOwnsWhatItHolds, Own

(* The card never holds a stale descriptor: a descriptor in its caches, in *)
(* process or in a write-back that memory has not performed is still armed *)
(* in the ring, and its buffer still the driver's buffer for that slot.  So*)
(* neither a packet nor a status reaches memory that the driver has given  *)
(* to somebody else, for every size of ring and cache and every number of  *)
(* engines.                                                                *)
THEOREM RxCardOwns == Spec => []CardOwnsWhatItHolds
<1>1. IInv /\ RInv => CardOwnsWhatItHolds
  BY CardOwns
<1> QED
  BY <1>1, RxNumbersAgree, PTL

LEMMA HeadFollows ==
    ASSUME IInv, RInv, IInv', RInv', HeadKept,
           NEW i \in 1 .. Len(cache.used) - Len(cache'.used), NEW s \in Slots
    PROVE  ring[s] # Armed(cache.used[i].buf)
<1> DEFINE h == HeadSeq(cache)
           k == HeadSeq(cache')
           b == h + (i - 1)
           D == Len(delivered)
<1>1. /\ CacheInv(Desc, cache) /\ CacheInOrder(cache, ArmedOf, UsedOf)
      /\ cache.nextSeqToWriteback \in Nat /\ D \in Nat
  BY Numbers
<1>2. CacheInv(Desc, cache') /\ Len(cache'.used) \in Nat /\ cache'.nextSeqToWriteback \in Nat
  <2>1. CacheInv(Desc, cache')
    BY DEF IInv
  <2> QED
    BY <2>1, CacheFacts, ProcessingFacts
<1>3. Len(cache.used) \in Nat /\ h \in Nat /\ h + Len(cache.used) = cache.nextSeqToWriteback
  BY <1>1, CacheFacts, OrderFacts
<1>4. k = cache'.nextSeqToWriteback - Len(cache'.used)
  BY DEF HeadSeq
<1>5. cache.nextSeqToWriteback <= cache'.nextSeqToWriteback
  BY DEF HeadKept
<1>6. \A a \in Nat : Written(cache', a) <=> Written(cache, a)
  <2>1. cache'.used # cache.used
    BY <1>2, <1>3
  <2> QED
    BY <2>1, Zenon DEF HeadKept
<1>7. b \in Nat /\ b < k /\ i \in 1 .. Len(cache.used)
  <2> DEFINE l == Len(cache.used)
             m == Len(cache'.used)
             n == cache.nextSeqToWriteback
             w == cache'.nextSeqToWriteback
  <2>1. /\ l \in Nat /\ m \in Nat /\ n \in Nat /\ w \in Nat /\ h \in Nat
        /\ h + l = n /\ k = w - m /\ n <= w
    BY <1>1, <1>2, <1>3, <1>4, <1>5
  <2>2. i \in 1 .. l - m
    OBVIOUS
  <2> HIDE DEF h, k, l, m, n, w
  <2>3. b \in Nat /\ b < k /\ i \in 1 .. l
    BY <2>1, <2>2
  <2> QED
    BY <2>3 DEF l
<1>8. Written(cache, b)
  <2>1. Written(cache', b)
    BY <1>7 DEF Written, Reached
  <2> QED
    BY <1>6, <1>7, <2>1
<1>9. cache.used[i].buf = b
  <2>1. cache.used[i] = UsedOf[b]
    BY <1>1, <1>7 DEF CacheInOrder
  <2> HIDE DEF b
  <2> QED
    BY <1>7, <2>1 DEF UsedOf
<1> HIDE DEF b, D
<1>10. PICK a \in D .. D + DescLen - 1 : a % DescLen = s
  <2>1. s \in 0 .. DescLen - 1
    BY DEF Slots
  <2> QED
    BY <1>1, <2>1, ModCovers, DescLenAssumption
<1>11. a \in D .. (D + DescLen) - 1
  BY <1>1, <1>10, DescLenAssumption
<1>12. ring[s] = [buf |-> a, dd |-> Written(cache, a)]
  BY <1>10, <1>11 DEF RInv, RingKept, D
<1>13. SUFFICES ASSUME ring[s] = [buf |-> b, dd |-> FALSE] PROVE FALSE
  BY <1>9 DEF Armed
<1>14. a = b /\ Written(cache, a) = FALSE
  BY <1>12, <1>13
<1> QED
  BY <1>8, <1>14

(* The head register passes a descriptor only after its write-back has     *)
(* reached host memory: at no step that takes descriptors off the used     *)
(* cache does the ring still hold one of them armed, in whatever order the *)
(* write-back engines finish.                                              *)
THEOREM RxHeadFollows == Spec => HeadFollowsMemory
<1> DEFINE A == \A i \in 1 .. Len(cache.used) - Len(cache'.used) :
                    cache.head # cache'.head =>
                        \A s \in Slots : ring[s] # Armed(cache.used[i].buf)
<1>1. ASSUME IInv, RInv, [Next]_vars PROVE A
  <2>1. IInv' /\ RInv' /\ HeadKept
    BY <1>1, NextIInv, NextRInv
  <2> QED
    BY <1>1, <2>1, HeadFollows
<1>2. (IInv /\ RInv) /\ [Next]_vars => [A]_vars
  BY <1>1
<1> QED
  BY <1>2, RxNumbersAgree, PTL DEF Spec, HeadFollowsMemory

(* A packet is accepted only while the FIFO has room, and then the channel *)
(* has: the engines took at most as many packets as the driver gave        *)
(* descriptors.                                                            *)
LEMMA AcceptStep ==
    ASSUME IInv, RInv, Len(rxFifo) < RxFifoSize
    PROVE  accepted - Len(delivered) < RxFifoSize + DescLen
<1> DEFINE D == Len(delivered)
           n == cache.nextSeqToProcess
           c == CacheSeq(cache)
           f == FetchSeq(cache)
           len == Len(rxFifo)
           v == Waiting(rxPacket)
<1>1. /\ D \in Nat /\ n \in Nat /\ c \in Nat /\ f \in Nat /\ Given \in Nat
      /\ n <= c /\ c <= f /\ f <= Given /\ Given <= D + (DescLen - 1)
  BY Numbers
<1>2. len \in Nat /\ len < RxFifoSize
  <2>1. rxFifo \in Seq(Pkts)
    BY DEF IInv, TypeOK
  <2> QED
    BY <2>1
<1>3. accepted = (n + v) + len
  BY DEF RInv, FifoKept, FifoInOrder
<1>4. v \in 0 .. 1
  BY DEF Waiting
<1> HIDE DEF D, n, c, f, len, v
<1>5. n <= D + (DescLen - 1)
  BY <1>1, DescLenAssumption
<1>6. accepted - D < RxFifoSize + DescLen
  BY <1>1, <1>2, <1>3, <1>4, <1>5, DescLenAssumption, RxAssumption
<1> QED
  BY <1>6 DEF D

(* What the driver hands out next has been accepted. *)
LEMMA DeliverStep ==
    ASSUME IInv, RInv, ring[rx_tail].dd
    PROVE  Len(delivered) < accepted
<1> DEFINE n == cache.nextSeqToProcess
           w == cache.nextSeqToWriteback
           len == Len(rxFifo)
           v == Waiting(rxPacket)
<1>1. Len(delivered) \in Nat /\ Len(delivered) < w /\ w \in Nat /\ n \in Nat /\ w <= n
  BY Numbers, NextSlot
<1>2. len \in Nat
  <2>1. rxFifo \in Seq(Pkts)
    BY DEF IInv, TypeOK
  <2> QED
    BY <2>1
<1>3. accepted = (n + v) + len
  BY DEF RInv, FifoKept, FifoInOrder
<1>4. v \in 0 .. 1
  BY DEF Waiting
<1> HIDE DEF n, w, len, v
<1> QED
  BY <1>1, <1>2, <1>3, <1>4

LEMMA ChannelStep ==
    ASSUME IInv, RInv, [Next]_vars
    PROVE  [Chan!Accept \/ Chan!Deliver]_<<accepted, delivered>>
<1>1. CASE ethRxPkt
  <2>1. CASE /\ Len(rxFifo) < RxFifoSize
             /\ accepted' = accepted + 1
    <3>1. accepted - Len(delivered) < RxFifoSize + DescLen
      BY <2>1, AcceptStep
    <3>2. delivered' = delivered
      BY <1>1, Zenon DEF ethRxPkt, driver
    <3> QED
      BY <2>1, <3>1, <3>2 DEF Chan!Accept
  <2>2. CASE UNCHANGED accepted
    BY <1>1, <2>2, Zenon DEF ethRxPkt, driver
  <2> QED
    BY <1>1, <2>1, <2>2, Zenon DEF ethRxPkt
<1>2. CASE eth_em_recv_pkts
  <2>1. /\ ring[rx_tail].dd /\ delivered' = Append(delivered, mbuf[swRing[rx_tail]])
        /\ accepted' = accepted
    BY <1>2, Zenon DEF eth_em_recv_pkts
  <2>2. Len(delivered) < accepted /\ mbuf[swRing[rx_tail]] = Len(delivered) + 1
    BY <2>1, DeliverStep, NextSlot
  <2> QED
    BY <2>1, <2>2 DEF Chan!Deliver
<1>3. CASE ~ ethRxPkt /\ ~ eth_em_recv_pkts
  <2>1. CASE tick \/ rdtrProcess \/ drain \/ drainResume
    BY <2>1, Zenon DEF tick, rdtrProcess, drain, drainResume, driver
  <2>2. CASE \E e \in PktEngines : PacketDma(e) \/ onDMAComplete(e)
    BY <2>2, Zenon DEF PacketDma, onDMAComplete, driver
  <2>3. CASE \E e \in DescEngines : fetchRegister1(e) \/ FetchDma(e) \/ fetchComplete(e)
    BY <2>3, Zenon DEF fetchRegister1, FetchDma, fetchComplete, driver
  <2>4. CASE \E e \in DescEngines :
                writebackRegister1(e) \/ WritebackDma(e) \/ writebackComplete(e)
    BY <2>4, Zenon DEF writebackRegister1, WritebackDma, writebackComplete, driver
  <2>5. CASE WriteRDT
    BY <2>5, Zenon DEF WriteRDT
  <2>6. CASE UNCHANGED vars
    BY <2>6, Zenon DEF vars
  <2> QED
    BY <1>3, <2>1, <2>2, <2>3, <2>4, <2>5, <2>6, Zenon DEF Next
<1> QED
  BY <1>1, <1>2, <1>3

(* The card and the driver implement the channel: every step either accepts*)
(* one packet while fewer than the FIFO and the ring can hold are under    *)
(* way, or hands the oldest accepted packet to the application, or leaves  *)
(* both alone.  No packet that the receive FIFO accepted is lost, repeated *)
(* or reordered, for every size of the FIFO, the ring, the cache and the   *)
(* banks of engines, and wherever a drain falls.                           *)
THEOREM RxChannelSafe == Spec => ChannelSafety
<1>1. Init => Chan!Init
  BY Zenon DEF Init, Chan!Init
<1>2. (IInv /\ RInv) /\ [Next]_vars => [Chan!Accept \/ Chan!Deliver]_<<accepted, delivered>>
  BY ChannelStep
<1> QED
  BY <1>1, <1>2, RxNumbersAgree, PTL DEF Spec, ChannelSafety, Chan!Safety, Chan!chan

=============================================================================
