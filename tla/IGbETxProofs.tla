----------------------------- MODULE IGbETxProofs -----------------------------
(***************************************************************************)
(* The transmit path keeps the descriptor cache, the packet engines, the   *)
(* reservations of the FIFO and the driver's queue in agreement, for every *)
(* ring length, cache size, FIFO size, number of engines and set of        *)
(* segment lengths, and for the thresholds for which it can (see           *)
(* ThresholdsFit).                                                         *)
(***************************************************************************)
EXTENDS IGbETx, DescCacheGlobalProofs, FunctionTheorems

-----------------------------------------------------------------------------
(* Sums of lengths. *)

ByteSet(f) == {p \in (DOMAIN f) \X (1 .. FifoMax) : p[2] <= f[p[1]]}

LEMMA ByteSetFinite ==
    ASSUME NEW D, IsFiniteSet(D), NEW f \in [D -> 0 .. FifoMax]
    PROVE  IsFiniteSet(ByteSet(f)) /\ Bytes(f) = Cardinality(ByteSet(f)) /\ Bytes(f) \in Nat
<1>1. IsFiniteSet(1 .. FifoMax)
  BY FS_Interval, FifoMaxAssumption
<1>2. IsFiniteSet(D \X (1 .. FifoMax))
  BY <1>1, FS_Product
<1>3. ByteSet(f) \in SUBSET (D \X (1 .. FifoMax))
  BY DEF ByteSet
<1>4. IsFiniteSet(ByteSet(f))
  BY <1>2, <1>3, FS_Subset
<1>5. Bytes(f) = Cardinality(ByteSet(f))
  BY DEF Bytes, ByteSet
<1> QED
  BY <1>4, <1>5, FS_CardinalityType

(* Nothing adds up to 0. *)
LEMMA BytesZero ==
    ASSUME NEW D, IsFiniteSet(D), NEW f \in [D -> 0 .. FifoMax], \A x \in D : f[x] = 0
    PROVE  Bytes(f) = 0
<1>1. ByteSet(f) = {}
  BY FifoMaxAssumption DEF ByteSet
<1> QED
  BY <1>1, ByteSetFinite, FS_EmptySet

Without(f, e) == [x \in (DOMAIN f) \ {e} |-> f[x]]

(* One length counts on its own, the others as if it were not there. *)
LEMMA BytesSplit ==
    ASSUME NEW D, IsFiniteSet(D), NEW f \in [D -> 0 .. FifoMax], NEW e \in D
    PROVE  Bytes(Without(f, e)) \in Nat /\ Bytes(f) = Bytes(Without(f, e)) + f[e]
<1> USE FifoMaxAssumption
<1> DEFINE n == f[e]
           N == {e} \X (1 .. n)
           g == Without(f, e)
<1>10. g \in [D \ {e} -> 0 .. FifoMax] /\ \A x \in D \ {e} : g[x] = f[x]
  BY DEF Without
<1> HIDE DEF g
<1>0. n \in 0 .. FifoMax
  OBVIOUS
<1>1. IsFiniteSet(D \ {e})
  BY FS_Difference
<1>2. IsFiniteSet(ByteSet(g)) /\ Bytes(g) = Cardinality(ByteSet(g)) /\ Bytes(g) \in Nat
  BY <1>1, <1>10, ByteSetFinite
<1>3. Bytes(f) = Cardinality(ByteSet(f))
  BY ByteSetFinite
<1>4. IsFiniteSet(N) /\ Cardinality(N) = n
  <2>1. IsFiniteSet({e}) /\ Cardinality({e}) = 1
    BY FS_Singleton
  <2>2. IsFiniteSet(1 .. n) /\ Cardinality(1 .. n) = n
    <3>1. 1 \in Int /\ n \in Int
      BY <1>0
    <3>2. IsFiniteSet(1 .. n) /\ Cardinality(1 .. n) = IF 1 > n THEN 0 ELSE n - 1 + 1
      BY <3>1, FS_Interval
    <3> QED
      BY <1>0, <3>2
  <2>3. IsFiniteSet(N) /\ Cardinality(N) = Cardinality({e}) * Cardinality(1 .. n)
    BY <2>1, <2>2, FS_Product
  <2> QED
    BY <1>0, <2>1, <2>2, <2>3
<1>5. ByteSet(f) = ByteSet(g) \cup N
  <2>1. ASSUME NEW p \in ByteSet(f) PROVE p \in ByteSet(g) \cup N
    <3>1. p[1] \in D /\ p[2] \in 1 .. FifoMax /\ p = <<p[1], p[2]>> /\ p[2] <= f[p[1]]
      BY DEF ByteSet
    <3>2. CASE p[1] = e
      <4>1. p[2] \in 1 .. n
        BY <1>0, <3>1, <3>2
      <4> QED
        BY <3>1, <3>2, <4>1
    <3>3. CASE p[1] # e
      BY <1>10, <3>1, <3>3 DEF ByteSet
    <3> QED
      BY <3>2, <3>3
  <2>2. ASSUME NEW p \in ByteSet(g) PROVE p \in ByteSet(f)
    BY <1>10 DEF ByteSet
  <2>3. ASSUME NEW p \in N PROVE p \in ByteSet(f)
    <3>1. p[1] = e /\ p[2] \in 1 .. n /\ p = <<p[1], p[2]>>
      OBVIOUS
    <3>2. p[1] \in D /\ p[2] \in 1 .. FifoMax /\ p[2] <= f[p[1]]
      BY <1>0, <3>1
    <3> QED
      BY <3>1, <3>2 DEF ByteSet
  <2> QED
    BY <2>1, <2>2, <2>3
<1>6. ByteSet(g) \cap N = {}
  BY <1>10 DEF ByteSet
<1>7. Cardinality(ByteSet(g) \cap N) = 0
  BY <1>6, FS_EmptySet
<1> HIDE DEF n, N
<1>8. Cardinality(ByteSet(f)) = Cardinality(ByteSet(g)) + Cardinality(N) - 0
  BY <1>2, <1>4, <1>5, <1>7, FS_Union
<1>9. Bytes(f) = Bytes(g) + n
  BY <1>0, <1>2, <1>3, <1>4, <1>8
<1> QED
  BY <1>2, <1>9 DEF n, g

(* One length changes. *)
LEMMA BytesChange ==
    ASSUME NEW D, IsFiniteSet(D), NEW f \in [D -> 0 .. FifoMax], NEW e \in D,
           NEW h \in [D -> 0 .. FifoMax], \A x \in D \ {e} : h[x] = f[x]
    PROVE  /\ Bytes(f) \in Nat /\ f[e] <= Bytes(f)
           /\ Bytes(h) = Bytes(f) - f[e] + h[e]
<1>1. Without(f, e) = Without(h, e)
  BY DEF Without
<1>2. Bytes(Without(f, e)) \in Nat /\ Bytes(f) = Bytes(Without(f, e)) + f[e]
  BY BytesSplit
<1>3. Bytes(h) = Bytes(Without(h, e)) + h[e]
  BY BytesSplit
<1>4. f[e] \in Nat /\ h[e] \in Nat
  BY FifoMaxAssumption
<1> QED
  BY <1>1, <1>2, <1>3, <1>4

(* A sequence of lengths gets one more at its end. *)
LEMMA BytesAppend ==
    ASSUME NEW n \in Nat, NEW f \in [1 .. n -> 0 .. FifoMax],
           NEW h \in [1 .. n + 1 -> 0 .. FifoMax], \A i \in 1 .. n : h[i] = f[i]
    PROVE  Bytes(f) \in Nat /\ Bytes(h) = Bytes(f) + h[n + 1]
<1>1. (1 .. n + 1) \ {n + 1} = 1 .. n /\ n + 1 \in 1 .. n + 1
  OBVIOUS
<1>2. IsFiniteSet(1 .. n + 1)
  BY FS_Interval
<1>3. f = Without(h, n + 1)
  BY <1>1 DEF Without
<1>4. Bytes(Without(h, n + 1)) \in Nat /\ Bytes(h) = Bytes(Without(h, n + 1)) + h[n + 1]
  BY <1>1, <1>2, BytesSplit
<1> QED
  BY <1>3, <1>4

(* A sequence of lengths loses its first. *)
LEMMA BytesTail ==
    ASSUME NEW n \in Nat, n > 0, NEW f \in [1 .. n -> 0 .. FifoMax],
           NEW h \in [1 .. n - 1 -> 0 .. FifoMax], \A i \in 1 .. n - 1 : h[i] = f[i + 1]
    PROVE  /\ Bytes(h) \in Nat /\ Bytes(f) = Bytes(h) + f[1]
<1> DEFINE g == Without(f, 1)
           b == [p \in ByteSet(h) |-> <<p[1] + 1, p[2]>>]
<1>1. 1 \in 1 .. n
  OBVIOUS
<1>2. IsFiniteSet(1 .. n) /\ IsFiniteSet(1 .. n - 1)
  BY FS_Interval
<1>3. g \in [(1 .. n) \ {1} -> 0 .. FifoMax] /\ \A i \in (1 .. n) \ {1} : g[i] = f[i]
  BY DEF Without
<1>4. Bytes(g) \in Nat /\ Bytes(f) = Bytes(g) + f[1]
  BY <1>1, <1>2, BytesSplit
<1> HIDE DEF g
<1>5. IsFiniteSet(ByteSet(h)) /\ Bytes(h) = Cardinality(ByteSet(h)) /\ Bytes(h) \in Nat
  BY <1>2, ByteSetFinite
<1>6. IsFiniteSet((1 .. n) \ {1})
  BY <1>2, FS_Difference
<1>7. Bytes(g) = Cardinality(ByteSet(g))
  BY <1>3, <1>6, ByteSetFinite
<1>8. \A p \in ByteSet(h) : /\ p[1] \in 1 .. n - 1 /\ p[2] \in 1 .. FifoMax
                            /\ p = <<p[1], p[2]>> /\ p[2] <= h[p[1]]
  BY DEF ByteSet
<1>9. \A p \in ByteSet(g) : /\ p[1] \in 2 .. n /\ p[2] \in 1 .. FifoMax
                            /\ p = <<p[1], p[2]>> /\ p[2] <= f[p[1]]
  <2>1. DOMAIN g = (1 .. n) \ {1}
    BY <1>3
  <2> QED
    BY <1>3, <2>1 DEF ByteSet
<1>10. ASSUME NEW p \in ByteSet(h) PROVE <<p[1] + 1, p[2]>> \in ByteSet(g)
  <2>1. p[1] + 1 \in (1 .. n) \ {1} /\ p[2] \in 1 .. FifoMax
    BY <1>8
  <2>2. p[2] <= g[p[1] + 1]
    <3>1. g[p[1] + 1] = f[p[1] + 1] /\ h[p[1]] = f[p[1] + 1]
      BY <1>3, <1>8, <2>1
    <3> QED
      BY <1>8, <3>1
  <2> QED
    BY <1>3, <2>1, <2>2 DEF ByteSet
<1>11. ASSUME NEW p \in ByteSet(g) PROVE <<p[1] - 1, p[2]>> \in ByteSet(h)
  <2>1. p[1] - 1 \in 1 .. n - 1 /\ p[2] \in 1 .. FifoMax
    BY <1>9
  <2>2. p[2] <= h[p[1] - 1]
    <3>1. h[p[1] - 1] = f[(p[1] - 1) + 1] /\ (p[1] - 1) + 1 = p[1]
      BY <1>9, <2>1
    <3> QED
      BY <1>9, <3>1
  <2> QED
    BY <2>1, <2>2 DEF ByteSet
<1>12. b \in Bijection(ByteSet(h), ByteSet(g))
  <2>1. b \in [ByteSet(h) -> ByteSet(g)]
    BY <1>10
  <2>2. \A p, r \in ByteSet(h) : b[p] = b[r] => p = r
    BY <1>8
  <2>3. ASSUME NEW p \in ByteSet(g) PROVE \E r \in ByteSet(h) : b[r] = p
    <3>1. b[<<p[1] - 1, p[2]>>] = <<(p[1] - 1) + 1, p[2]>>
      BY <1>11
    <3> QED
      BY <1>9, <1>11, <3>1
  <2> QED
    BY <2>1, <2>2, <2>3, Fun_IsBij
<1>13. Cardinality(ByteSet(g)) = Cardinality(ByteSet(h))
  BY <1>5, <1>12, FS_Bijection DEF ExistsBijection
<1> QED
  BY <1>4, <1>5, <1>7, <1>13

-----------------------------------------------------------------------------
(* The invariant, in parts. *)

(* A descriptor that has something to send has a buffer. *)
TxDescs == {d \in Desc : d.len # 0 => d.buf # NULL}

EngineType == [PktEngines -> [pkt : Frame \cup {NULL}, ev : Stages, pktDone : BOOLEAN]]

EnginesRead ==
    \A e \in PktEngines :
        /\ engine[e].ev # "idle" <=>
              cache.processing[e].desc # NULL /\ ~ cache.processing[e].done
        /\ engine[e].pkt # NULL <=> engine[e].ev # "idle" \/ engine[e].pktDone
        /\ engine[e].pktDone => engine[e].ev = "idle"

(* What the FIFO f holds is counted. *)
LensOf(f) == [i \in 1 .. Len(f.fifo) |-> f.fifo[i].len]

FifoSum(f) ==
    /\ f \in FifoType(Frame)
    /\ LensOf(f) \in [1 .. Len(f.fifo) -> 0 .. FifoMax]
    /\ f.size = Bytes(LensOf(f))

FifoOK ==
    /\ FifoSum(txFifo)
    /\ ReadLens \in [PktEngines -> 0 .. FifoMax]
    /\ txFifo.reserved = Bytes(ReadLens)
    /\ txFifo.size + txFifo.reserved <= FifoMax
    /\ link \in Frame \cup {NULL}

TxqType ==
    [tx_id : Slots, tx_tail : Slots, last_desc_cleaned : Slots,
     nb_tx_used : Nat, nb_tx_free : 0 .. DescLen - 1,
     last_id : [Slots -> Slots], sw_ring : [Slots -> Bufs \cup {NULL}]]

(* How many slots the driver has filled and not cleaned. *)
InUse(q) == DescLen - 1 - q.nb_tx_free

(* The slots in use follow the last one cleaned and end before tx_id, and  *)
(* the last slot of the packet in one of them is in use as well, at that   *)
(* slot or behind it.                                                      *)
UsedInOrder(q) ==
    /\ q.tx_id = (q.last_desc_cleaned + (1 + InUse(q))) % DescLen
    /\ \A i \in 1 .. InUse(q) : \E j \in i .. InUse(q) :
          q.last_id[(q.last_desc_cleaned + i) % DescLen] = (q.last_desc_cleaned + j) % DescLen

DriverOK == txq \in TxqType /\ UsedInOrder(txq)

CountersOK ==
    /\ pktMultiDesc \in BOOLEAN /\ roundRobinIdx \in PktEngines
    /\ txTick \in BOOLEAN /\ txFifoTick \in BOOLEAN
    /\ drainState \in {"Running", "Draining", "Drained"}
    /\ submitted \in 0 .. MaxPkts /\ drains \in 0 .. MaxDrains
    /\ sent \in Seq(Frame)

TxInv ==
    /\ CacheInv(TxDescs, cache) /\ ring \in [Slots -> TxDescs]
    /\ engine \in EngineType /\ EnginesRead
    /\ FifoOK /\ DriverOK /\ CountersOK

(* The thresholds and packets with which em_xmit_cleanup, when it is       *)
(* called, finds the slot it looks at in use.                              *)
ThresholdsFit ==
    /\ TxRsThresh + TxFreeThresh <= DescLen
    /\ TxRsThresh + (MaxSegs + 1) <= DescLen

LEMMA NullIsNoTxDesc == NULL \notin TxDescs /\ TxDescs \subseteq Desc
BY TxNullAssumption DEF TxDescs

LEMMA EnginesFinite == IsFiniteSet(PktEngines)
<1>1. 0 \in Int /\ NumDMAEngines - 1 \in Int
  BY NumDMAEnginesAssumption
<1> QED
  BY <1>1, FS_Interval DEF PktEngines

(* A cache of descriptors of one type is a cache of any larger type. *)
LEMMA CacheMono ==
    ASSUME NEW T, NEW U, T \subseteq U, NEW q, CacheInv(T, q)
    PROVE  CacheInv(U, q)
<1>1. Seq(T) \subseteq Seq(U)
  OBVIOUS
<1>2. ASSUME NEW j \in JobsType(T) PROVE j \in JobsType(U)
  <2>1. j.buf \in [DescEngines -> Seq(U)]
    BY <1>1 DEF JobsType
  <2>2. j = [queue |-> j.queue, working |-> j.working, done |-> j.done, base |-> j.base,
             num |-> j.num, buf |-> j.buf, ev |-> j.ev, moved |-> j.moved,
             pnt |-> j.pnt, ing |-> j.ing]
    BY DEF JobsType
  <2>3. /\ j.queue \in Seq(DescEngines) /\ j.working \in [DescEngines -> BOOLEAN]
        /\ j.done \in [DescEngines -> BOOLEAN] /\ j.base \in [DescEngines -> Slots]
        /\ j.num \in [DescEngines -> 0 .. DescLen] /\ j.ev \in [DescEngines -> Stages]
        /\ j.moved \in [DescEngines -> Nat] /\ j.pnt \in Slots /\ j.ing \in Nat
    BY DEF JobsType
  <2> QED
    BY <2>1, <2>2, <2>3, Zenon DEF JobsType
<1>3. q \in CacheType(T)
  BY DEF CacheInv
<1>4. q.used \in Seq(U) /\ q.unused \in Seq(U) /\ q.fetch \in JobsType(U) /\ q.wb \in JobsType(U)
  BY <1>1, <1>2, <1>3 DEF CacheType
<1>5. q.processing \in [PktEngines -> [desc : U \cup {NULL}, seqIdx : Nat, done : BOOLEAN]]
  <2>1. q.processing \in [PktEngines -> [desc : T \cup {NULL}, seqIdx : Nat, done : BOOLEAN]]
    BY <1>3 DEF CacheType
  <2>2. [desc : T \cup {NULL}, seqIdx : Nat, done : BOOLEAN]
          \subseteq [desc : U \cup {NULL}, seqIdx : Nat, done : BOOLEAN]
    OBVIOUS
  <2> QED
    BY <2>1, <2>2, Zenon
<1>6. q = [used |-> q.used, unused |-> q.unused, processing |-> q.processing,
           nextSeqToProcess |-> q.nextSeqToProcess,
           nextSeqToWriteback |-> q.nextSeqToWriteback,
           cachePnt |-> q.cachePnt, moreToWb |-> q.moreToWb, wbAlignment |-> q.wbAlignment,
           fetch |-> q.fetch, wb |-> q.wb, head |-> q.head, tail |-> q.tail]
  BY <1>3, Zenon DEF CacheType
<1>7. /\ q.nextSeqToProcess \in Nat /\ q.nextSeqToWriteback \in Nat
      /\ q.cachePnt \in Slots /\ q.moreToWb \in BOOLEAN /\ q.wbAlignment \in WbMasks
      /\ q.head \in Slots /\ q.tail \in Slots
  BY <1>3, Zenon DEF CacheType
<1>8. q \in CacheType(U)
  BY <1>4, <1>5, <1>6, <1>7, Zenon DEF CacheType
<1> QED
  BY <1>8 DEF CacheInv

(* A packet that waits for the FIFO has room reserved for it. *)
LEMMA PushFits ==
    ASSUME TxInv, NEW e \in PktEngines, engine[e].pktDone
    PROVE  /\ engine[e].pkt \in Frame /\ engine[e].pkt.len \in 1 .. FifoMax
           /\ ReadLens[e] = engine[e].pkt.len
           /\ engine[e].pkt.len <= txFifo.reserved
           /\ pushSucceeds(txFifo, engine[e].pkt)
<1>1. engine[e].pkt # NULL /\ engine[e].pkt \in Frame
  BY DEF TxInv, EnginesRead, EngineType
<1>2. ReadLens[e] = engine[e].pkt.len
  BY <1>1 DEF ReadLens
<1>3. engine[e].pkt.len \in Nat \ {0}
  BY <1>1, TxAssumption DEF Frame
<1>4. ReadLens \in [PktEngines -> 0 .. FifoMax] /\ txFifo.reserved = Bytes(ReadLens)
  BY DEF TxInv, FifoOK
<1>5. ReadLens[e] <= Bytes(ReadLens) /\ Bytes(ReadLens) \in Nat
  BY <1>4, EnginesFinite, BytesChange
<1>6. txFifo.size \in Nat /\ txFifo.size + txFifo.reserved <= FifoMax
  BY DEF TxInv, FifoOK, FifoSum, FifoType
<1>7. ReadLens[e] \in 0 .. FifoMax
  BY <1>4
<1>8. pushSucceeds(txFifo, engine[e].pkt)
  BY <1>2, <1>3, <1>4, <1>5, <1>6, FifoMaxAssumption DEF pushSucceeds, avail, Monus
<1> QED
  BY <1>1, <1>2, <1>3, <1>4, <1>5, <1>7, <1>8

LEMMA TxInvGives ==
    ASSUME TxInv
    PROVE  TxTypeOK /\ TxCacheAgrees /\ ReservationsKept
<1>1. CacheInv(Desc, cache)
  BY NullIsNoTxDesc, CacheMono DEF TxInv
<1>2. cache \in CacheType(Desc)
  BY <1>1 DEF CacheInv
<1>3. ring \in [Slots -> Desc]
  BY NullIsNoTxDesc DEF TxInv
<1>4. TxTypeOK
  BY <1>2, <1>3 DEF TxInv, TxTypeOK, EngineType, FifoOK, FifoSum, DriverOK, TxqType, CountersOK
<1>5. TxCacheAgrees
  BY <1>1 DEF TxInv, TxCacheAgrees, EnginesRead
<1>6. ReservationsKept
  <2>1. FifoLens = LensOf(txFifo)
    BY DEF FifoLens, LensOf
  <2>2. \A e \in PktEngines : engine[e].pktDone => pushSucceeds(txFifo, engine[e].pkt)
    BY PushFits
  <2> QED
    BY <2>1, <2>2 DEF ReservationsKept, TxInv, FifoOK, FifoSum
<1> QED
  BY <1>4, <1>5, <1>6

-----------------------------------------------------------------------------
LEMMA NoDescOK ==
    [ctx |-> FALSE, buf |-> NULL, len |-> 0, eop |-> FALSE, rs |-> FALSE, dd |-> TRUE] \in TxDescs
BY DEF TxDescs, Desc

(* What is not written down in Init: an empty FIFO holds nothing. *)
LEMMA EmptySums ==
    ASSUME NEW f, f = EmptyFifo
    PROVE  FifoSum(f)
<1>1. f.fifo = <<>> /\ f.size = 0 /\ f.reserved = 0 /\ f \in FifoType(Frame)
  BY DEF EmptyFifo, FifoType
<1>2. Len(f.fifo) = 0
  BY <1>1
<1>3. LensOf(f) \in [1 .. 0 -> 0 .. FifoMax]
  BY <1>2 DEF LensOf
<1>4. IsFiniteSet(1 .. 0)
  BY FS_Interval
<1>6. \A i \in 1 .. 0 : LensOf(f)[i] = 0
  OBVIOUS
<1>5. Bytes(LensOf(f)) = 0
  BY <1>3, <1>4, <1>6, BytesZero
<1> QED
  BY <1>1, <1>2, <1>3, <1>5 DEF FifoSum

LEMMA InitTxInv == Init => TxInv
<1> SUFFICES ASSUME Init PROVE TxInv
  OBVIOUS
<1>0. /\ cache = EmptyCache /\ engine = [e \in PktEngines |-> IdleEngine]
      /\ pktMultiDesc = FALSE /\ roundRobinIdx = 0 /\ txFifo = EmptyFifo
      /\ txTick = TRUE /\ txFifoTick = FALSE /\ drainState = "Running" /\ link = NULL
      /\ txq = NewTxq /\ submitted = 0 /\ sent = <<>> /\ drains = 0
  BY Zenon DEF Init
<1>1. CacheInv(TxDescs, cache)
  BY <1>0, EmptyCacheInv
<1>2. ring \in [Slots -> TxDescs]
  BY NoDescOK DEF Init
<1>3. engine \in EngineType
  BY <1>0 DEF EngineType, IdleEngine, Stages
<1>4. EnginesRead
  BY <1>0 DEF EnginesRead, IdleEngine, EmptyCache, NoEntry
<1>5. FifoOK
  <2>1. FifoSum(txFifo)
    BY <1>0, EmptySums
  <2>2. ReadLens \in [PktEngines -> 0 .. FifoMax] /\ \A e \in PktEngines : ReadLens[e] = 0
    BY <1>0, FifoMaxAssumption DEF ReadLens, IdleEngine
  <2>3. Bytes(ReadLens) = 0
    BY <2>2, EnginesFinite, BytesZero
  <2> QED
    BY <1>0, <2>1, <2>2, <2>3, FifoMaxAssumption DEF FifoOK, EmptyFifo
<1>6. DriverOK
  <2>1. 0 \in Slots /\ DescLen - 1 \in Slots /\ DescLen - 1 \in 0 .. DescLen - 1 /\ DescLen \in Nat \ {0}
    BY DescLenAssumption DEF Slots
  <2>2. txq \in TxqType
    BY <1>0, <2>1 DEF TxqType, NewTxq
  <2>3. InUse(txq) = 0 /\ txq.last_desc_cleaned = DescLen - 1 /\ txq.tx_id = 0
    BY <1>0, <2>1 DEF InUse, NewTxq
  <2>4. ((DescLen - 1) + (1 + 0)) % DescLen = 0
    BY <2>1
  <2> QED
    BY <2>2, <2>3, <2>4 DEF DriverOK, UsedInOrder
<1>7. CountersOK
  <2>1. MaxPkts \in Nat /\ MaxDrains \in Nat
    BY TxAssumption
  <2>2. 0 \in 0 .. MaxPkts /\ 0 \in 0 .. MaxDrains /\ 0 \in PktEngines
    BY <2>1, NumDMAEnginesAssumption DEF PktEngines
  <2> QED
    BY <1>0, <2>2 DEF CountersOK
<1> QED
  BY <1>1, <1>2, <1>3, <1>4, <1>5, <1>6, <1>7 DEF TxInv

-----------------------------------------------------------------------------
(* The steps. *)

(* The parts of the invariant that a step leaves alone. *)
LEMMA EnginesKept ==
    ASSUME TxInv, UNCHANGED engine, cache'.processing = cache.processing
    PROVE  engine' \in EngineType /\ EnginesRead'
BY DEF TxInv, EnginesRead

LEMMA ReadLensSame ==
    ASSUME UNCHANGED engine
    PROVE  ReadLens' = ReadLens
BY DEF ReadLens

LEMMA FifoKept ==
    ASSUME TxInv, UNCHANGED <<engine, txFifo, link>>
    PROVE  FifoOK'
BY ReadLensSame DEF TxInv, FifoOK

LEMMA DriverKept ==
    ASSUME TxInv, UNCHANGED txq
    PROVE  DriverOK'
BY DEF TxInv, DriverOK

(* A step of the descriptor cache that does not touch what is in process. *)
LEMMA CacheStep ==
    ASSUME TxInv, CacheInv(TxDescs, cache'), cache'.processing = cache.processing,
           ring' \in [Slots -> TxDescs],
           UNCHANGED <<engine, txFifo, link, txq>>, CountersOK'
    PROVE  TxInv'
<1>1. engine' \in EngineType /\ EnginesRead'
  BY EnginesKept
<1>2. FifoOK' /\ DriverOK'
  BY FifoKept, DriverKept
<1> QED
  BY <1>1, <1>2 DEF TxInv

(* A step that changes only counters and flags. *)
LEMMA FlagStep ==
    ASSUME TxInv, UNCHANGED <<cache, engine, ring, txFifo, link, txq>>, CountersOK'
    PROVE  TxInv'
<1>1. CacheInv(TxDescs, cache)' /\ ring' \in [Slots -> TxDescs]
  BY DEF TxInv
<1> QED
  BY <1>1, CacheStep

LEMMA CheckDrainType ==
    ASSUME TxInv, NEW q, NEW eng, NEW wake \in BOOLEAN, CheckDrain(q, eng, wake)
    PROVE  /\ txTick' \in BOOLEAN /\ txFifoTick' \in BOOLEAN
           /\ drainState' \in {"Running", "Draining", "Drained"}
BY DEF CheckDrain, TxInv, CountersOK

LEMMA DrainSteps ==
    ASSUME TxInv, drain \/ drainResume
    PROVE  TxInv'
<1>1. CountersOK
  BY DEF TxInv
<1>2. CASE drain
  <2>1. CountersOK'
    <3>1. drains' \in 0 .. MaxDrains
      BY <1>1, <1>2, TxAssumption DEF drain, CountersOK
    <3>2. drainState' \in {"Running", "Draining", "Drained"} /\ txTick' = FALSE /\ txFifoTick' = FALSE
      BY <1>2 DEF drain
    <3>3. UNCHANGED <<pktMultiDesc, roundRobinIdx, submitted, sent>>
      BY <1>2 DEF drain
    <3> QED
      BY <1>1, <3>1, <3>2, <3>3 DEF CountersOK
  <2> QED
    BY <1>2, <2>1, FlagStep DEF drain
<1>3. CASE drainResume
  <2>1. CountersOK'
    BY <1>1, <1>3 DEF drainResume, CountersOK
  <2> QED
    BY <1>3, <2>1, FlagStep DEF drainResume
<1> QED
  BY <1>2, <1>3

LEMMA EthTxDoneStep ==
    ASSUME TxInv, ethTxDone
    PROVE  TxInv'
<1>1. link \in Frame
  BY DEF TxInv, FifoOK, ethTxDone
<1>2. CountersOK'
  <2>1. sent' \in Seq(Frame)
    BY <1>1 DEF TxInv, CountersOK, ethTxDone
  <2>2. txTick' \in BOOLEAN /\ txFifoTick' \in BOOLEAN
    BY DEF TxInv, CountersOK, ethTxDone
  <2> QED
    BY <2>1, <2>2 DEF TxInv, CountersOK, ethTxDone
<1>3. UNCHANGED <<cache, engine, ring, txFifo, txq>> /\ link' = NULL
  BY DEF ethTxDone
<1>4. CacheInv(TxDescs, cache)' /\ ring' \in [Slots -> TxDescs]
  BY <1>3 DEF TxInv
<1>5. engine' \in EngineType /\ EnginesRead'
  BY <1>3, EnginesKept
<1>6. FifoOK' /\ DriverOK'
  <2>1. ReadLens' = ReadLens
    BY <1>3, ReadLensSame
  <2> QED
    BY <1>3, <2>1, DriverKept DEF FifoOK, TxInv
<1> QED
  BY <1>2, <1>4, <1>5, <1>6 DEF TxInv

(* Descriptor DMA. *)
LEMMA DescDmaSteps ==
    ASSUME TxInv, NEW e \in DescEngines,
           \/ fetchRegister1(e) \/ FetchDma(e) \/ fetchComplete(e)
           \/ writebackRegister1(e) \/ WritebackDma(e) \/ writebackComplete(e)
    PROVE  TxInv'
<1>0. CacheInv(TxDescs, cache) /\ ring \in [Slots -> TxDescs] /\ CountersOK
  BY DEF TxInv
<1>1. CASE fetchRegister1(e)
  <2>1. CacheInv(TxDescs, cache') /\ cache'.processing = cache.processing
    BY <1>0, <1>1, IssueFetchKeeps DEF fetchRegister1
  <2>2. CountersOK'
    BY <1>0, <1>1 DEF fetchRegister1, restOfCard, CountersOK
  <2> QED
    BY <1>0, <1>1, <2>1, <2>2, CacheStep DEF fetchRegister1, restOfCard
<1>2. CASE FetchDma(e)
  <2> DEFINE d == ring[cache.fetch.base[e] + cache.fetch.moved[e]]
  <2>1. cache.fetch.ev[e] = "dma" /\ cache' = [cache EXCEPT !.fetch = FetchBeat(@, e, d)]
    BY <1>2 DEF FetchDma
  <2>2. d \in TxDescs
    <3>1. cache.fetch.base[e] + cache.fetch.moved[e] \in Slots
      BY <1>0, <2>1, FetchSlot
    <3> QED
      BY <1>0, <3>1, Zenon
  <2> HIDE DEF d
  <2>3. CacheInv(TxDescs, cache') /\ cache'.processing = cache.processing
    BY <1>0, <2>1, <2>2, BeatFetchKeeps
  <2>4. CountersOK'
    BY <1>0, <1>2 DEF FetchDma, restOfCard, CountersOK
  <2> QED
    BY <1>0, <1>2, <2>3, <2>4, CacheStep DEF FetchDma, restOfCard
<1>3. CASE fetchComplete(e)
  <2>1. Completing(cache.fetch, e) /\ cache' = fetchCompleteGlobal(cache, e)
    BY <1>3 DEF fetchComplete, Completing
  <2>2. CacheInv(TxDescs, cache') /\ cache'.processing = cache.processing
    BY <1>0, <2>1, FetchCompleteKeeps
  <2>3. /\ txTick' \in BOOLEAN /\ txFifoTick' \in BOOLEAN
        /\ drainState' \in {"Running", "Draining", "Drained"}
    BY <1>3, CheckDrainType DEF fetchComplete
  <2>4. CountersOK'
    BY <1>0, <1>3, <2>3 DEF fetchComplete, restOfCard, CountersOK
  <2> QED
    BY <1>0, <1>3, <2>2, <2>4, CacheStep DEF fetchComplete, restOfCard
<1>4. CASE writebackRegister1(e)
  <2>1. CacheInv(TxDescs, cache') /\ cache'.processing = cache.processing
    BY <1>0, <1>4, IssueWbKeeps DEF writebackRegister1
  <2>2. CountersOK'
    BY <1>0, <1>4 DEF writebackRegister1, restOfCard, CountersOK
  <2> QED
    BY <1>0, <1>4, <2>1, <2>2, CacheStep DEF writebackRegister1, restOfCard
<1>5. CASE WritebackDma(e)
  <2> DEFINE d == cache.wb.buf[e][cache.wb.moved[e] + 1]
             s == cache.wb.base[e] + cache.wb.moved[e]
  <2>1. /\ cache.wb.ev[e] = "dma" /\ cache' = [cache EXCEPT !.wb = Beat(@, e)]
        /\ ring' = [ring EXCEPT ![s] = d]
    BY <1>5 DEF WritebackDma
  <2>2. d \in TxDescs
    BY <1>0, <2>1, WritebackValue
  <2> HIDE DEF d, s
  <2>3. ring' \in [Slots -> TxDescs]
    BY <1>0, <2>1, <2>2
  <2>4. CacheInv(TxDescs, cache') /\ cache'.processing = cache.processing
    BY <1>0, <2>1, BeatWbKeeps
  <2>5. CountersOK'
    BY <1>0, <1>5 DEF WritebackDma, restOfCard, CountersOK
  <2> QED
    BY <1>5, <2>3, <2>4, <2>5, CacheStep DEF WritebackDma, restOfCard
<1>6. CASE writebackComplete(e)
  <2> DEFINE q == wbCompleteGlobal(cache, e)
             c == ~ txTick /\ drainState = "Running"
  <2>1. Completing(cache.wb, e) /\ cache' = FetchIf(c, q) /\ CheckDrain(q, engine, FALSE)
    BY <1>6 DEF writebackComplete, Completing
  <2>2. CacheInv(TxDescs, q) /\ q.processing = cache.processing
    BY <1>0, <2>1, WbCompleteKeeps
  <2> HIDE DEF q, c
  <2>3. CacheInv(TxDescs, cache') /\ cache'.processing = q.processing
    BY <2>1, <2>2, FetchIfKeeps
  <2>4. /\ txTick' \in BOOLEAN /\ txFifoTick' \in BOOLEAN
        /\ drainState' \in {"Running", "Draining", "Drained"}
    BY <2>1, CheckDrainType
  <2>5. CountersOK'
    BY <1>0, <1>6, <2>4 DEF writebackComplete, restOfCard, CountersOK
  <2> QED
    BY <1>0, <1>6, <2>2, <2>3, <2>5, CacheStep DEF writebackComplete, restOfCard
<1> QED
  BY <1>1, <1>2, <1>3, <1>4, <1>5, <1>6

LEMMA WriteTDTStep ==
    ASSUME TxInv, WriteTDT
    PROVE  TxInv'
<1> DEFINE q == [cache EXCEPT !.tail = txq.tx_id]
           c == drainState = "Running"
<1>1. txq' = [txq EXCEPT !.tx_tail = txq.tx_id] /\ cache' = FetchIf(c, q)
  BY DEF WriteTDT
<1>2. txq \in TxqType /\ txq.tx_id \in Slots /\ UsedInOrder(txq)
  BY DEF TxInv, DriverOK, TxqType
<1>3. CacheInv(TxDescs, q) /\ q.processing = cache.processing
  BY <1>2, TailKeeps DEF TxInv
<1> HIDE DEF q, c
<1>4. CacheInv(TxDescs, cache') /\ cache'.processing = cache.processing
  BY <1>1, <1>3, FetchIfKeeps
<1>5. UNCHANGED <<engine, pktMultiDesc, roundRobinIdx, txFifo, txTick, txFifoTick,
                  drainState, link, ring, submitted, sent, drains>>
  BY DEF WriteTDT
<1>6. engine' \in EngineType /\ EnginesRead' /\ FifoOK'
  BY <1>4, <1>5, EnginesKept, FifoKept
<1>7. DriverOK'
  <2>1. txq' \in TxqType
    BY <1>1, <1>2 DEF TxqType
  <2>2. /\ txq'.tx_id = txq.tx_id /\ txq'.last_desc_cleaned = txq.last_desc_cleaned
        /\ txq'.last_id = txq.last_id /\ txq'.nb_tx_free = txq.nb_tx_free
    BY <1>1, <1>2 DEF TxqType
  <2>3. UsedInOrder(txq')
    BY <1>2, <2>2 DEF UsedInOrder, InUse
  <2> QED
    BY <2>1, <2>3 DEF DriverOK
<1>8. CountersOK' /\ ring' \in [Slots -> TxDescs]
  BY <1>5 DEF TxInv, CountersOK
<1> QED
  BY <1>4, <1>6, <1>7, <1>8 DEF TxInv

-----------------------------------------------------------------------------
(* Packet DMA. *)

(* A packet engine that moves a packet has a descriptor and a packet. *)
LEMMA EngineFacts ==
    ASSUME TxInv, NEW e \in PktEngines
    PROVE  /\ engine[e] \in [pkt : Frame \cup {NULL}, ev : Stages, pktDone : BOOLEAN]
           /\ engine[e].ev # "idle" => /\ engine[e].pkt \in Frame /\ engine[e].pkt # NULL
                                       /\ ~ engine[e].pktDone
                                       /\ cache.processing[e].desc \in TxDescs
                                       /\ cache.processing[e].desc # NULL
                                       /\ ~ cache.processing[e].done
<1>1. engine[e] \in [pkt : Frame \cup {NULL}, ev : Stages, pktDone : BOOLEAN]
  BY DEF TxInv, EngineType
<1>2. cache.processing[e].desc \in TxDescs \cup {NULL}
  BY ProcessingFacts DEF TxInv
<1> QED
  BY <1>1, <1>2 DEF TxInv, EnginesRead

LEMMA PacketDmaStep ==
    ASSUME TxInv, NEW e \in PktEngines, PacketDma(e)
    PROVE  TxInv'
<1> DEFINE h == Held(engine[e].pkt.buf)
           p == engine[e].pkt
           new == [buf |-> p.buf, len |-> p.len, last |-> p.last, intact |-> h]
<1>1. /\ engine[e].ev = "dma"
      /\ engine' = [engine EXCEPT ![e].ev = "event", ![e].pkt.intact = h]
      /\ UNCHANGED <<cache, pktMultiDesc, roundRobinIdx, txFifo, txTick, txFifoTick,
                     drainState, link, ring, txq, submitted, sent, drains>>
  BY DEF PacketDma
<1>2. /\ engine \in EngineType /\ p \in Frame /\ p # NULL /\ ~ engine[e].pktDone
  BY <1>1, EngineFacts DEF TxInv
<1>3. h \in BOOLEAN
  BY DEF Held
<1> HIDE DEF h
<1>4. new \in Frame
  BY <1>2, <1>3 DEF Frame
<1>5. /\ DOMAIN engine' = PktEngines
      /\ engine'[e] = [pkt |-> new, ev |-> "event", pktDone |-> engine[e].pktDone]
      /\ \A f \in PktEngines : f # e => engine'[f] = engine[f]
  BY <1>1, <1>2 DEF EngineType, Frame
<1>6. new.len = p.len /\ new # NULL
  BY <1>4, TxNullAssumption
<1> HIDE DEF new
<1>7. engine' \in EngineType
  <2>1. engine'[e] \in [pkt : Frame \cup {NULL}, ev : Stages, pktDone : BOOLEAN]
    BY <1>2, <1>4, <1>5 DEF EngineType, Stages
  <2>2. \A f \in PktEngines :
           engine'[f] \in [pkt : Frame \cup {NULL}, ev : Stages, pktDone : BOOLEAN]
    BY <1>2, <1>5, <2>1 DEF EngineType
  <2> QED
    BY <1>1, <1>2, <2>2 DEF EngineType
<1>8. EnginesRead'
  <2>1. engine'[e].ev = "event" /\ engine'[e].pkt # NULL /\ engine'[e].pktDone = engine[e].pktDone
    BY <1>5, <1>6
  <2> QED
    BY <1>1, <1>2, <1>5, <2>1 DEF TxInv, EnginesRead
<1>9. ReadLens' = ReadLens
  <2>1. engine'[e].pkt # NULL /\ engine'[e].pkt.len = engine[e].pkt.len
    BY <1>5, <1>6
  <2> QED
    BY <1>2, <1>5, <2>1 DEF ReadLens
<1>10. FifoOK'
  BY <1>1, <1>9 DEF TxInv, FifoOK
<1>11. DriverOK' /\ CountersOK' /\ ring' \in [Slots -> TxDescs] /\ CacheInv(TxDescs, cache)'
  BY <1>1, DriverKept DEF TxInv, CountersOK
<1> QED
  BY <1>7, <1>8, <1>10, <1>11 DEF TxInv

LEMMA SetStatusOK ==
    ASSUME NEW d \in TxDescs
    PROVE  SetStatus(d) \in TxDescs
BY DEF SetStatus, TxDescs, Desc

LEMMA MasksOK == 0 \in WbMasks /\ BlockMask \in WbMasks
BY DEF WbMasks, BlockMask, AllOnes

LEMMA OnDMACompleteStep ==
    ASSUME TxInv, NEW e \in PktEngines, onDMAComplete(e)
    PROVE  TxInv'
<1> DEFINE p   == cache.processing
           d   == SetStatus(p[e].desc)
           m   == FinishDesc(cache, e, d)
           q   == manageUsedCache(m)
           w   == CASE ~ p[e].desc.eop -> q
                    [] p[e].desc.eop /\ TxWthresh = 0 -> writebackGlobal(q, 0)
                    [] p[e].desc.eop /\ TxWthresh > 0 ->
                          WbIf(TxWthresh <= descUsed(q), q, BlockMask)
           eng == [engine EXCEPT ![e].ev = "idle", ![e].pktDone = TRUE]
<1>1. /\ engine[e].ev = "event" /\ engine' = eng /\ cache' = w
      /\ pktMultiDesc' = ~ p[e].desc.eop
      /\ CheckDrain(w, eng, TRUE)
      /\ UNCHANGED <<roundRobinIdx, txFifo, link, ring, txq, submitted, sent, drains>>
  BY Zenon DEF onDMAComplete
<1>0. TxWthresh \in Nat
  BY TxAssumption
<1>2. /\ engine[e].pkt \in Frame /\ engine[e].pkt # NULL
      /\ p[e].desc \in TxDescs /\ p[e].desc # NULL
  BY <1>1, EngineFacts
<1>3. d \in TxDescs
  BY <1>2, SetStatusOK
<1>4. CacheInv(TxDescs, cache) /\ engine \in EngineType
  BY DEF TxInv
<1> HIDE DEF d
<1>5. /\ CacheInv(TxDescs, m)
      /\ m.processing = [p EXCEPT ![e] = [desc |-> d, seqIdx |-> p[e].seqIdx, done |-> TRUE]]
  BY <1>2, <1>3, <1>4, NullIsNoTxDesc, FinishDescKeeps
<1> HIDE DEF m
<1>6. /\ CacheInv(TxDescs, q)
      /\ \A f \in PktEngines : \/ q.processing[f] = m.processing[f]
                               \/ m.processing[f].done /\ q.processing[f] = NoEntry
  BY <1>5, NullIsNoTxDesc, ManageKeeps
<1> HIDE DEF q
<1>7. CacheInv(TxDescs, w) /\ w.processing = q.processing
  <2>1. CASE ~ p[e].desc.eop
    BY <1>6, <2>1
  <2>2. CASE p[e].desc.eop /\ TxWthresh = 0
    <3>1. w = writebackGlobal(q, 0)
      BY <2>2
    <3> QED
      BY <1>6, <3>1, MasksOK, WritebackKeeps
  <2>3. CASE p[e].desc.eop /\ TxWthresh > 0
    <3> DEFINE c == TxWthresh <= descUsed(q)
    <3>1. w = WbIf(c, q, BlockMask)
      BY <2>3, TxAssumption
    <3> HIDE DEF c, w
    <3> QED
      BY <1>6, <3>1, MasksOK, WbIfKeeps
  <2> QED
    BY <1>0, <2>1, <2>2, <2>3
<1> HIDE DEF w
<1>8. /\ engine' \in EngineType
      /\ engine'[e] = [pkt |-> engine[e].pkt, ev |-> "idle", pktDone |-> TRUE]
      /\ \A f \in PktEngines : f # e => engine'[f] = engine[f]
  BY <1>1, <1>4 DEF EngineType, Stages
<1>9. /\ m.processing[e].done
      /\ \A f \in PktEngines : f # e => m.processing[f] = p[f]
  <2>1. p \in [PktEngines -> [desc : TxDescs \cup {NULL}, seqIdx : Nat, done : BOOLEAN]]
    BY <1>4, ProcessingFacts
  <2> HIDE DEF p
  <2> QED
    BY <1>5, <2>1
<1>10. p[e].desc.eop \in BOOLEAN
  BY <1>2 DEF TxDescs, Desc
<1>11. CountersOK'
  <2>1. /\ txTick' \in BOOLEAN /\ txFifoTick' \in BOOLEAN
        /\ drainState' \in {"Running", "Draining", "Drained"}
    BY <1>1, CheckDrainType
  <2> HIDE DEF p
  <2> QED
    BY <1>1, <1>10, <2>1 DEF TxInv, CountersOK
<1> HIDE DEF eng
<1>12. EnginesRead'
  <2>1. NoEntry.desc = NULL /\ ~ NoEntry.done
    BY DEF NoEntry
  <2>2. \A f \in PktEngines :
            /\ engine[f].ev # "idle" <=> p[f].desc # NULL /\ ~ p[f].done
            /\ engine[f].pkt # NULL <=> engine[f].ev # "idle" \/ engine[f].pktDone
            /\ engine[f].pktDone => engine[f].ev = "idle"
    BY Zenon DEF TxInv, EnginesRead
  <2>3. w.processing = q.processing /\ cache' = w
    BY <1>1, <1>7
  <2> HIDE DEF p
  <2>4. ~ (q.processing[e].desc # NULL /\ ~ q.processing[e].done)
    BY <1>6, <1>9, <2>1, Zenon
  <2>5. ASSUME NEW f \in PktEngines, f # e
        PROVE  (p[f].desc # NULL /\ ~ p[f].done)
                 <=> (q.processing[f].desc # NULL /\ ~ q.processing[f].done)
    BY <1>6, <1>9, <2>1, <2>5, Zenon
  <2>6. /\ engine'[e].ev = "idle" /\ engine'[e].pkt # NULL /\ engine'[e].pktDone
    BY <1>2, <1>8
  <2> QED
    BY <1>8, <2>2, <2>3, <2>4, <2>5, <2>6 DEF EnginesRead
<1>13. FifoOK'
  <2>1. engine'[e].pkt = engine[e].pkt
    BY <1>8
  <2>2. ReadLens' = ReadLens
    BY <1>8, <2>1 DEF ReadLens
  <2> QED
    BY <1>1, <2>2 DEF TxInv, FifoOK
<1>14. DriverOK' /\ ring' \in [Slots -> TxDescs] /\ CacheInv(TxDescs, cache)'
  BY <1>1, <1>7, DriverKept DEF TxInv
<1> QED
  BY <1>8, <1>11, <1>12, <1>13, <1>14 DEF TxInv

-----------------------------------------------------------------------------
(* The tick. *)

(* Context descriptors move from the unused to the used cache. *)
LEMMA ContextKeeps ==
    ASSUME NEW q, CacheInv(TxDescs, q)
    PROVE  /\ CacheInv(TxDescs, processContextDesc(q))
           /\ processContextDesc(q).processing = q.processing
<1> DEFINE u == q.unused
           N == {k \in 0 .. Len(u) : \A i \in 1 .. k : u[i].ctx}
           stops(k) == /\ \A i \in 1 .. k : u[i].ctx
                       /\ k < Len(u) => ~ u[k + 1].ctx
           n == CHOOSE k \in 0 .. Len(u) : stops(k)
           moved == [i \in 1 .. n |-> [u[i] EXCEPT !.dd = TRUE]]
           r == processContextDesc(q)
<1>1. q \in CacheType(TxDescs) /\ u \in Seq(TxDescs) /\ Len(u) \in Nat /\ q.used \in Seq(TxDescs)
  BY CacheFacts DEF CacheInv
<1>2. \E k \in 0 .. Len(u) : stops(k)
  <2> DEFINE S == {k \in 0 .. Len(u) : k < Len(u) => ~ u[k + 1].ctx}
  <2>1. Len(u) \in S
    BY <1>1
  <2>2. S \in SUBSET Nat /\ S # {}
    BY <1>1, <2>1
  <2>3. PICK m \in S : \A x \in S : m <= x
    BY <2>2, LeastNat
  <2>4. ASSUME NEW i \in 1 .. m PROVE u[i].ctx
    <3>1. i - 1 \in 0 .. Len(u) /\ i - 1 < m /\ i - 1 < Len(u) /\ (i - 1) + 1 = i
      BY <1>1
    <3>2. i - 1 \notin S
      BY <2>3, <3>1
    <3> QED
      BY <3>1, <3>2
  <2>5. stops(m) /\ m \in 0 .. Len(u)
    BY <2>3, <2>4
  <2> HIDE DEF stops, S
  <2> QED
    BY <2>5
<1>3. n \in 0 .. Len(u)
  <2> HIDE DEF stops
  <2> QED
    BY <1>2
<1>4. r = [q EXCEPT !.used = @ \o moved, !.unused = SubSeq(@, n + 1, Len(@))]
  BY DEF processContextDesc
<1> HIDE DEF n, r
<1>5. \A i \in 1 .. n : [u[i] EXCEPT !.dd = TRUE] \in TxDescs
  <2>1. \A i \in 1 .. n : u[i] \in TxDescs
    BY <1>1, <1>3
  <2> HIDE DEF u
  <2> QED
    BY <2>1 DEF TxDescs, Desc
<1>6. moved \in Seq(TxDescs) /\ Len(moved) = n
  <2>1. n \in Nat
    BY <1>1, <1>3
  <2> QED
    BY <1>5, <2>1, FcnIsSeq
<1> HIDE DEF moved
<1>7. /\ q.used \o moved \in Seq(TxDescs) /\ Len(q.used \o moved) = Len(q.used) + n
  BY <1>1, <1>6, ConcatProperties
<1>8. SubSeq(u, n + 1, Len(u)) \in Seq(TxDescs) /\ Len(SubSeq(u, n + 1, Len(u))) = Len(u) - n
  BY <1>1, <1>3
<1>9. /\ r.used = q.used \o moved /\ r.unused = SubSeq(u, n + 1, Len(u))
      /\ r.processing = q.processing /\ r.fetch = q.fetch /\ r.wb = q.wb
      /\ r.head = q.head /\ r.cachePnt = q.cachePnt
      /\ r.nextSeqToProcess = q.nextSeqToProcess
      /\ r.nextSeqToWriteback = q.nextSeqToWriteback
  BY <1>1, <1>4 DEF CacheType
<1>10. r \in CacheType(TxDescs)
  BY <1>1, <1>4, <1>7, <1>8 DEF CacheType
<1>11. descProcessing(r) = descProcessing(q) /\ descProcessing(q) \in Nat
  BY <1>9, ProcessingSame, ProcessingFinite
<1>12. ProcessingInOrder(r)
  BY <1>9, <1>11 DEF CacheInv, ProcessingInOrder
<1>13. Len(q.used) \in Nat
  BY <1>1
<1>14. CacheInv(TxDescs, r)
  <2>1. /\ Len(q.used) <= Len(r.used)
        /\ Len(r.used) + (Len(r.unused) + descProcessing(r))
              = Len(q.used) + (Len(q.unused) + descProcessing(q))
    <3>1. Len(r.used) = Len(q.used) + n
      BY <1>7, <1>9
    <3>2. Len(r.unused) = Len(q.unused) - n
      BY <1>8, <1>9
    <3>3. n \in Nat /\ Len(q.unused) \in Nat
      BY <1>1, <1>3
    <3> HIDE DEF u
    <3> QED
      BY <1>11, <1>13, <3>1, <3>2, <3>3
  <2>2. /\ r.fetch = q.fetch /\ r.wb = q.wb /\ r.head = q.head /\ r.cachePnt = q.cachePnt
    BY <1>9
  <2> HIDE DEF u
  <2> QED
    BY <1>10, <1>12, <2>1, <2>2, DescsMoved
<1> QED
  BY <1>9, <1>14 DEF r

(* A packet whose room is reserved is pushed and gives its reservation     *)
(* back.                                                                   *)
LEMMA PushSums ==
    ASSUME NEW f, FifoSum(f), NEW p \in Frame, p.len \in 1 .. FifoMax,
           pushSucceeds(f, p), p.len <= f.reserved
    PROVE  /\ FifoSum(push(f, p))
           /\ push(f, p).size = f.size + p.len
           /\ push(f, p).reserved = f.reserved - p.len
<1> DEFINE r == push(f, p)
           n == Len(f.fifo)
<1>1. f.fifo \in Seq(Frame) /\ f.size \in Nat /\ f.reserved \in Nat /\ n \in Nat
  BY DEF FifoSum, FifoType
<1>2. p.len \in Nat /\ Monus(f.reserved, p.len) = f.reserved - p.len
  BY <1>1, FifoMaxAssumption DEF Monus
<1>3. r = [fifo |-> Append(f.fifo, p), size |-> f.size + p.len,
           reserved |-> f.reserved - p.len]
  BY <1>2 DEF push
<1> HIDE DEF r
<1>4. /\ r.fifo = Append(f.fifo, p) /\ r.size = f.size + p.len
      /\ r.reserved = f.reserved - p.len
  BY <1>3
<1>5. r \in FifoType(Frame)
  <2>1. f.size + p.len \in Nat /\ f.reserved - p.len \in Nat
    BY <1>1, <1>2
  <2>2. Append(f.fifo, p) \in Seq(Frame)
    BY <1>1
  <2> QED
    BY <1>3, <2>1, <2>2 DEF FifoType
<1>6. /\ Len(r.fifo) = n + 1 /\ r.fifo[n + 1] = p
      /\ \A i \in 1 .. n : r.fifo[i] = f.fifo[i]
  BY <1>1, <1>4
<1>7. LensOf(f) \in [1 .. n -> 0 .. FifoMax] /\ \A i \in 1 .. n : LensOf(f)[i] = f.fifo[i].len
  BY DEF FifoSum, LensOf
<1>8. \A i \in 1 .. n + 1 : LensOf(r)[i] = r.fifo[i].len
  BY <1>6 DEF LensOf
<1>9. LensOf(r) \in [1 .. n + 1 -> 0 .. FifoMax]
  <2>1. \A i \in 1 .. n + 1 : r.fifo[i].len \in 0 .. FifoMax
    <3>1. ASSUME NEW i \in 1 .. n PROVE r.fifo[i].len \in 0 .. FifoMax
      BY <1>6, <1>7
    <3>2. r.fifo[n + 1].len \in 0 .. FifoMax
      BY <1>6
    <3>3. \A i \in 1 .. n + 1 : i \in 1 .. n \/ i = n + 1
      BY <1>1
    <3> QED
      BY <3>1, <3>2, <3>3
  <2> QED
    BY <1>6, <2>1 DEF LensOf
<1>10. (\A i \in 1 .. n : LensOf(r)[i] = LensOf(f)[i]) /\ LensOf(r)[n + 1] = p.len
  <2>1. \A i \in 1 .. n : i \in 1 .. n + 1
    BY <1>1
  <2>2. n + 1 \in 1 .. n + 1
    BY <1>1
  <2> QED
    BY <1>6, <1>7, <1>8, <2>1, <2>2, Zenon
<1>11. Bytes(LensOf(r)) = Bytes(LensOf(f)) + LensOf(r)[n + 1]
  <2> HIDE DEF n
  <2> QED
    BY <1>1, <1>7, <1>9, <1>10, BytesAppend
<1>12. f.size = Bytes(LensOf(f))
  BY DEF FifoSum
<1>13. FifoSum(r)
  BY <1>4, <1>5, <1>6, <1>9, <1>10, <1>11, <1>12 DEF FifoSum
<1> QED
  BY <1>4, <1>13 DEF r

(* The oldest packet of a FIFO that is not empty leaves it. *)
LEMMA PopSums ==
    ASSUME NEW f, FifoSum(f), f.size > 0
    PROVE  /\ Head(f.fifo) \in Frame
           /\ FifoSum(pop(f))
           /\ pop(f).size <= f.size /\ pop(f).reserved = f.reserved
<1> DEFINE n == Len(f.fifo)
           r == pop(f)
<1>1. /\ f \in FifoType(Frame) /\ f.fifo \in Seq(Frame) /\ f.size \in Nat
      /\ f.reserved \in Nat /\ n \in Nat /\ f.size = Bytes(LensOf(f))
      /\ LensOf(f) \in [1 .. n -> 0 .. FifoMax]
  BY DEF FifoSum, FifoType
<1>2. n > 0
  <2>1. SUFFICES ASSUME n = 0 PROVE FALSE
    BY <1>1
  <2>2. LensOf(f) \in [1 .. 0 -> 0 .. FifoMax] /\ IsFiniteSet(1 .. 0)
    BY <1>1, <2>1, FS_Interval
  <2>3. \A i \in 1 .. 0 : LensOf(f)[i] = 0
    OBVIOUS
  <2>4. Bytes(LensOf(f)) = 0
    BY <2>2, <2>3, BytesZero
  <2> QED
    BY <1>1, <2>4
<1>3. /\ Head(f.fifo) \in Frame /\ Tail(f.fifo) \in Seq(Frame) /\ Len(Tail(f.fifo)) = n - 1
      /\ Head(f.fifo) = f.fifo[1]
      /\ \A i \in 1 .. n - 1 : Tail(f.fifo)[i] = f.fifo[i + 1]
  BY <1>1, <1>2
<1> DEFINE len == Head(f.fifo).len
<1>4. len \in Nat
  BY <1>3, TxAssumption DEF Frame
<1>5. r = [fifo |-> Tail(f.fifo), size |-> f.size - len, reserved |-> f.reserved]
  <2>1. ~ (f.size <= 0)
    BY <1>1
  <2>2. r = [f EXCEPT !.fifo = Tail(@), !.size = @ - len]
    BY <2>1 DEF pop
  <2> HIDE DEF len, r
  <2> QED
    BY <1>1, <2>2 DEF FifoType
<1> HIDE DEF r
<1>6. r.fifo = Tail(f.fifo) /\ r.size = f.size - len /\ r.reserved = f.reserved
  BY <1>5
<1>7. \A i \in 1 .. n : LensOf(f)[i] = f.fifo[i].len
  BY DEF LensOf
<1>8. LensOf(r) = [i \in 1 .. n - 1 |-> f.fifo[i + 1].len]
  BY <1>3, <1>6 DEF LensOf
<1>9. LensOf(r) \in [1 .. n - 1 -> 0 .. FifoMax]
  <2>1. \A i \in 1 .. n - 1 : i + 1 \in 1 .. n
    BY <1>1
  <2>2. \A i \in 1 .. n - 1 : f.fifo[i + 1].len \in 0 .. FifoMax
    BY <1>1, <1>7, <2>1
  <2> QED
    BY <1>8, <2>2
<1>10. (\A i \in 1 .. n - 1 : LensOf(r)[i] = LensOf(f)[i + 1]) /\ LensOf(f)[1] = len
  <2>1. 1 \in 1 .. n /\ \A i \in 1 .. n - 1 : i + 1 \in 1 .. n
    BY <1>1, <1>2
  <2>2. \A i \in 1 .. n - 1 : LensOf(r)[i] = f.fifo[i + 1].len
    BY <1>8
  <2> QED
    BY <1>3, <1>7, <2>1, <2>2, Zenon
<1> HIDE DEF n, len
<1>11. Bytes(LensOf(r)) \in Nat /\ Bytes(LensOf(f)) = Bytes(LensOf(r)) + LensOf(f)[1]
  BY <1>1, <1>2, <1>9, <1>10, BytesTail
<1>12. r.size = Bytes(LensOf(r)) /\ r.size \in Nat /\ r.size <= f.size
  BY <1>1, <1>4, <1>6, <1>10, <1>11
<1>13. Len(r.fifo) = n - 1 /\ r \in FifoType(Frame)
  <2>1. Len(r.fifo) = n - 1
    BY <1>3, <1>6
  <2>2. f.size - len \in Nat
    BY <1>6, <1>12
  <2> QED
    BY <1>1, <1>3, <1>5, <2>1, <2>2 DEF FifoType
<1>14. FifoSum(r)
  BY <1>9, <1>12, <1>13 DEF FifoSum
<1> QED
  BY <1>3, <1>6, <1>12, <1>14 DEF r

(* The wire takes a packet or leaves the FIFO as it is. *)
LEMMA WireKeeps ==
    ASSUME NEW f, FifoSum(f), NEW due, txWire(f, due), link \in Frame \cup {NULL}
    PROVE  /\ FifoSum(txFifo') /\ txFifo'.size <= f.size /\ txFifo'.reserved = f.reserved
           /\ link' \in Frame \cup {NULL} /\ txFifoTick' = FALSE
<1>1. f.size \in Nat
  BY DEF FifoSum, FifoType
<1>2. CASE due /\ f.size > 0 /\ link = NULL
  <2>1. link' = Head(f.fifo) /\ txFifo' = pop(f) /\ txFifoTick' = FALSE
    BY <1>2 DEF txWire
  <2> QED
    BY <1>2, <2>1, PopSums
<1>3. CASE ~ (due /\ f.size > 0 /\ link = NULL)
  <2>1. link' = link /\ txFifo' = f /\ txFifoTick' = FALSE
    BY <1>3 DEF txWire
  <2> QED
    BY <1>1, <2>1
<1> QED
  BY <1>2, <1>3

(* What a tick has to establish before it ends with txWire. *)
LEMMA TickEnds ==
    ASSUME TxInv, NEW f, NEW due, txWire(f, due), FifoSum(f),
           ReadLens' \in [PktEngines -> 0 .. FifoMax], f.reserved = Bytes(ReadLens'),
           f.size + f.reserved <= FifoMax,
           CacheInv(TxDescs, cache'), engine' \in EngineType, EnginesRead',
           roundRobinIdx' \in PktEngines,
           UNCHANGED <<pktMultiDesc, txTick, drainState, ring, txq, submitted, sent, drains>>
    PROVE  TxInv'
<1>1. link \in Frame \cup {NULL}
  BY DEF TxInv, FifoOK
<1>2. /\ FifoSum(txFifo') /\ txFifo'.size <= f.size /\ txFifo'.reserved = f.reserved
      /\ link' \in Frame \cup {NULL} /\ txFifoTick' = FALSE
  BY <1>1, WireKeeps
<1>3. /\ f.size \in Nat /\ f.reserved \in Nat /\ txFifo'.size \in Nat
  BY <1>2 DEF FifoSum, FifoType
<1>4. txFifo'.size + txFifo'.reserved <= FifoMax
  BY <1>2, <1>3, FifoMaxAssumption
<1>5. FifoOK'
  BY <1>2, <1>4 DEF FifoOK
<1>6. DriverOK' /\ CountersOK' /\ ring' \in [Slots -> TxDescs]
  BY <1>2, DriverKept DEF TxInv, CountersOK
<1> QED
  BY <1>5, <1>6 DEF TxInv

LEMMA LowestFound ==
    ASSUME NEW S \in SUBSET PktEngines, S # {}
    PROVE  Lowest(S) \in S
<1>1. S \in SUBSET Nat
  BY NumDMAEnginesAssumption DEF PktEngines
<1>2. \E m \in S : \A x \in S : m <= x
  BY <1>1, LeastNat
<1> QED
  BY <1>2, Zenon DEF Lowest

(* The search from roundRobinIdx on meets every engine. *)
LEMMA ReadyFound ==
    ASSUME TxInv, ReadyEngines # {}
    PROVE  getReadyEthPacket \in ReadyEngines
<1> DEFINE at(i) == (roundRobinIdx + i) % NumDMAEngines
           hits  == {i \in PktEngines : at(i) \in ReadyEngines}
<1> USE NumDMAEnginesAssumption
<1>1. roundRobinIdx \in PktEngines
  BY DEF TxInv, CountersOK
<1>2. PICK f \in ReadyEngines : TRUE
  OBVIOUS
<1>3. f \in PktEngines
  BY DEF ReadyEngines
<1>4. \E i \in PktEngines : at(i) = f
  <2>1. CASE roundRobinIdx <= f
    <3>1. f - roundRobinIdx \in PktEngines /\ f \in 0 .. (NumDMAEngines - 1)
      BY <1>1, <1>3, <2>1 DEF PktEngines
    <3>2. ((NumDMAEngines * 0) + f) % NumDMAEngines = f
      BY <3>1, ModUnique
    <3>3. roundRobinIdx + (f - roundRobinIdx) = (NumDMAEngines * 0) + f
      BY <1>1, <3>1 DEF PktEngines
    <3> QED
      BY <3>1, <3>2, <3>3
  <2>2. CASE f < roundRobinIdx
    <3> DEFINE i == NumDMAEngines - (roundRobinIdx - f)
    <3>1. i \in PktEngines /\ f \in 0 .. (NumDMAEngines - 1)
      BY <1>1, <1>3, <2>2 DEF PktEngines
    <3>2. ((NumDMAEngines * 1) + f) % NumDMAEngines = f
      BY <3>1, ModUnique
    <3>3. roundRobinIdx + i = (NumDMAEngines * 1) + f
      BY <1>1, <3>1 DEF PktEngines
    <3> HIDE DEF i
    <3> QED
      BY <3>1, <3>2, <3>3
  <2> QED
    BY <1>1, <1>3, <2>1, <2>2 DEF PktEngines
<1>5. hits \in SUBSET PktEngines /\ hits # {}
  BY <1>4
<1>6. Lowest(hits) \in hits
  BY <1>5, LowestFound
<1> QED
  BY <1>6 DEF getReadyEthPacket

LEMMA PushPacketStep ==
    ASSUME TxInv, PushPacket,
           UNCHANGED <<pktMultiDesc, txTick, drainState, ring, txq, submitted, sent, drains>>
    PROVE  TxInv'
<1> DEFINE e == getReadyEthPacket
           p == engine[e].pkt
           f == push(txFifo, p)
<1>1. /\ ReadyEngines # {}
      /\ engine' = [engine EXCEPT ![e].pkt = NULL, ![e].pktDone = FALSE]
      /\ roundRobinIdx' = (e + 1) % NumDMAEngines
      /\ txWire(f, TRUE)
      /\ cache' = writebackGlobal(cache, BlockMask)
  BY Zenon DEF PushPacket
<1>2. e \in ReadyEngines
  BY <1>1, ReadyFound
<1> HIDE DEF e
<1>3. e \in PktEngines /\ engine[e].pktDone /\ p # NULL
  BY <1>2 DEF ReadyEngines
<1>4. /\ p \in Frame /\ p.len \in 1 .. FifoMax /\ ReadLens[e] = p.len
      /\ p.len <= txFifo.reserved /\ pushSucceeds(txFifo, p)
  BY <1>3, PushFits
<1>5. /\ FifoSum(txFifo) /\ txFifo.size \in Nat /\ txFifo.reserved \in Nat
      /\ ReadLens \in [PktEngines -> 0 .. FifoMax] /\ txFifo.reserved = Bytes(ReadLens)
      /\ txFifo.size + txFifo.reserved <= FifoMax
  BY DEF TxInv, FifoOK, FifoSum, FifoType
<1>6. /\ FifoSum(f) /\ f.size = txFifo.size + p.len /\ f.reserved = txFifo.reserved - p.len
  BY <1>4, <1>5, PushSums
<1> HIDE DEF f
<1>7. engine \in EngineType
  BY DEF TxInv
<1>8. /\ engine' \in EngineType
      /\ engine'[e] = [pkt |-> NULL, ev |-> engine[e].ev, pktDone |-> FALSE]
      /\ \A g \in PktEngines : g # e => engine'[g] = engine[g]
  BY <1>1, <1>3, <1>7 DEF EngineType
<1>9. CacheInv(TxDescs, cache') /\ cache'.processing = cache.processing
  BY <1>1, MasksOK, WritebackKeeps DEF TxInv
<1>10. EnginesRead'
  <2>1. engine'[e].pkt = NULL /\ engine'[e].ev = engine[e].ev /\ ~ engine'[e].pktDone
    BY <1>8
  <2> QED
    BY <1>3, <1>8, <1>9, <2>1 DEF TxInv, EnginesRead
<1>11. /\ ReadLens' \in [PktEngines -> 0 .. FifoMax] /\ ReadLens'[e] = 0
       /\ \A g \in PktEngines \ {e} : ReadLens'[g] = ReadLens[g]
  <2>1. engine'[e].pkt = NULL
    BY <1>8
  <2>2. ReadLens'[e] = 0
    BY <1>3, <2>1 DEF ReadLens
  <2>3. \A g \in PktEngines \ {e} : ReadLens'[g] = ReadLens[g]
    BY <1>8 DEF ReadLens
  <2>4. \A g \in PktEngines : ReadLens'[g] \in 0 .. FifoMax
    BY <1>5, <2>2, <2>3, FifoMaxAssumption
  <2>5. ReadLens' = [g \in PktEngines |-> ReadLens'[g]]
    BY DEF ReadLens
  <2> QED
    BY <2>2, <2>3, <2>4, <2>5
<1>12. Bytes(ReadLens') = Bytes(ReadLens) - ReadLens[e] + ReadLens'[e]
  BY <1>3, <1>5, <1>11, EnginesFinite, BytesChange
<1>13. f.reserved = Bytes(ReadLens') /\ f.size + f.reserved <= FifoMax
  BY <1>4, <1>5, <1>6, <1>11, <1>12, FifoMaxAssumption
<1>14. roundRobinIdx' \in PktEngines
  <2>1. e + 1 \in Nat
    BY <1>3, NumDMAEnginesAssumption DEF PktEngines
  <2> QED
    BY <1>1, <2>1, NumDMAEnginesAssumption, DivMod DEF PktEngines
<1> QED
  BY <1>1, <1>6, <1>8, <1>9, <1>10, <1>11, <1>13, <1>14, TickEnds

LEMMA TakePacketStep ==
    ASSUME TxInv, NEW q, CacheInv(TxDescs, q), q.processing = cache.processing,
           FreeEngines # {}, getPacketDataGlobal(q), UNCHANGED roundRobinIdx,
           UNCHANGED <<pktMultiDesc, txTick, drainState, ring, txq, submitted, sent, drains>>
    PROVE  TxInv'
<1> DEFINE e == Lowest(FreeEngines)
           d == Head(q.unused)
           n == getPacketSize(q)
           p == [buf |-> d.buf, len |-> d.len, last |-> d.eop, intact |-> FALSE]
           f == reserve(txFifo, n)
<1>1. /\ n > 0 /\ availExceeds(txFifo, n) /\ cache' = TakeDesc(q, e)
      /\ engine' = [engine EXCEPT ![e].ev = "dma", ![e].pkt = p]
      /\ txWire(f, txFifoTick)
  BY Zenon DEF getPacketDataGlobal
<1>2. e \in FreeEngines
  BY LowestFound DEF FreeEngines
<1> HIDE DEF e
<1>3. /\ e \in PktEngines /\ engine[e].ev = "idle" /\ ~ engine[e].pktDone
      /\ q.processing[e].desc = NULL
  BY <1>2 DEF FreeEngines
<1>4. engine \in EngineType /\ engine[e].pkt = NULL
  BY <1>3 DEF TxInv, EnginesRead
<1>5. q.unused # <<>> /\ n = d.len
  BY <1>1 DEF getPacketSize
<1>6. /\ CacheInv(TxDescs, cache') /\ d \in TxDescs
      /\ cache'.processing = [q.processing EXCEPT ![e] = [desc   |-> d,
                                                          seqIdx |-> q.nextSeqToProcess,
                                                          done   |-> FALSE]]
  BY <1>1, <1>3, <1>5, NullIsNoTxDesc, TakeDescKeeps
<1>7. d # NULL
  BY <1>6, NullIsNoTxDesc
<1>8. d.len \in SegLens /\ n \in Nat /\ d.buf \in Bufs /\ d.eop \in BOOLEAN
  <2>1. d \in Desc /\ (d.len # 0 => d.buf # NULL)
    BY <1>6 DEF TxDescs
  <2>2. d.len \in SegLens \cup {0} /\ d.buf \in Bufs \cup {NULL} /\ d.eop \in BOOLEAN
    BY <2>1 DEF Desc
  <2>3. d.len # 0
    BY <1>1, <1>5
  <2>4. SegLens \subseteq Nat
    BY TxAssumption
  <2> HIDE DEF d, n
  <2> QED
    BY <1>5, <2>1, <2>2, <2>3, <2>4
<1> HIDE DEF d, n
<1>9. p \in Frame /\ p.len = n
  BY <1>5, <1>8 DEF Frame
<1>10. p # NULL
  BY <1>9, TxNullAssumption
<1> HIDE DEF p
<1>11. /\ FifoSum(txFifo) /\ txFifo \in FifoType(Frame) /\ txFifo.size \in Nat /\ txFifo.reserved \in Nat
       /\ ReadLens \in [PktEngines -> 0 .. FifoMax] /\ txFifo.reserved = Bytes(ReadLens)
       /\ txFifo.size + txFifo.reserved <= FifoMax
  BY DEF TxInv, FifoOK, FifoSum, FifoType
<1>12. txFifo.size + txFifo.reserved + n <= FifoMax /\ n \in 0 .. FifoMax
  BY <1>1, <1>8, <1>11, FifoMaxAssumption DEF availExceeds, avail
<1>13. f.fifo = txFifo.fifo /\ f.size = txFifo.size /\ f.reserved = txFifo.reserved + n
       /\ f \in FifoType(Frame)
  <2>1. f = [fifo |-> txFifo.fifo, size |-> txFifo.size, reserved |-> txFifo.reserved + n]
    BY <1>11 DEF reserve, FifoType
  <2>2. txFifo.reserved + n \in Nat /\ txFifo.fifo \in Seq(Frame)
    BY <1>8, <1>11 DEF FifoType
  <2> HIDE DEF f
  <2> QED
    BY <1>11, <2>1, <2>2 DEF FifoType
<1> HIDE DEF f
<1>14. FifoSum(f)
  <2>1. LensOf(f) = LensOf(txFifo)
    BY <1>13 DEF LensOf
  <2> QED
    BY <1>11, <1>13, <2>1 DEF FifoSum
<1>15. /\ engine' \in EngineType
       /\ engine'[e] = [pkt |-> p, ev |-> "dma", pktDone |-> engine[e].pktDone]
       /\ \A g \in PktEngines : g # e => engine'[g] = engine[g]
  BY <1>1, <1>3, <1>4, <1>9 DEF EngineType, Stages
<1>16. /\ cache'.processing[e].desc # NULL /\ ~ cache'.processing[e].done
       /\ \A g \in PktEngines : g # e => cache'.processing[g] = cache.processing[g]
  <2>1. q.processing \in [PktEngines -> [desc : TxDescs \cup {NULL}, seqIdx : Nat, done : BOOLEAN]]
    BY ProcessingFacts
  <2> QED
    BY <1>3, <1>6, <1>7, <2>1
<1>17. EnginesRead'
  <2>1. engine'[e].pkt # NULL /\ engine'[e].ev = "dma" /\ ~ engine'[e].pktDone
    BY <1>3, <1>10, <1>15
  <2> QED
    BY <1>3, <1>15, <1>16, <2>1 DEF TxInv, EnginesRead
<1>18. /\ ReadLens' \in [PktEngines -> 0 .. FifoMax] /\ ReadLens'[e] = n /\ ReadLens[e] = 0
       /\ \A g \in PktEngines \ {e} : ReadLens'[g] = ReadLens[g]
  <2>1. engine'[e].pkt = p
    BY <1>15
  <2>2. ReadLens'[e] = n /\ ReadLens[e] = 0
    BY <1>3, <1>4, <1>9, <1>10, <2>1 DEF ReadLens
  <2>3. \A g \in PktEngines \ {e} : ReadLens'[g] = ReadLens[g]
    BY <1>15 DEF ReadLens
  <2>4. \A g \in PktEngines : ReadLens'[g] \in 0 .. FifoMax
    BY <1>11, <1>12, <2>2, <2>3
  <2>5. ReadLens' = [g \in PktEngines |-> ReadLens'[g]]
    BY DEF ReadLens
  <2> QED
    BY <2>2, <2>3, <2>4, <2>5
<1>19. Bytes(ReadLens') = Bytes(ReadLens) - ReadLens[e] + ReadLens'[e]
  BY <1>3, <1>11, <1>18, EnginesFinite, BytesChange
<1>20. f.reserved = Bytes(ReadLens') /\ f.size + f.reserved <= FifoMax
  BY <1>8, <1>11, <1>12, <1>13, <1>18, <1>19, FifoMaxAssumption
<1>21. roundRobinIdx' \in PktEngines
  BY DEF TxInv, CountersOK
<1> QED
  BY <1>1, <1>6, <1>14, <1>15, <1>17, <1>18, <1>20, <1>21, TickEnds

(* The other ticks move no packet to or from the engines. *)
LEMMA IdleTick ==
    ASSUME TxInv, CacheInv(TxDescs, cache'), cache'.processing = cache.processing,
           UNCHANGED <<engine, roundRobinIdx>>, NEW due, txWire(txFifo, due),
           UNCHANGED <<pktMultiDesc, txTick, drainState, ring, txq, submitted, sent, drains>>
    PROVE  TxInv'
<1>1. engine' \in EngineType /\ EnginesRead' /\ ReadLens' = ReadLens
  BY EnginesKept, ReadLensSame
<1>2. /\ FifoSum(txFifo) /\ ReadLens \in [PktEngines -> 0 .. FifoMax]
      /\ txFifo.reserved = Bytes(ReadLens) /\ txFifo.size + txFifo.reserved <= FifoMax
      /\ roundRobinIdx' \in PktEngines
  BY DEF TxInv, FifoOK, CountersOK
<1> QED
  BY <1>1, <1>2, TickEnds

LEMMA TickStep ==
    ASSUME TxInv, tick
    PROVE  TxInv'
<1>0. UNCHANGED <<pktMultiDesc, txTick, drainState, ring, txq, submitted, sent, drains>>
  BY DEF tick
<1>1. CacheInv(TxDescs, cache)
  BY DEF TxInv
<1>2. CASE PushPacket
  BY <1>0, <1>2, PushPacketStep
<1>3. CASE FreeEngines = {} /\ txWire(txFifo, txFifoTick) /\ UNCHANGED <<cache, engine, roundRobinIdx>>
  BY <1>0, <1>1, <1>3, IdleTick
<1>4. CASE NoDescriptor /\ UNCHANGED roundRobinIdx
  <2>1. /\ CacheInv(TxDescs, writebackGlobal(cache, 0))
        /\ writebackGlobal(cache, 0).processing = cache.processing
    BY <1>1, MasksOK, WritebackKeeps
  <2>2. CacheInv(TxDescs, cache') /\ cache'.processing = cache.processing
    BY <1>1, <1>4, <2>1, FetchKeeps DEF NoDescriptor
  <2> QED
    BY <1>0, <1>4, <2>2, IdleTick DEF NoDescriptor
<1>5. CASE /\ UNCHANGED roundRobinIdx /\ FreeEngines # {}
           /\ LET q == processContextDesc(cache) IN getPacketDataGlobal(q) \/ NothingToRead(q)
  <2> DEFINE q == processContextDesc(cache)
  <2>1. CacheInv(TxDescs, q) /\ q.processing = cache.processing
    BY <1>1, ContextKeeps
  <2>2. getPacketDataGlobal(q) \/ NothingToRead(q)
    BY <1>5
  <2> HIDE DEF q
  <2>3. CASE getPacketDataGlobal(q)
    BY <1>0, <1>5, <2>1, <2>3, TakePacketStep
  <2>4. CASE NothingToRead(q)
    <3>1. CacheInv(TxDescs, cache') /\ cache'.processing = cache.processing
      BY <2>1, <2>4, MasksOK, WritebackKeeps DEF NothingToRead
    <3> QED
      BY <1>0, <1>5, <2>4, <3>1, IdleTick DEF NothingToRead
  <2> QED
    BY <2>2, <2>3, <2>4
<1> QED
  BY <1>2, <1>3, <1>4, <1>5, Zenon DEF tick

-----------------------------------------------------------------------------
(* The driver. *)

LEMMA WrapMod ==
    ASSUME NEW x \in Nat, x < 2 * DescLen
    PROVE  Wrap(x) = x % DescLen /\ Wrap(x) \in Slots
<1> USE DescLenAssumption
<1>1. CASE x < DescLen
  <2>1. ((DescLen * 0) + x) % DescLen = x
    BY <1>1, ModUnique
  <2> QED
    BY <1>1, <2>1 DEF Wrap, Slots
<1>2. CASE x >= DescLen
  <2>1. x - DescLen \in 0 .. (DescLen - 1)
    BY <1>2
  <2>2. ((DescLen * 1) + (x - DescLen)) % DescLen = x - DescLen
    BY <2>1, ModUnique
  <2>3. (DescLen * 1) + (x - DescLen) = x
    OBVIOUS
  <2> QED
    BY <1>2, <2>1, <2>2, <2>3 DEF Wrap, Slots
<1> QED
  BY <1>1, <1>2

(* Offsets add up around the ring. *)
LEMMA RingAdd ==
    ASSUME NEW a \in Slots, NEW m \in Nat, NEW n \in Nat
    PROVE  (((a + m) % DescLen) + n) % DescLen = (a + (m + n)) % DescLen
<1>1. a \in Nat /\ a + m \in Nat
  BY DescLenAssumption DEF Slots
<1>2. (((a + m) % DescLen) + n) % DescLen = ((a + m) + n) % DescLen
  BY <1>1, DescLenAssumption, ModAdd
<1>3. (a + m) + n = a + (m + n)
  BY <1>1
<1> QED
  BY <1>2, <1>3

LEMMA TxqFacts ==
    ASSUME NEW q \in TxqType
    PROVE  /\ q.tx_id \in Slots /\ q.last_desc_cleaned \in Slots
           /\ q.nb_tx_free \in 0 .. DescLen - 1 /\ InUse(q) \in 0 .. DescLen - 1
           /\ q.last_id \in [Slots -> Slots] /\ q.nb_tx_used \in Nat
           /\ q.sw_ring \in [Slots -> Bufs \cup {NULL}]
           /\ Slots \subseteq Nat /\ (\A s \in Slots : s < DescLen)
<1>1. q.nb_tx_free \in 0 .. DescLen - 1
  BY DEF TxqType
<1>2. InUse(q) \in 0 .. DescLen - 1
  BY <1>1, DescLenAssumption DEF InUse
<1>3. Slots \subseteq Nat /\ (\A s \in Slots : s < DescLen)
  BY DescLenAssumption DEF Slots
<1> QED
  BY <1>1, <1>2, <1>3 DEF TxqType

(* The k slots from tx_id on. *)
Filled(q, k) == {Wrap(q.tx_id + i) : i \in 0 .. k - 1}

(* They are filled for one packet, with room for them. *)
LEMMA FillKeepsOrder ==
    ASSUME NEW q \in TxqType, UsedInOrder(q), NEW r, NEW k \in 1 .. DescLen,
           k <= q.nb_tx_free,
           r.tx_id = Wrap(q.tx_id + k), r.nb_tx_free = q.nb_tx_free - k,
           r.last_desc_cleaned = q.last_desc_cleaned,
           \A s \in Slots : r.last_id[s] = IF s \in Filled(q, k) THEN Wrap(q.tx_id + (k - 1))
                                                                 ELSE q.last_id[s]
    PROVE  UsedInOrder(r)
<1> DEFINE c == q.last_desc_cleaned
           U == InUse(q)
<1>0. /\ q.tx_id \in Slots /\ c \in Slots /\ q.nb_tx_free \in 0 .. DescLen - 1
      /\ U \in 0 .. DescLen - 1 /\ Slots \subseteq Nat /\ (\A s \in Slots : s < DescLen)
      /\ q.tx_id \in Nat /\ c \in Nat /\ U \in Nat /\ DescLen \in Nat \ {0} /\ q.tx_id < DescLen
  BY TxqFacts, DescLenAssumption
<1>1. InUse(r) = U + k
  BY <1>0, DescLenAssumption DEF InUse
<1>2. q.tx_id = (c + (1 + U)) % DescLen
  BY DEF UsedInOrder
<1>3. \A i \in 1 .. U : \E j \in i .. U : q.last_id[(c + i) % DescLen] = (c + j) % DescLen
  BY DEF UsedInOrder
<1> HIDE DEF c, U
<1>4. ASSUME NEW i \in 0 .. k
      PROVE  Wrap(q.tx_id + i) = (c + (1 + U + i)) % DescLen
  <2>1. q.tx_id + i \in Nat /\ q.tx_id + i < 2 * DescLen /\ i \in Nat
    BY <1>0
  <2>2. Wrap(q.tx_id + i) = (q.tx_id + i) % DescLen
    BY <2>1, WrapMod
  <2>4. 1 + U \in Nat
    BY <1>0
  <2>3. (((c + (1 + U)) % DescLen) + i) % DescLen = (c + ((1 + U) + i)) % DescLen
    BY <1>0, <2>1, <2>4, RingAdd, Zenon
  <2> QED
    BY <1>2, <2>2, <2>3
<1>5. r.tx_id = (c + (1 + InUse(r))) % DescLen
  <2>1. Wrap(q.tx_id + k) = (c + (1 + U + k)) % DescLen
    BY <1>4
  <2>2. 1 + U + k = 1 + InUse(r)
    BY <1>0, <1>1
  <2> QED
    BY <2>1, <2>2
<1>6. Wrap(q.tx_id + (k - 1)) = (c + (U + k)) % DescLen
  <2>1. k - 1 \in 0 .. k /\ 1 + U + (k - 1) = U + k
    BY <1>0
  <2> QED
    BY <1>4, <2>1
<1>7. ASSUME NEW i \in 1 .. U + k
      PROVE  \E j \in i .. U + k : r.last_id[(c + i) % DescLen] = (c + j) % DescLen
  <2> DEFINE s == (c + i) % DescLen
  <2>1. s \in Slots
    BY <1>0, ModInSlots
  <2>2. CASE s \in Filled(q, k)
    <3>1. r.last_id[s] = (c + (U + k)) % DescLen
      BY <1>6, <2>1, <2>2
    <3>2. U + k \in i .. U + k
      BY <1>0
    <3> QED
      BY <3>1, <3>2
  <2>3. CASE s \notin Filled(q, k)
    <3>1. r.last_id[s] = q.last_id[s]
      BY <2>1, <2>3
    <3>2. i <= U
      <4>1. SUFFICES ASSUME i > U PROVE FALSE
        BY <1>0
      <4>2. i - 1 - U \in 0 .. k - 1 /\ i - 1 - U \in 0 .. k /\ 1 + U + (i - 1 - U) = i
        BY <1>0, <4>1
      <4>3. Wrap(q.tx_id + (i - 1 - U)) = s
        BY <1>4, <4>2
      <4> QED
        BY <2>3, <4>2, <4>3 DEF Filled
    <3>5. i \in 1 .. U
      BY <1>0, <3>2
    <3>3. PICK j \in i .. U : q.last_id[s] = (c + j) % DescLen
      BY <1>3, <3>5
    <3>4. j \in i .. U + k
      BY <1>0
    <3> QED
      BY <3>1, <3>3, <3>4
  <2> QED
    BY <2>2, <2>3
<1>8. r.last_desc_cleaned = c
  BY DEF c
<1> QED
  BY <1>1, <1>5, <1>7, <1>8, Zenon DEF UsedInOrder

(* The first j slots in use are cleaned. *)
LEMMA CleanKeepsOrder ==
    ASSUME NEW q \in TxqType, UsedInOrder(q), NEW r, NEW j \in 1 .. InUse(q),
           r.last_desc_cleaned = (q.last_desc_cleaned + j) % DescLen,
           r.nb_tx_free = q.nb_tx_free + j,
           r.tx_id = q.tx_id, r.last_id = q.last_id
    PROVE  UsedInOrder(r)
<1> DEFINE c == q.last_desc_cleaned
           U == InUse(q)
           d == (c + j) % DescLen
<1>0. /\ c \in Slots /\ q.nb_tx_free \in 0 .. DescLen - 1 /\ j \in Nat /\ j <= U
      /\ U \in 0 .. DescLen - 1 /\ U \in Nat /\ DescLen \in Nat \ {0}
  BY TxqFacts, DescLenAssumption
<1>1. InUse(r) = U - j
  BY <1>0 DEF InUse
<1>2. q.tx_id = (c + (1 + U)) % DescLen
  BY DEF UsedInOrder
<1>3. \A i \in 1 .. U : \E m \in i .. U : q.last_id[(c + i) % DescLen] = (c + m) % DescLen
  BY DEF UsedInOrder
<1> HIDE DEF c, U
<1>4. ASSUME NEW n \in Nat PROVE (d + n) % DescLen = (c + (j + n)) % DescLen
  BY <1>0, RingAdd
<1>5. r.tx_id = (d + (1 + InUse(r))) % DescLen
  <2>1. 1 + InUse(r) \in Nat /\ j + (1 + InUse(r)) = 1 + U
    BY <1>0, <1>1
  <2> QED
    BY <1>2, <1>4, <2>1
<1>6. ASSUME NEW i \in 1 .. U - j
      PROVE  \E m \in i .. U - j : r.last_id[(d + i) % DescLen] = (d + m) % DescLen
  <2>1. i \in Nat /\ j + i \in 1 .. U
    BY <1>0
  <2>2. PICK m \in (j + i) .. U : q.last_id[(c + (j + i)) % DescLen] = (c + m) % DescLen
    BY <1>3, <2>1
  <2>3. m - j \in i .. U - j /\ m - j \in Nat /\ j + (m - j) = m
    BY <1>0, <2>1
  <2>4. (d + (m - j)) % DescLen = (c + m) % DescLen
    BY <1>4, <2>3
  <2>5. (d + i) % DescLen = (c + (j + i)) % DescLen
    BY <1>4, <2>1
  <2> QED
    BY <2>2, <2>3, <2>4, <2>5
<1>7. r.last_desc_cleaned = d
  BY DEF c
<1> HIDE DEF d
<1> QED
  BY <1>1, <1>5, <1>6, <1>7, Zenon DEF UsedInOrder

(* em_xmit_cleanup cleans the slots up to the last one of a packet in use. *)
LEMMA CleanCounts ==
    ASSUME TxInv, TxRsThresh <= InUse(txq)
    PROVE  \E j \in 1 .. InUse(txq) :
              /\ DescToClean = (txq.last_desc_cleaned + j) % DescLen
              /\ DescToClean \in Slots /\ CleanCount = j
<1> DEFINE c == txq.last_desc_cleaned
           U == InUse(txq)
<1>0. /\ c \in Slots /\ c \in Nat /\ c < DescLen /\ U \in 0 .. DescLen - 1 /\ U \in Nat
      /\ DescLen \in Nat \ {0} /\ TxRsThresh \in Nat \ {0}
  BY TxqFacts, DescLenAssumption, TxAssumption DEF TxInv, DriverOK
<1>1. Wrap(c + TxRsThresh) = (c + TxRsThresh) % DescLen
  <2>1. c + TxRsThresh \in Nat /\ c + TxRsThresh < 2 * DescLen
    BY <1>0
  <2> QED
    BY <2>1, WrapMod
<1>2. \A i \in 1 .. U : \E m \in i .. U : txq.last_id[(c + i) % DescLen] = (c + m) % DescLen
  BY DEF TxInv, DriverOK, UsedInOrder
<1>3. TxRsThresh \in 1 .. U
  BY <1>0
<1>4. PICK j \in TxRsThresh .. U : txq.last_id[(c + TxRsThresh) % DescLen] = (c + j) % DescLen
  BY <1>2, <1>3
<1>5. DescToClean = (c + j) % DescLen
  BY <1>1, <1>4 DEF DescToClean
<1>6. j \in 1 .. U
  BY <1>0
<1> HIDE DEF c, U
<1>7. DescToClean = Wrap(c + j) /\ DescToClean \in Slots
  <2>1. c + j \in Nat /\ c + j < 2 * DescLen
    BY <1>0, <1>6
  <2> QED
    BY <1>5, <2>1, WrapMod
<1>8. CleanCount = IF c > DescToClean THEN DescLen - c + DescToClean ELSE DescToClean - c
  BY DEF CleanCount, c
<1>9. CleanCount = j
  <2>1. CASE c + j >= DescLen
    <3>1. DescToClean = c + j - DescLen
      BY <1>0, <1>6, <1>7, <2>1 DEF Wrap
    <3>2. c > DescToClean
      BY <1>0, <1>6, <3>1
    <3> QED
      BY <1>0, <1>6, <1>8, <3>1, <3>2
  <2>2. CASE ~ (c + j >= DescLen)
    <3>1. DescToClean = c + j
      BY <1>0, <1>6, <1>7, <2>2 DEF Wrap
    <3>2. ~ (c > DescToClean)
      BY <1>0, <1>6, <3>1
    <3> QED
      BY <1>0, <1>6, <1>8, <3>1, <3>2
  <2> QED
    BY <2>1, <2>2
<1> QED
  BY <1>5, <1>6, <1>7, <1>9 DEF c, U

LEMMA CleanupStep ==
    ASSUME ThresholdsFit, TxInv, em_xmit_cleanup
    PROVE  TxInv'
<1> DEFINE to == DescToClean
<1>1. /\ ring' = [ring EXCEPT ![to].dd = FALSE]
      /\ txq' = [txq EXCEPT !.last_desc_cleaned = to, !.nb_tx_free = @ + CleanCount]
      /\ UNCHANGED <<cache, engine, pktMultiDesc, roundRobinIdx, txFifo, txTick, txFifoTick,
                     drainState, link, submitted, sent, drains>>
  BY Zenon DEF em_xmit_cleanup
<1>2. /\ txq \in TxqType /\ UsedInOrder(txq)
  BY DEF TxInv, DriverOK
<1>3. /\ txq.nb_tx_free \in 0 .. DescLen - 1 /\ DescLen \in Nat \ {0}
      /\ InUse(txq) \in 0 .. DescLen - 1 /\ InUse(txq) = DescLen - 1 - txq.nb_tx_free
  BY <1>2, TxqFacts, DescLenAssumption DEF InUse
<1>4. TxRsThresh <= InUse(txq)
  <2>1. TxRsThresh \in Nat /\ TxFreeThresh \in Nat /\ MaxSegs \in Nat
    BY TxAssumption
  <2>2. CASE txq.nb_tx_free < TxFreeThresh
    BY <1>3, <2>1, <2>2 DEF ThresholdsFit
  <2>3. CASE \E n \in Segs, b \in Offload : n + (IF b THEN 1 ELSE 0) > txq.nb_tx_free
    <3>1. PICK n \in Segs, b \in Offload : n + (IF b THEN 1 ELSE 0) > txq.nb_tx_free
      BY <2>3
    <3>2. n \in 1 .. MaxSegs
      BY DEF Segs
    <3>3. n + 1 > txq.nb_tx_free
      BY <1>3, <2>1, <3>1, <3>2
    <3> QED
      BY <1>3, <2>1, <3>2, <3>3 DEF ThresholdsFit
  <2> QED
    BY <2>2, <2>3 DEF em_xmit_cleanup
<1>5. PICK j \in 1 .. InUse(txq) : /\ to = (txq.last_desc_cleaned + j) % DescLen
                                   /\ to \in Slots /\ CleanCount = j
  BY <1>4, CleanCounts
<1> HIDE DEF to
<1>6. /\ txq'.last_desc_cleaned = (txq.last_desc_cleaned + j) % DescLen
      /\ txq'.nb_tx_free = txq.nb_tx_free + j
      /\ txq'.tx_id = txq.tx_id /\ txq'.last_id = txq.last_id
  BY <1>1, <1>2, <1>5 DEF TxqType
<1>7. txq' \in TxqType
  <2>1. txq.nb_tx_free + j \in 0 .. DescLen - 1
    BY <1>3, <1>5
  <2> QED
    BY <1>1, <1>2, <1>5, <2>1 DEF TxqType
<1>8. DriverOK'
  <2>1. UsedInOrder(txq')
    BY <1>2, <1>6, CleanKeepsOrder
  <2> QED
    BY <1>7, <2>1 DEF DriverOK
<1>9. ring' \in [Slots -> TxDescs]
  <2>1. ring \in [Slots -> TxDescs] /\ ring[to] \in TxDescs
    BY <1>5 DEF TxInv
  <2>2. [ring[to] EXCEPT !.dd = FALSE] \in TxDescs
    BY <2>1 DEF TxDescs, Desc
  <2> QED
    BY <1>1, <2>1, <2>2
<1>10. /\ CacheInv(TxDescs, cache)' /\ engine' \in EngineType /\ EnginesRead'
       /\ FifoOK' /\ CountersOK'
  BY <1>1, EnginesKept, FifoKept DEF TxInv, CountersOK
<1> QED
  BY <1>8, <1>9, <1>10 DEF TxInv

LEMMA XmitStep ==
    ASSUME TxInv, NEW n \in Segs, NEW len \in SegLens, NEW c \in Offload,
           eth_em_xmit_pkts(n, len, c)
    PROVE  TxInv'
<1> DEFINE p        == submitted + 1
           k        == n + (IF c THEN 1 ELSE 0)
           slot(i)  == Wrap(txq.tx_id + i)
           setRs    == txq.nb_tx_used + k >= TxRsThresh
           seg(i)   == IF c THEN i ELSE i + 1
           data(i)  == [ctx |-> FALSE, buf |-> <<p, seg(i)>>, len |-> len, dd |-> FALSE,
                        eop |-> i = k - 1, rs |-> i = k - 1 /\ setRs]
           isCtx(i) == c /\ i = 0
           index(s) == CHOOSE i \in 0 .. k - 1 : slot(i) = s
           written  == {slot(i) : i \in 0 .. k - 1}
           last     == [s \in Slots |-> IF s \in written THEN slot(k - 1) ELSE txq.last_id[s]]
           sw       == [s \in Slots |-> IF s \notin written THEN txq.sw_ring[s]
                                        ELSE IF isCtx(index(s)) THEN NULL
                                        ELSE data(index(s)).buf]
<1>1. /\ k <= txq.nb_tx_free /\ submitted < MaxPkts /\ submitted' = p
      /\ ring' = [s \in Slots |-> IF s \notin written THEN ring[s]
                                  ELSE IF isCtx(index(s)) THEN ContextDesc ELSE data(index(s))]
      /\ UNCHANGED <<cache, engine, pktMultiDesc, roundRobinIdx, txFifo, txTick,
                     txFifoTick, drainState, link, sent, drains>>
  BY DEF eth_em_xmit_pkts, QueuePacketUnchecked
<1>2. txq' = [txq EXCEPT !.tx_id = Wrap(@ + k), !.nb_tx_used = IF setRs THEN 0 ELSE @ + k,
                         !.nb_tx_free = @ - k, !.last_id = last, !.sw_ring = sw]
  BY DEF eth_em_xmit_pkts, QueuePacketUnchecked
<1>3. /\ txq \in TxqType /\ UsedInOrder(txq)
  BY DEF TxInv, DriverOK
<1>4. /\ txq.tx_id \in Nat /\ txq.tx_id < DescLen /\ txq.nb_tx_free \in 0 .. DescLen - 1
      /\ DescLen \in Nat \ {0} /\ txq.nb_tx_used \in Nat /\ Slots \subseteq Nat
      /\ txq.last_id \in [Slots -> Slots] /\ txq.sw_ring \in [Slots -> Bufs \cup {NULL}]
  BY <1>3, TxqFacts, DescLenAssumption
<1>5. n \in 1 .. MaxSegs /\ MaxSegs \in Nat /\ c \in BOOLEAN /\ MaxPkts \in Nat
  BY TxAssumption DEF Segs
<1>6. k \in 1 .. DescLen /\ k \in Nat
  BY <1>1, <1>4, <1>5
<1>7. p \in Pkts /\ p \in 0 .. MaxPkts
  BY <1>1, <1>5 DEF TxInv, CountersOK, Pkts
<1>8. ASSUME NEW i \in 0 .. k - 1, ~ isCtx(i)
      PROVE  data(i) \in TxDescs /\ data(i).buf \in Bufs
  <2>1. seg(i) \in Segs
    BY <1>5, <1>6, <1>8 DEF Segs
  <2>2. <<p, seg(i)>> \in Bufs
    BY <1>7, <2>1 DEF Bufs
  <2>3. <<p, seg(i)>> # NULL
    BY <2>2, TxNullAssumption
  <2> QED
    BY <2>2, <2>3 DEF TxDescs, Desc
<1>9. ContextDesc \in TxDescs
  BY DEF ContextDesc, TxDescs, Desc
<1>10. ASSUME NEW s \in written PROVE index(s) \in 0 .. k - 1
  <2>1. \E i \in 0 .. k - 1 : slot(i) = s
    BY <1>10
  <2> HIDE DEF slot
  <2> QED
    BY <2>1
<1>11. \A i \in 0 .. k : slot(i) \in Slots
  <2>1. ASSUME NEW i \in 0 .. k PROVE slot(i) \in Slots
    <3>1. txq.tx_id + i \in Nat /\ txq.tx_id + i < 2 * DescLen
      BY <1>4, <1>6
    <3> QED
      BY <3>1, WrapMod
  <2> QED
    BY <2>1
<1>12. ring \in [Slots -> TxDescs]
  BY DEF TxInv
<1>13. last \in [Slots -> Slots]
  <2>1. slot(k - 1) \in Slots
    BY <1>6, <1>11
  <2> HIDE DEF slot, written
  <2> QED
    BY <1>4, <2>1
<1> DEFINE tid == Wrap(txq.tx_id + k)
<1>14. tid \in Slots
  BY <1>6, <1>11
<1> HIDE DEF index, data, isCtx
<1>15. ring' \in [Slots -> TxDescs]
  <2> HIDE DEF written, k
  <2> QED
    BY <1>1, <1>8, <1>9, <1>10, <1>12
<1>16. sw \in [Slots -> Bufs \cup {NULL}]
  <2> HIDE DEF written, k
  <2> QED
    BY <1>4, <1>8, <1>10
<1>17. /\ txq'.tx_id = tid /\ txq'.nb_tx_free = txq.nb_tx_free - k
       /\ txq'.last_desc_cleaned = txq.last_desc_cleaned /\ txq'.last_id = last
  <2> HIDE DEF sw, last, setRs, k
  <2> QED
    BY <1>2, <1>3 DEF TxqType
<1>18. txq' \in TxqType
  <2>1. txq.nb_tx_free - k \in 0 .. DescLen - 1
    BY <1>1, <1>4, <1>6
  <2>2. (IF setRs THEN 0 ELSE txq.nb_tx_used + k) \in Nat
    BY <1>4, <1>6
  <2> HIDE DEF sw, last, setRs, k
  <2> QED
    BY <1>2, <1>3, <1>13, <1>14, <1>16, <2>1, <2>2 DEF TxqType
<1>19. UsedInOrder(txq')
  <2>1. written = Filled(txq, k)
    BY DEF Filled
  <2> HIDE DEF written, k
  <2>2. \A s \in Slots : txq'.last_id[s] = IF s \in Filled(txq, k)
                                             THEN Wrap(txq.tx_id + (k - 1)) ELSE txq.last_id[s]
    BY <1>17, <2>1
  <2>3. k <= txq.nb_tx_free
    BY <1>1
  <2> HIDE DEF last, sw
  <2> QED
    BY <1>3, <1>6, <1>17, <2>2, <2>3, FillKeepsOrder
<1>20. CountersOK'
  <2> HIDE DEF p
  <2> QED
    BY <1>1, <1>7 DEF TxInv, CountersOK
<1>21. /\ CacheInv(TxDescs, cache)' /\ engine' \in EngineType /\ EnginesRead' /\ FifoOK'
  BY <1>1, EnginesKept, FifoKept DEF TxInv
<1> QED
  BY <1>15, <1>18, <1>19, <1>20, <1>21 DEF TxInv, DriverOK

-----------------------------------------------------------------------------
(* TxInv is inductive for the thresholds for which the driver's cleanup    *)
(* looks at slots in use.                                                  *)
LEMMA NextTxInv ==
    ASSUME ThresholdsFit
    PROVE  TxInv /\ [Next]_vars => TxInv'
<1> SUFFICES ASSUME TxInv, [Next]_vars PROVE TxInv'
  OBVIOUS
<1>1. CASE em_xmit_cleanup
  BY <1>1, CleanupStep
<1>2. CASE WriteTDT
  BY <1>2, WriteTDTStep
<1>3. CASE \E n \in Segs, len \in SegLens, c \in Offload : eth_em_xmit_pkts(n, len, c)
  BY <1>3, XmitStep
<1>4. CASE tick
  BY <1>4, TickStep
<1>5. CASE ethTxDone
  BY <1>5, EthTxDoneStep
<1>6. CASE drain \/ drainResume
  BY <1>6, DrainSteps
<1>7. CASE \E e \in PktEngines : PacketDma(e) \/ onDMAComplete(e)
  BY <1>7, PacketDmaStep, OnDMACompleteStep
<1>8. CASE \E e \in DescEngines : \/ fetchRegister1(e) \/ FetchDma(e) \/ fetchComplete(e)
                                  \/ writebackRegister1(e) \/ WritebackDma(e)
                                  \/ writebackComplete(e)
  BY <1>8, DescDmaSteps
<1>9. CASE UNCHANGED vars
  <2>1. UNCHANGED <<cache, engine, ring, txFifo, link, txq>> /\ CountersOK'
    BY <1>9 DEF vars, TxInv, CountersOK
  <2> QED
    BY <2>1, FlagStep
<1> QED
  BY <1>1, <1>2, <1>3, <1>4, <1>5, <1>6, <1>7, <1>8, <1>9, Zenon DEF Next

LEMMA SpecTxInv ==
    ASSUME ThresholdsFit
    PROVE  Spec => []TxInv
BY InitTxInv, NextTxInv, PTL DEF Spec

(* The state of the card's transmitter, of the FIFO, of the link and of    *)
(* the driver's queue keeps its types: the driver never counts more free   *)
(* descriptors than the ring has and cleans no slot twice, provided that   *)
(* the two thresholds together fit the ring.                               *)
THEOREM TxTypeCorrect ==
    ASSUME ThresholdsFit
    PROVE  Spec => []TxTypeOK
<1>1. TxInv => TxTypeOK
  BY TxInvGives
<1> QED
  BY <1>1, SpecTxInv, PTL

(* The cache's pointers, counters and banks agree on the transmit side, and*)
(* each packet engine reads exactly while its descriptor is unfinished and *)
(* holds a packet until the FIFO gets it: the asserts of                   *)
(* getPacketDataGlobal and onDMAComplete never fire.                       *)
THEOREM TxCacheCorrect ==
    ASSUME ThresholdsFit
    PROVE  Spec => []TxCacheAgrees
<1>1. TxInv => TxCacheAgrees
  BY TxInvGives
<1> QED
  BY <1>1, SpecTxInv, PTL

(* The FIFO's reservations are the packets under way, byte for byte, used  *)
(* and reserved bytes never exceed the FIFO, and the push that             *)
(* txStateMachine asserts succeeds for every packet that is ready, in any  *)
(* order, for any number of engines and any lengths.                       *)
THEOREM TxReservationsKept ==
    ASSUME ThresholdsFit
    PROVE  Spec => []ReservationsKept
<1>1. TxInv => ReservationsKept
  BY TxInvGives
<1> QED
  BY <1>1, SpecTxInv, PTL

=============================================================================
