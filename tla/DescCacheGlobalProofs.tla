----------------------- MODULE DescCacheGlobalProofs -----------------------
(***************************************************************************)
(* Every method of the descriptor cache preserves CacheInv, for every      *)
(* ring length, cache size and number of engines.                          *)
(***************************************************************************)
EXTENDS DescCacheGlobal, DescDMAJobsProofs

USE DescLenAssumption, CacheSizeAssumption

(* The descriptors in process are counted by a natural number. *)
LEMMA ProcessingFinite ==
    ASSUME NEW q
    PROVE  /\ IsFiniteSet({e \in PktEngines : q.processing[e].desc # NULL})
           /\ descProcessing(q) \in Nat
<1>1. 0 \in Int /\ NumDMAEngines - 1 \in Int
  BY NumDMAEnginesAssumption
<1>2. IsFiniteSet(PktEngines)
  BY <1>1, FS_Interval DEF PktEngines
<1>3. {e \in PktEngines : q.processing[e].desc # NULL} \in SUBSET PktEngines
  OBVIOUS
<1>4. IsFiniteSet({e \in PktEngines : q.processing[e].desc # NULL})
  BY <1>2, <1>3, FS_Subset
<1> QED
  BY <1>4, FS_CardinalityType DEF descProcessing

LEMMA ProcessingSame ==
    ASSUME NEW q, NEW r, r.processing = q.processing
    PROVE  descProcessing(r) = descProcessing(q)
BY DEF descProcessing

(* What the proofs below use of CacheInv's parts, with the counters of the *)
(* cache spelled out.                                                      *)
LEMMA CacheFacts ==
    ASSUME NEW T, NEW q, CacheInv(T, q)
    PROVE  /\ q.used \in Seq(T) /\ Len(q.used) \in Nat
           /\ q.unused \in Seq(T) /\ Len(q.unused) \in Nat
           /\ descProcessing(q) \in Nat
           /\ q.head \in Slots /\ q.tail \in Slots /\ q.cachePnt \in Slots
           /\ q.wb \in JobsType(T) /\ q.fetch \in JobsType(T)
           /\ q.wb.ing \in Nat /\ q.fetch.ing \in Nat
           /\ q.wb.pnt \in Slots /\ q.fetch.pnt \in Slots
           /\ q.wb.ing <= Len(q.used)
           /\ q.cachePnt = (q.head + (Len(q.used) + (Len(q.unused) + descProcessing(q)))) % DescLen
           /\ Len(q.used) + Len(q.unused) + descProcessing(q) + q.fetch.ing <= CacheSize
<1>1. q \in CacheType(T) /\ PointersAgree(q)
  BY DEF CacheInv
<1>2. /\ q.used \in Seq(T) /\ q.unused \in Seq(T)
      /\ q.head \in Slots /\ q.tail \in Slots /\ q.cachePnt \in Slots
      /\ q.wb \in JobsType(T) /\ q.fetch \in JobsType(T)
  BY <1>1 DEF CacheType
<1>3. /\ q.wb.ing \in Nat /\ q.fetch.ing \in Nat
      /\ q.wb.pnt \in Slots /\ q.fetch.pnt \in Slots
  BY <1>2 DEF JobsType
<1>4. Len(q.used) \in Nat /\ Len(q.unused) \in Nat
  BY <1>2
<1>5. descProcessing(q) \in Nat
  BY ProcessingFinite
<1>6. /\ q.wb.ing <= Len(q.used)
      /\ q.cachePnt = (q.head + (Len(q.used) + (Len(q.unused) + descProcessing(q)))) % DescLen
      /\ Len(q.used) + Len(q.unused) + descProcessing(q) + q.fetch.ing <= CacheSize
  BY <1>1 DEF PointersAgree, descUsed, descUnused, totalUsed
<1> QED
  BY <1>2, <1>3, <1>4, <1>5, <1>6

-----------------------------------------------------------------------------
(* writebackGlobal. *)

(* A cache with another write-back bank that is as sound as the old one.   *)
LEMMA WbBankChanged ==
    ASSUME NEW T, NEW q, NEW r, CacheInv(T, q), r \in CacheType(T),
           r.used = q.used, r.unused = q.unused, r.processing = q.processing,
           r.nextSeqToProcess = q.nextSeqToProcess,
           r.nextSeqToWriteback = q.nextSeqToWriteback,
           r.cachePnt = q.cachePnt, r.fetch = q.fetch, r.head = q.head,
           r.wb.ing <= Len(q.used),
           JobsContiguous(r.wb, r.head),
           TransfersAgree(r.wb),
           \A e \in DescEngines : r.wb.working[e] => Len(r.wb.buf[e]) = r.wb.num[e]
    PROVE  CacheInv(T, r)
<1>1. descProcessing(r) = descProcessing(q)
  BY ProcessingSame
<1>2. PointersAgree(r)
  BY <1>1 DEF CacheInv, PointersAgree, descUsed, descUnused, totalUsed
<1>3. BanksContiguous(r)
  BY DEF CacheInv, BanksContiguous
<1>4. ProcessingInOrder(r)
  BY <1>1 DEF CacheInv, ProcessingInOrder
<1>5. BuffersFilled(r)
  BY DEF CacheInv, BuffersFilled
<1> QED
  BY <1>2, <1>3, <1>4, <1>5 DEF CacheInv

(* What is rounded down by a mask stays between 0 and itself. *)
LEMMA AndNotBounds ==
    ASSUME NEW n \in Nat, NEW mask \in WbMasks
    PROVE  AndNot(n, mask) \in 0 .. n
<1>1. CASE mask = 2
  <2>1. (n \div 2) \in Nat /\ n = (2 * (n \div 2)) + (n % 2) /\ (n % 2) \in 0 .. 1
    OBVIOUS
  <2>2. ((n \div 2) % 2) \in 0 .. 1
    BY <2>1
  <2>3. ((n \div 2) % 2) <= (n \div 2)
    BY <2>1
  <2>4. AndNot(n, mask) = n - (2 * ((n \div 2) % 2))
    BY <1>1 DEF AndNot
  <2>5. \A h \in Nat, r \in 0 .. 1, k \in 0 .. 1 :
            n = (2 * h) + r /\ k <= h => n - (2 * k) \in 0 .. n
    OBVIOUS
  <2> QED
    BY <2>1, <2>2, <2>3, <2>4, <2>5
<1>2. CASE mask = 1
  BY <1>2 DEF AndNot
<1>3. CASE mask = 3
  BY <1>3 DEF AndNot
<1>4. CASE mask = 0 \/ mask = AllOnes
  BY <1>4 DEF AndNot, AllOnes
<1> QED
  BY <1>1, <1>2, <1>3, <1>4 DEF WbMasks

(* A write-back takes descriptors that are used, that no engine has yet,   *)
(* and that lie before the end of the ring.                                *)
LEMMA MaxToWbBounds ==
    ASSUME NEW T, NEW q, CacheInv(T, q), NEW mask \in WbMasks
    PROVE  /\ MaxToWb(q, mask) \in 0 .. DescLen
           /\ q.wb.pnt + MaxToWb(q, mask) <= DescLen
           /\ q.wb.ing + MaxToWb(q, mask) <= Len(q.used)
           /\ WbReachesEnd(q) \in BOOLEAN
<1>1. /\ Len(q.used) \in Nat /\ q.wb.ing \in Nat /\ q.wb.pnt \in 0 .. DescLen - 1
      /\ q.wb.ing <= Len(q.used)
  BY CacheFacts DEF Slots
<1>2. NotYetWriting(q) \in Nat /\ q.wb.ing + NotYetWriting(q) = Len(q.used)
  BY <1>1 DEF NotYetWriting
<1>3. AndNot(NotYetWriting(q), mask) \in 0 .. NotYetWriting(q)
  BY <1>2, AndNotBounds
<1>4. CASE WbReachesEnd(q)
  <2>1. NotYetWriting(q) + q.wb.pnt >= DescLen /\ MaxToWb(q, mask) = DescLen - q.wb.pnt
    BY <1>4 DEF WbReachesEnd, MaxToWb
  <2> DEFINE n   == NotYetWriting(q)
             m   == MaxToWb(q, mask)
             pnt == q.wb.pnt
             ing == q.wb.ing
             len == Len(q.used)
  <2>2. /\ n + pnt >= DescLen /\ m = DescLen - pnt /\ ing + n = len
        /\ n \in Nat /\ ing \in Nat /\ len \in Nat /\ pnt \in 0 .. DescLen - 1
    BY <1>1, <1>2, <2>1
  <2> HIDE DEF n, m, pnt, ing, len
  <2>3. m \in 0 .. DescLen /\ pnt + m <= DescLen /\ ing + m <= len
    BY <2>2, DescLenAssumption
  <2> QED
    BY <1>4, <2>3 DEF m, pnt, ing, len
<1>5. CASE ~ WbReachesEnd(q)
  <2>1. /\ ~ (NotYetWriting(q) + q.wb.pnt >= DescLen)
        /\ MaxToWb(q, mask) = AndNot(NotYetWriting(q), mask)
    BY <1>5 DEF WbReachesEnd, MaxToWb
  <2> QED
    BY <1>1, <1>2, <1>3, <2>1 DEF WbReachesEnd
<1> QED
  BY <1>4, <1>5

(* writebackGlobal preserves the invariant and leaves all but the write-   *)
(* back side of the cache alone.                                           *)
LEMMA WritebackKeeps ==
    ASSUME NEW T, NEW q, CacheInv(T, q), NEW mask \in WbMasks
    PROVE  /\ CacheInv(T, writebackGlobal(q, mask))
           /\ writebackGlobal(q, mask).processing = q.processing
           /\ writebackGlobal(q, mask).nextSeqToWriteback = q.nextSeqToWriteback
<1> DEFINE n == MaxToWb(q, mask)
           r == writebackGlobal(q, mask)
           b == SubSeq(q.used, q.wb.ing + 1, q.wb.ing + n)
<1>1. q \in CacheType(T)
  BY DEF CacheInv
<1>2. /\ n \in 0 .. DescLen /\ q.wb.pnt + n <= DescLen /\ q.wb.ing + n <= Len(q.used)
      /\ WbReachesEnd(q) \in BOOLEAN
  BY MaxToWbBounds
<1>3. /\ q.used \in Seq(T) /\ Len(q.used) \in Nat /\ q.head \in Slots
      /\ q.wb \in JobsType(T) /\ q.wb.ing \in Nat /\ q.wb.ing <= Len(q.used)
  BY CacheFacts
<1>4. /\ JobsContiguous(q.wb, q.head) /\ TransfersAgree(q.wb)
      /\ \A e \in DescEngines : q.wb.working[e] => Len(q.wb.buf[e]) = q.wb.num[e]
  BY DEF CacheInv, BanksContiguous, BuffersFilled
<1>5. ASSUME NEW more \in BOOLEAN, r = [q EXCEPT !.moreToWb = more, !.wbAlignment = mask]
      PROVE  /\ CacheInv(T, r) /\ r.processing = q.processing
             /\ r.nextSeqToWriteback = q.nextSeqToWriteback
  <2> HIDE DEF r
  <2>1. /\ r \in CacheType(T)
        /\ r.wb = q.wb
        /\ r.used = q.used /\ r.unused = q.unused /\ r.processing = q.processing
        /\ r.nextSeqToProcess = q.nextSeqToProcess
        /\ r.nextSeqToWriteback = q.nextSeqToWriteback
        /\ r.cachePnt = q.cachePnt /\ r.fetch = q.fetch
        /\ r.head = q.head /\ r.tail = q.tail
    BY <1>1, <1>5, Zenon DEF CacheType
  <2>2. CacheInv(T, r)
    BY <1>3, <1>4, <2>1, WbBankChanged
  <2> QED
    BY <2>1, <2>2
<1>6. CASE n <= 0
  <2>1. r = [q EXCEPT !.moreToWb = WbReachesEnd(q), !.wbAlignment = mask]
    BY <1>2, <1>6 DEF writebackGlobal
  <2> QED
    BY <1>2, <1>5, <2>1
<1>7. CASE n > 0 /\ ~ hasFreeEngine(q.wb)
  <2>1. r = [q EXCEPT !.moreToWb = TRUE, !.wbAlignment = mask]
    BY <1>2, <1>7 DEF writebackGlobal
  <2> QED
    BY <1>5, <2>1
<1>8. CASE n > 0 /\ hasFreeEngine(q.wb)
  <2> DEFINE w == Register(q.wb, n, b)
  <2>1. r = [q EXCEPT !.moreToWb = WbReachesEnd(q), !.wbAlignment = mask, !.wb = w]
    BY <1>2, <1>8 DEF writebackGlobal, WbBuf
  <2>2. n \in 1 .. DescLen
    BY <1>2, <1>8
  <2>3. b \in Seq(T) /\ Len(b) = n
    <3>1. q.wb.ing + 1 \in Int /\ q.wb.ing + n \in Int
      BY <1>2, <1>3
    <3>2. \A i \in q.wb.ing + 1 .. q.wb.ing + n : q.used[i] \in T
      BY <1>2, <1>3
    <3>3. b \in Seq(T) /\ Len(b) = IF q.wb.ing + 1 <= q.wb.ing + n
                                  THEN (q.wb.ing + n) - (q.wb.ing + 1) + 1 ELSE 0
      BY <3>1, <3>2, SubSeqProperties
    <3> DEFINE a == q.wb.ing
    <3>4. a \in Int /\ n \in Nat \ {0}
      BY <1>2, <1>3, <2>2
    <3> HIDE DEF n, a
    <3>5. a + 1 <= a + n /\ (a + n) - (a + 1) + 1 = n
      BY <3>4
    <3> QED
      BY <3>3, <3>5 DEF a
  <2> HIDE DEF n, b
  <2>4. w \in JobsType(T)
    BY <1>2, <1>3, <1>8, <2>2, <2>3, RegisterType
  <2>5. JobsContiguous(w, q.head)
    BY <1>2, <1>3, <1>4, <1>8, <2>2, <2>3, RegisterContiguous
  <2>6. TransfersAgree(w)
    BY <1>3, <1>4, <1>8, <2>2, <2>3, RegisterTransfers
  <2>7. w.ing <= Len(q.used)
    BY <1>2 DEF Register
  <2>8. \A e \in DescEngines : w.working[e] => Len(w.buf[e]) = w.num[e]
    <3> DEFINE g == getFreeEngine(q.wb)
    <3>1. /\ w.working = [q.wb.working EXCEPT ![g] = TRUE]
          /\ w.buf = [q.wb.buf EXCEPT ![g] = b]
          /\ w.num = [q.wb.num EXCEPT ![g] = n]
      BY DEF Register
    <3>2. /\ q.wb.working \in [DescEngines -> BOOLEAN] /\ q.wb.buf \in [DescEngines -> Seq(T)]
          /\ q.wb.num \in [DescEngines -> 0 .. DescLen]
      BY <1>3 DEF JobsType
    <3>3. g \in DescEngines
      BY <1>8, FreeEngineFound
    <3> HIDE DEF w, g
    <3> QED
      BY <1>4, <2>3, <3>1, <3>2, <3>3
  <2> HIDE DEF w, r
  <2>9. /\ r \in CacheType(T)
        /\ r.wb = w
        /\ r.used = q.used /\ r.unused = q.unused /\ r.processing = q.processing
        /\ r.nextSeqToProcess = q.nextSeqToProcess
        /\ r.nextSeqToWriteback = q.nextSeqToWriteback
        /\ r.cachePnt = q.cachePnt /\ r.fetch = q.fetch
        /\ r.head = q.head /\ r.tail = q.tail
    BY <1>1, <1>2, <2>1, <2>4, Zenon DEF CacheType
  <2>10. CacheInv(T, r)
    BY <2>5, <2>6, <2>7, <2>8, <2>9, WbBankChanged
  <2> QED
    BY <2>9, <2>10 DEF r
<1> QED
  BY <1>2, <1>6, <1>7, <1>8

-----------------------------------------------------------------------------
(* fetchDescriptorsGlobal. *)

(* A cache with another fetch bank that is as sound as the old one, or     *)
(* another tail.                                                           *)
LEMMA FetchBankChanged ==
    ASSUME NEW T, NEW q, NEW r, CacheInv(T, q), r \in CacheType(T),
           r.used = q.used, r.unused = q.unused, r.processing = q.processing,
           r.nextSeqToProcess = q.nextSeqToProcess,
           r.nextSeqToWriteback = q.nextSeqToWriteback,
           r.cachePnt = q.cachePnt, r.wb = q.wb, r.head = q.head,
           Len(q.used) + Len(q.unused) + descProcessing(q) + r.fetch.ing <= CacheSize,
           JobsContiguous(r.fetch, r.cachePnt),
           TransfersAgree(r.fetch),
           \A e \in DescEngines : r.fetch.working[e] =>
               Len(r.fetch.buf[e]) = IF r.fetch.done[e] THEN r.fetch.num[e]
                                                        ELSE r.fetch.moved[e]
    PROVE  CacheInv(T, r)
<1>1. descProcessing(r) = descProcessing(q)
  BY ProcessingSame
<1>2. PointersAgree(r)
  BY <1>1 DEF CacheInv, PointersAgree, descUsed, descUnused, totalUsed
<1>3. BanksContiguous(r)
  BY DEF CacheInv, BanksContiguous
<1>4. ProcessingInOrder(r)
  BY <1>1 DEF CacheInv, ProcessingInOrder
<1>5. BuffersFilled(r)
  BY DEF CacheInv, BuffersFilled
<1> QED
  BY <1>2, <1>3, <1>4, <1>5 DEF CacheInv

(* A fetch takes descriptors before the end of the ring that the cache has *)
(* room for.                                                               *)
LEMMA MaxToFetchBounds ==
    ASSUME NEW T, NEW q, CacheInv(T, q)
    PROVE  /\ MaxToFetch(q) \in 0 .. DescLen
           /\ q.fetch.pnt + MaxToFetch(q) <= DescLen
           /\ Len(q.used) + Len(q.unused) + descProcessing(q) + (q.fetch.ing + MaxToFetch(q))
                 <= CacheSize
<1> DEFINE a == Len(q.used)
           b == Len(q.unused)
           c == descProcessing(q)
           d == q.fetch.ing
           t == totalUsed(q)
<1>1. q.fetch.pnt \in 0 .. DescLen - 1 /\ q.tail \in 0 .. DescLen - 1
  BY CacheFacts DEF Slots
<1>2. InRing(q) \in Nat /\ q.fetch.pnt + InRing(q) <= DescLen
  BY <1>1 DEF InRing
<1>3. a \in Nat /\ b \in Nat /\ c \in Nat /\ d \in Nat /\ a + b + c + d <= CacheSize
  BY CacheFacts
<1>4. t = a + b + c + d
  BY DEF totalUsed
<1>5. free_cache(q) = IF CacheSize >= t THEN CacheSize - t ELSE 0
  BY DEF free_cache
<1> HIDE DEF a, b, c, d, t
<1>6. t \in Nat /\ t <= CacheSize /\ \A m \in Nat : a + b + c + (d + m) = t + m
  BY <1>3, <1>4
<1>7. free_cache(q) = CacheSize - t /\ free_cache(q) \in Nat
  BY <1>5, <1>6
<1>8. MaxToFetch(q) \in Nat /\ MaxToFetch(q) <= InRing(q) /\ MaxToFetch(q) <= CacheSize - t
  BY <1>2, <1>6, <1>7 DEF MaxToFetch
<1>9. MaxToFetch(q) \in 0 .. DescLen /\ q.fetch.pnt + MaxToFetch(q) <= DescLen
  BY <1>1, <1>2, <1>8
<1>10. a + b + c + (d + MaxToFetch(q)) <= CacheSize
  BY <1>6, <1>8
<1> QED
  BY <1>9, <1>10 DEF a, b, c, d

(* fetchDescriptorsGlobal preserves the invariant and leaves all but the   *)
(* fetch bank alone.                                                       *)
LEMMA FetchKeeps ==
    ASSUME NEW T, NEW q, CacheInv(T, q)
    PROVE  /\ CacheInv(T, fetchDescriptorsGlobal(q))
           /\ fetchDescriptorsGlobal(q).processing = q.processing
           /\ fetchDescriptorsGlobal(q).nextSeqToWriteback = q.nextSeqToWriteback
<1> DEFINE n == MaxToFetch(q)
           r == fetchDescriptorsGlobal(q)
<1>1. q \in CacheType(T)
  BY DEF CacheInv
<1>2. /\ n \in 0 .. DescLen /\ q.fetch.pnt + n <= DescLen
      /\ Len(q.used) + Len(q.unused) + descProcessing(q) + (q.fetch.ing + n) <= CacheSize
  BY MaxToFetchBounds
<1>3. q.cachePnt \in Slots /\ q.fetch \in JobsType(T)
  BY CacheFacts
<1>4. /\ JobsContiguous(q.fetch, q.cachePnt) /\ TransfersAgree(q.fetch)
      /\ \A e \in DescEngines : q.fetch.working[e] =>
             Len(q.fetch.buf[e]) = IF q.fetch.done[e] THEN q.fetch.num[e]
                                                      ELSE q.fetch.moved[e]
  BY DEF CacheInv, BanksContiguous, BuffersFilled
<1>5. CASE n = 0 \/ ~ hasFreeEngine(q.fetch)
  <2>1. r = q
    BY <1>5 DEF fetchDescriptorsGlobal
  <2> QED
    BY <2>1
<1>6. CASE n # 0 /\ hasFreeEngine(q.fetch)
  <2> DEFINE w == Register(q.fetch, n, <<>>)
  <2>1. r = [q EXCEPT !.fetch = w]
    BY <1>6 DEF fetchDescriptorsGlobal
  <2>2. n \in 1 .. DescLen /\ <<>> \in Seq(T)
    BY <1>2, <1>6
  <2> HIDE DEF n
  <2>3. w \in JobsType(T)
    BY <1>2, <1>3, <1>6, <2>2, RegisterType
  <2>4. JobsContiguous(w, q.cachePnt)
    BY <1>2, <1>3, <1>4, <1>6, <2>2, RegisterContiguous
  <2>5. TransfersAgree(w)
    BY <1>3, <1>4, <1>6, <2>2, RegisterTransfers
  <2>6. w.ing = q.fetch.ing + n
    BY DEF Register
  <2>7. \A e \in DescEngines : w.working[e] =>
            Len(w.buf[e]) = IF w.done[e] THEN w.num[e] ELSE w.moved[e]
    <3> DEFINE g == getFreeEngine(q.fetch)
    <3>1. /\ w.working = [q.fetch.working EXCEPT ![g] = TRUE]
          /\ w.done = [q.fetch.done EXCEPT ![g] = FALSE]
          /\ w.buf = [q.fetch.buf EXCEPT ![g] = <<>>]
          /\ w.num = [q.fetch.num EXCEPT ![g] = n]
          /\ w.moved = [q.fetch.moved EXCEPT ![g] = 0]
      BY DEF Register
    <3>2. /\ q.fetch.working \in [DescEngines -> BOOLEAN]
          /\ q.fetch.done \in [DescEngines -> BOOLEAN]
          /\ q.fetch.buf \in [DescEngines -> Seq(T)]
          /\ q.fetch.num \in [DescEngines -> 0 .. DescLen]
          /\ q.fetch.moved \in [DescEngines -> Nat]
      BY <1>3 DEF JobsType
    <3>3. g \in DescEngines
      BY <1>6, FreeEngineFound
    <3> HIDE DEF w, g
    <3> QED
      BY <1>4, <2>2, <3>1, <3>2, <3>3
  <2> HIDE DEF w, r
  <2>8. /\ r \in CacheType(T)
        /\ r.fetch = w
        /\ r.used = q.used /\ r.unused = q.unused /\ r.processing = q.processing
        /\ r.nextSeqToProcess = q.nextSeqToProcess
        /\ r.nextSeqToWriteback = q.nextSeqToWriteback
        /\ r.cachePnt = q.cachePnt /\ r.wb = q.wb
        /\ r.head = q.head /\ r.tail = q.tail
    BY <1>1, <2>1, <2>3, Zenon DEF CacheType
  <2>9. CacheInv(T, r)
    BY <1>2, <2>4, <2>5, <2>6, <2>7, <2>8, FetchBankChanged
  <2> QED
    BY <2>8, <2>9 DEF r
<1> QED
  BY <1>5, <1>6

(* A write of the tail register. *)
LEMMA TailKeeps ==
    ASSUME NEW T, NEW q, CacheInv(T, q), NEW t \in Slots
    PROVE  /\ CacheInv(T, [q EXCEPT !.tail = t])
           /\ [q EXCEPT !.tail = t].processing = q.processing
           /\ [q EXCEPT !.tail = t].nextSeqToWriteback = q.nextSeqToWriteback
<1> DEFINE r == [q EXCEPT !.tail = t]
<1>1. q \in CacheType(T)
  BY DEF CacheInv
<1>2. /\ r \in CacheType(T)
      /\ r.fetch = q.fetch
      /\ r.used = q.used /\ r.unused = q.unused /\ r.processing = q.processing
      /\ r.nextSeqToProcess = q.nextSeqToProcess
      /\ r.nextSeqToWriteback = q.nextSeqToWriteback
      /\ r.cachePnt = q.cachePnt /\ r.wb = q.wb
      /\ r.head = q.head
  BY <1>1, Zenon DEF CacheType
<1>3. /\ JobsContiguous(q.fetch, q.cachePnt) /\ TransfersAgree(q.fetch)
      /\ \A e \in DescEngines : q.fetch.working[e] =>
             Len(q.fetch.buf[e]) = IF q.fetch.done[e] THEN q.fetch.num[e]
                                                      ELSE q.fetch.moved[e]
  BY DEF CacheInv, BanksContiguous, BuffersFilled
<1>4. Len(q.used) + Len(q.unused) + descProcessing(q) + q.fetch.ing <= CacheSize
  BY CacheFacts
<1> HIDE DEF r
<1>5. CacheInv(T, r)
  BY <1>2, <1>3, <1>4, FetchBankChanged
<1> QED
  BY <1>2, <1>5 DEF r

(* The conditional calls. *)
LEMMA WbIfKeeps ==
    ASSUME NEW T, NEW q, CacheInv(T, q), NEW mask \in WbMasks, NEW c
    PROVE  /\ CacheInv(T, WbIf(c, q, mask))
           /\ WbIf(c, q, mask).processing = q.processing
           /\ WbIf(c, q, mask).nextSeqToWriteback = q.nextSeqToWriteback
<1>1. CASE c
  <2>1. WbIf(c, q, mask) = writebackGlobal(q, mask)
    BY <1>1 DEF WbIf
  <2> QED
    BY <2>1, WritebackKeeps
<1>2. CASE ~ c
  <2>1. WbIf(c, q, mask) = q
    BY <1>2 DEF WbIf
  <2> QED
    BY <2>1
<1> QED
  BY <1>1, <1>2

LEMMA FetchIfKeeps ==
    ASSUME NEW T, NEW q, CacheInv(T, q), NEW c
    PROVE  /\ CacheInv(T, FetchIf(c, q))
           /\ FetchIf(c, q).processing = q.processing
           /\ FetchIf(c, q).nextSeqToWriteback = q.nextSeqToWriteback
<1>1. CASE c
  <2>1. FetchIf(c, q) = fetchDescriptorsGlobal(q)
    BY <1>1 DEF FetchIf
  <2> QED
    BY <2>1, FetchKeeps
<1>2. CASE ~ c
  <2>1. FetchIf(c, q) = q
    BY <1>2 DEF FetchIf
  <2> QED
    BY <2>1
<1> QED
  BY <1>1, <1>2

-----------------------------------------------------------------------------
(* wbCompleteGlobal. *)

(* A pointer that moves on by n while n descriptors leave what lies between*)
(* it and another pointer.                                                 *)
LEMMA PointerMoves ==
    ASSUME NEW a \in Slots, NEW n \in Nat, NEW u \in Nat, NEW x \in Nat, n <= u
    PROVE  (((a + n) % DescLen) + ((u - n) + x)) % DescLen = (a + (u + x)) % DescLen
<1>1. a \in Nat /\ a + n \in Nat /\ (u - n) + x \in Nat
  BY DEF Slots
<1>2. (((a + n) % DescLen) + ((u - n) + x)) % DescLen = ((a + n) + ((u - n) + x)) % DescLen
  BY <1>1, ModAdd
<1>3. (a + n) + ((u - n) + x) = a + (u + x)
  BY <1>1
<1> QED
  BY <1>2, <1>3

LEMMA ModInSlots ==
    ASSUME NEW a \in Nat
    PROVE  (a % DescLen) \in Slots
BY DivMod DEF Slots

LEMMA WbRetireKeeps ==
    ASSUME NEW T, NEW q, CacheInv(T, q), NEW e \in DescEngines, Completing(q.wb, e)
    PROVE  /\ CacheInv(T, wbRetire(q, e))
           /\ wbRetire(q, e).processing = q.processing
           /\ wbRetire(q, e).nextSeqToWriteback = q.nextSeqToWriteback
<1> DEFINE n == RetiredDescs(q.wb, e)
           w == Complete(q.wb, e)
           u == SubSeq(q.used, n + 1, Len(q.used))
           h == (q.head + n) % DescLen
           r == wbRetire(q, e)
<1>1. q \in CacheType(T) /\ ProcessingInOrder(q)
  BY DEF CacheInv
<1>2. /\ q.used \in Seq(T) /\ Len(q.used) \in Nat /\ Len(q.unused) \in Nat
      /\ descProcessing(q) \in Nat /\ q.fetch.ing \in Nat
      /\ q.head \in Slots /\ q.wb \in JobsType(T) /\ q.wb.ing \in Nat
      /\ q.wb.ing <= Len(q.used)
      /\ q.cachePnt = (q.head + (Len(q.used) + (Len(q.unused) + descProcessing(q)))) % DescLen
      /\ Len(q.used) + Len(q.unused) + descProcessing(q) + q.fetch.ing <= CacheSize
  BY CacheFacts
<1>3. /\ JobsContiguous(q.wb, q.head) /\ JobsContiguous(q.fetch, q.cachePnt)
      /\ TransfersAgree(q.wb) /\ TransfersAgree(q.fetch)
      /\ \A f \in DescEngines :
            /\ q.wb.working[f] => Len(q.wb.buf[f]) = q.wb.num[f]
            /\ q.fetch.working[f] =>
                  Len(q.fetch.buf[f]) = IF q.fetch.done[f] THEN q.fetch.num[f]
                                                           ELSE q.fetch.moved[f]
  BY DEF CacheInv, BanksContiguous, BuffersFilled
<1>4. n \in Nat /\ n <= q.wb.ing
  BY <1>2, <1>3, RetiredDescsBound
<1>5. w \in JobsType(T)
  BY <1>2, <1>3, CompleteType
<1>6. JobsContiguous(w, h)
  BY <1>2, <1>3, CompleteContiguous
<1>7. TransfersAgree(w)
  BY <1>2, <1>3, CompleteTransfers
<1>8. w.ing = q.wb.ing - n
  BY DEF Complete
<1>9. \A f \in DescEngines : w.working[f] => Len(w.buf[f]) = w.num[f]
  <2> DEFINE gone == {q.wb.queue[i] : i \in 1 .. RetiredJobs(q.wb, e)}
  <2>1. /\ w.working = [f \in DescEngines |-> q.wb.working[f] /\ f \notin gone]
        /\ w.num = [f \in DescEngines |-> IF f \in gone THEN 0 ELSE q.wb.num[f]]
        /\ w.buf = [f \in DescEngines |-> IF f \in gone THEN <<>> ELSE q.wb.buf[f]]
    BY DEF Complete
  <2> HIDE DEF gone, w
  <2> SUFFICES ASSUME NEW f \in DescEngines, w.working[f]
               PROVE  Len(w.buf[f]) = w.num[f]
    OBVIOUS
  <2>2. q.wb.working[f] /\ f \notin gone
    BY <2>1
  <2>3. w.num[f] = q.wb.num[f] /\ w.buf[f] = q.wb.buf[f]
    BY <2>1, <2>2
  <2> QED
    BY <1>3, <2>2, <2>3
<1>10. r = [q EXCEPT !.wb = w, !.used = u, !.head = h]
  BY DEF wbRetire
<1> HIDE DEF n, w, r
<1>11. u \in Seq(T) /\ Len(u) = Len(q.used) - n
  <2>1. n + 1 \in Int /\ Len(q.used) \in Int
    BY <1>2, <1>4
  <2>2. \A i \in n + 1 .. Len(q.used) : q.used[i] \in T
    BY <1>2, <1>4
  <2>3. u \in Seq(T) /\ Len(u) = IF n + 1 <= Len(q.used) THEN Len(q.used) - (n + 1) + 1 ELSE 0
    BY <2>1, <2>2, SubSeqProperties
  <2> QED
    BY <1>2, <1>4, <2>3
<1>12. h \in Slots
  <2>1. q.head + n \in Nat
    BY <1>2, <1>4 DEF Slots
  <2> QED
    BY <2>1, ModInSlots
<1>13. q.cachePnt = (h + ((Len(q.used) - n) + (Len(q.unused) + descProcessing(q)))) % DescLen
  <2> DEFINE x == Len(q.unused) + descProcessing(q)
             y == Len(q.used)
             p == q.head
  <2>1. x \in Nat /\ y \in Nat /\ n \in Nat /\ n <= y /\ p \in Slots
    BY <1>2, <1>4
  <2>2. q.cachePnt = (p + (y + x)) % DescLen /\ h = (p + n) % DescLen
    BY <1>2
  <2> HIDE DEF x, y, p, h
  <2>3. (((p + n) % DescLen) + ((y - n) + x)) % DescLen = (p + (y + x)) % DescLen
    BY <2>1, PointerMoves
  <2> QED
    BY <2>2, <2>3 DEF x, y
<1> HIDE DEF u, h
<1>14. /\ r \in CacheType(T)
       /\ r.wb = w /\ r.used = u /\ r.head = h
       /\ r.unused = q.unused /\ r.processing = q.processing
       /\ r.nextSeqToProcess = q.nextSeqToProcess
       /\ r.nextSeqToWriteback = q.nextSeqToWriteback
       /\ r.cachePnt = q.cachePnt /\ r.fetch = q.fetch /\ r.tail = q.tail
  BY <1>1, <1>5, <1>10, <1>11, <1>12, Zenon DEF CacheType
<1>15. descProcessing(r) = descProcessing(q)
  BY <1>14, ProcessingSame
<1>16. PointersAgree(r)
  <2>1. w.ing <= Len(u)
    BY <1>2, <1>4, <1>8, <1>11
  <2>2. Len(u) + Len(q.unused) + descProcessing(q) + q.fetch.ing <= CacheSize
    <3> DEFINE a == Len(q.used)
               b == Len(q.unused)
               c == descProcessing(q)
               d == q.fetch.ing
    <3>1. a \in Nat /\ b \in Nat /\ c \in Nat /\ d \in Nat /\ a + b + c + d <= CacheSize
      BY <1>2
    <3>2. Len(u) = a - n
      BY <1>11
    <3> HIDE DEF a, b, c, d
    <3>3. (a - n) + b + c + d <= CacheSize
      BY <1>4, <3>1, <1>2
    <3> QED
      BY <3>2, <3>3 DEF b, c, d
  <2> QED
    BY <1>11, <1>13, <1>14, <1>15, <2>1, <2>2
    DEF PointersAgree, descUsed, descUnused, totalUsed
<1>17. BanksContiguous(r)
  BY <1>3, <1>6, <1>14 DEF BanksContiguous
<1>18. ProcessingInOrder(r)
  BY <1>1, <1>14, <1>15 DEF ProcessingInOrder
<1>19. BuffersFilled(r)
  BY <1>3, <1>7, <1>9, <1>14 DEF BuffersFilled
<1> QED
  BY <1>14, <1>16, <1>17, <1>18, <1>19 DEF CacheInv, r

LEMMA WbCompleteKeeps ==
    ASSUME NEW T, NEW q, CacheInv(T, q), NEW e \in DescEngines, Completing(q.wb, e)
    PROVE  /\ CacheInv(T, wbCompleteGlobal(q, e))
           /\ wbCompleteGlobal(q, e).processing = q.processing
           /\ wbCompleteGlobal(q, e).nextSeqToWriteback = q.nextSeqToWriteback
<1> DEFINE r == wbRetire(q, e)
           s == [r EXCEPT !.moreToWb = FALSE]
           z == wbCompleteGlobal(q, e)
<1>1. /\ CacheInv(T, r) /\ r.processing = q.processing
      /\ r.nextSeqToWriteback = q.nextSeqToWriteback
  BY WbRetireKeeps
<1>2. z = WbIf(r.moreToWb, s, r.wbAlignment)
  BY DEF wbCompleteGlobal
<1> HIDE DEF r, z
<1>3. r \in CacheType(T)
  BY <1>1 DEF CacheInv
<1>4. /\ s \in CacheType(T) /\ r.wbAlignment \in WbMasks
      /\ s.wb = r.wb /\ s.fetch = r.fetch
      /\ s.used = r.used /\ s.unused = r.unused /\ s.processing = r.processing
      /\ s.nextSeqToProcess = r.nextSeqToProcess
      /\ s.nextSeqToWriteback = r.nextSeqToWriteback
      /\ s.cachePnt = r.cachePnt /\ s.head = r.head
  BY <1>3, Zenon DEF CacheType
<1>5. /\ JobsContiguous(r.wb, r.head) /\ TransfersAgree(r.wb)
      /\ \A f \in DescEngines : r.wb.working[f] => Len(r.wb.buf[f]) = r.wb.num[f]
  BY <1>1 DEF CacheInv, BanksContiguous, BuffersFilled
<1>6. r.wb.ing <= Len(r.used)
  BY <1>1, CacheFacts
<1> HIDE DEF s
<1>7. CacheInv(T, s)
  BY <1>1, <1>4, <1>5, <1>6, WbBankChanged
<1>8. /\ CacheInv(T, z) /\ z.processing = s.processing
      /\ z.nextSeqToWriteback = s.nextSeqToWriteback
  BY <1>2, <1>4, <1>7, WbIfKeeps
<1> QED
  BY <1>1, <1>4, <1>8 DEF z

-----------------------------------------------------------------------------
(* fetchCompleteGlobal. *)

(* A pointer that lies x beyond a moves on by n. *)
LEMMA PointerGrows ==
    ASSUME NEW a \in Slots, NEW x \in Nat, NEW n \in Nat
    PROVE  (((a + x) % DescLen) + n) % DescLen = (a + (x + n)) % DescLen
<1>1. a \in Nat /\ a + x \in Nat
  BY DEF Slots
<1>2. (((a + x) % DescLen) + n) % DescLen = ((a + x) + n) % DescLen
  BY <1>1, ModAdd
<1>3. (a + x) + n = a + (x + n)
  BY <1>1
<1> QED
  BY <1>2, <1>3

(* Every fetch job that is retired has delivered all its descriptors. *)
LEMMA RetiredFetchFull ==
    ASSUME NEW T, NEW q, CacheInv(T, q), NEW e \in DescEngines, Completing(q.fetch, e)
    PROVE  /\ Len(q.fetch.buf[e]) = q.fetch.num[e]
           /\ \A i \in 1 .. RetiredJobs(q.fetch, e) :
                 Len(q.fetch.buf[q.fetch.queue[i]]) = q.fetch.num[q.fetch.queue[i]]
<1> DEFINE j == q.fetch
           k == RetiredJobs(j, e)
<1>1. j \in JobsType(T) /\ q.cachePnt \in Slots
  BY CacheFacts
<1>2. /\ JobsContiguous(j, q.cachePnt) /\ TransfersAgree(j)
      /\ \A f \in DescEngines : j.working[f] =>
             Len(j.buf[f]) = IF j.done[f] THEN j.num[f] ELSE j.moved[f]
  BY DEF CacheInv, BanksContiguous, BuffersFilled
<1>3. /\ k \in 0 .. Len(j.queue)
      /\ k > 0 => j.queue[1] = e
      /\ \A i \in 2 .. k : j.done[j.queue[i]]
  BY <1>1, <1>2, RetiredJobsFound
<1>4. Len(j.queue) \in Nat /\ \A i \in 1 .. Len(j.queue) : j.queue[i] \in DescEngines
  BY <1>1, AheadTyped DEF JobsType
<1> HIDE DEF j, k
<1>5. j.working[e] /\ ~ j.done[e]
  BY <1>2 DEF JobsContiguous, Completing, j
<1>6. j.moved[e] = j.num[e]
  BY <1>2 DEF TransfersAgree, Completing, j
<1>7. Len(j.buf[e]) = j.num[e]
  BY <1>2, <1>5, <1>6
<1>8. \A f \in DescEngines : j.done[f] => j.working[f]
  BY <1>2 DEF JobsContiguous
<1>9. \A f \in DescEngines : j.done[f] => Len(j.buf[f]) = j.num[f]
  BY <1>2, <1>8
<1>10. ASSUME NEW i \in 1 .. k
       PROVE  Len(j.buf[j.queue[i]]) = j.num[j.queue[i]]
  <2>1. CASE i = 1
    BY <1>3, <1>7, <2>1
  <2>2. CASE i # 1
    <3>1. i \in 2 .. k /\ i \in 1 .. Len(j.queue)
      BY <1>3, <1>4, <2>2
    <3> QED
      BY <1>3, <1>4, <1>9, <3>1
  <2> QED
    BY <2>1, <2>2
<1> QED
  BY <1>7, <1>10 DEF j, k

LEMMA FetchCompleteKeeps ==
    ASSUME NEW T, NEW q, CacheInv(T, q), NEW e \in DescEngines, Completing(q.fetch, e)
    PROVE  /\ CacheInv(T, fetchCompleteGlobal(q, e))
           /\ fetchCompleteGlobal(q, e).processing = q.processing
           /\ fetchCompleteGlobal(q, e).nextSeqToWriteback = q.nextSeqToWriteback
<1> DEFINE n == RetiredDescs(q.fetch, e)
           w == Complete(q.fetch, e)
           b == RetiredBuf(q.fetch, e)
           u == q.unused \o b
           h == (q.cachePnt + n) % DescLen
           r == fetchCompleteGlobal(q, e)
<1>1. q \in CacheType(T) /\ ProcessingInOrder(q)
  BY DEF CacheInv
<1>2. /\ Len(q.used) \in Nat /\ q.unused \in Seq(T) /\ Len(q.unused) \in Nat
      /\ descProcessing(q) \in Nat /\ q.fetch.ing \in Nat
      /\ q.head \in Slots /\ q.cachePnt \in Slots /\ q.fetch \in JobsType(T)
      /\ q.wb.ing <= Len(q.used)
      /\ q.cachePnt = (q.head + (Len(q.used) + (Len(q.unused) + descProcessing(q)))) % DescLen
      /\ Len(q.used) + Len(q.unused) + descProcessing(q) + q.fetch.ing <= CacheSize
  BY CacheFacts
<1>3. /\ JobsContiguous(q.wb, q.head) /\ JobsContiguous(q.fetch, q.cachePnt)
      /\ TransfersAgree(q.wb) /\ TransfersAgree(q.fetch)
      /\ \A f \in DescEngines :
            /\ q.wb.working[f] => Len(q.wb.buf[f]) = q.wb.num[f]
            /\ q.fetch.working[f] =>
                  Len(q.fetch.buf[f]) = IF q.fetch.done[f] THEN q.fetch.num[f]
                                                           ELSE q.fetch.moved[f]
  BY DEF CacheInv, BanksContiguous, BuffersFilled
<1>4. n \in Nat /\ n <= q.fetch.ing
  BY <1>2, <1>3, RetiredDescsBound
<1>5. w \in JobsType(T)
  BY <1>2, <1>3, CompleteType
<1>6. JobsContiguous(w, h)
  BY <1>2, <1>3, CompleteContiguous
<1>7. TransfersAgree(w)
  BY <1>2, <1>3, CompleteTransfers
<1>8. w.ing = q.fetch.ing - n
  BY DEF Complete
<1>9. /\ Len(q.fetch.buf[e]) = q.fetch.num[e]
      /\ \A i \in 1 .. RetiredJobs(q.fetch, e) :
            Len(q.fetch.buf[q.fetch.queue[i]]) = q.fetch.num[q.fetch.queue[i]]
  BY RetiredFetchFull
<1>10. b \in Seq(T) /\ Len(b) = n
  BY <1>2, <1>3, <1>9, RetiredBufType
<1>11. \A f \in DescEngines : w.working[f] =>
           Len(w.buf[f]) = IF w.done[f] THEN w.num[f] ELSE w.moved[f]
  <2> DEFINE gone == {q.fetch.queue[i] : i \in 1 .. RetiredJobs(q.fetch, e)}
             j == q.fetch
  <2>1. /\ w.working = [f \in DescEngines |-> j.working[f] /\ f \notin gone]
        /\ w.done = [f \in DescEngines |-> (j.done[f] \/ f = e) /\ f \notin gone]
        /\ w.num = [f \in DescEngines |-> IF f \in gone THEN 0 ELSE j.num[f]]
        /\ w.buf = [f \in DescEngines |-> IF f \in gone THEN <<>> ELSE j.buf[f]]
        /\ w.moved = [j.moved EXCEPT ![e] = 0]
    BY DEF Complete
  <2>2. j.moved \in [DescEngines -> Nat]
    BY <1>2 DEF JobsType
  <2>3. \A f \in DescEngines : j.working[f] =>
            Len(j.buf[f]) = IF j.done[f] THEN j.num[f] ELSE j.moved[f]
    BY <1>3
  <2>4. Len(j.buf[e]) = j.num[e]
    BY <1>9
  <2> HIDE DEF gone, w, j
  <2> SUFFICES ASSUME NEW f \in DescEngines, w.working[f]
               PROVE  Len(w.buf[f]) = IF w.done[f] THEN w.num[f] ELSE w.moved[f]
    OBVIOUS
  <2>5. j.working[f] /\ f \notin gone
    BY <2>1
  <2>6. w.num[f] = j.num[f] /\ w.buf[f] = j.buf[f] /\ (w.done[f] <=> j.done[f] \/ f = e)
    BY ZenonT(40), <2>1, <2>5
  <2>7. f # e => w.moved[f] = j.moved[f]
    BY <2>1, <2>2
  <2> QED
    BY <2>3, <2>4, <2>5, <2>6, <2>7
<1>12. r = [q EXCEPT !.fetch = w, !.unused = u, !.cachePnt = h]
  BY DEF fetchCompleteGlobal
<1> HIDE DEF n, w, b, r
<1>13. u \in Seq(T) /\ Len(u) = Len(q.unused) + n
  BY ZenonT(60), <1>2, <1>10, ConcatProperties
<1>14. h \in Slots
  <2>1. q.cachePnt + n \in Nat
    BY <1>2, <1>4 DEF Slots
  <2> QED
    BY <2>1, ModInSlots
<1>15. h = (q.head + (Len(q.used) + ((Len(q.unused) + n) + descProcessing(q)))) % DescLen
  <2> DEFINE a == Len(q.used)
             c == Len(q.unused)
             d == descProcessing(q)
             x == a + (c + d)
             p == q.head
  <2>1. a \in Nat /\ c \in Nat /\ d \in Nat /\ x \in Nat /\ n \in Nat /\ p \in Slots
    BY <1>2, <1>4
  <2>2. q.cachePnt = (p + x) % DescLen
    BY <1>2
  <2>3. h = (((p + x) % DescLen) + n) % DescLen
    BY <2>2
  <2> HIDE DEF a, c, d, p, h
  <2>4. x + n = a + ((c + n) + d)
    BY <2>1
  <2> HIDE DEF x
  <2>5. (((p + x) % DescLen) + n) % DescLen = (p + (x + n)) % DescLen
    BY <2>1, PointerGrows
  <2> QED
    BY <2>3, <2>4, <2>5 DEF a, c, d, p
<1> HIDE DEF u, h
<1>16. /\ r \in CacheType(T)
       /\ r.fetch = w /\ r.unused = u /\ r.cachePnt = h
       /\ r.used = q.used /\ r.processing = q.processing
       /\ r.nextSeqToProcess = q.nextSeqToProcess
       /\ r.nextSeqToWriteback = q.nextSeqToWriteback
       /\ r.head = q.head /\ r.wb = q.wb /\ r.tail = q.tail
  BY <1>1, <1>5, <1>12, <1>13, <1>14, Zenon DEF CacheType
<1>17. descProcessing(r) = descProcessing(q)
  BY <1>16, ProcessingSame
<1>18. PointersAgree(r)
  <2>1. Len(q.used) + Len(u) + descProcessing(q) + w.ing <= CacheSize
    <3> DEFINE a == Len(q.used)
               c == Len(q.unused)
               d == descProcessing(q)
               g == q.fetch.ing
    <3>1. /\ a \in Nat /\ c \in Nat /\ d \in Nat /\ g \in Nat
          /\ a + c + d + g <= CacheSize /\ n <= g
      BY <1>2, <1>4
    <3>2. Len(u) = c + n /\ w.ing = g - n
      BY <1>8, <1>13
    <3> HIDE DEF a, c, d, g
    <3>3. a + (c + n) + d + (g - n) <= CacheSize
      BY <1>4, <3>1
    <3> QED
      BY <3>2, <3>3 DEF a, d
  <2> QED
    BY <1>2, <1>13, <1>15, <1>16, <1>17, <2>1
    DEF PointersAgree, descUsed, descUnused, totalUsed
<1>19. BanksContiguous(r)
  BY <1>3, <1>6, <1>16 DEF BanksContiguous
<1>20. ProcessingInOrder(r)
  BY <1>1, <1>16, <1>17 DEF ProcessingInOrder
<1>21. BuffersFilled(r)
  BY <1>3, <1>7, <1>11, <1>16 DEF BuffersFilled
<1> QED
  BY <1>16, <1>18, <1>19, <1>20, <1>21 DEF CacheInv, r

-----------------------------------------------------------------------------
(* The steps of a transfer. *)

LEMMA IssueWbKeeps ==
    ASSUME NEW T, NEW q, CacheInv(T, q), NEW e \in DescEngines, q.wb.ev[e] = "delay"
    PROVE  LET r == [q EXCEPT !.wb = Issue(@, e)] IN
           /\ CacheInv(T, r) /\ r.processing = q.processing
           /\ r.nextSeqToWriteback = q.nextSeqToWriteback
<1> DEFINE w == Issue(q.wb, e)
           r == [q EXCEPT !.wb = w]
<1>1. q \in CacheType(T)
  BY DEF CacheInv
<1>2. q.head \in Slots /\ q.wb \in JobsType(T) /\ q.wb.ing <= Len(q.used)
  BY CacheFacts
<1>3. JobsContiguous(q.wb, q.head) /\ TransfersAgree(q.wb)
  BY DEF CacheInv, BanksContiguous, BuffersFilled
<1>4. w \in JobsType(T) /\ JobsContiguous(w, q.head) /\ TransfersAgree(w)
  BY <1>2, <1>3, IssueKeeps
<1>5. w.working = q.wb.working /\ w.buf = q.wb.buf /\ w.num = q.wb.num /\ w.ing = q.wb.ing
  BY <1>2, Zenon DEF Issue, JobsType
<1>6. \A f \in DescEngines : q.wb.working[f] => Len(q.wb.buf[f]) = q.wb.num[f]
  BY DEF CacheInv, BuffersFilled
<1> HIDE DEF w
<1>7. /\ r \in CacheType(T) /\ r.wb = w
      /\ r.used = q.used /\ r.unused = q.unused /\ r.processing = q.processing
      /\ r.nextSeqToProcess = q.nextSeqToProcess
      /\ r.nextSeqToWriteback = q.nextSeqToWriteback
      /\ r.cachePnt = q.cachePnt /\ r.fetch = q.fetch /\ r.head = q.head
  BY <1>1, <1>4, Zenon DEF CacheType
<1> HIDE DEF r
<1>8. CacheInv(T, r)
  BY <1>2, <1>4, <1>5, <1>6, <1>7, WbBankChanged
<1> QED
  BY <1>7, <1>8 DEF r, w

LEMMA BeatWbKeeps ==
    ASSUME NEW T, NEW q, CacheInv(T, q), NEW e \in DescEngines, q.wb.ev[e] = "dma"
    PROVE  LET r == [q EXCEPT !.wb = Beat(@, e)] IN
           /\ CacheInv(T, r) /\ r.processing = q.processing
           /\ r.nextSeqToWriteback = q.nextSeqToWriteback
<1> DEFINE w == Beat(q.wb, e)
           r == [q EXCEPT !.wb = w]
<1>1. q \in CacheType(T)
  BY DEF CacheInv
<1>2. q.head \in Slots /\ q.wb \in JobsType(T) /\ q.wb.ing <= Len(q.used)
  BY CacheFacts
<1>3. JobsContiguous(q.wb, q.head) /\ TransfersAgree(q.wb)
  BY DEF CacheInv, BanksContiguous, BuffersFilled
<1>4. w \in JobsType(T) /\ JobsContiguous(w, q.head) /\ TransfersAgree(w)
  BY <1>2, <1>3, BeatKeeps
<1>5. w.working = q.wb.working /\ w.buf = q.wb.buf /\ w.num = q.wb.num /\ w.ing = q.wb.ing
  BY <1>2, Zenon DEF Beat, JobsType
<1>6. \A f \in DescEngines : q.wb.working[f] => Len(q.wb.buf[f]) = q.wb.num[f]
  BY DEF CacheInv, BuffersFilled
<1> HIDE DEF w
<1>7. /\ r \in CacheType(T) /\ r.wb = w
      /\ r.used = q.used /\ r.unused = q.unused /\ r.processing = q.processing
      /\ r.nextSeqToProcess = q.nextSeqToProcess
      /\ r.nextSeqToWriteback = q.nextSeqToWriteback
      /\ r.cachePnt = q.cachePnt /\ r.fetch = q.fetch /\ r.head = q.head
  BY <1>1, <1>4, Zenon DEF CacheType
<1> HIDE DEF r
<1>8. CacheInv(T, r)
  BY <1>2, <1>4, <1>5, <1>6, <1>7, WbBankChanged
<1> QED
  BY <1>7, <1>8 DEF r, w

LEMMA IssueFetchKeeps ==
    ASSUME NEW T, NEW q, CacheInv(T, q), NEW e \in DescEngines, q.fetch.ev[e] = "delay"
    PROVE  LET r == [q EXCEPT !.fetch = Issue(@, e)] IN
           /\ CacheInv(T, r) /\ r.processing = q.processing
           /\ r.nextSeqToWriteback = q.nextSeqToWriteback
<1> DEFINE w == Issue(q.fetch, e)
           r == [q EXCEPT !.fetch = w]
<1>1. q \in CacheType(T)
  BY DEF CacheInv
<1>2. /\ q.cachePnt \in Slots /\ q.fetch \in JobsType(T)
      /\ Len(q.used) + Len(q.unused) + descProcessing(q) + q.fetch.ing <= CacheSize
  BY CacheFacts
<1>3. JobsContiguous(q.fetch, q.cachePnt) /\ TransfersAgree(q.fetch)
  BY DEF CacheInv, BanksContiguous, BuffersFilled
<1>4. w \in JobsType(T) /\ JobsContiguous(w, q.cachePnt) /\ TransfersAgree(w)
  BY <1>2, <1>3, IssueKeeps
<1>5. /\ w.working = q.fetch.working /\ w.done = q.fetch.done /\ w.buf = q.fetch.buf
      /\ w.num = q.fetch.num /\ w.moved = q.fetch.moved /\ w.ing = q.fetch.ing
  BY <1>2, Zenon DEF Issue, JobsType
<1>6. \A f \in DescEngines : q.fetch.working[f] =>
          Len(q.fetch.buf[f]) = IF q.fetch.done[f] THEN q.fetch.num[f] ELSE q.fetch.moved[f]
  BY DEF CacheInv, BuffersFilled
<1> HIDE DEF w
<1>7. /\ r \in CacheType(T) /\ r.fetch = w
      /\ r.used = q.used /\ r.unused = q.unused /\ r.processing = q.processing
      /\ r.nextSeqToProcess = q.nextSeqToProcess
      /\ r.nextSeqToWriteback = q.nextSeqToWriteback
      /\ r.cachePnt = q.cachePnt /\ r.wb = q.wb /\ r.head = q.head
  BY <1>1, <1>4, Zenon DEF CacheType
<1> HIDE DEF r
<1>8. CacheInv(T, r)
  BY ZenonT(40), <1>2, <1>4, <1>5, <1>6, <1>7, FetchBankChanged
<1> QED
  BY <1>7, <1>8 DEF r, w

(* A descriptor d of a fetch arrives in the engine's buffer. *)
LEMMA BeatFetchKeeps ==
    ASSUME NEW T, NEW q, CacheInv(T, q), NEW e \in DescEngines, q.fetch.ev[e] = "dma",
           NEW d \in T
    PROVE  LET r == [q EXCEPT !.fetch = FetchBeat(@, e, d)] IN
           /\ CacheInv(T, r) /\ r.processing = q.processing
           /\ r.nextSeqToWriteback = q.nextSeqToWriteback
<1> DEFINE j == q.fetch
           v == Beat(q.fetch, e)
           w == FetchBeat(q.fetch, e, d)
           r == [q EXCEPT !.fetch = w]
<1>1. q \in CacheType(T)
  BY DEF CacheInv
<1>2. /\ q.cachePnt \in Slots /\ q.fetch \in JobsType(T)
      /\ Len(q.used) + Len(q.unused) + descProcessing(q) + q.fetch.ing <= CacheSize
  BY CacheFacts
<1>3. JobsContiguous(q.fetch, q.cachePnt) /\ TransfersAgree(q.fetch)
  BY DEF CacheInv, BanksContiguous, BuffersFilled
<1>4. v \in JobsType(T) /\ JobsContiguous(v, q.cachePnt) /\ TransfersAgree(v)
  BY <1>2, <1>3, BeatKeeps
<1>5. /\ v.working = j.working /\ v.done = j.done /\ v.buf = j.buf
      /\ v.num = j.num /\ v.ing = j.ing
      /\ v.moved = [j.moved EXCEPT ![e] = j.moved[e] + 1]
  BY <1>2, Zenon DEF Beat, JobsType
<1>6. \A f \in DescEngines : q.fetch.working[f] =>
          Len(q.fetch.buf[f]) = IF q.fetch.done[f] THEN q.fetch.num[f] ELSE q.fetch.moved[f]
  BY DEF CacheInv, BuffersFilled
<1>7. ~ j.done[e]
  BY <1>3 DEF JobsContiguous
<1>8. /\ j.buf \in [DescEngines -> Seq(T)] /\ j.moved \in [DescEngines -> Nat]
      /\ j.done \in [DescEngines -> BOOLEAN] /\ j.working \in [DescEngines -> BOOLEAN]
      /\ j.num \in [DescEngines -> 0 .. DescLen]
  BY <1>2 DEF JobsType
<1> HIDE DEF v
<1>9. /\ w.queue = v.queue /\ w.working = v.working /\ w.done = v.done /\ w.base = v.base
      /\ w.num = v.num /\ w.ev = v.ev /\ w.moved = v.moved /\ w.pnt = v.pnt /\ w.ing = v.ing
      /\ w.buf = [v.buf EXCEPT ![e] = Append(j.buf[e], d)]
  BY <1>4, Zenon DEF JobsType, FetchBeat, v
<1>10. w \in JobsType(T)
  <2> DEFINE b == [v.buf EXCEPT ![e] = Append(j.buf[e], d)]
  <2>1. b \in [DescEngines -> Seq(T)]
    <3>1. Append(j.buf[e], d) \in Seq(T)
      BY <1>8
    <3> HIDE DEF j
    <3> QED
      BY <1>5, <1>8, <3>1
  <2>2. w = [v EXCEPT !.buf = b]
    BY Zenon DEF FetchBeat, v
  <2> HIDE DEF b, w
  <2> QED
    BY <1>4, <2>1, <2>2, Zenon DEF JobsType
<1> HIDE DEF w, j
<1>11. JobsContiguous(w, q.cachePnt)
  <2>1. \A k : Ahead(w, k) = Ahead(v, k)
    BY <1>9 DEF Ahead
  <2> QED
    BY <1>4, <1>9, <2>1 DEF JobsContiguous
<1>12. TransfersAgree(w)
  BY <1>4, <1>9 DEF TransfersAgree
<1>13. \A f \in DescEngines : w.working[f] =>
           Len(w.buf[f]) = IF w.done[f] THEN w.num[f] ELSE w.moved[f]
  <2> SUFFICES ASSUME NEW f \in DescEngines, w.working[f]
               PROVE  Len(w.buf[f]) = IF w.done[f] THEN w.num[f] ELSE w.moved[f]
    OBVIOUS
  <2>1. Len(j.buf[f]) = IF j.done[f] THEN j.num[f] ELSE j.moved[f]
    BY <1>5, <1>6, <1>9 DEF j
  <2>2. CASE f = e
    <3>1. w.buf[e] = Append(j.buf[e], d) /\ w.moved[e] = j.moved[e] + 1
      BY <1>5, <1>8, <1>9
    <3>2. Len(Append(j.buf[e], d)) = Len(j.buf[e]) + 1
      BY <1>8
    <3>3. ~ w.done[e]
      BY <1>5, <1>7, <1>9
    <3> QED
      BY <1>7, <2>1, <2>2, <3>1, <3>2, <3>3
  <2>3. CASE f # e
    <3>1. w.buf[f] = j.buf[f] /\ w.moved[f] = j.moved[f] /\ w.done[f] = j.done[f]
          /\ w.num[f] = j.num[f]
      BY <1>5, <1>8, <1>9, <2>3
    <3> QED
      BY <2>1, <3>1
  <2> QED
    BY <2>2, <2>3
<1>14. /\ r \in CacheType(T) /\ r.fetch = w
       /\ r.used = q.used /\ r.unused = q.unused /\ r.processing = q.processing
       /\ r.nextSeqToProcess = q.nextSeqToProcess
       /\ r.nextSeqToWriteback = q.nextSeqToWriteback
       /\ r.cachePnt = q.cachePnt /\ r.wb = q.wb /\ r.head = q.head
  BY <1>1, <1>10, Zenon DEF CacheType
<1> HIDE DEF r
<1>15. w.ing = q.fetch.ing
  BY <1>5, <1>9 DEF j
<1>16. CacheInv(T, r)
  BY <1>2, <1>11, <1>12, <1>13, <1>14, <1>15, FetchBankChanged
<1> QED
  BY <1>14, <1>16 DEF r, w, v

-----------------------------------------------------------------------------
(* The packet DMA engines. *)

(* A cache in which descriptors only moved from unused to processing or    *)
(* from processing to used.                                                *)
LEMMA DescsMoved ==
    ASSUME NEW T, NEW q, NEW r, CacheInv(T, q), r \in CacheType(T),
           r.fetch = q.fetch, r.wb = q.wb, r.head = q.head, r.cachePnt = q.cachePnt,
           Len(q.used) <= Len(r.used),
           Len(r.used) + (Len(r.unused) + descProcessing(r))
              = Len(q.used) + (Len(q.unused) + descProcessing(q)),
           ProcessingInOrder(r)
    PROVE  CacheInv(T, r)
<1> DEFINE a == Len(q.used)
           b == Len(q.unused)
           c == descProcessing(q)
           a2 == Len(r.used)
           b2 == Len(r.unused)
           c2 == descProcessing(r)
           d == q.fetch.ing
           p == q.head
<1>1. r.used \in Seq(T) /\ r.unused \in Seq(T)
  BY DEF CacheType
<1>2. a2 \in Nat /\ b2 \in Nat /\ c2 \in Nat
  <2>1. a2 \in Nat /\ b2 \in Nat
    BY <1>1
  <2>2. c2 \in Nat
    BY ProcessingFinite, Zenon
  <2> QED
    BY <2>1, <2>2
<1>3. /\ a \in Nat /\ b \in Nat /\ c \in Nat /\ d \in Nat /\ q.wb.ing \in Nat
      /\ q.wb.ing <= a /\ a + b + c + d <= CacheSize
  BY CacheFacts
<1>4. q.cachePnt = (p + (a + (b + c))) % DescLen
  BY CacheFacts
<1>5. a2 + (b2 + c2) = a + (b + c) /\ a <= a2
  OBVIOUS
<1> HIDE DEF a, b, c, a2, b2, c2, d, p
<1>6. a2 + b2 + c2 + d <= CacheSize /\ q.wb.ing <= a2
  BY <1>2, <1>3, <1>5
<1>7. q.cachePnt = (p + (a2 + (b2 + c2))) % DescLen
  BY <1>4, <1>5
<1>8. PointersAgree(r)
  BY <1>6, <1>7 DEF PointersAgree, descUsed, descUnused, totalUsed, a2, b2, c2, d, p
<1>9. BanksContiguous(r) /\ BuffersFilled(r)
  BY DEF CacheInv, BanksContiguous, BuffersFilled
<1> QED
  BY <1>8, <1>9 DEF CacheInv

(* The entries of the packet engines, with their types. *)
LEMMA ProcessingFacts ==
    ASSUME NEW T, NEW q, CacheInv(T, q)
    PROVE  /\ q.processing \in [PktEngines ->
                                  [desc : T \cup {NULL}, seqIdx : Nat, done : BOOLEAN]]
           /\ q.nextSeqToProcess \in Nat /\ q.nextSeqToWriteback \in Nat
           /\ descProcessing(q) \in Nat
           /\ q.nextSeqToProcess = q.nextSeqToWriteback + descProcessing(q)
           /\ \A e \in PktEngines :
                 /\ q.processing[e].desc \in T \cup {NULL}
                 /\ q.processing[e].seqIdx \in Nat
                 /\ q.processing[e].done \in BOOLEAN
<1>1. q \in CacheType(T) /\ ProcessingInOrder(q)
  BY DEF CacheInv
<1>2. /\ q.processing \in [PktEngines -> [desc : T \cup {NULL}, seqIdx : Nat, done : BOOLEAN]]
      /\ q.nextSeqToProcess \in Nat /\ q.nextSeqToWriteback \in Nat
  BY <1>1, Zenon DEF CacheType
<1>3. \A e \in PktEngines : q.processing[e] \in [desc : T \cup {NULL}, seqIdx : Nat, done : BOOLEAN]
  BY <1>2, Zenon
<1>4. \A e \in PktEngines : /\ q.processing[e].desc \in T \cup {NULL}
                           /\ q.processing[e].seqIdx \in Nat
                           /\ q.processing[e].done \in BOOLEAN
  BY <1>3, Zenon
<1>5. q.nextSeqToProcess = q.nextSeqToWriteback + descProcessing(q)
  BY <1>1 DEF ProcessingInOrder
<1>6. descProcessing(q) \in Nat
  BY ProcessingFinite
<1> QED
  BY <1>2, <1>4, <1>5, <1>6, Zenon

(* An idle packet engine takes the oldest unused descriptor. *)
LEMMA TakeDescKeeps ==
    ASSUME NEW T, NEW q, CacheInv(T, q), NULL \notin T, NEW e \in PktEngines,
           q.processing[e].desc = NULL, q.unused # <<>>
    PROVE  /\ CacheInv(T, TakeDesc(q, e))
           /\ TakeDesc(q, e).processing =
                 [q.processing EXCEPT ![e] = [desc   |-> Head(q.unused),
                                              seqIdx |-> q.nextSeqToProcess,
                                              done   |-> FALSE]]
           /\ Head(q.unused) \in T
           /\ TakeDesc(q, e).nextSeqToWriteback = q.nextSeqToWriteback
<1> DEFINE h == Head(q.unused)
           n == q.nextSeqToProcess
           p == [q.processing EXCEPT ![e] = [desc |-> h, seqIdx |-> n, done |-> FALSE]]
           r == TakeDesc(q, e)
           S == {f \in PktEngines : q.processing[f].desc # NULL}
<1>1. q \in CacheType(T) /\ ProcessingInOrder(q)
  BY DEF CacheInv
<1>2. /\ q.processing \in [PktEngines -> [desc : T \cup {NULL}, seqIdx : Nat, done : BOOLEAN]]
      /\ n \in Nat /\ q.nextSeqToWriteback \in Nat
      /\ descProcessing(q) \in Nat
      /\ n = q.nextSeqToWriteback + descProcessing(q)
  BY ProcessingFacts
<1>3. q.unused \in Seq(T) /\ Len(q.used) \in Nat
  BY CacheFacts
<1>4. h \in T /\ Tail(q.unused) \in Seq(T) /\ Len(Tail(q.unused)) = Len(q.unused) - 1
      /\ Len(q.unused) \in Nat
  BY <1>3
<1>5. r = [q EXCEPT !.processing = p, !.nextSeqToProcess = n + 1, !.unused = Tail(q.unused)]
  BY Zenon DEF TakeDesc
<1> HIDE DEF h, n, r
<1>6. p \in [PktEngines -> [desc : T \cup {NULL}, seqIdx : Nat, done : BOOLEAN]]
  BY <1>2, <1>4
<1>7. /\ p[e].desc = h /\ p[e].seqIdx = n /\ ~ p[e].done
      /\ \A f \in PktEngines : f # e => p[f] = q.processing[f]
  BY <1>2
<1> HIDE DEF p
<1>8. n + 1 \in Nat
  BY <1>2
<1>9. /\ r \in CacheType(T)
      /\ r.processing = p /\ r.nextSeqToProcess = n + 1 /\ r.unused = Tail(q.unused)
      /\ r.used = q.used /\ r.nextSeqToWriteback = q.nextSeqToWriteback
      /\ r.fetch = q.fetch /\ r.wb = q.wb /\ r.head = q.head /\ r.cachePnt = q.cachePnt
  BY <1>1, <1>4, <1>5, <1>6, <1>8, Zenon DEF CacheType
<1>10. descProcessing(r) = descProcessing(q) + 1
  <2>1. {f \in PktEngines : r.processing[f].desc # NULL} = S \cup {e}
    BY <1>4, <1>7, <1>9, Zenon
  <2>2. e \notin S /\ IsFiniteSet(S)
    BY ProcessingFinite
  <2> HIDE DEF S
  <2>3. Cardinality(S \cup {e}) = Cardinality(S) + 1
    BY <2>2, FS_AddElement
  <2>4. descProcessing(q) = Cardinality(S)
    BY DEF descProcessing, S
  <2> QED
    BY <2>1, <2>3, <2>4 DEF descProcessing
<1>11. Len(r.used) + (Len(r.unused) + descProcessing(r))
          = Len(q.used) + (Len(q.unused) + descProcessing(q))
  BY <1>2, <1>3, <1>4, <1>9, <1>10
<1>12. ProcessingInOrder(r)
  <2>1. \A f \in PktEngines :
            /\ q.processing[f].done => q.processing[f].desc # NULL
            /\ q.processing[f].desc # NULL =>
                  /\ q.nextSeqToWriteback <= q.processing[f].seqIdx
                  /\ q.processing[f].seqIdx < n
    BY <1>1 DEF ProcessingInOrder, n
  <2>2. \A f, g \in PktEngines :
            /\ q.processing[f].desc # NULL /\ q.processing[g].desc # NULL
            /\ q.processing[f].seqIdx = q.processing[g].seqIdx
            => f = g
    BY <1>1 DEF ProcessingInOrder
  <2>3. \A f \in PktEngines : q.processing[f].seqIdx \in Nat
    BY ProcessingFacts
  <2>4. ASSUME NEW f \in PktEngines
        PROVE  /\ p[f].done => p[f].desc # NULL
               /\ p[f].desc # NULL =>
                     q.nextSeqToWriteback <= p[f].seqIdx /\ p[f].seqIdx < n + 1
    <3>1. CASE f = e
      BY <1>2, <1>4, <1>7, <3>1
    <3>2. CASE f # e
      BY <1>2, <1>7, <2>1, <2>3, <3>2
    <3> QED
      BY <3>1, <3>2
  <2>5. ASSUME NEW f \in PktEngines, NEW g \in PktEngines,
               p[f].desc # NULL, p[g].desc # NULL, p[f].seqIdx = p[g].seqIdx
        PROVE  f = g
    <3>1. CASE f = e /\ g # e
      BY <1>2, <1>7, <2>1, <2>3, <2>5, <3>1
    <3>2. CASE f # e /\ g = e
      BY <1>2, <1>7, <2>1, <2>3, <2>5, <3>2
    <3>3. CASE f # e /\ g # e
      BY <1>7, <2>2, <2>5, <3>3
    <3> QED
      BY <3>1, <3>2, <3>3
  <2>6. r.nextSeqToProcess = r.nextSeqToWriteback + descProcessing(r)
    <3> DEFINE c == descProcessing(q)
               m == q.nextSeqToWriteback
    <3>1. n = m + c /\ m \in Nat /\ c \in Nat
      BY <1>2
    <3>2. r.nextSeqToProcess = n + 1 /\ r.nextSeqToWriteback = m /\ descProcessing(r) = c + 1
      BY <1>9, <1>10
    <3> HIDE DEF c, m
    <3>3. n + 1 = m + (c + 1)
      BY <3>1
    <3> QED
      BY <3>2, <3>3
  <2> QED
    BY <1>9, <2>4, <2>5, <2>6 DEF ProcessingInOrder
<1>13. CacheInv(T, r)
  <2>1. Len(q.used) <= Len(r.used)
    BY <1>3, <1>9
  <2> QED
    BY <1>9, <1>11, <1>12, <2>1, DescsMoved
<1> QED
  BY <1>4, <1>9, <1>13, Zenon DEF r, p, h, n

LEMMA FinishDescKeeps ==
    ASSUME NEW T, NEW q, CacheInv(T, q), NULL \notin T, NEW e \in PktEngines,
           q.processing[e].desc # NULL, NEW d \in T
    PROVE  /\ CacheInv(T, FinishDesc(q, e, d))
           /\ FinishDesc(q, e, d).processing =
                 [q.processing EXCEPT ![e] = [desc   |-> d,
                                              seqIdx |-> q.processing[e].seqIdx,
                                              done   |-> TRUE]]
           /\ FinishDesc(q, e, d).nextSeqToWriteback = q.nextSeqToWriteback
<1> DEFINE n == q.processing[e].seqIdx
           p == [q.processing EXCEPT ![e] = [desc |-> d, seqIdx |-> n, done |-> TRUE]]
           r == FinishDesc(q, e, d)
<1>1. q \in CacheType(T) /\ ProcessingInOrder(q)
  BY DEF CacheInv
<1>2. /\ q.processing \in [PktEngines -> [desc : T \cup {NULL}, seqIdx : Nat, done : BOOLEAN]]
      /\ n \in Nat
  BY ProcessingFacts
<1>3. r = [q EXCEPT !.processing = p]
  BY Zenon DEF FinishDesc
<1> HIDE DEF n, r
<1>4. p \in [PktEngines -> [desc : T \cup {NULL}, seqIdx : Nat, done : BOOLEAN]]
  BY <1>2
<1>5. /\ p[e].desc = d /\ p[e].seqIdx = n /\ p[e].done
      /\ \A f \in PktEngines : f # e => p[f] = q.processing[f]
  BY <1>2
<1> HIDE DEF p
<1>6. /\ r \in CacheType(T)
      /\ r.processing = p /\ r.nextSeqToProcess = q.nextSeqToProcess /\ r.unused = q.unused
      /\ r.used = q.used /\ r.nextSeqToWriteback = q.nextSeqToWriteback
      /\ r.fetch = q.fetch /\ r.wb = q.wb /\ r.head = q.head /\ r.cachePnt = q.cachePnt
  BY <1>1, <1>3, <1>4, Zenon DEF CacheType
<1>7. p[e].desc # NULL /\ q.processing[e].seqIdx = p[e].seqIdx
  BY <1>5, Zenon DEF n
<1>8. \A f \in PktEngines : /\ p[f].desc # NULL <=> q.processing[f].desc # NULL
                           /\ p[f].seqIdx = q.processing[f].seqIdx
  BY <1>5, <1>7, Zenon
<1>9. descProcessing(r) = descProcessing(q)
  <2>1. {f \in PktEngines : r.processing[f].desc # NULL}
           = {f \in PktEngines : q.processing[f].desc # NULL}
    BY <1>6, <1>8, Zenon
  <2> QED
    BY <2>1 DEF descProcessing
<1>10. ProcessingInOrder(r)
  <2>1. \A f \in PktEngines :
            /\ q.processing[f].done => q.processing[f].desc # NULL
            /\ q.processing[f].desc # NULL =>
                  /\ q.nextSeqToWriteback <= q.processing[f].seqIdx
                  /\ q.processing[f].seqIdx < q.nextSeqToProcess
    BY <1>1 DEF ProcessingInOrder
  <2>2. \A f, g \in PktEngines :
            /\ q.processing[f].desc # NULL /\ q.processing[g].desc # NULL
            /\ q.processing[f].seqIdx = q.processing[g].seqIdx
            => f = g
    BY <1>1 DEF ProcessingInOrder
  <2>3. q.nextSeqToProcess = q.nextSeqToWriteback + descProcessing(q)
    BY <1>1 DEF ProcessingInOrder
  <2>4. \A f \in PktEngines : p[f].done => p[f].desc # NULL
    BY <1>5, <1>7, <2>1, Zenon
  <2>5. \A f \in PktEngines : p[f].desc # NULL =>
            q.nextSeqToWriteback <= p[f].seqIdx /\ p[f].seqIdx < q.nextSeqToProcess
    BY <1>8, <2>1
  <2>6. \A f, g \in PktEngines :
            /\ p[f].desc # NULL /\ p[g].desc # NULL /\ p[f].seqIdx = p[g].seqIdx
            => f = g
    BY <1>8, <2>2, Zenon
  <2>7. r.nextSeqToProcess = r.nextSeqToWriteback + descProcessing(r)
    BY <1>6, <1>9, <2>3
  <2> QED
    BY <1>6, <2>4, <2>5, <2>6, <2>7, Zenon DEF ProcessingInOrder
<1>11. CacheInv(T, r)
  <2>1. Len(q.used) \in Nat
    BY CacheFacts
  <2>2. Len(q.used) <= Len(r.used)
    BY <1>6, <2>1
  <2>3. Len(r.used) + (Len(r.unused) + descProcessing(r))
          = Len(q.used) + (Len(q.unused) + descProcessing(q))
    BY <1>6, <1>9
  <2> QED
    BY <1>6, <1>10, <2>2, <2>3, DescsMoved
<1> QED
  BY <1>6, <1>11, Zenon DEF r, p, n

(* There is a first sequence number that is not finished. *)
LEMMA FirstNotDoneFound ==
    ASSUME NEW T, NEW q, CacheInv(T, q)
    PROVE  /\ FirstNotDone(q) \in q.nextSeqToWriteback .. q.nextSeqToProcess
           /\ \A t \in q.nextSeqToWriteback .. (FirstNotDone(q) - 1) : DoneEngine(q, t) # {}
           /\ DoneEngine(q, FirstNotDone(q)) = {}
<1> DEFINE a == q.nextSeqToWriteback
           b == q.nextSeqToProcess
           S == {s \in a .. b : DoneEngine(q, s) = {}}
<1>1. a \in Nat /\ b \in Nat /\ a <= b
  <2>1. a \in Nat /\ descProcessing(q) \in Nat /\ b = a + descProcessing(q)
    BY ProcessingFacts
  <2> QED
    BY <2>1
<1>2. DoneEngine(q, b) = {}
  <2>1. ProcessingInOrder(q)
    BY DEF CacheInv
  <2>2. \A e \in PktEngines : q.processing[e].done => q.processing[e].seqIdx < b
    BY <2>1 DEF ProcessingInOrder
  <2>3. \A e \in PktEngines : q.processing[e].done => q.processing[e].seqIdx # b
    BY <1>1, <2>2
  <2> QED
    BY <2>3, Zenon DEF DoneEngine
<1> HIDE DEF a, b
<1>3. S \in SUBSET Nat /\ S # {}
  BY <1>1, <1>2
<1>4. PICK m \in S : \A x \in S : m <= x
  BY <1>3, LeastNat
<1>5. \A t \in a .. (m - 1) : DoneEngine(q, t) # {}
  BY <1>1, <1>4
<1>6. m \in a .. b /\ DoneEngine(q, m) = {}
  BY <1>4
<1>7. FirstNotDone(q) = CHOOSE s \in a .. b : /\ \A t \in a .. (s - 1) : DoneEngine(q, t) # {}
                                              /\ DoneEngine(q, s) = {}
  BY DEF FirstNotDone, a, b
<1>8. /\ FirstNotDone(q) \in a .. b
      /\ \A t \in a .. (FirstNotDone(q) - 1) : DoneEngine(q, t) # {}
      /\ DoneEngine(q, FirstNotDone(q)) = {}
  BY <1>5, <1>6, <1>7, Zenon
<1> QED
  BY <1>8 DEF a, b

(* The finished sequence numbers and the engines that hold them correspond *)
(* one to one.                                                             *)
LEMMA MovedEngines ==
    ASSUME NEW T, NEW q, CacheInv(T, q)
    PROVE  LET s     == q.nextSeqToWriteback
               stop  == FirstNotDone(q)
               moved == UNION {DoneEngine(q, t) : t \in s .. (stop - 1)}
           IN  /\ moved \in SUBSET {e \in PktEngines : q.processing[e].desc # NULL}
               /\ Cardinality(moved) = stop - s
               /\ \A e \in PktEngines : /\ e \in moved => q.processing[e].done
                                        /\ e \notin moved /\ q.processing[e].desc # NULL =>
                                              ~ (q.processing[e].seqIdx \in s .. (stop - 1))
<1> DEFINE s     == q.nextSeqToWriteback
           stop  == FirstNotDone(q)
           D(t)  == DoneEngine(q, t)
           I     == s .. (stop - 1)
           moved == UNION {DoneEngine(q, t) : t \in I}
           F     == [t \in I |-> CHOOSE e \in D(t) : TRUE]
<1>1. /\ stop \in s .. q.nextSeqToProcess
      /\ \A t \in I : D(t) # {}
  BY FirstNotDoneFound
<1>2. s \in Nat /\ stop \in Nat /\ s <= stop
  <2>1. s \in Nat /\ q.nextSeqToProcess \in Nat
    BY ProcessingFacts
  <2> HIDE DEF s, stop
  <2> QED
    BY <1>1, <2>1
<1>3. ProcessingInOrder(q)
  BY DEF CacheInv
<1>4. /\ \A e \in PktEngines : q.processing[e].done => q.processing[e].desc # NULL
      /\ \A e, f \in PktEngines :
            /\ q.processing[e].desc # NULL /\ q.processing[f].desc # NULL
            /\ q.processing[e].seqIdx = q.processing[f].seqIdx
            => e = f
  BY <1>3 DEF ProcessingInOrder
<1>5. \A t : \A e : e \in D(t) <=> /\ e \in PktEngines
                                   /\ q.processing[e].done /\ q.processing[e].seqIdx = t
  BY Zenon DEF DoneEngine
<1>6. \A e : e \in moved <=> \E t \in I : e \in D(t)
  BY Zenon
<1> HIDE DEF s, stop, D, I, moved
<1>7. \A t \in I : F[t] \in D(t)
  <2> SUFFICES ASSUME NEW t \in I PROVE F[t] \in D(t)
    OBVIOUS
  <2>1. F[t] = CHOOSE e \in D(t) : TRUE
    OBVIOUS
  <2>2. \E e \in D(t) : TRUE
    BY <1>1
  <2> QED
    BY <2>1, <2>2, Zenon
<1>8. \A t \in I : F[t] \in moved /\ q.processing[F[t]].seqIdx = t
  BY <1>5, <1>6, <1>7, Zenon
<1>9. \A e \in moved : \E t \in I : F[t] = e
  <2> SUFFICES ASSUME NEW e \in moved PROVE \E t \in I : F[t] = e
    OBVIOUS
  <2>1. PICK t \in I : e \in D(t)
    BY <1>6
  <2>2. F[t] \in D(t)
    BY <1>7, <2>1
  <2> HIDE DEF F
  <2>3. F[t] = e
    <3> DEFINE f == F[t]
    <3>1. /\ f \in PktEngines /\ q.processing[f].desc # NULL /\ q.processing[f].seqIdx = t
          /\ e \in PktEngines /\ q.processing[e].desc # NULL /\ q.processing[e].seqIdx = t
      BY <1>4, <1>5, <2>1, <2>2, Zenon
    <3> HIDE DEF f
    <3>2. f = e
      BY <1>4, <3>1, Zenon
    <3> QED
      BY <3>2 DEF f
  <2> QED
    BY <2>1, <2>3
<1>10. F \in [I -> moved]
  BY <1>8
<1> HIDE DEF F
<1>11. \A t, u \in I : F[t] = F[u] => t = u
  BY <1>8, Zenon
<1>12. F \in Bijection(I, moved)
  BY <1>9, <1>10, <1>11, Zenon DEF Bijection, Injection, Surjection, IsInjective
<1>13. Cardinality(moved) = stop - s
  <2>1. IsFiniteSet(I) /\ Cardinality(I) = IF s > stop - 1 THEN 0 ELSE (stop - 1) - s + 1
    <3>1. s \in Int /\ stop - 1 \in Int
      BY <1>2
    <3> QED
      BY <3>1, FS_Interval DEF I
  <2>2. ExistsBijection(I, moved)
    BY <1>12, Zenon DEF ExistsBijection
  <2>3. Cardinality(moved) = Cardinality(I)
    BY <2>1, <2>2, FS_Bijection
  <2> QED
    BY <1>2, <2>1, <2>3
<1>14. moved \in SUBSET {e \in PktEngines : q.processing[e].desc # NULL}
  BY <1>4, <1>5, <1>6, Zenon
<1>15. \A e \in PktEngines : e \in moved => q.processing[e].done
  BY <1>5, <1>6, Zenon
<1>16. ASSUME NEW e \in PktEngines, e \notin moved, q.processing[e].desc # NULL,
              q.processing[e].seqIdx \in I
       PROVE  FALSE
  <2>1. PICK t \in I : t = q.processing[e].seqIdx
    BY <1>16
  <2>2. PICK f \in D(t) : TRUE
    BY <1>1, <2>1
  <2>3. f \in PktEngines /\ q.processing[f].done /\ q.processing[f].seqIdx = t
    BY <1>5, <2>2, Zenon
  <2>4. f = e
    BY <1>4, <1>16, <2>1, <2>3, Zenon
  <2>5. e \in moved
    BY <1>6, <2>1, <2>2, <2>4, Zenon
  <2> QED
    BY <1>16, <2>5
<1> QED
  BY <1>13, <1>14, <1>15, <1>16 DEF s, stop, I, moved

(* manageUsedCache preserves the invariant.  Each engine keeps its entry or*)
(* had a finished one, and the next sequence number to retire is not       *)
(* finished.                                                               *)
LEMMA ManageKeeps ==
    ASSUME NEW T, NEW q, CacheInv(T, q), NULL \notin T
    PROVE  /\ CacheInv(T, manageUsedCache(q))
           /\ \A e \in PktEngines :
                 \/ manageUsedCache(q).processing[e] = q.processing[e]
                 \/ q.processing[e].done /\ manageUsedCache(q).processing[e] = NoEntry
           /\ \A e \in PktEngines :
                 manageUsedCache(q).processing[e].done =>
                    manageUsedCache(q).processing[e].seqIdx
                       # manageUsedCache(q).nextSeqToWriteback
<1> DEFINE s     == q.nextSeqToWriteback
           stop  == FirstNotDone(q)
           moved == UNION {DoneEngine(q, t) : t \in s .. (stop - 1)}
           engine(t) == CHOOSE e \in DoneEngine(q, t) : TRUE
           new   == [i \in 1 .. (stop - s) |-> q.processing[engine(s + i - 1)].desc]
           u     == q.used \o new
           p     == [e \in PktEngines |-> IF e \in moved THEN NoEntry ELSE q.processing[e]]
           r     == manageUsedCache(q)
           S     == {e \in PktEngines : q.processing[e].desc # NULL}
<1>1. q \in CacheType(T) /\ ProcessingInOrder(q)
  BY DEF CacheInv
<1>2. /\ q.processing \in [PktEngines -> [desc : T \cup {NULL}, seqIdx : Nat, done : BOOLEAN]]
      /\ \A e \in PktEngines : q.processing[e].desc \in T \cup {NULL}
      /\ \A e \in PktEngines : q.processing[e].seqIdx \in Nat
  BY ProcessingFacts
<1>3. /\ s \in Nat /\ q.nextSeqToProcess \in Nat /\ descProcessing(q) \in Nat
      /\ q.nextSeqToProcess = s + descProcessing(q)
  BY ProcessingFacts
<1>4. /\ stop \in s .. q.nextSeqToProcess
      /\ \A t \in s .. (stop - 1) : DoneEngine(q, t) # {}
      /\ DoneEngine(q, stop) = {}
  BY FirstNotDoneFound
<1>5. /\ moved \in SUBSET S
      /\ Cardinality(moved) = stop - s
      /\ \A e \in PktEngines : /\ e \in moved => q.processing[e].done
                               /\ e \notin moved /\ q.processing[e].desc # NULL =>
                                     ~ (q.processing[e].seqIdx \in s .. (stop - 1))
  BY MovedEngines
<1>6. q.used \in Seq(T) /\ Len(q.used) \in Nat /\ Len(q.unused) \in Nat
  BY CacheFacts
<1>7. r = [q EXCEPT !.used = u, !.processing = p, !.nextSeqToWriteback = stop]
  BY Zenon DEF manageUsedCache
<1>8. \A e \in PktEngines : q.processing[e].done => q.processing[e].desc # NULL
  BY <1>1 DEF ProcessingInOrder
<1>9. \A t \in s .. (stop - 1) : q.processing[engine(t)].desc \in T
  <2> SUFFICES ASSUME NEW t \in s .. (stop - 1) PROVE q.processing[engine(t)].desc \in T
    OBVIOUS
  <2>1. \E e \in DoneEngine(q, t) : TRUE
    BY <1>4
  <2>2. engine(t) \in DoneEngine(q, t)
    BY <2>1, Zenon
  <2>3. engine(t) \in PktEngines /\ q.processing[engine(t)].done
    BY <2>2, Zenon DEF DoneEngine
  <2> HIDE DEF engine
  <2> QED
    BY <1>2, <1>8, <2>3, Zenon
<1> HIDE DEF s, stop, engine, moved, r
<1>10. stop \in Nat /\ s <= stop /\ stop - s \in Nat
  BY <1>3, <1>4
<1>11. new \in Seq(T) /\ Len(new) = stop - s
  <2>1. \A i \in 1 .. (stop - s) : s + i - 1 \in s .. (stop - 1)
    BY <1>3, <1>10
  <2>2. \A i \in 1 .. (stop - s) : q.processing[engine(s + i - 1)].desc \in T
    BY <1>9, <2>1
  <2>3. new \in [1 .. (stop - s) -> T]
    BY <2>2
  <2> HIDE DEF new
  <2> QED
    BY <1>10, <2>3, FcnIsSeq
<1> HIDE DEF new
<1>12. u \in Seq(T) /\ Len(u) = Len(q.used) + (stop - s)
  BY <1>6, <1>11, ConcatProperties
<1> HIDE DEF u
<1>13. \A e \in PktEngines : p[e] = IF e \in moved THEN NoEntry ELSE q.processing[e]
  OBVIOUS
<1>14. p \in [PktEngines -> [desc : T \cup {NULL}, seqIdx : Nat, done : BOOLEAN]]
  <2>1. NoEntry \in [desc : T \cup {NULL}, seqIdx : Nat, done : BOOLEAN]
    BY DEF NoEntry
  <2> QED
    BY <1>2, <2>1, Zenon
<1> HIDE DEF p
<1>15. /\ r \in CacheType(T)
       /\ r.used = u /\ r.processing = p /\ r.nextSeqToWriteback = stop
       /\ r.nextSeqToProcess = q.nextSeqToProcess /\ r.unused = q.unused
       /\ r.fetch = q.fetch /\ r.wb = q.wb /\ r.head = q.head /\ r.cachePnt = q.cachePnt
  BY <1>1, <1>7, <1>10, <1>12, <1>14, Zenon DEF CacheType
<1>16. NoEntry.desc = NULL /\ ~ NoEntry.done
  BY DEF NoEntry
<1>17. descProcessing(r) = descProcessing(q) - (stop - s)
  <2>1. {e \in PktEngines : r.processing[e].desc # NULL} = S \ moved
    BY <1>13, <1>15, <1>16, Zenon
  <2>2. IsFiniteSet(S)
    BY ProcessingFinite
  <2>3. descProcessing(q) = Cardinality(S)
    BY DEF descProcessing
  <2> HIDE DEF S
  <2>4. IsFiniteSet(moved) /\ S \cap moved = moved
    BY <1>5, <2>2, FS_Subset
  <2>5. Cardinality(S \ moved) = Cardinality(S) - Cardinality(S \cap moved)
    BY <2>2, FS_Difference
  <2> QED
    BY <1>5, <2>1, <2>3, <2>4, <2>5 DEF descProcessing
<1>18. Len(q.used) <= Len(r.used)
  BY <1>6, <1>10, <1>12, <1>15
<1>19. Len(r.used) + (Len(r.unused) + descProcessing(r))
          = Len(q.used) + (Len(q.unused) + descProcessing(q))
  <2> DEFINE a == Len(q.used)
             b == Len(q.unused)
             c == descProcessing(q)
             m == stop - s
  <2>1. a \in Nat /\ b \in Nat /\ c \in Nat /\ m \in Nat
    BY <1>3, <1>6, <1>10
  <2>2. Len(r.used) = a + m /\ Len(r.unused) = b /\ descProcessing(r) = c - m
    BY <1>12, <1>15, <1>17
  <2> HIDE DEF a, b, c, m
  <2>3. (a + m) + (b + (c - m)) = a + (b + c)
    BY <2>1
  <2> QED
    BY <2>2, <2>3 DEF a, b, c
<1>20. ProcessingInOrder(r)
  <2>1. \A e \in PktEngines :
            q.processing[e].desc # NULL => /\ s <= q.processing[e].seqIdx
                                           /\ q.processing[e].seqIdx < q.nextSeqToProcess
    BY <1>1 DEF ProcessingInOrder, s
  <2>2. \A e, f \in PktEngines :
            /\ q.processing[e].desc # NULL /\ q.processing[f].desc # NULL
            /\ q.processing[e].seqIdx = q.processing[f].seqIdx
            => e = f
    BY <1>1 DEF ProcessingInOrder
  <2>3. \A e \in PktEngines : p[e].desc # NULL => e \notin moved /\ p[e] = q.processing[e]
    BY <1>13, <1>16, Zenon
  <2>4. \A e \in PktEngines : p[e].done => p[e].desc # NULL
    BY <1>8, <1>13, <1>16, Zenon
  <2>5. ASSUME NEW e \in PktEngines, p[e].desc # NULL
        PROVE  stop <= p[e].seqIdx /\ p[e].seqIdx < q.nextSeqToProcess
    <3> DEFINE x == q.processing[e].seqIdx
    <3>1. e \notin moved /\ p[e] = q.processing[e] /\ q.processing[e].desc # NULL
      BY <2>3, <2>5, Zenon
    <3>2. x \in Nat /\ s <= x /\ x < q.nextSeqToProcess /\ ~ (x \in s .. (stop - 1))
      BY <1>2, <1>5, <2>1, <3>1
    <3>3. p[e].seqIdx = x
      BY <3>1
    <3> HIDE DEF x
    <3>4. stop <= x
      BY <1>3, <1>10, <3>2
    <3> QED
      BY <3>2, <3>3, <3>4
  <2>6. \A e, f \in PktEngines :
            /\ p[e].desc # NULL /\ p[f].desc # NULL /\ p[e].seqIdx = p[f].seqIdx
            => e = f
    BY <2>2, <2>3, Zenon
  <2>7. r.nextSeqToProcess = r.nextSeqToWriteback + descProcessing(r)
    <3> DEFINE c == descProcessing(q)
    <3>1. q.nextSeqToProcess = s + c /\ c \in Nat
      BY <1>3
    <3>2. r.nextSeqToProcess = s + c /\ r.nextSeqToWriteback = stop
          /\ descProcessing(r) = c - (stop - s)
      BY <1>15, <1>17, <3>1
    <3> HIDE DEF c
    <3>3. s + c = stop + (c - (stop - s))
      BY <1>3, <1>10, <3>1
    <3> QED
      BY <3>2, <3>3
  <2> QED
    BY <1>15, <2>4, <2>5, <2>6, <2>7, Zenon DEF ProcessingInOrder
<1>21. CacheInv(T, r)
  BY <1>15, <1>18, <1>19, <1>20, DescsMoved
<1>22. \A e \in PktEngines : \/ r.processing[e] = q.processing[e]
                             \/ q.processing[e].done /\ r.processing[e] = NoEntry
  BY <1>5, <1>13, <1>15, Zenon
<1>23. \A e \in PktEngines : r.processing[e].done => r.processing[e].seqIdx # r.nextSeqToWriteback
  <2>1. \A e \in PktEngines : q.processing[e].done => q.processing[e].seqIdx # stop
    BY <1>4, Zenon DEF DoneEngine
  <2> QED
    BY <1>15, <1>16, <1>22, <2>1, Zenon
<1> QED
  BY <1>21, <1>22, <1>23 DEF r

-----------------------------------------------------------------------------
(* The cache as constructed. *)

LEMMA EmptyCacheInv ==
    ASSUME NEW T
    PROVE  CacheInv(T, EmptyCache)
<1> DEFINE q == EmptyCache
           j == NoJobs
<1>1. 0 \in Slots /\ 0 \in Nat /\ 0 \in 0 .. DescLen
  BY DEF Slots
<1>2. j \in JobsType(T)
  <2>1. "idle" \in Stages
    BY DEF Stages
  <2> QED
    BY <1>1, <2>1 DEF NoJobs, JobsType
<1>3. JobsContiguous(j, 0)
  <2>1. j.queue = <<>> /\ Len(j.queue) = 0 /\ j.ing = 0 /\ j.pnt = 0
    BY DEF NoJobs
  <2>2. Ahead(j, 0) = 0
    BY AheadZero
  <2>3. (0 % DescLen) = 0
    BY ModUnique
  <2>4. \A e \in DescEngines : ~ j.working[e] /\ ~ j.done[e] /\ j.ev[e] = "idle"
    BY DEF NoJobs
  <2> HIDE DEF j
  <2> QED
    BY <2>1, <2>2, <2>3, <2>4 DEF JobsContiguous
<1>4. TransfersAgree(j) /\ \A e \in DescEngines : ~ j.working[e]
  BY DEF TransfersAgree, NoJobs
<1>5. /\ q.used = <<>> /\ q.unused = <<>> /\ q.wb = j /\ q.fetch = j
      /\ q.head = 0 /\ q.cachePnt = 0 /\ q.nextSeqToProcess = 0 /\ q.nextSeqToWriteback = 0
      /\ q.processing = [e \in PktEngines |-> NoEntry]
  BY DEF EmptyCache
<1>6. \A e \in PktEngines : q.processing[e].desc = NULL /\ ~ q.processing[e].done
  BY <1>5 DEF NoEntry
<1>7. descProcessing(q) = 0
  <2>1. {e \in PktEngines : q.processing[e].desc # NULL} = {}
    BY <1>6
  <2> QED
    BY <2>1, FS_EmptySet DEF descProcessing
<1>8. q \in CacheType(T)
  <2>1. NoEntry \in [desc : T \cup {NULL}, seqIdx : Nat, done : BOOLEAN]
    BY DEF NoEntry
  <2>2. [e \in PktEngines |-> NoEntry]
           \in [PktEngines -> [desc : T \cup {NULL}, seqIdx : Nat, done : BOOLEAN]]
    BY <2>1
  <2>3. 0 \in WbMasks /\ <<>> \in Seq(T)
    BY DEF WbMasks
  <2> QED
    BY <1>1, <1>2, <2>2, <2>3, Zenon DEF EmptyCache, CacheType
<1>9. j.ing = 0
  BY DEF NoJobs
<1> HIDE DEF q, j
<1>10. PointersAgree(q)
  <2>1. (0 % DescLen) = 0
    BY ModUnique
  <2>2. Len(q.used) = 0 /\ Len(q.unused) = 0
    BY <1>5
  <2> QED
    BY <1>5, <1>7, <1>9, <2>1, <2>2 DEF PointersAgree, descUsed, descUnused, totalUsed
<1>11. BanksContiguous(q)
  BY <1>3, <1>5 DEF BanksContiguous
<1>12. ProcessingInOrder(q)
  BY <1>5, <1>6, <1>7 DEF ProcessingInOrder
<1>13. BuffersFilled(q)
  BY <1>4, <1>5 DEF BuffersFilled
<1> QED
  BY <1>8, <1>10, <1>11, <1>12, <1>13 DEF CacheInv, q

(* The slot of the next descriptor of a transfer, and what a write-back    *)
(* puts there.                                                             *)
LEMMA FetchSlot ==
    ASSUME NEW T, NEW q, CacheInv(T, q), NEW e \in DescEngines, q.fetch.ev[e] = "dma"
    PROVE  q.fetch.base[e] + q.fetch.moved[e] \in Slots
<1> DEFINE j == q.fetch
<1>1. j \in JobsType(T)
  BY CacheFacts
<1>2. JobsContiguous(j, q.cachePnt) /\ TransfersAgree(j)
  BY DEF CacheInv, BanksContiguous, BuffersFilled
<1>3. j.base[e] \in Slots /\ j.moved[e] \in Nat /\ j.num[e] \in 0 .. DescLen
  BY <1>1 DEF JobsType
<1>4. j.moved[e] < j.num[e]
  BY <1>2 DEF TransfersAgree
<1>5. \E i \in 1 .. Len(j.queue) : j.queue[i] = e
  BY <1>2 DEF JobsContiguous
<1> HIDE DEF j
<1>6. j.base[e] + j.num[e] <= DescLen
  BY <1>2, <1>5 DEF JobsContiguous
<1> QED
  BY <1>3, <1>4, <1>6 DEF Slots, j

LEMMA WritebackValue ==
    ASSUME NEW T, NEW q, CacheInv(T, q), NEW e \in DescEngines, q.wb.ev[e] = "dma"
    PROVE  q.wb.buf[e][q.wb.moved[e] + 1] \in T
<1> DEFINE j == q.wb
<1>1. j \in JobsType(T)
  BY CacheFacts
<1>2. JobsContiguous(j, q.head) /\ TransfersAgree(j)
  BY DEF CacheInv, BanksContiguous, BuffersFilled
<1>3. j.buf[e] \in Seq(T) /\ j.moved[e] \in Nat /\ j.num[e] \in 0 .. DescLen
  BY <1>1 DEF JobsType
<1>4. j.moved[e] < j.num[e]
  BY <1>2 DEF TransfersAgree
<1>5. j.working[e]
  BY <1>2 DEF JobsContiguous
<1>6. Len(j.buf[e]) = j.num[e]
  BY <1>5 DEF CacheInv, BuffersFilled
<1>7. j.moved[e] + 1 \in 1 .. Len(j.buf[e])
  BY <1>3, <1>4, <1>6
<1> QED
  BY <1>3, <1>7

-----------------------------------------------------------------------------
(* What the cache holds.  The descriptors of the ring are numbered through *)
(* all its rounds, and the packets take them in that order, so that the    *)
(* sequence number of a packet is the number of its descriptor.  A gives   *)
(* the descriptor of each number as the driver armed it, U as it is when   *)
(* the card has used it.                                                   *)

(* The numbers at the head, at cachePnt and at the fetch pointer. *)
HeadSeq(q)  == q.nextSeqToWriteback - Len(q.used)
CacheSeq(q) == q.nextSeqToProcess + Len(q.unused)
FetchSeq(q) == CacheSeq(q) + q.fetch.ing

CacheInOrder(q, A, U) ==
    /\ HeadSeq(q) \in Nat
    /\ q.head = HeadSeq(q) % DescLen
    /\ \A i \in 1 .. Len(q.used) : q.used[i] = U[HeadSeq(q) + (i - 1)]
    /\ \A i \in 1 .. Len(q.unused) : q.unused[i] = A[q.nextSeqToProcess + (i - 1)]
    /\ \A e \in PktEngines : q.processing[e].desc # NULL =>
          q.processing[e].desc = IF q.processing[e].done THEN U[q.processing[e].seqIdx]
                                                         ELSE A[q.processing[e].seqIdx]
    /\ BufsInOrder(q.wb, HeadSeq(q), U)
    /\ BufsInOrder(q.fetch, CacheSeq(q), A)

(* The driver has given the descriptors before number g, and the card asks *)
(* for no others.                                                          *)
WithinGiven(q, g) ==
    /\ q.tail = g % DescLen
    /\ FetchSeq(q) <= g /\ g < q.nextSeqToWriteback + DescLen

(* Host memory has got descriptor b back. *)
Written(q, b) == Reached(q.wb, HeadSeq(q), b)

Ordered(q, A, U, g) == CacheInOrder(q, A, U) /\ WithinGiven(q, g)

(* Nothing happened to packets, and nothing in host memory. *)
SameStory(q, r) ==
    /\ r.nextSeqToProcess = q.nextSeqToProcess
    /\ r.nextSeqToWriteback = q.nextSeqToWriteback
    /\ r.processing = q.processing
    /\ \A b \in Nat : Written(r, b) <=> Written(q, b)

LEMMA SameStoryTrans ==
    ASSUME NEW q, NEW r, NEW s, SameStory(q, r), SameStory(r, s)
    PROVE  SameStory(q, s)
BY Zenon DEF SameStory

LEMMA SameStorySelf ==
    ASSUME NEW q
    PROVE  SameStory(q, q)
BY Zenon DEF SameStory

(* How the numbers and the pointers of the ring agree. *)
LEMMA OrderFacts ==
    ASSUME NEW T, NEW q, CacheInv(T, q), NEW A, NEW U, CacheInOrder(q, A, U)
    PROVE  /\ HeadSeq(q) \in Nat /\ CacheSeq(q) \in Nat /\ FetchSeq(q) \in Nat
           /\ HeadSeq(q) + Len(q.used) = q.nextSeqToWriteback
           /\ HeadSeq(q) + q.wb.ing <= q.nextSeqToWriteback
           /\ q.nextSeqToWriteback <= q.nextSeqToProcess
           /\ q.nextSeqToProcess <= CacheSeq(q) /\ CacheSeq(q) <= FetchSeq(q)
           /\ q.cachePnt = CacheSeq(q) % DescLen
           /\ q.fetch.pnt = FetchSeq(q) % DescLen
<1> DEFINE a == Len(q.used)
           b == Len(q.unused)
           c == descProcessing(q)
           n == q.nextSeqToProcess
           w == q.nextSeqToWriteback
           h == HeadSeq(q)
           d == q.fetch.ing
<1>1. /\ a \in Nat /\ b \in Nat /\ c \in Nat /\ d \in Nat /\ q.wb.ing \in Nat /\ q.wb.ing <= a
      /\ q.cachePnt = (q.head + (a + (b + c))) % DescLen
  BY CacheFacts
<1>2. n \in Nat /\ w \in Nat /\ n = w + c
  BY ProcessingFacts
<1>3. h \in Nat /\ h = w - a /\ q.head = h % DescLen
  BY DEF CacheInOrder, HeadSeq
<1>4. CacheSeq(q) = n + b /\ FetchSeq(q) = (n + b) + d
  BY DEF CacheSeq, FetchSeq
<1>5. q.fetch.pnt = (q.cachePnt + d) % DescLen
  BY DEF CacheInv, BanksContiguous, JobsContiguous
<1> HIDE DEF a, b, c, n, w, h, d
<1>6. a + (b + c) \in Nat /\ h + (a + (b + c)) = n + b /\ n + b \in Nat
  BY <1>1, <1>2, <1>3
<1>7. q.cachePnt = (n + b) % DescLen
  <2>1. ((h % DescLen) + (a + (b + c))) % DescLen = (h + (a + (b + c))) % DescLen
    BY <1>3, <1>6, ModAdd, DescLenAssumption
  <2> QED
    BY <1>1, <1>3, <1>6, <2>1
<1>8. q.fetch.pnt = ((n + b) + d) % DescLen
  <2>1. (((n + b) % DescLen) + d) % DescLen = ((n + b) + d) % DescLen
    BY <1>1, <1>6, ModAdd, DescLenAssumption
  <2> QED
    BY <1>5, <1>7, <2>1
<1>9. /\ (n + b) + d \in Nat /\ h + a = w /\ h + q.wb.ing <= w /\ w <= n
      /\ n <= n + b /\ n + b <= (n + b) + d
  BY <1>1, <1>2, <1>3
<1> QED
  BY <1>3, <1>4, <1>6, <1>7, <1>8, <1>9 DEF h, a, w, n

(* A cache with another write-back bank. *)
LEMMA WbBankOrder ==
    ASSUME NEW q, NEW r, NEW A, NEW U, NEW g, Ordered(q, A, U, g),
           r.used = q.used, r.unused = q.unused, r.processing = q.processing,
           r.nextSeqToProcess = q.nextSeqToProcess,
           r.nextSeqToWriteback = q.nextSeqToWriteback,
           r.fetch = q.fetch, r.head = q.head, r.tail = q.tail,
           BufsInOrder(r.wb, HeadSeq(q), U)
    PROVE  Ordered(r, A, U, g) /\ HeadSeq(r) = HeadSeq(q)
<1>1. HeadSeq(r) = HeadSeq(q) /\ CacheSeq(r) = CacheSeq(q) /\ FetchSeq(r) = FetchSeq(q)
  BY Zenon DEF HeadSeq, CacheSeq, FetchSeq
<1>2. CacheInOrder(q, A, U) /\ WithinGiven(q, g)
  BY DEF Ordered
<1>3. CacheInOrder(r, A, U)
  BY <1>1, <1>2, Zenon DEF CacheInOrder
<1>4. WithinGiven(r, g)
  BY <1>1, <1>2, Zenon DEF WithinGiven
<1> QED
  BY <1>1, <1>3, <1>4 DEF Ordered

(* A cache with another fetch bank. *)
LEMMA FetchBankOrder ==
    ASSUME NEW q, NEW r, NEW A, NEW U, NEW g, Ordered(q, A, U, g),
           r.used = q.used, r.unused = q.unused, r.processing = q.processing,
           r.nextSeqToProcess = q.nextSeqToProcess,
           r.nextSeqToWriteback = q.nextSeqToWriteback,
           r.wb = q.wb, r.head = q.head, r.tail = q.tail,
           BufsInOrder(r.fetch, CacheSeq(q), A),
           CacheSeq(q) + r.fetch.ing <= g
    PROVE  Ordered(r, A, U, g) /\ SameStory(q, r)
<1>1. HeadSeq(r) = HeadSeq(q) /\ CacheSeq(r) = CacheSeq(q)
      /\ FetchSeq(r) = CacheSeq(q) + r.fetch.ing
  BY Zenon DEF HeadSeq, CacheSeq, FetchSeq
<1>2. CacheInOrder(q, A, U) /\ WithinGiven(q, g)
  BY DEF Ordered
<1>3. CacheInOrder(r, A, U)
  BY <1>1, <1>2, Zenon DEF CacheInOrder
<1>4. WithinGiven(r, g)
  BY <1>1, <1>2, Zenon DEF WithinGiven
<1>5. SameStory(q, r)
  BY <1>1, Zenon DEF SameStory, Written
<1> QED
  BY <1>3, <1>4, <1>5 DEF Ordered

LEMMA WritebackOrder ==
    ASSUME NEW T, NEW q, CacheInv(T, q), NEW mask \in WbMasks,
           NEW A, NEW U, NEW g, Ordered(q, A, U, g)
    PROVE  /\ Ordered(writebackGlobal(q, mask), A, U, g)
           /\ SameStory(q, writebackGlobal(q, mask))
<1> DEFINE n == MaxToWb(q, mask)
           r == writebackGlobal(q, mask)
           b == SubSeq(q.used, q.wb.ing + 1, q.wb.ing + n)
           h == HeadSeq(q)
<1>1. q \in CacheType(T) /\ CacheInOrder(q, A, U)
  BY DEF CacheInv, Ordered
<1>2. /\ n \in 0 .. DescLen /\ q.wb.ing + n <= Len(q.used)
      /\ WbReachesEnd(q) \in BOOLEAN
  BY MaxToWbBounds
<1>3. /\ q.used \in Seq(T) /\ Len(q.used) \in Nat /\ q.head \in Slots
      /\ q.wb \in JobsType(T) /\ q.wb.ing \in Nat /\ q.wb.ing <= Len(q.used)
  BY CacheFacts
<1>4. JobsContiguous(q.wb, q.head)
  BY DEF CacheInv, BanksContiguous
<1>5. h \in Nat /\ BufsInOrder(q.wb, h, U)
  BY <1>1 DEF CacheInOrder
<1>6. ASSUME NEW more, r = [q EXCEPT !.moreToWb = more, !.wbAlignment = mask]
      PROVE  Ordered(r, A, U, g) /\ SameStory(q, r)
  <2> HIDE DEF r, h
  <2>1. /\ r.wb = q.wb
        /\ r.used = q.used /\ r.unused = q.unused /\ r.processing = q.processing
        /\ r.nextSeqToProcess = q.nextSeqToProcess
        /\ r.nextSeqToWriteback = q.nextSeqToWriteback
        /\ r.fetch = q.fetch /\ r.head = q.head /\ r.tail = q.tail
    BY <1>1, <1>6, Zenon DEF CacheType
  <2>2. Ordered(r, A, U, g) /\ HeadSeq(r) = HeadSeq(q)
    BY <1>5, <2>1, WbBankOrder DEF h
  <2> QED
    BY <2>1, <2>2, Zenon DEF SameStory, Written
<1>7. CASE n <= 0
  <2>1. r = [q EXCEPT !.moreToWb = WbReachesEnd(q), !.wbAlignment = mask]
    BY <1>2, <1>7 DEF writebackGlobal
  <2> QED
    BY <1>6, <2>1
<1>8. CASE n > 0 /\ ~ hasFreeEngine(q.wb)
  <2>1. r = [q EXCEPT !.moreToWb = TRUE, !.wbAlignment = mask]
    BY <1>2, <1>8 DEF writebackGlobal
  <2> QED
    BY <1>6, <2>1
<1>9. CASE n > 0 /\ hasFreeEngine(q.wb)
  <2> DEFINE w == Register(q.wb, n, b)
  <2>1. r = [q EXCEPT !.moreToWb = WbReachesEnd(q), !.wbAlignment = mask, !.wb = w]
    BY <1>2, <1>9 DEF writebackGlobal, WbBuf
  <2>2. n \in 1 .. DescLen
    BY <1>2, <1>9
  <2>3. b \in Seq(T) /\ Len(b) = n /\ \A x \in 1 .. n : b[x] = q.used[q.wb.ing + x]
    <3>1. q.wb.ing + 1 \in Int /\ q.wb.ing + n \in Int
      BY <1>2, <1>3
    <3>2. \A i \in q.wb.ing + 1 .. q.wb.ing + n : q.used[i] \in T
      BY <1>2, <1>3
    <3>3. /\ b \in Seq(T)
          /\ Len(b) = IF q.wb.ing + 1 <= q.wb.ing + n
                      THEN (q.wb.ing + n) - (q.wb.ing + 1) + 1 ELSE 0
          /\ \A i \in 1 .. (q.wb.ing + n) - (q.wb.ing + 1) + 1 :
                b[i] = q.used[(q.wb.ing + 1) + i - 1]
      BY <3>1, <3>2, SubSeqProperties
    <3>4. (q.wb.ing + n) - (q.wb.ing + 1) + 1 = n /\ q.wb.ing + 1 <= q.wb.ing + n
      BY <1>2, <1>3, <2>2
    <3>5. \A x \in 1 .. n : (q.wb.ing + 1) + x - 1 = q.wb.ing + x
      BY <1>2, <1>3
    <3> HIDE DEF b, n
    <3> QED
      BY <3>3, <3>4, <3>5
  <2>4. \A x \in 1 .. Len(b) : b[x] = U[h + (q.wb.ing + (x - 1))]
    <3> SUFFICES ASSUME NEW x \in 1 .. n PROVE b[x] = U[h + (q.wb.ing + (x - 1))]
      BY <2>3
    <3>1. q.wb.ing + x \in 1 .. Len(q.used) /\ (q.wb.ing + x) - 1 = q.wb.ing + (x - 1)
      BY <1>2, <1>3
    <3>2. q.used[q.wb.ing + x] = U[h + ((q.wb.ing + x) - 1)]
      BY <1>1, <3>1 DEF CacheInOrder
    <3>3. b[x] = q.used[q.wb.ing + x]
      BY <2>3
    <3> QED
      BY <3>1, <3>2, <3>3, Zenon
  <2> HIDE DEF n, b, h
  <2>5. BufsInOrder(w, h, U)
    BY <1>3, <1>4, <1>5, <1>9, <2>2, <2>3, <2>4, RegisterBufs
  <2>6. \A p \in Nat : Reached(w, h, p) <=> Reached(q.wb, h, p)
    BY <1>3, <1>4, <1>5, <1>9, <2>2, <2>3, RegisterReached
  <2> HIDE DEF w, r
  <2>7. /\ r.wb = w
        /\ r.used = q.used /\ r.unused = q.unused /\ r.processing = q.processing
        /\ r.nextSeqToProcess = q.nextSeqToProcess
        /\ r.nextSeqToWriteback = q.nextSeqToWriteback
        /\ r.fetch = q.fetch /\ r.head = q.head /\ r.tail = q.tail
    BY <1>1, <2>1, Zenon DEF CacheType
  <2>8. Ordered(r, A, U, g) /\ HeadSeq(r) = HeadSeq(q)
    BY <2>5, <2>7, WbBankOrder DEF h
  <2>9. SameStory(q, r)
    BY <2>6, <2>7, <2>8, Zenon DEF SameStory, Written, h
  <2> QED
    BY <2>8, <2>9 DEF r
<1> QED
  BY <1>2, <1>7, <1>8, <1>9

(* From the fetch pointer to the tail, or to the end of the ring, is no    *)
(* more than the driver has given.                                         *)
LEMMA RingGap ==
    ASSUME NEW L \in Nat \ {0}, NEW f \in Nat, NEW g \in Nat, f <= g, g < f + L
    PROVE  /\ (g % L) >= (f % L) => (g % L) - (f % L) = g - f
           /\ (g % L) < (f % L) => L - (f % L) <= g - f
<1> DEFINE q == f \div L
           r == f % L
           d == g - f
<1>0. f = (L * q) + r /\ q \in Nat /\ r \in 0 .. (L - 1)
  BY DivMod
<1>1. f = (L * q) + r /\ q \in Nat /\ r \in 0 .. (L - 1) /\ d \in 0 .. (L - 1)
  <2> HIDE DEF q, r
  <2>1. d \in 0 .. (L - 1)
    OBVIOUS
  <2> QED
    BY <1>0, <2>1
<1>2. g = f + d
  BY <1>1
<1> HIDE DEF q, r, d
<1>3. CASE r + d < L
  <2>1. ((L * q) + (r + d)) % L = r + d
    BY <1>1, <1>3, ModUnique
  <2>2. g = (L * q) + (r + d)
    BY <1>1, <1>2
  <2>3. g % L = r + d
    BY <2>1, <2>2
  <2> QED
    BY <1>1, <2>3 DEF r, d
<1>4. CASE ~ (r + d < L)
  <2>1. q + 1 \in Nat /\ (r + d) - L \in 0 .. (L - 1)
    BY <1>1, <1>4
  <2>2. ((L * (q + 1)) + ((r + d) - L)) % L = (r + d) - L
    BY <2>1, ModUnique
  <2>3. g = (L * (q + 1)) + ((r + d) - L)
    BY <1>1, <1>2
  <2>4. g % L = (r + d) - L
    BY <2>2, <2>3
  <2>5. (r + d) - L < r /\ L - r <= d
    BY <1>1, <1>4
  <2> QED
    BY <1>1, <2>4, <2>5 DEF r, d
<1> QED
  BY <1>3, <1>4

LEMMA FetchOrder ==
    ASSUME NEW T, NEW q, CacheInv(T, q), NEW A, NEW U, NEW g \in Nat, Ordered(q, A, U, g)
    PROVE  /\ Ordered(fetchDescriptorsGlobal(q), A, U, g)
           /\ SameStory(q, fetchDescriptorsGlobal(q))
<1> DEFINE n == MaxToFetch(q)
           r == fetchDescriptorsGlobal(q)
           f == FetchSeq(q)
           c == CacheSeq(q)
<1>1. q \in CacheType(T) /\ CacheInOrder(q, A, U) /\ WithinGiven(q, g)
  BY DEF CacheInv, Ordered
<1>2. n \in 0 .. DescLen
  BY MaxToFetchBounds
<1>3. q.cachePnt \in Slots /\ q.fetch \in JobsType(T) /\ q.fetch.ing \in Nat
  BY CacheFacts
<1>4. JobsContiguous(q.fetch, q.cachePnt)
  BY DEF CacheInv, BanksContiguous
<1>5. /\ f \in Nat /\ c \in Nat /\ q.fetch.pnt = f % DescLen /\ q.nextSeqToWriteback <= f
      /\ f = c + q.fetch.ing
  <2>1. /\ f \in Nat /\ c \in Nat /\ q.fetch.pnt = f % DescLen
        /\ q.nextSeqToWriteback <= q.nextSeqToProcess
        /\ q.nextSeqToProcess <= c /\ c <= f
    BY <1>1, OrderFacts
  <2>2. q.nextSeqToWriteback \in Nat /\ q.nextSeqToProcess \in Nat
    BY ProcessingFacts
  <2>3. f = c + q.fetch.ing
    BY DEF FetchSeq
  <2> HIDE DEF f, c
  <2> QED
    BY <2>1, <2>2, <2>3
<1>6. BufsInOrder(q.fetch, c, A)
  BY <1>1 DEF CacheInOrder
<1>7. f + n <= g
  <2>1. q.tail = g % DescLen /\ f <= g /\ g < f + DescLen
    <3>1. q.nextSeqToWriteback \in Nat
      BY ProcessingFacts
    <3>2. q.tail = g % DescLen /\ f <= g /\ g < q.nextSeqToWriteback + DescLen
      BY <1>1 DEF WithinGiven
    <3> HIDE DEF f
    <3> QED
      BY <1>5, <3>1, <3>2, DescLenAssumption
  <2> DEFINE x == f % DescLen
             y == g % DescLen
  <2>2. /\ y >= x => y - x = g - f
        /\ y < x => DescLen - x <= g - f
    BY <1>5, <2>1, RingGap, DescLenAssumption
  <2>3. x \in Nat /\ y \in Nat
    BY <1>5, DivMod, DescLenAssumption
  <2>4. InRing(q) = IF y >= x THEN y - x ELSE DescLen - x
    BY <1>5, <2>1 DEF InRing
  <2> HIDE DEF x, y, f
  <2>5. InRing(q) <= g - f
    BY <2>2, <2>3, <2>4, <1>5, DescLenAssumption
  <2>6. n <= InRing(q)
    <3>1. InRing(q) \in Int
      BY <2>3, <2>4, DescLenAssumption
    <3>2. n = IF InRing(q) <= free_cache(q) THEN InRing(q) ELSE free_cache(q)
      BY DEF MaxToFetch
    <3>3. free_cache(q) \in Int
      <4> DEFINE a == Len(q.used)
                 b == Len(q.unused)
                 d == descProcessing(q)
      <4>1. a \in Nat /\ b \in Nat /\ d \in Nat
        BY CacheFacts
      <4>2. totalUsed(q) = a + b + d + q.fetch.ing
        BY DEF totalUsed
      <4> HIDE DEF a, b, d
      <4>3. totalUsed(q) \in Int
        BY <1>3, <4>1, <4>2
      <4> QED
        BY <4>3, CacheSizeAssumption DEF free_cache
    <3> HIDE DEF n
    <3> QED
      BY <3>1, <3>2, <3>3
  <2>7. InRing(q) \in Int
    BY <2>3, <2>4, DescLenAssumption
  <2> HIDE DEF n
  <2> QED
    BY <1>2, <1>5, <2>5, <2>6, <2>7, DescLenAssumption
<1>8. CASE n = 0 \/ ~ hasFreeEngine(q.fetch)
  <2>1. r = q
    BY <1>8 DEF fetchDescriptorsGlobal
  <2> QED
    BY <2>1, SameStorySelf
<1>9. CASE n # 0 /\ hasFreeEngine(q.fetch)
  <2> DEFINE w == Register(q.fetch, n, <<>>)
  <2>1. r = [q EXCEPT !.fetch = w]
    BY <1>9 DEF fetchDescriptorsGlobal
  <2>2. n \in 1 .. DescLen /\ <<>> \in Seq(T) /\ Len(<<>>) = 0
    BY <1>2, <1>9
  <2> HIDE DEF n, c, f
  <2>3. \A x \in 1 .. Len(<<>>) : <<>>[x] = A[c + (q.fetch.ing + (x - 1))]
    BY <2>2
  <2>4. BufsInOrder(w, c, A)
    BY <1>3, <1>4, <1>5, <1>6, <1>9, <2>2, <2>3, RegisterBufs
  <2>5. w.ing = q.fetch.ing + n
    BY DEF Register
  <2>6. c + w.ing <= g
    <3> DEFINE i == q.fetch.ing
               k == w.ing
    <3>1. k = i + n
      BY <2>5
    <3>2. i \in Nat /\ c \in Nat /\ n \in Nat /\ g \in Nat
      BY SMTT(30), <1>2, <1>3, <1>5
    <3>3. (c + i) + n <= g
      BY SMTT(30), <1>2, <1>3, <1>5, <1>7
    <3> HIDE DEF i, k
    <3>4. c + k <= g
      BY <3>1, <3>2, <3>3
    <3> QED
      BY <3>4 DEF k
  <2> HIDE DEF w, r
  <2>7. /\ r.fetch = w
        /\ r.used = q.used /\ r.unused = q.unused /\ r.processing = q.processing
        /\ r.nextSeqToProcess = q.nextSeqToProcess
        /\ r.nextSeqToWriteback = q.nextSeqToWriteback
        /\ r.wb = q.wb /\ r.head = q.head /\ r.tail = q.tail
    BY <1>1, <2>1, Zenon DEF CacheType
  <2>8. Ordered(r, A, U, g) /\ SameStory(q, r)
    BY <2>4, <2>6, <2>7, FetchBankOrder DEF c
  <2> QED
    BY <2>8 DEF r
<1> QED
  BY <1>8, <1>9

LEMMA WbIfOrder ==
    ASSUME NEW T, NEW q, CacheInv(T, q), NEW mask \in WbMasks, NEW c,
           NEW A, NEW U, NEW g, Ordered(q, A, U, g)
    PROVE  Ordered(WbIf(c, q, mask), A, U, g) /\ SameStory(q, WbIf(c, q, mask))
<1>1. CASE c
  <2>1. WbIf(c, q, mask) = writebackGlobal(q, mask)
    BY <1>1 DEF WbIf
  <2> QED
    BY <2>1, WritebackOrder
<1>2. CASE ~ c
  <2>1. WbIf(c, q, mask) = q
    BY <1>2 DEF WbIf
  <2> QED
    BY <2>1, SameStorySelf
<1> QED
  BY <1>1, <1>2

LEMMA FetchIfOrder ==
    ASSUME NEW T, NEW q, CacheInv(T, q), NEW c,
           NEW A, NEW U, NEW g \in Nat, Ordered(q, A, U, g)
    PROVE  Ordered(FetchIf(c, q), A, U, g) /\ SameStory(q, FetchIf(c, q))
<1>1. CASE c
  <2>1. FetchIf(c, q) = fetchDescriptorsGlobal(q)
    BY <1>1 DEF FetchIf
  <2> QED
    BY <2>1, FetchOrder
<1>2. CASE ~ c
  <2>1. FetchIf(c, q) = q
    BY <1>2 DEF FetchIf
  <2> QED
    BY <2>1, SameStorySelf
<1> QED
  BY <1>1, <1>2

(* The driver gives more descriptors. *)
LEMMA TailOrder ==
    ASSUME NEW T, NEW q, CacheInv(T, q), NEW A, NEW U, CacheInOrder(q, A, U),
           NEW g \in Nat, FetchSeq(q) <= g, g < q.nextSeqToWriteback + DescLen,
           NEW t, t = g % DescLen
    PROVE  Ordered([q EXCEPT !.tail = t], A, U, g) /\ SameStory(q, [q EXCEPT !.tail = t])
<1> DEFINE r == [q EXCEPT !.tail = t]
<1>1. q \in CacheType(T)
  BY DEF CacheInv
<1>2. /\ r.fetch = q.fetch /\ r.wb = q.wb
      /\ r.used = q.used /\ r.unused = q.unused /\ r.processing = q.processing
      /\ r.nextSeqToProcess = q.nextSeqToProcess
      /\ r.nextSeqToWriteback = q.nextSeqToWriteback
      /\ r.head = q.head /\ r.tail = t
  BY <1>1, Zenon DEF CacheType
<1> HIDE DEF r
<1>3. HeadSeq(r) = HeadSeq(q) /\ CacheSeq(r) = CacheSeq(q) /\ FetchSeq(r) = FetchSeq(q)
  BY <1>2, Zenon DEF HeadSeq, CacheSeq, FetchSeq
<1>4. CacheInOrder(r, A, U)
  BY <1>2, <1>3, Zenon DEF CacheInOrder
<1>5. WithinGiven(r, g)
  BY <1>2, <1>3 DEF WithinGiven
<1>6. SameStory(q, r)
  BY <1>2, <1>3, Zenon DEF SameStory, Written
<1> QED
  BY <1>4, <1>5, <1>6 DEF Ordered, r

(* The completion of a write-back: the head passes what has been written. *)
LEMMA WbRetireOrder ==
    ASSUME NEW T, NEW q, CacheInv(T, q), NEW e \in DescEngines, Completing(q.wb, e),
           NEW A, NEW U, NEW g, Ordered(q, A, U, g)
    PROVE  Ordered(wbRetire(q, e), A, U, g) /\ SameStory(q, wbRetire(q, e))
<1> DEFINE n == RetiredDescs(q.wb, e)
           w == Complete(q.wb, e)
           len == Len(q.used)
           u == SubSeq(q.used, n + 1, len)
           r == wbRetire(q, e)
           h == HeadSeq(q)
<1>1. q \in CacheType(T) /\ CacheInOrder(q, A, U) /\ WithinGiven(q, g)
  BY DEF CacheInv, Ordered
<1>2. /\ q.used \in Seq(T) /\ len \in Nat /\ q.head \in Slots /\ q.wb \in JobsType(T)
      /\ q.wb.ing \in Nat /\ q.wb.ing <= len
  BY CacheFacts
<1>3. JobsContiguous(q.wb, q.head) /\ TransfersAgree(q.wb)
  BY DEF CacheInv, BanksContiguous, BuffersFilled
<1>4. n \in Nat /\ n <= q.wb.ing
  BY <1>2, <1>3, RetiredDescsBound
<1>5. /\ h \in Nat /\ q.head = h % DescLen /\ BufsInOrder(q.wb, h, U)
      /\ \A i \in 1 .. len : q.used[i] = U[h + (i - 1)]
  BY <1>1 DEF CacheInOrder
<1>6. h = q.nextSeqToWriteback - len /\ q.nextSeqToWriteback \in Nat
  BY ProcessingFacts DEF HeadSeq
<1>7. BufsInOrder(w, h + n, U)
  BY <1>2, <1>3, <1>5, CompleteBufs
<1>8. \A p \in Nat : Reached(w, h + n, p) <=> Reached(q.wb, h, p)
  BY <1>2, <1>3, <1>5, CompleteReached
<1>9. r = [q EXCEPT !.wb = w, !.used = u, !.head = (q.head + n) % DescLen]
  BY DEF wbRetire
<1> HIDE DEF n, w, r
<1>10. /\ u \in Seq(T) /\ Len(u) = len - n
       /\ \A i \in 1 .. len - n : u[i] = q.used[n + i]
  <2>1. n + 1 \in Int /\ len \in Int
    BY <1>2, <1>4
  <2>2. \A i \in n + 1 .. len : q.used[i] \in T
    BY <1>2, <1>4
  <2>3. /\ u \in Seq(T) /\ Len(u) = IF n + 1 <= len THEN len - (n + 1) + 1 ELSE 0
        /\ \A i \in 1 .. len - (n + 1) + 1 : u[i] = q.used[(n + 1) + i - 1]
    BY <2>1, <2>2, SubSeqProperties
  <2> HIDE DEF len, u
  <2>4. len - (n + 1) + 1 = len - n /\ \A i \in 1 .. len - n : (n + 1) + i - 1 = n + i
    BY <1>2, <1>4
  <2>5. Len(u) = len - n
    BY <1>2, <1>4, <2>3
  <2> QED
    BY <2>3, <2>4, <2>5
<1> HIDE DEF u, len, h
<1>11. (q.head + n) % DescLen = (h + n) % DescLen
  <2>1. ((h % DescLen) + n) % DescLen = (h + n) % DescLen
    BY <1>4, <1>5, ModAdd, DescLenAssumption
  <2> QED
    BY <1>5, <2>1
<1>12. /\ r.wb = w /\ r.used = u /\ r.head = (h + n) % DescLen
       /\ r.unused = q.unused /\ r.processing = q.processing
       /\ r.nextSeqToProcess = q.nextSeqToProcess
       /\ r.nextSeqToWriteback = q.nextSeqToWriteback
       /\ r.fetch = q.fetch /\ r.tail = q.tail
  <2>1. /\ r.wb = w /\ r.used = u /\ r.head = (q.head + n) % DescLen
        /\ r.unused = q.unused /\ r.processing = q.processing
        /\ r.nextSeqToProcess = q.nextSeqToProcess
        /\ r.nextSeqToWriteback = q.nextSeqToWriteback
        /\ r.fetch = q.fetch /\ r.tail = q.tail
    BY <1>1, <1>9, Zenon DEF CacheType
  <2> QED
    BY <1>11, <2>1, Zenon
<1>13. HeadSeq(r) = h + n /\ CacheSeq(r) = CacheSeq(q) /\ FetchSeq(r) = FetchSeq(q)
  <2>1. HeadSeq(r) = q.nextSeqToWriteback - (len - n)
    BY <1>10, <1>12 DEF HeadSeq
  <2>2. HeadSeq(r) = h + n
    BY <1>2, <1>4, <1>6, <2>1
  <2>3. CacheSeq(r) = CacheSeq(q)
    BY <1>12, Zenon DEF CacheSeq
  <2>4. FetchSeq(r) = FetchSeq(q)
    BY <1>12, <2>3, Zenon DEF FetchSeq
  <2> QED
    BY <2>2, <2>3, <2>4
<1>14. \A i \in 1 .. Len(r.used) : r.used[i] = U[(h + n) + (i - 1)]
  <2> SUFFICES ASSUME NEW i \in 1 .. len - n PROVE u[i] = U[(h + n) + (i - 1)]
    BY <1>10, <1>12
  <2>1. n + i \in 1 .. len /\ h + ((n + i) - 1) = (h + n) + (i - 1)
    BY <1>2, <1>4, <1>5
  <2>2. q.used[n + i] = U[h + ((n + i) - 1)]
    BY <1>5, <2>1
  <2> QED
    BY <1>10, <2>1, <2>2
<1>15. CacheInOrder(r, A, U)
  <2>1. /\ \A i \in 1 .. Len(q.unused) : q.unused[i] = A[q.nextSeqToProcess + (i - 1)]
        /\ \A f \in PktEngines : q.processing[f].desc # NULL =>
              q.processing[f].desc = IF q.processing[f].done THEN U[q.processing[f].seqIdx]
                                                             ELSE A[q.processing[f].seqIdx]
        /\ BufsInOrder(q.fetch, CacheSeq(q), A)
    BY <1>1, Zenon DEF CacheInOrder
  <2>2. h + n \in Nat
    BY <1>4, <1>5
  <2> QED
    BY <1>7, <1>12, <1>13, <1>14, <2>1, <2>2, Zenon DEF CacheInOrder
<1>16. WithinGiven(r, g)
  BY <1>1, <1>12, <1>13, Zenon DEF WithinGiven
<1>17. SameStory(q, r)
  BY <1>8, <1>12, <1>13, Zenon DEF SameStory, Written, h
<1> QED
  BY <1>15, <1>16, <1>17 DEF Ordered, r

LEMMA WbCompleteOrder ==
    ASSUME NEW T, NEW q, CacheInv(T, q), NEW e \in DescEngines, Completing(q.wb, e),
           NEW A, NEW U, NEW g, Ordered(q, A, U, g)
    PROVE  Ordered(wbCompleteGlobal(q, e), A, U, g) /\ SameStory(q, wbCompleteGlobal(q, e))
<1> DEFINE r == wbRetire(q, e)
           s == [r EXCEPT !.moreToWb = FALSE]
           z == wbCompleteGlobal(q, e)
<1>1. CacheInv(T, r) /\ Ordered(r, A, U, g) /\ SameStory(q, r)
  BY WbRetireKeeps, WbRetireOrder
<1>2. z = WbIf(r.moreToWb, s, r.wbAlignment)
  BY DEF wbCompleteGlobal
<1> HIDE DEF r, z
<1>3. r \in CacheType(T)
  BY <1>1 DEF CacheInv
<1>4. /\ s \in CacheType(T) /\ r.wbAlignment \in WbMasks
      /\ s.wb = r.wb /\ s.fetch = r.fetch
      /\ s.used = r.used /\ s.unused = r.unused /\ s.processing = r.processing
      /\ s.nextSeqToProcess = r.nextSeqToProcess
      /\ s.nextSeqToWriteback = r.nextSeqToWriteback
      /\ s.cachePnt = r.cachePnt /\ s.head = r.head /\ s.tail = r.tail
  BY <1>3, Zenon DEF CacheType
<1>5. /\ JobsContiguous(r.wb, r.head) /\ TransfersAgree(r.wb)
      /\ \A f \in DescEngines : r.wb.working[f] => Len(r.wb.buf[f]) = r.wb.num[f]
  BY <1>1 DEF CacheInv, BanksContiguous, BuffersFilled
<1>6. r.wb.ing <= Len(r.used)
  BY <1>1, CacheFacts
<1> HIDE DEF s
<1>7. CacheInv(T, s)
  BY <1>1, <1>4, <1>5, <1>6, WbBankChanged
<1>8. BufsInOrder(r.wb, HeadSeq(r), U)
  BY <1>1 DEF Ordered, CacheInOrder
<1>9. Ordered(s, A, U, g) /\ HeadSeq(s) = HeadSeq(r)
  BY <1>1, <1>4, <1>8, WbBankOrder
<1>10. SameStory(r, s)
  BY <1>4, <1>9, Zenon DEF SameStory, Written
<1>11. Ordered(z, A, U, g) /\ SameStory(s, z)
  BY <1>2, <1>4, <1>7, <1>9, WbIfOrder
<1>12. SameStory(q, z)
  BY <1>1, <1>10, <1>11, SameStoryTrans
<1> QED
  BY <1>11, <1>12 DEF z

(* The completion of a fetch: what it brought follows the unused           *)
(* descriptors.                                                            *)
LEMMA FetchCompleteOrder ==
    ASSUME NEW T, NEW q, CacheInv(T, q), NEW e \in DescEngines, Completing(q.fetch, e),
           NEW A, NEW U, NEW g, Ordered(q, A, U, g)
    PROVE  /\ Ordered(fetchCompleteGlobal(q, e), A, U, g)
           /\ SameStory(q, fetchCompleteGlobal(q, e))
<1> DEFINE n == RetiredDescs(q.fetch, e)
           w == Complete(q.fetch, e)
           b == RetiredBuf(q.fetch, e)
           len == Len(q.unused)
           u == q.unused \o b
           r == fetchCompleteGlobal(q, e)
           c == CacheSeq(q)
           N == q.nextSeqToProcess
<1>1. q \in CacheType(T) /\ CacheInOrder(q, A, U) /\ WithinGiven(q, g)
  BY DEF CacheInv, Ordered
<1>2. /\ q.unused \in Seq(T) /\ len \in Nat /\ q.cachePnt \in Slots /\ q.fetch \in JobsType(T)
      /\ q.fetch.ing \in Nat
  BY CacheFacts
<1>3. JobsContiguous(q.fetch, q.cachePnt) /\ TransfersAgree(q.fetch)
  BY DEF CacheInv, BanksContiguous, BuffersFilled
<1>4. n \in Nat /\ n <= q.fetch.ing
  BY <1>2, <1>3, RetiredDescsBound
<1>5. /\ c \in Nat /\ c = N + len /\ FetchSeq(q) = c + q.fetch.ing
  BY <1>1, OrderFacts DEF CacheSeq, FetchSeq
<1>6. N \in Nat
  BY ProcessingFacts
<1>7. /\ BufsInOrder(q.fetch, c, A)
      /\ \A i \in 1 .. len : q.unused[i] = A[N + (i - 1)]
  BY <1>1 DEF CacheInOrder
<1>8. BufsInOrder(w, c + n, A)
  BY <1>2, <1>3, <1>5, <1>7, CompleteBufs
<1>9. \A i \in 1 .. RetiredJobs(q.fetch, e) :
          Len(q.fetch.buf[q.fetch.queue[i]]) = q.fetch.num[q.fetch.queue[i]]
  BY RetiredFetchFull
<1>10. b \in Seq(T) /\ Len(b) = n
  BY <1>2, <1>3, <1>9, RetiredBufType
<1>11. \A x \in 1 .. n : b[x] = A[c + (x - 1)]
  <2> DEFINE j == q.fetch
             start == q.cachePnt
  <2> SUFFICES ASSUME NEW x \in 1 .. RetiredDescs(j, e)
               PROVE  RetiredBuf(j, e)[x] = A[c + (x - 1)]
    OBVIOUS
  <2>1. /\ j \in JobsType(T) /\ start \in Slots /\ JobsContiguous(j, start)
        /\ TransfersAgree(j) /\ Completing(j, e) /\ c \in Nat /\ BufsInOrder(j, c, A)
    BY <1>2, <1>3, <1>5, <1>7
  <2>2. \A i \in 1 .. RetiredJobs(j, e) : Len(j.buf[j.queue[i]]) = j.num[j.queue[i]]
    BY <1>9
  <2> HIDE DEF j, start, c
  <2> QED
    BY <2>1, <2>2, RetiredBufOrder
<1>12. w.ing = q.fetch.ing - n
  BY DEF Complete
<1>13. r = [q EXCEPT !.fetch = w, !.unused = u, !.cachePnt = (q.cachePnt + n) % DescLen]
  BY DEF fetchCompleteGlobal
<1> HIDE DEF n, w, b, r
<1>14. /\ Len(u) = len + n
       /\ \A i \in 1 .. len + n : u[i] = IF i <= len THEN q.unused[i] ELSE b[i - len]
  BY <1>2, <1>10, ConcatProperties
<1> HIDE DEF u, len, c, N
<1>15. /\ r.fetch = w /\ r.unused = u
       /\ r.used = q.used /\ r.processing = q.processing
       /\ r.nextSeqToProcess = N
       /\ r.nextSeqToWriteback = q.nextSeqToWriteback
       /\ r.wb = q.wb /\ r.head = q.head /\ r.tail = q.tail
  BY <1>1, <1>13, Zenon DEF CacheType, N
<1>16. HeadSeq(r) = HeadSeq(q) /\ CacheSeq(r) = c + n /\ FetchSeq(r) = FetchSeq(q)
  <2>1. HeadSeq(r) = HeadSeq(q)
    BY <1>15, Zenon DEF HeadSeq
  <2>2. CacheSeq(r) = N + (len + n)
    BY <1>14, <1>15 DEF CacheSeq
  <2>3. CacheSeq(r) = c + n
    BY <1>2, <1>4, <1>5, <1>6, <2>2
  <2>4. FetchSeq(r) = (c + n) + (q.fetch.ing - n)
    BY <1>12, <1>15, <2>3 DEF FetchSeq
  <2>5. (c + n) + (q.fetch.ing - n) = c + q.fetch.ing
    BY <1>2, <1>4, <1>5
  <2> QED
    BY <1>5, <2>1, <2>3, <2>4, <2>5
<1>17. \A i \in 1 .. Len(r.unused) : r.unused[i] = A[N + (i - 1)]
  <2> SUFFICES ASSUME NEW i \in 1 .. len + n PROVE u[i] = A[N + (i - 1)]
    BY <1>14, <1>15
  <2>1. CASE i <= len
    <3>1. i \in 1 .. len
      BY <1>2, <1>4, <2>1
    <3> QED
      BY <1>7, <1>14, <2>1, <3>1
  <2>2. CASE ~ (i <= len)
    <3>0. n \in Nat /\ len \in Nat /\ N \in Nat /\ c = N + len
      BY <1>2, <1>4, <1>5, <1>6
    <3>1. i - len \in 1 .. n /\ c + ((i - len) - 1) = N + (i - 1)
      BY <2>2, <3>0
    <3>2. b[i - len] = A[c + ((i - len) - 1)]
      BY <1>11, <3>1
    <3> QED
      BY <1>14, <2>2, <3>1, <3>2
  <2> QED
    BY <2>1, <2>2
<1>18. CacheInOrder(r, A, U)
  <2>1. /\ HeadSeq(q) \in Nat /\ q.head = HeadSeq(q) % DescLen
        /\ \A i \in 1 .. Len(q.used) : q.used[i] = U[HeadSeq(q) + (i - 1)]
        /\ \A f \in PktEngines : q.processing[f].desc # NULL =>
              q.processing[f].desc = IF q.processing[f].done THEN U[q.processing[f].seqIdx]
                                                             ELSE A[q.processing[f].seqIdx]
        /\ BufsInOrder(q.wb, HeadSeq(q), U)
    BY <1>1, Zenon DEF CacheInOrder
  <2> QED
    BY <1>8, <1>15, <1>16, <1>17, <2>1, Zenon DEF CacheInOrder
<1>19. WithinGiven(r, g)
  BY <1>1, <1>15, <1>16, Zenon DEF WithinGiven
<1>20. SameStory(q, r)
  BY <1>15, <1>16, Zenon DEF SameStory, Written, N
<1> QED
  BY <1>18, <1>19, <1>20 DEF Ordered, r

(* A transfer is issued. *)
LEMMA IssueWbOrder ==
    ASSUME NEW T, NEW q, CacheInv(T, q), NEW e \in DescEngines,
           NEW A, NEW U, NEW g, Ordered(q, A, U, g)
    PROVE  LET r == [q EXCEPT !.wb = Issue(@, e)] IN
           Ordered(r, A, U, g) /\ SameStory(q, r)
<1> DEFINE w == Issue(q.wb, e)
           r == [q EXCEPT !.wb = w]
           h == HeadSeq(q)
<1>1. q \in CacheType(T) /\ BufsInOrder(q.wb, h, U)
  BY DEF CacheInv, Ordered, CacheInOrder
<1>2. q.wb \in JobsType(T)
  BY CacheFacts
<1>3. BufsInOrder(w, h, U)
  BY <1>1, <1>2, IssueSame
<1>4. \A p : Reached(w, h, p) <=> Reached(q.wb, h, p)
  BY <1>2, IssueSame
<1> HIDE DEF w
<1>5. /\ r.wb = w /\ r.used = q.used /\ r.unused = q.unused /\ r.processing = q.processing
      /\ r.nextSeqToProcess = q.nextSeqToProcess
      /\ r.nextSeqToWriteback = q.nextSeqToWriteback
      /\ r.fetch = q.fetch /\ r.head = q.head /\ r.tail = q.tail
  BY <1>1, Zenon DEF CacheType
<1> HIDE DEF r
<1>6. Ordered(r, A, U, g) /\ HeadSeq(r) = h
  BY <1>3, <1>5, WbBankOrder
<1>7. SameStory(q, r)
  BY <1>4, <1>5, <1>6, Zenon DEF SameStory, Written, h
<1> QED
  BY <1>6, <1>7 DEF r, w

LEMMA IssueFetchOrder ==
    ASSUME NEW T, NEW q, CacheInv(T, q), NEW e \in DescEngines,
           NEW A, NEW U, NEW g, Ordered(q, A, U, g)
    PROVE  LET r == [q EXCEPT !.fetch = Issue(@, e)] IN
           Ordered(r, A, U, g) /\ SameStory(q, r)
<1> DEFINE w == Issue(q.fetch, e)
           r == [q EXCEPT !.fetch = w]
           c == CacheSeq(q)
<1>1. q \in CacheType(T) /\ BufsInOrder(q.fetch, c, A) /\ c + q.fetch.ing <= g
  BY DEF CacheInv, Ordered, CacheInOrder, WithinGiven, FetchSeq
<1>2. q.fetch \in JobsType(T)
  BY CacheFacts
<1>3. BufsInOrder(w, c, A)
  BY <1>1, <1>2, IssueSame
<1>4. w.ing = q.fetch.ing
  BY <1>2, Zenon DEF Issue, JobsType
<1> HIDE DEF w
<1>5. /\ r.fetch = w /\ r.used = q.used /\ r.unused = q.unused /\ r.processing = q.processing
      /\ r.nextSeqToProcess = q.nextSeqToProcess
      /\ r.nextSeqToWriteback = q.nextSeqToWriteback
      /\ r.wb = q.wb /\ r.head = q.head /\ r.tail = q.tail
  BY <1>1, Zenon DEF CacheType
<1>6. c + r.fetch.ing <= g
  BY <1>1, <1>4, <1>5, Zenon
<1> HIDE DEF r
<1>7. Ordered(r, A, U, g) /\ SameStory(q, r)
  BY <1>3, <1>5, <1>6, FetchBankOrder
<1> QED
  BY <1>7 DEF r, w

(* Host memory has got back only what the card has finished. *)
LEMMA WrittenBound ==
    ASSUME NEW T, NEW q, CacheInv(T, q), NEW A, NEW U, CacheInOrder(q, A, U),
           NEW b \in Nat, Written(q, b)
    PROVE  b < q.nextSeqToWriteback
<1> DEFINE h == HeadSeq(q)
           i == q.wb.ing
           w == q.nextSeqToWriteback
<1>1. q.wb \in JobsType(T) /\ q.head \in Slots /\ i \in Nat
  BY CacheFacts
<1>2. JobsContiguous(q.wb, q.head) /\ TransfersAgree(q.wb)
  BY DEF CacheInv, BanksContiguous, BuffersFilled
<1>3. h \in Nat /\ h + i <= w
  BY OrderFacts
<1>4. w \in Nat
  BY ProcessingFacts
<1>5. b < h + i
  BY <1>1, <1>2, <1>3, ReachedBound DEF Written
<1> HIDE DEF h, i, w
<1>6. b < w
  BY <1>1, <1>3, <1>4, <1>5
<1> QED
  BY <1>6 DEF w

(* The next descriptor of engine e's transfer in bank j, whose jobs start  *)
(* at number s: its slot is the one the engine addresses.                  *)
LEMMA NextOfTransfer ==
    ASSUME NEW T, NEW j \in JobsType(T), NEW s \in Nat, NEW e \in DescEngines,
           JobsContiguous(j, s % DescLen), TransfersAgree(j), j.ev[e] = "dma"
    PROVE  \E i \in 1 .. Len(j.queue) :
              /\ j.queue[i] = e
              /\ Ahead(j, i - 1) \in Nat /\ j.moved[e] \in Nat
              /\ j.base[e] + j.moved[e] = (s + (Ahead(j, i - 1) + j.moved[e])) % DescLen
              /\ Ahead(j, i - 1) + j.moved[e] < j.ing
              /\ Got(j, e) = j.moved[e] /\ j.moved[e] + 1 <= j.num[e]
<1>1. s % DescLen \in Slots
  BY ModInSlots
<1>2. /\ ~ j.done[e]
      /\ \E i \in 1 .. Len(j.queue) :
            /\ j.queue[i] = e
            /\ j.base[e] = ((s % DescLen) + Ahead(j, i - 1)) % DescLen
            /\ j.base[e] + j.num[e] <= DescLen
  BY <1>1, JobFound
<1>3. PICK i \in 1 .. Len(j.queue) :
            /\ j.queue[i] = e
            /\ j.base[e] = ((s % DescLen) + Ahead(j, i - 1)) % DescLen
            /\ j.base[e] + j.num[e] <= DescLen
  BY <1>2
<1>4. /\ Ahead(j, i - 1) \in Nat /\ Ahead(j, i) = Ahead(j, i - 1) + j.num[e]
      /\ j.ing \in Nat /\ Ahead(j, i) <= j.ing /\ j.num[e] \in Nat
  BY <1>1, <1>3, GotBound
<1>5. j.moved[e] \in Nat
  BY DEF JobsType
<1>6. j.moved[e] < j.num[e]
  BY DEF TransfersAgree
<1>7. Got(j, e) = j.moved[e]
  BY <1>2 DEF Got
<1> DEFINE a == Ahead(j, i - 1)
           m == j.moved[e]
           n == j.num[e]
<1>8. /\ a \in Nat /\ m \in Nat /\ n \in Nat /\ m < n /\ a + n <= j.ing /\ j.ing \in Nat
      /\ j.base[e] = ((s % DescLen) + a) % DescLen
      /\ j.base[e] + n <= DescLen
  BY <1>3, <1>4, <1>5, <1>6
<1> HIDE DEF a, m, n
<1>9. j.base[e] = (s + a) % DescLen
  BY <1>8, ModAdd, DescLenAssumption
<1>10. ((s + a) % DescLen) + m < DescLen
  <2>1. j.base[e] \in Nat
    BY <1>8, <1>9, DescLenAssumption, DivMod
  <2> QED
    BY <1>8, <1>9, <2>1, DescLenAssumption
<1>11. ((s + a) + m) % DescLen = ((s + a) % DescLen) + m
  <2>1. s + a \in Nat
    BY <1>8
  <2> QED
    BY <1>8, <1>10, <2>1, ModWithin, DescLenAssumption
<1>12. (s + a) + m = s + (a + m) /\ a + m < j.ing /\ m + 1 <= n
  <2>1. a \in Nat /\ m \in Nat /\ n \in Nat /\ m < n /\ a + n <= j.ing /\ j.ing \in Nat
    BY <1>8
  <2> QED
    BY <2>1
<1> QED
  BY <1>3, <1>7, <1>8, <1>9, <1>11, <1>12 DEF a, m, n

(* Memory performs the write-back of one more descriptor, one that it has  *)
(* not got back before.                                                    *)
LEMMA BeatWbOrder ==
    ASSUME NEW T, NEW q, CacheInv(T, q), NEW e \in DescEngines, q.wb.ev[e] = "dma",
           NEW A, NEW U, NEW g, Ordered(q, A, U, g)
    PROVE  LET r == [q EXCEPT !.wb = Beat(@, e)] IN
           /\ Ordered(r, A, U, g)
           /\ r.nextSeqToProcess = q.nextSeqToProcess
           /\ r.nextSeqToWriteback = q.nextSeqToWriteback
           /\ r.processing = q.processing
           /\ \E p \in Nat :
                 /\ ~ Written(q, p) /\ p < q.nextSeqToWriteback
                 /\ q.wb.base[e] + q.wb.moved[e] = p % DescLen
                 /\ q.wb.buf[e][q.wb.moved[e] + 1] = U[p]
                 /\ \A b \in Nat : Written(r, b) <=> (Written(q, b) \/ b = p)
<1> DEFINE j == q.wb
           w == Beat(q.wb, e)
           r == [q EXCEPT !.wb = w]
           h == HeadSeq(q)
           m == j.moved[e]
<1>1. q \in CacheType(T) /\ CacheInOrder(q, A, U)
  BY DEF CacheInv, Ordered
<1>2. j \in JobsType(T) /\ q.head \in Slots
  BY CacheFacts
<1>3. JobsContiguous(j, q.head) /\ TransfersAgree(j)
  BY DEF CacheInv, BanksContiguous, BuffersFilled
<1>4. h \in Nat /\ q.head = h % DescLen /\ BufsInOrder(j, h, U)
  BY <1>1 DEF CacheInOrder
<1>5. BufsInOrder(w, h, U)
  BY <1>2, <1>4, BeatBufs
<1>6. /\ w.queue = j.queue /\ w.num = j.num /\ w.done = j.done
      /\ w.moved = [j.moved EXCEPT ![e] = @ + 1]
  BY <1>2, BeatSame
<1>7. Len(j.buf[e]) = j.num[e]
  <2>1. j.working[e]
    BY <1>3 DEF JobsContiguous
  <2> QED
    BY <2>1 DEF CacheInv, BuffersFilled
<1>8. JobsContiguous(j, h % DescLen)
  BY <1>3, <1>4
<1> HIDE DEF j, w, h
<1>9. PICK i \in 1 .. Len(j.queue) :
              /\ j.queue[i] = e
              /\ Ahead(j, i - 1) \in Nat /\ m \in Nat
              /\ j.base[e] + m = (h + (Ahead(j, i - 1) + m)) % DescLen
              /\ Ahead(j, i - 1) + m < j.ing
              /\ Got(j, e) = m /\ m + 1 <= j.num[e]
  BY <1>2, <1>3, <1>4, <1>8, NextOfTransfer DEF j
<1> DEFINE a == Ahead(j, i - 1)
           p == h + (a + m)
<1>10. p \in Nat
  BY <1>4, <1>9
<1>11. ~ Reached(j, h, p)
  <2>1. m + 1 \in Nat /\ m < m + 1 /\ (m + 1) - 1 = m
    BY <1>9
  <2>2. ~ Reached(j, h, h + (a + ((m + 1) - 1)))
    BY ZenonT(60), <1>2, <1>3, <1>4, <1>9, <2>1, NotReached
  <2> QED
    BY <2>1, <2>2
<1>12. \A b \in Nat : Reached(w, h, b) <=> (Reached(j, h, b) \/ b = p)
  <2>1. j.ev[e] = "dma"
    BY DEF j
  <2>2. j.queue[i] = e
    BY <1>9
  <2> SUFFICES ASSUME NEW b \in Nat
               PROVE  Reached(w, h, b) <=> (Reached(j, h, b) \/ b = p)
    OBVIOUS
  <2>3. Reached(w, h, b) <=> Reached(j, h, b) \/ b = h + (Ahead(j, i - 1) + j.moved[e])
    BY <1>2, <1>3, <1>4, <1>6, <2>1, <2>2, BeatReached
  <2> QED
    BY <2>3
<1>13. j.buf[e][m + 1] = U[p]
  <2>1. m + 1 \in 1 .. Len(j.buf[e]) /\ (m + 1) - 1 = m
    <3>1. j.num[e] \in Nat
      BY <1>2 DEF JobsType
    <3>2. m \in Nat /\ m + 1 <= j.num[e]
      BY <1>9
    <3> HIDE DEF m
    <3> QED
      BY <1>7, <3>1, <3>2
  <2>2. j.buf[j.queue[i]][m + 1] = U[h + (Ahead(j, i - 1) + ((m + 1) - 1))]
    BY <1>4, <1>9, <2>1 DEF BufsInOrder
  <2> QED
    BY <1>9, <2>1, <2>2
<1>14. /\ r.wb = w /\ r.used = q.used /\ r.unused = q.unused /\ r.processing = q.processing
       /\ r.nextSeqToProcess = q.nextSeqToProcess
       /\ r.nextSeqToWriteback = q.nextSeqToWriteback
       /\ r.fetch = q.fetch /\ r.head = q.head /\ r.tail = q.tail
  BY <1>1, Zenon DEF CacheType
<1> HIDE DEF r
<1>15. Ordered(r, A, U, g) /\ HeadSeq(r) = h
  BY <1>5, <1>14, WbBankOrder DEF h
<1>16. p < q.nextSeqToWriteback
  <2>1. j.ing \in Nat /\ h + j.ing <= q.nextSeqToWriteback
    BY <1>1, OrderFacts, CacheFacts DEF h, j
  <2>2. q.nextSeqToWriteback \in Nat
    BY ProcessingFacts
  <2>3. a \in Nat /\ m \in Nat /\ a + m < j.ing
    BY <1>9
  <2> HIDE DEF a, m
  <2> QED
    BY <1>4, <2>1, <2>2, <2>3
<1>17. \A b \in Nat : Written(r, b) <=> (Written(q, b) \/ b = p)
  BY <1>12, <1>14, <1>15, Zenon DEF Written, h, j
<1>18. ~ Written(q, p)
  BY <1>11 DEF Written, h, j
<1>19. j.base[e] + m = p % DescLen
  BY <1>9
<1> HIDE DEF p
<1>20. \E x \in Nat : /\ ~ Written(q, x) /\ x < q.nextSeqToWriteback
                      /\ j.base[e] + m = x % DescLen /\ j.buf[e][m + 1] = U[x]
                      /\ \A b \in Nat : Written(r, b) <=> (Written(q, b) \/ b = x)
  BY <1>10, <1>13, <1>16, <1>17, <1>18, <1>19
<1> QED
  BY <1>14, <1>15, <1>20 DEF r, w, j

(* Memory answers a fetch with one more descriptor. *)
LEMMA BeatFetchOrder ==
    ASSUME NEW T, NEW q, CacheInv(T, q), NEW e \in DescEngines, q.fetch.ev[e] = "dma",
           NEW A, NEW U, NEW g, Ordered(q, A, U, g)
    PROVE  \E p \in Nat :
              /\ CacheSeq(q) <= p /\ p < FetchSeq(q)
              /\ q.fetch.base[e] + q.fetch.moved[e] = p % DescLen
              /\ \A d \in T : d = A[p] =>
                    LET r == [q EXCEPT !.fetch = FetchBeat(@, e, d)] IN
                    Ordered(r, A, U, g) /\ SameStory(q, r)
<1> DEFINE j == q.fetch
           c == CacheSeq(q)
           m == j.moved[e]
<1>1. q \in CacheType(T) /\ CacheInOrder(q, A, U)
  BY DEF CacheInv, Ordered
<1>2. j \in JobsType(T) /\ q.cachePnt \in Slots
  BY CacheFacts
<1>3. JobsContiguous(j, q.cachePnt) /\ TransfersAgree(j)
  BY DEF CacheInv, BanksContiguous, BuffersFilled
<1>4. /\ c \in Nat /\ q.cachePnt = c % DescLen /\ BufsInOrder(j, c, A)
      /\ FetchSeq(q) = c + j.ing
  BY <1>1, OrderFacts DEF CacheInOrder, FetchSeq
<1>5. c + j.ing <= g
  BY <1>4 DEF Ordered, WithinGiven
<1>6. Len(j.buf[e]) = m
  <2>1. j.working[e] /\ ~ j.done[e]
    BY <1>3 DEF JobsContiguous
  <2> QED
    BY <2>1 DEF CacheInv, BuffersFilled
<1>7. JobsContiguous(j, c % DescLen)
  BY <1>3, <1>4
<1> HIDE DEF j, c
<1>8. PICK i \in 1 .. Len(j.queue) :
              /\ j.queue[i] = e
              /\ Ahead(j, i - 1) \in Nat /\ m \in Nat
              /\ j.base[e] + m = (c + (Ahead(j, i - 1) + m)) % DescLen
              /\ Ahead(j, i - 1) + m < j.ing
              /\ Got(j, e) = m /\ m + 1 <= j.num[e]
  BY <1>2, <1>3, <1>4, <1>7, NextOfTransfer DEF j
<1> DEFINE a == Ahead(j, i - 1)
           p == c + (a + m)
<1>9. p \in Nat /\ c <= p
  BY <1>4, <1>8
<1>10. p < c + j.ing
  <2>1. j.ing \in Nat
    BY <1>2 DEF JobsType
  <2>2. a \in Nat /\ m \in Nat /\ a + m < j.ing
    BY <1>8
  <2> HIDE DEF a, m
  <2> QED
    BY <1>4, <2>1, <2>2
<1>11. ASSUME NEW d \in T, d = A[p]
       PROVE  LET r == [q EXCEPT !.fetch = FetchBeat(@, e, d)] IN
              Ordered(r, A, U, g) /\ SameStory(q, r)
  <2> DEFINE w == FetchBeat(q.fetch, e, d)
             r == [q EXCEPT !.fetch = w]
  <2>1. BufsInOrder(w, c, A) /\ w.ing = j.ing
    <3>1. j.ev[e] = "dma"
      BY DEF j
    <3>2. j.queue[i] = e /\ NextOf(j, c, e, i, A, d)
      BY <1>8, <1>11 DEF NextOf
    <3>3. BufsInOrder(FetchBeat(j, e, d), c, A) /\ FetchBeat(j, e, d).ing = j.ing
      <4>1. JobsContiguous(j, q.cachePnt) /\ Len(j.buf[e]) = j.moved[e] /\ BufsInOrder(j, c, A)
        BY <1>3, <1>4, <1>6
      <4>2. j \in JobsType(T) /\ q.cachePnt \in Slots /\ e \in DescEngines
            /\ i \in 1 .. Len(j.queue) /\ d \in T
        BY <1>2
      <4> HIDE DEF a, m, p
      <4> QED
        BY <1>4, <3>1, <3>2, <4>1, <4>2, FetchBeatBufs
    <3> QED
      BY <3>3 DEF j
  <2> HIDE DEF w
  <2>2. /\ r.fetch = w /\ r.used = q.used /\ r.unused = q.unused
        /\ r.processing = q.processing
        /\ r.nextSeqToProcess = q.nextSeqToProcess
        /\ r.nextSeqToWriteback = q.nextSeqToWriteback
        /\ r.wb = q.wb /\ r.head = q.head /\ r.tail = q.tail
    BY <1>1, Zenon DEF CacheType
  <2>3. c + r.fetch.ing <= g
    BY <1>5, <2>1, <2>2, Zenon
  <2> HIDE DEF r
  <2>4. Ordered(r, A, U, g) /\ SameStory(q, r)
    BY <2>1, <2>2, <2>3, FetchBankOrder DEF c
  <2> QED
    BY <2>4 DEF r, w
<1>12. j.base[e] + m = p % DescLen
  BY <1>8
<1>13. c <= p /\ p < FetchSeq(q)
  BY <1>4, <1>9, <1>10
<1> HIDE DEF p
<1> QED
  BY <1>9, <1>11, <1>12, <1>13 DEF j, c

(* A packet takes the oldest unused descriptor. *)
LEMMA TakeDescOrder ==
    ASSUME NEW T, NEW q, CacheInv(T, q), NEW e \in PktEngines, q.unused # <<>>,
           NEW A, NEW U, NEW g, Ordered(q, A, U, g)
    PROVE  /\ Ordered(TakeDesc(q, e), A, U, g)
           /\ TakeDesc(q, e).nextSeqToProcess = q.nextSeqToProcess + 1
           /\ \A b : Written(TakeDesc(q, e), b) <=> Written(q, b)
<1> DEFINE t == Tail(q.unused)
           n == q.nextSeqToProcess
           p == [q.processing EXCEPT ![e] = [desc   |-> Head(q.unused),
                                             seqIdx |-> n,
                                             done   |-> FALSE]]
           r == TakeDesc(q, e)
           len == Len(q.unused)
<1>1. q \in CacheType(T) /\ CacheInOrder(q, A, U) /\ WithinGiven(q, g)
  BY DEF CacheInv, Ordered
<1>2. q.unused \in Seq(T) /\ len \in Nat
  BY CacheFacts
<1>3. /\ n \in Nat
      /\ q.processing \in [PktEngines -> [desc : T \cup {NULL}, seqIdx : Nat, done : BOOLEAN]]
  BY ProcessingFacts
<1>4. Len(t) = len - 1 /\ \A i \in 1 .. len - 1 : t[i] = q.unused[i + 1]
  BY <1>2, HeadTailProperties
<1>5. len > 0 /\ Head(q.unused) = q.unused[1]
  BY <1>2
<1>6. r = [q EXCEPT !.processing = p, !.nextSeqToProcess = n + 1, !.unused = t]
  BY Zenon DEF TakeDesc
<1>7. \A i \in 1 .. len : q.unused[i] = A[n + (i - 1)]
  BY <1>1 DEF CacheInOrder
<1>8. Head(q.unused) = A[n]
  <2>1. 1 \in 1 .. len /\ n + (1 - 1) = n
    BY <1>2, <1>3, <1>5
  <2> QED
    BY <1>5, <1>7, <2>1
<1>9. /\ p[e].desc = A[n] /\ p[e].seqIdx = n /\ ~ p[e].done
      /\ \A f \in PktEngines : f # e => p[f] = q.processing[f]
  BY <1>3, <1>8
<1> HIDE DEF t, n, p, r, len
<1>10. /\ r.processing = p /\ r.nextSeqToProcess = n + 1 /\ r.unused = t
       /\ r.used = q.used /\ r.nextSeqToWriteback = q.nextSeqToWriteback
       /\ r.fetch = q.fetch /\ r.wb = q.wb /\ r.head = q.head /\ r.tail = q.tail
  BY <1>1, <1>6, Zenon DEF CacheType
<1>11. HeadSeq(r) = HeadSeq(q) /\ CacheSeq(r) = CacheSeq(q) /\ FetchSeq(r) = FetchSeq(q)
  <2>1. HeadSeq(r) = HeadSeq(q)
    BY <1>10, Zenon DEF HeadSeq
  <2>2. CacheSeq(r) = (n + 1) + (len - 1) /\ CacheSeq(q) = n + len
    BY <1>4, <1>10 DEF CacheSeq, n, len
  <2>3. CacheSeq(r) = CacheSeq(q)
    BY <1>2, <1>3, <2>2
  <2> QED
    BY <1>10, <2>1, <2>3, Zenon DEF FetchSeq
<1>12. \A i \in 1 .. Len(r.unused) : r.unused[i] = A[r.nextSeqToProcess + (i - 1)]
  <2> SUFFICES ASSUME NEW i \in 1 .. len - 1 PROVE t[i] = A[(n + 1) + (i - 1)]
    BY <1>4, <1>10
  <2>1. i + 1 \in 1 .. len /\ n + ((i + 1) - 1) = (n + 1) + (i - 1)
    BY <1>2, <1>3
  <2>2. q.unused[i + 1] = A[n + ((i + 1) - 1)]
    BY <1>7, <2>1
  <2> QED
    BY <1>4, <2>1, <2>2
<1>13. \A f \in PktEngines : r.processing[f].desc # NULL =>
           r.processing[f].desc = IF r.processing[f].done THEN U[r.processing[f].seqIdx]
                                                          ELSE A[r.processing[f].seqIdx]
  <2>1. \A f \in PktEngines : q.processing[f].desc # NULL =>
           q.processing[f].desc = IF q.processing[f].done THEN U[q.processing[f].seqIdx]
                                                          ELSE A[q.processing[f].seqIdx]
    BY <1>1, Zenon DEF CacheInOrder
  <2> SUFFICES ASSUME NEW f \in PktEngines, p[f].desc # NULL
               PROVE  p[f].desc = IF p[f].done THEN U[p[f].seqIdx] ELSE A[p[f].seqIdx]
    BY <1>10, Zenon
  <2>2. CASE f = e
    BY <1>9, <2>2, Zenon
  <2>3. CASE f # e
    BY <1>9, <2>1, <2>3, Zenon
  <2> QED
    BY <2>2, <2>3
<1>14. CacheInOrder(r, A, U)
  <2>1. /\ HeadSeq(q) \in Nat /\ q.head = HeadSeq(q) % DescLen
        /\ \A i \in 1 .. Len(q.used) : q.used[i] = U[HeadSeq(q) + (i - 1)]
        /\ BufsInOrder(q.wb, HeadSeq(q), U) /\ BufsInOrder(q.fetch, CacheSeq(q), A)
    BY <1>1, Zenon DEF CacheInOrder
  <2> QED
    BY <1>10, <1>11, <1>12, <1>13, <2>1, Zenon DEF CacheInOrder
<1>15. WithinGiven(r, g)
  BY <1>1, <1>10, <1>11, Zenon DEF WithinGiven
<1>16. \A b : Written(r, b) <=> Written(q, b)
  BY <1>10, <1>11, Zenon DEF Written
<1> QED
  BY <1>10, <1>14, <1>15, <1>16 DEF Ordered, r, n

(* The packet has been moved, and its descriptor is the used one. *)
LEMMA FinishDescOrder ==
    ASSUME NEW T, NEW q, CacheInv(T, q), NEW e \in PktEngines,
           NEW A, NEW U, NEW g, Ordered(q, A, U, g),
           NEW d, d = U[q.processing[e].seqIdx]
    PROVE  /\ Ordered(FinishDesc(q, e, d), A, U, g)
           /\ FinishDesc(q, e, d).nextSeqToProcess = q.nextSeqToProcess
           /\ \A b : Written(FinishDesc(q, e, d), b) <=> Written(q, b)
<1> DEFINE n == q.processing[e].seqIdx
           p == [q.processing EXCEPT ![e] = [desc |-> d, seqIdx |-> n, done |-> TRUE]]
           r == FinishDesc(q, e, d)
<1>1. q \in CacheType(T) /\ CacheInOrder(q, A, U) /\ WithinGiven(q, g)
  BY DEF CacheInv, Ordered
<1>2. q.processing \in [PktEngines -> [desc : T \cup {NULL}, seqIdx : Nat, done : BOOLEAN]]
  BY ProcessingFacts
<1>3. r = [q EXCEPT !.processing = p]
  BY Zenon DEF FinishDesc
<1>4. /\ p[e].desc = U[n] /\ p[e].seqIdx = n /\ p[e].done
      /\ \A f \in PktEngines : f # e => p[f] = q.processing[f]
  BY <1>2
<1> HIDE DEF n, p, r
<1>5. /\ r.processing = p /\ r.nextSeqToProcess = q.nextSeqToProcess /\ r.unused = q.unused
      /\ r.used = q.used /\ r.nextSeqToWriteback = q.nextSeqToWriteback
      /\ r.fetch = q.fetch /\ r.wb = q.wb /\ r.head = q.head /\ r.tail = q.tail
  BY <1>1, <1>3, Zenon DEF CacheType
<1>6. HeadSeq(r) = HeadSeq(q) /\ CacheSeq(r) = CacheSeq(q) /\ FetchSeq(r) = FetchSeq(q)
  BY <1>5, Zenon DEF HeadSeq, CacheSeq, FetchSeq
<1>7. \A f \in PktEngines : r.processing[f].desc # NULL =>
           r.processing[f].desc = IF r.processing[f].done THEN U[r.processing[f].seqIdx]
                                                          ELSE A[r.processing[f].seqIdx]
  <2>1. \A f \in PktEngines : q.processing[f].desc # NULL =>
           q.processing[f].desc = IF q.processing[f].done THEN U[q.processing[f].seqIdx]
                                                          ELSE A[q.processing[f].seqIdx]
    BY <1>1, Zenon DEF CacheInOrder
  <2> SUFFICES ASSUME NEW f \in PktEngines, p[f].desc # NULL
               PROVE  p[f].desc = IF p[f].done THEN U[p[f].seqIdx] ELSE A[p[f].seqIdx]
    BY <1>5, Zenon
  <2>2. CASE f = e
    BY <1>4, <2>2, Zenon
  <2>3. CASE f # e
    BY <1>4, <2>1, <2>3, Zenon
  <2> QED
    BY <2>2, <2>3
<1>8. CacheInOrder(r, A, U)
  <2>1. /\ HeadSeq(q) \in Nat /\ q.head = HeadSeq(q) % DescLen
        /\ \A i \in 1 .. Len(q.used) : q.used[i] = U[HeadSeq(q) + (i - 1)]
        /\ \A i \in 1 .. Len(q.unused) : q.unused[i] = A[q.nextSeqToProcess + (i - 1)]
        /\ BufsInOrder(q.wb, HeadSeq(q), U) /\ BufsInOrder(q.fetch, CacheSeq(q), A)
    BY <1>1, Zenon DEF CacheInOrder
  <2> QED
    BY <1>5, <1>6, <1>7, <2>1, Zenon DEF CacheInOrder
<1>9. WithinGiven(r, g)
  BY <1>1, <1>5, <1>6, Zenon DEF WithinGiven
<1>10. \A b : Written(r, b) <=> Written(q, b)
  BY <1>5, <1>6, Zenon DEF Written
<1> QED
  BY <1>5, <1>8, <1>9, <1>10 DEF Ordered, r

(* Finished descriptors become used, in order. *)
LEMMA ManageOrder ==
    ASSUME NEW T, NEW q, CacheInv(T, q), NULL \notin T,
           NEW A, NEW U, NEW g \in Nat, Ordered(q, A, U, g)
    PROVE  LET r == manageUsedCache(q) IN
           /\ Ordered(r, A, U, g)
           /\ r.nextSeqToProcess = q.nextSeqToProcess
           /\ r.nextSeqToWriteback \in Nat /\ q.nextSeqToWriteback <= r.nextSeqToWriteback
           /\ \A t \in q.nextSeqToWriteback .. (r.nextSeqToWriteback - 1) :
                 \E e \in PktEngines : q.processing[e].done /\ q.processing[e].seqIdx = t
           /\ \A b : Written(r, b) <=> Written(q, b)
<1> DEFINE s     == q.nextSeqToWriteback
           stop  == FirstNotDone(q)
           moved == UNION {DoneEngine(q, t) : t \in s .. (stop - 1)}
           engine(t) == CHOOSE e \in DoneEngine(q, t) : TRUE
           new   == [i \in 1 .. (stop - s) |-> q.processing[engine(s + i - 1)].desc]
           u     == q.used \o new
           p     == [e \in PktEngines |-> IF e \in moved THEN NoEntry ELSE q.processing[e]]
           r     == manageUsedCache(q)
           len   == Len(q.used)
           h     == HeadSeq(q)
<1>1. q \in CacheType(T) /\ CacheInOrder(q, A, U) /\ WithinGiven(q, g) /\ ProcessingInOrder(q)
  BY DEF CacheInv, Ordered
<1>2. /\ stop \in s .. q.nextSeqToProcess
      /\ \A t \in s .. (stop - 1) : DoneEngine(q, t) # {}
  BY FirstNotDoneFound
<1>3. s \in Nat /\ q.nextSeqToProcess \in Nat
  BY ProcessingFacts
<1>4. q.used \in Seq(T) /\ len \in Nat
  BY CacheFacts
<1>5. h \in Nat /\ h + len = s
  BY <1>1, OrderFacts
<1>6. r = [q EXCEPT !.used = u, !.processing = p, !.nextSeqToWriteback = stop]
  BY Zenon DEF manageUsedCache
<1>7. \A t : \A e \in DoneEngine(q, t) : /\ e \in PktEngines /\ q.processing[e].done
                                         /\ q.processing[e].seqIdx = t
  BY Zenon DEF DoneEngine
<1>8. \A e \in PktEngines : q.processing[e].done => q.processing[e].desc # NULL
  BY <1>1 DEF ProcessingInOrder
<1>9. \A e \in PktEngines : q.processing[e].desc # NULL =>
           q.processing[e].desc = IF q.processing[e].done THEN U[q.processing[e].seqIdx]
                                                          ELSE A[q.processing[e].seqIdx]
  BY <1>1, Zenon DEF CacheInOrder
<1>10. \A t \in s .. (stop - 1) :
           /\ engine(t) \in PktEngines /\ q.processing[engine(t)].done
           /\ q.processing[engine(t)].seqIdx = t
           /\ q.processing[engine(t)].desc = U[t]
  <2> SUFFICES ASSUME NEW t \in s .. (stop - 1)
               PROVE  /\ engine(t) \in PktEngines /\ q.processing[engine(t)].done
                      /\ q.processing[engine(t)].seqIdx = t
                      /\ q.processing[engine(t)].desc = U[t]
    OBVIOUS
  <2>1. \E e \in DoneEngine(q, t) : TRUE
    BY <1>2
  <2>2. engine(t) \in DoneEngine(q, t)
    BY <2>1, Zenon
  <2> HIDE DEF engine
  <2>3. /\ engine(t) \in PktEngines /\ q.processing[engine(t)].done
        /\ q.processing[engine(t)].seqIdx = t
    BY <1>7, <2>2, Zenon
  <2>4. q.processing[engine(t)].desc = U[t]
    BY <1>8, <1>9, <2>3, Zenon
  <2> QED
    BY <2>3, <2>4
<1> HIDE DEF s, stop, moved, engine, r, len, h
<1>11. stop \in Nat /\ s <= stop /\ stop - s \in Nat
  BY <1>2, <1>3
<1>12. \A i \in 1 .. (stop - s) : new[i] = U[s + (i - 1)]
  <2> SUFFICES ASSUME NEW i \in 1 .. (stop - s) PROVE new[i] = U[s + (i - 1)]
    OBVIOUS
  <2>1. s + i - 1 \in s .. (stop - 1) /\ s + i - 1 = s + (i - 1)
    BY <1>3, <1>11
  <2>2. new[i] = q.processing[engine(s + i - 1)].desc
    OBVIOUS
  <2> QED
    BY <1>10, <2>1, <2>2
<1>13. new \in Seq(T) /\ Len(new) = stop - s
  <2>0. NULL \notin T /\ \A e \in PktEngines : q.processing[e].desc \in T \cup {NULL}
    BY ProcessingFacts
  <2>1. \A i \in 1 .. (stop - s) : s + i - 1 \in s .. (stop - 1)
    BY <1>3, <1>11
  <2>2. \A t \in s .. (stop - 1) : q.processing[engine(t)].desc \in T
    BY <1>8, <1>10, <2>0, Zenon
  <2>3. \A i \in 1 .. (stop - s) : q.processing[engine(s + i - 1)].desc \in T
    BY <2>1, <2>2
  <2>4. new \in [1 .. (stop - s) -> T]
    BY <2>3
  <2> HIDE DEF new
  <2> QED
    BY <1>11, <2>4, FcnIsSeq
<1> HIDE DEF new
<1>14. /\ Len(u) = len + (stop - s)
       /\ \A i \in 1 .. len + (stop - s) : u[i] = IF i <= len THEN q.used[i] ELSE new[i - len]
  <2>1. u = q.used \o new
    OBVIOUS
  <2> HIDE DEF new, u
  <2> QED
    BY ZenonT(60), <1>4, <1>13, <2>1, ConcatProperties DEF len
<1> HIDE DEF u
<1>15. \A e \in PktEngines : p[e] = IF e \in moved THEN NoEntry ELSE q.processing[e]
  OBVIOUS
<1> HIDE DEF p
<1>16. /\ r.used = u /\ r.processing = p /\ r.nextSeqToWriteback = stop
       /\ r.nextSeqToProcess = q.nextSeqToProcess /\ r.unused = q.unused
       /\ r.fetch = q.fetch /\ r.wb = q.wb /\ r.head = q.head /\ r.tail = q.tail
  BY <1>1, <1>6, Zenon DEF CacheType
<1>17. HeadSeq(r) = h /\ CacheSeq(r) = CacheSeq(q) /\ FetchSeq(r) = FetchSeq(q)
  <2>1. HeadSeq(r) = stop - (len + (stop - s))
    BY <1>14, <1>16 DEF HeadSeq
  <2>2. stop - (len + (stop - s)) = h
    BY <1>3, <1>4, <1>5, <1>11
  <2>3. CacheSeq(r) = CacheSeq(q)
    BY <1>16, Zenon DEF CacheSeq
  <2> QED
    BY <1>16, <2>1, <2>2, <2>3, Zenon DEF FetchSeq
<1>18. \A i \in 1 .. Len(r.used) : r.used[i] = U[h + (i - 1)]
  <2>0. \A i \in 1 .. len : q.used[i] = U[h + (i - 1)]
    BY <1>1 DEF CacheInOrder, len, h
  <2> SUFFICES ASSUME NEW i \in 1 .. len + (stop - s) PROVE u[i] = U[h + (i - 1)]
    BY <1>14, <1>16
  <2>1. CASE i <= len
    <3>1. i \in 1 .. len
      BY <1>4, <1>11, <2>1
    <3> QED
      BY <1>14, <2>0, <2>1, <3>1
  <2>2. CASE ~ (i <= len)
    <3>1. i - len \in 1 .. (stop - s) /\ s + ((i - len) - 1) = h + (i - 1)
      BY <1>3, <1>4, <1>5, <1>11, <2>2
    <3>2. new[i - len] = U[s + ((i - len) - 1)]
      BY <1>12, <3>1
    <3> QED
      BY <1>14, <2>2, <3>1, <3>2
  <2> QED
    BY <2>1, <2>2
<1>19. NoEntry.desc = NULL
  BY DEF NoEntry
<1>20. \A e \in PktEngines : r.processing[e].desc # NULL =>
           r.processing[e].desc = IF r.processing[e].done THEN U[r.processing[e].seqIdx]
                                                          ELSE A[r.processing[e].seqIdx]
  BY <1>9, <1>15, <1>16, <1>19, Zenon
<1>21. CacheInOrder(r, A, U)
  <2>1. /\ HeadSeq(q) \in Nat /\ q.head = HeadSeq(q) % DescLen
        /\ \A i \in 1 .. Len(q.unused) : q.unused[i] = A[q.nextSeqToProcess + (i - 1)]
        /\ BufsInOrder(q.wb, HeadSeq(q), U) /\ BufsInOrder(q.fetch, CacheSeq(q), A)
    BY <1>1, Zenon DEF CacheInOrder
  <2> QED
    BY <1>16, <1>17, <1>18, <1>20, <2>1, Zenon DEF CacheInOrder, h
<1>22. WithinGiven(r, g)
  <2>1. q.tail = g % DescLen /\ FetchSeq(q) <= g /\ g < s + DescLen
    BY <1>1 DEF WithinGiven, s
  <2>2. g < stop + DescLen
    BY <1>3, <1>11, <2>1, DescLenAssumption
  <2> QED
    BY <1>16, <1>17, <2>1, <2>2, Zenon DEF WithinGiven
<1>23. \A b : Written(r, b) <=> Written(q, b)
  BY <1>16, <1>17, Zenon DEF Written, h
<1>24. \A t \in s .. (stop - 1) :
           \E e \in PktEngines : q.processing[e].done /\ q.processing[e].seqIdx = t
  BY <1>10, Zenon
<1> QED
  BY <1>11, <1>16, <1>21, <1>22, <1>23, <1>24 DEF Ordered, r, s

(* The cache as constructed, with the tail of a ring of which the driver   *)
(* has given every slot but one.                                           *)
LEMMA EmptyCacheOrder ==
    ASSUME NEW A, NEW U
    PROVE  LET q == [EmptyCache EXCEPT !.tail = DescLen - 1] IN
           /\ Ordered(q, A, U, DescLen - 1)
           /\ q.nextSeqToProcess = 0 /\ q.nextSeqToWriteback = 0
           /\ q.processing = [e \in PktEngines |-> NoEntry]
           /\ \A b \in Nat : ~ Written(q, b)
<1> DEFINE q == [EmptyCache EXCEPT !.tail = DescLen - 1]
           j == NoJobs
<1>1. /\ q.used = <<>> /\ q.unused = <<>> /\ q.wb = j /\ q.fetch = j
      /\ q.head = 0 /\ q.nextSeqToProcess = 0 /\ q.nextSeqToWriteback = 0
      /\ q.processing = [e \in PktEngines |-> NoEntry] /\ q.tail = DescLen - 1
  BY DEF EmptyCache
<1>2. j.queue = <<>> /\ j.ing = 0
  BY DEF NoJobs
<1> HIDE DEF q, j
<1>3. Len(q.used) = 0 /\ Len(q.unused) = 0 /\ Len(j.queue) = 0
  BY <1>1, <1>2
<1>4. HeadSeq(q) = 0 /\ CacheSeq(q) = 0 /\ FetchSeq(q) = 0
  <2>1. HeadSeq(q) = 0 - 0 /\ CacheSeq(q) = 0 + 0
    BY <1>1, <1>3, Zenon DEF HeadSeq, CacheSeq
  <2>2. FetchSeq(q) = CacheSeq(q) + 0
    BY <1>1, <1>2, Zenon DEF FetchSeq
  <2> QED
    BY <2>1, <2>2
<1>5. 0 % DescLen = 0 /\ (DescLen - 1) % DescLen = DescLen - 1
  <2>1. 0 \in 0 .. DescLen - 1 /\ DescLen - 1 \in 0 .. DescLen - 1
    BY DescLenAssumption
  <2>2. \A r \in 0 .. DescLen - 1 : ((DescLen * 0) + r) % DescLen = r
    BY ModUnique, DescLenAssumption
  <2>3. \A r \in 0 .. DescLen - 1 : (DescLen * 0) + r = r
    BY DescLenAssumption
  <2> QED
    BY <2>1, <2>2, <2>3
<1>6. \A s, W : BufsInOrder(j, s, W)
  BY <1>3 DEF BufsInOrder
<1>7. \A e \in PktEngines : q.processing[e].desc = NULL
  BY <1>1 DEF NoEntry
<1>8. CacheInOrder(q, A, U)
  BY <1>1, <1>3, <1>4, <1>5, <1>6, <1>7 DEF CacheInOrder
<1>9. WithinGiven(q, DescLen - 1)
  BY <1>1, <1>4, <1>5, DescLenAssumption DEF WithinGiven
<1>10. \A b \in Nat : ~ Written(q, b)
  BY <1>1, <1>3, <1>4 DEF Written, Reached
<1> QED
  BY <1>1, <1>8, <1>9, <1>10 DEF Ordered, q

=============================================================================
