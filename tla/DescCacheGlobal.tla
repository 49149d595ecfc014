-------------------------- MODULE DescCacheGlobal --------------------------
(***************************************************************************)
(* The descriptor cache of one queue of the gem5 IGbE network card,        *)
(* template class DescCacheGlobal (src/gem5/src/dev/net/i8254xGBe.cc and   *)
(* .hh).  The cache is one record q; the operators below are its methods:  *)
(* each takes the cache before the call and gives the cache after it, so   *)
(* that a handler which calls several of them is one step.                 *)
(*                                                                         *)
(*   used, unused         usedCache, unusedCache                           *)
(*   processing           processingCache: per packet DMA engine           *)
(*   nextSeqToProcess, nextSeqToWriteback                                  *)
(*   cachePnt             how far the ring has been cached                 *)
(*   moreToWb, wbAlignment                                                 *)
(*   fetch, wb            the two banks of descriptor DMA engines          *)
(*   head, tail           the queue's head and tail registers              *)
(***************************************************************************)
EXTENDS DescDMAJobs

CONSTANTS
    CacheSize,      \* size: descriptors the cache may hold
    NumDMAEngines,  \* numDMAEngines: packet DMA engines
    NULL            \* the null descriptor, the null packet

ASSUME CacheSizeAssumption == CacheSize \in Nat \ {0}
ASSUME NumDMAEnginesAssumption == NumDMAEngines \in Nat \ {0}

PktEngines == 0 .. NumDMAEngines - 1

NoEntry == [desc |-> NULL, seqIdx |-> 0, done |-> FALSE]

(* The alignment masks in use with 64-byte cache lines (four descriptors): *)
(* WTHRESH - 1 for WTHRESH < 4, which is all ones for WTHRESH = 0, and 3.  *)
AllOnes == -1
WbMasks == {AllOnes, 0, 1, 2, 3}

(* The caches of descriptors of type T. *)
CacheType(T) ==
    [used               : Seq(T),
     unused             : Seq(T),
     processing         : [PktEngines -> [desc : T \cup {NULL}, seqIdx : Nat, done : BOOLEAN]],
     nextSeqToProcess   : Nat,
     nextSeqToWriteback : Nat,
     cachePnt           : Slots,
     moreToWb           : BOOLEAN,
     wbAlignment        : WbMasks,
     fetch              : JobsType(T),
     wb                 : JobsType(T),
     head               : Slots,
     tail               : Slots]

(* The cache as the constructor leaves it. *)
EmptyCache ==
    [used               |-> <<>>,
     unused             |-> <<>>,
     processing         |-> [e \in PktEngines |-> NoEntry],
     nextSeqToProcess   |-> 0,
     nextSeqToWriteback |-> 0,
     cachePnt           |-> 0,
     moreToWb           |-> FALSE,
     wbAlignment        |-> 0,
     fetch              |-> NoJobs,
     wb                 |-> NoJobs,
     head               |-> 0,
     tail               |-> 0]

-----------------------------------------------------------------------------
descProcessing(q) == Cardinality({e \in PktEngines : q.processing[e].desc # NULL})

descUsed(q) == Len(q.used)

descUnused(q) == Len(q.unused) + descProcessing(q)

(* Descriptors the driver has given that have not been filled yet. *)
descLeft(q) ==
    descUnused(q) + (IF q.cachePnt > q.tail THEN DescLen - q.cachePnt + q.tail
                                            ELSE q.tail - q.cachePnt)

-----------------------------------------------------------------------------
(* n & ~mask *)
AndNot(n, mask) ==
    CASE mask = 0 -> n
      [] mask = 1 -> n - (n % 2)
      [] mask = 2 -> n - 2 * ((n \div 2) % 2)
      [] mask = 3 -> n - (n % 4)
      [] OTHER    -> 0

(* How many used descriptors have not been handed to a write-back engine.  *)
NotYetWriting(q) == Len(q.used) - q.wb.ing

WbReachesEnd(q) == NotYetWriting(q) + q.wb.pnt >= DescLen

MaxToWb(q, mask) ==
    IF WbReachesEnd(q) THEN DescLen - q.wb.pnt ELSE AndNot(NotYetWriting(q), mask)

(* The copy of the descriptors to write back: those after the ones that are*)
(* being written.  Wrong: one too few.                                     *)
WbBufShort(q, n) == SubSeq(q.used, q.wb.ing + 1, q.wb.ing + n - 1)
WbBuf(q, n) == SubSeq(q.used, q.wb.ing + 1, q.wb.ing + n)

(* Start a write-back of the used descriptors no engine has yet, up to the *)
(* end of the ring or rounded down by the mask.  moreToWb asks the next    *)
(* write-back completion to call this again with the same mask.            *)
writebackGlobal(q, mask) ==
    LET n == MaxToWb(q, mask) IN
    CASE n <= 0 ->
           [q EXCEPT !.moreToWb = WbReachesEnd(q), !.wbAlignment = mask]
      [] n > 0 /\ ~ hasFreeEngine(q.wb) ->
           [q EXCEPT !.moreToWb = TRUE, !.wbAlignment = mask]
      [] n > 0 /\ hasFreeEngine(q.wb) ->
           [q EXCEPT !.moreToWb = WbReachesEnd(q), !.wbAlignment = mask,
                     !.wb = Register(@, n, WbBuf(q, n))]

-----------------------------------------------------------------------------
(* What the driver has given beyond the fetch pointer, up to the end of the*)
(* ring.  The tail is the first slot that is not the card's: a fetch that  *)
(* took it too would be wrong.                                             *)
InRingThroughTail(q) ==
    IF q.tail >= q.fetch.pnt THEN q.tail - q.fetch.pnt + 1 ELSE DescLen - q.fetch.pnt

InRing(q) == IF q.tail >= q.fetch.pnt THEN q.tail - q.fetch.pnt
                                      ELSE DescLen - q.fetch.pnt

totalUsed(q) == Len(q.used) + Len(q.unused) + descProcessing(q) + q.fetch.ing

free_cache(q) == IF CacheSize >= totalUsed(q) THEN CacheSize - totalUsed(q) ELSE 0

MaxToFetch(q) == IF InRing(q) <= free_cache(q) THEN InRing(q) ELSE free_cache(q)

(* Start a fetch of what the driver has given beyond the fetch pointer, up *)
(* to the end of the ring, as far as the cache has room.                   *)
fetchDescriptorsGlobal(q) ==
    IF MaxToFetch(q) = 0 \/ ~ hasFreeEngine(q.fetch) THEN q
    ELSE [q EXCEPT !.fetch = Register(@, MaxToFetch(q), <<>>)]

(* Conditional calls. *)
WbIf(c, q, mask) == IF c THEN writebackGlobal(q, mask) ELSE q
FetchIf(c, q) == IF c THEN fetchDescriptorsGlobal(q) ELSE q

-----------------------------------------------------------------------------
(* The write-back completion of engine e, up to its call of checkDrain:    *)
(* the retired jobs' descriptors leave the used cache and move the head,   *)
(* then a write-back that was cut short is taken up again.  Wrong: the head*)
(* moves by e's own job only; the cut-short write-back is forgotten.       *)
wbRetireOwnJob(q, e) ==
    LET n == RetiredDescs(q.wb, e) IN
    [q EXCEPT !.wb   = Complete(@, e),
              !.used = SubSeq(@, n + 1, Len(@)),
              !.head = (@ + (IF n = 0 THEN 0 ELSE q.wb.num[e])) % DescLen]

wbRetire(q, e) ==
    LET n == RetiredDescs(q.wb, e) IN
    [q EXCEPT !.wb   = Complete(@, e),
              !.used = SubSeq(@, n + 1, Len(@)),
              !.head = (@ + n) % DescLen]

wbCompleteForgets(q, e) == wbRetire(q, e)

wbCompleteGlobal(q, e) ==
    LET r == wbRetire(q, e) IN
    WbIf(r.moreToWb, [r EXCEPT !.moreToWb = FALSE], r.wbAlignment)

(* The fetch completion of engine e, up to its call of enableSm.  Wrong:   *)
(* cachePnt does not wrap.                                                 *)
fetchCompleteNoWrap(q, e) ==
    [q EXCEPT !.fetch    = Complete(@, e),
              !.unused   = @ \o RetiredBuf(q.fetch, e),
              !.cachePnt = @ + RetiredDescs(q.fetch, e)]

fetchCompleteGlobal(q, e) ==
    [q EXCEPT !.fetch    = Complete(@, e),
              !.unused   = @ \o RetiredBuf(q.fetch, e),
              !.cachePnt = (@ + RetiredDescs(q.fetch, e)) % DescLen]

-----------------------------------------------------------------------------
(* A packet DMA engine takes the oldest unused descriptor. *)
TakeDesc(q, e) ==
    [q EXCEPT !.processing[e] = [desc   |-> Head(q.unused),
                                 seqIdx |-> q.nextSeqToProcess,
                                 done   |-> FALSE],
              !.nextSeqToProcess = @ + 1,
              !.unused = Tail(@)]

(* The engine has moved the packet, and its descriptor has become d. *)
FinishDesc(q, e, d) ==
    [q EXCEPT !.processing[e] = [desc   |-> d,
                                 seqIdx |-> q.processing[e].seqIdx,
                                 done   |-> TRUE]]

DoneEngine(q, s) ==
    {e \in PktEngines : q.processing[e].done /\ q.processing[e].seqIdx = s}

(* The first sequence number that is not finished.  Wrong: look at one     *)
(* sequence number only.                                                   *)
FirstNotDoneOnce(q) ==
    IF DoneEngine(q, q.nextSeqToWriteback) = {} THEN q.nextSeqToWriteback
    ELSE q.nextSeqToWriteback + 1

FirstNotDone(q) ==
    CHOOSE s \in q.nextSeqToWriteback .. q.nextSeqToProcess :
        /\ \A t \in q.nextSeqToWriteback .. (s - 1) : DoneEngine(q, t) # {}
        /\ DoneEngine(q, s) = {}

(* Finished descriptors move to the used cache in the order in which the   *)
(* packets took them, whatever the order in which the engines finish.      *)
(* Wrong: whichever has finished moves.                                    *)
manageUsedCacheUnordered(q) ==
    LET e == CHOOSE e \in PktEngines : q.processing[e].done IN
    [q EXCEPT !.used = Append(@, q.processing[e].desc),
              !.processing[e] = NoEntry,
              !.nextSeqToWriteback = @ + 1]

manageUsedCache(q) ==
    LET s     == q.nextSeqToWriteback
        stop  == FirstNotDone(q)
        moved == UNION {DoneEngine(q, t) : t \in s .. (stop - 1)}
        engine(t) == CHOOSE e \in DoneEngine(q, t) : TRUE
    IN  [q EXCEPT
            !.used = @ \o [i \in 1 .. (stop - s) |-> q.processing[engine(s + i - 1)].desc],
            !.processing = [e \in PktEngines |-> IF e \in moved THEN NoEntry ELSE @[e]],
            !.nextSeqToWriteback = stop]

-----------------------------------------------------------------------------
(* What holds of a cache between two calls. *)

(* The pointers of the ring and the counters of the cache tell the same    *)
(* story: the used, processing and unused descriptors follow one another   *)
(* on the ring from the head to cachePnt, none is being written back that  *)
(* is not used, and the cache never holds or awaits more than its size.    *)
PointersAgree(q) ==
    /\ q.wb.ing <= descUsed(q)
    /\ q.cachePnt = (q.head + (descUsed(q) + descUnused(q))) % DescLen
    /\ totalUsed(q) <= CacheSize

(* The write-backs start at the head and the fetches at cachePnt, each bank*)
(* without a gap up to its own pointer.                                    *)
BanksContiguous(q) ==
    /\ JobsContiguous(q.wb, q.head)
    /\ JobsContiguous(q.fetch, q.cachePnt)

(* The descriptors in process have the sequence numbers from the next to   *)
(* retire to the last given, one each.                                     *)
ProcessingInOrder(q) ==
    /\ \A e \in PktEngines :
          /\ q.processing[e].done => q.processing[e].desc # NULL
          /\ q.processing[e].desc # NULL =>
                /\ q.nextSeqToWriteback <= q.processing[e].seqIdx
                /\ q.processing[e].seqIdx < q.nextSeqToProcess
    /\ \A e, f \in PktEngines :
          /\ q.processing[e].desc # NULL /\ q.processing[f].desc # NULL
          /\ q.processing[e].seqIdx = q.processing[f].seqIdx
          => e = f
    /\ q.nextSeqToProcess = q.nextSeqToWriteback + descProcessing(q)

(* A write-back's buffer holds all its descriptors from the start, that of *)
(* a fetch what memory has delivered.                                      *)
BuffersFilled(q) ==
    /\ TransfersAgree(q.wb) /\ TransfersAgree(q.fetch)
    /\ \A e \in DescEngines :
          /\ q.wb.working[e] => Len(q.wb.buf[e]) = q.wb.num[e]
          /\ q.fetch.working[e] =>
                Len(q.fetch.buf[e]) = IF q.fetch.done[e] THEN q.fetch.num[e]
                                                         ELSE q.fetch.moved[e]

CacheInv(T, q) ==
    /\ q \in CacheType(T)
    /\ PointersAgree(q)
    /\ BanksContiguous(q)
    /\ ProcessingInOrder(q)
    /\ BuffersFilled(q)

=============================================================================
