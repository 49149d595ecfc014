------------------------------- MODULE DTARx --------------------------------
(***************************************************************************)
(* The receive side of the Data Transfer Accelerator (DTA), which sits in  *)
(* the I/O cache, with the card that feeds it and the driver it works for: *)
(*   src/gem5/src/mem/cache/base.cc, base.hh     class DTA                 *)
(*   src/gem5/src/dev/net/i8254xGBe.cc, .hh      RxM2funcContext,          *)
(*                                               M2funcPort                *)
(*   src/buildroot/package/dpdk/dpdk-source/drivers/net/e1000/em_rxtx.c    *)
(*                                               eth_em_recv_pkts_m2func_dta *)
(* The driver writes a job (where to report, how many packets, their       *)
(* buffers) to the DTA in flits of 64 bytes.  The DTA reads flits from the *)
(* card, each read carrying the job it is for, hands the packets to        *)
(* workers that write them to the buffers line by line, then writes the    *)
(* descriptors and last the completion word the driver polls.              *)
(*                                                                         *)
(* A packet is [id, len].  Lengths are in units of 16 bytes, the size of   *)
(* a descriptor; a flit and a cache line have four.  A write that misses   *)
(* in the I/O cache waits in an MSHR until the line is there; lines come   *)
(* in any order.                                                           *)
(*                                                                         *)
(* Only receive jobs are submitted, and the system is in timing mode.  DTA *)
(* and card run from one clock: at most one answer reaches the DTA between *)
(* two of its ticks.  The processor's next store to the DTA arrives after  *)
(* the DTA has parsed the one before it.  No flit of a packet is all       *)
(* zeros, which the DTA would take for the answer that there is no packet. *)
(***************************************************************************)
EXTENDS Integers, Sequences, FiniteSets

LOCAL INSTANCE SequencesExt

CONSTANTS
    JobSizes,       \* packets (and buffers) of a job: the burst of the driver
    EarlyLargeJobs, \* may jobs of several flits come before the first packet
    FirstN,         \* buffers named in the first flit of a job (6)
    NumContexts,    \* rx_context_list_size (10)
    NumWorkers,     \* numDTARXWorker
    DescPerLine,    \* descriptors in a cache line (4)
    RxFifoSize,     \* rxContextFifoSize (2)
    ReqBufSize,     \* numFreeCXLReqMax (1024)
    NumMSHRs,       \* mshrs of the I/O cache (20)
    Traffic,        \* the packets that may arrive, each by its length
    MaxJobs,        \* bound: jobs submitted
    MaxGiveUps      \* bound: jobs the driver stops waiting for

(* A context is always free for the next job, and a flit that carries on a *)
(* job names two buffers or more (32 packets a job: 6, 8, 8, 8 and 2).  No *)
(* frame is shorter than what the first flit has room for (48 bytes).      *)
ASSUME DTAAssumption ==
    /\ {FirstN, NumContexts, NumWorkers, DescPerLine, RxFifoSize,
        ReqBufSize, NumMSHRs, MaxJobs} \subseteq Nat \ {0}
    /\ JobSizes \subseteq Nat \ {0} /\ Traffic \subseteq Seq(Nat \ 0 .. 2)
    /\ Traffic # {} /\ \A t, u \in Traffic : Len(t) = Len(u)
    /\ EarlyLargeJobs \in BOOLEAN
    /\ MaxGiveUps \in Nat /\ MaxGiveUps < NumContexts
    /\ \A n \in JobSizes : n > FirstN => (n - FirstN) % (FirstN + 2) # 1

VARIABLES
    dta,            \* queues and contexts of the DTA
    workers,        \* dtaRXWorkerList
    mshrQueue,      \* writes that wait in the cache for their line
    dmaOut,         \* answers of the cache to each worker (DMARespWaitingQueue)
    nic,            \* rxM2funcContextArray[queue] and rxPacketArray[queue]
    resps,          \* answers of the card on their way to the DTA
    mem,            \* completion word, descriptors and buffers
    drv,            \* the driver
    coming,         \* packets that have yet to arrive
    delivered,      \* history: what the application was given
    aborted         \* the asserts and panics of the simulator that have fired

vars == <<dta, workers, mshrQueue, dmaOut, nic, resps, mem, drv, coming, delivered, aborted>>

Contexts == 1 .. NumContexts
Workers == 1 .. NumWorkers
Bufs == 1 .. Max(JobSizes)

(* Words of a job flit.  An address is larger than any count of packets.   *)
countLimit == 1024
BufAddr(i) == countLimit + i
CompletionAddr == countLimit + Max(JobSizes) + 1
RestN == FirstN + 2
cxlReqQueueMaxSize == 1024

descLen == 1
flitSize == 4
cacheLineSize == 4
CeilDiv(a, b) == (a + b - 1) \div b

(* The card pads a packet and its descriptor to whole flits.               *)
Flits(len) == CeilDiv(descLen + len, flitSize)

NoPkt == [id |-> 0, len |-> 0]

Running == aborted = {}
Failing(assert, holds) == IF holds THEN {} ELSE {assert}

-----------------------------------------------------------------------------
(* Contexts of the DTA.                                                    *)

clearDTARXContext ==
    [valid |-> FALSE, job |-> 0, completion_stage |-> FALSE, completion_addr |-> 0,
     nb_pkts |-> 0, mbuf_addr |-> <<>>, n_recv |-> 0, num_free |-> 0, lastWorker |-> 1,
     extra_needed |-> 0, extra_received |-> 0, n_desc |-> 0,
     RXDescMap |-> <<>>, RXComplete |-> {}]

IsInitializing(c) == c.valid /\ Len(c.mbuf_addr) < c.nb_pkts

getInitializationStageRXContextID(d) == {i \in Contexts : IsInitializing(d.ctx[i])}

(* The context the next job flit belongs to: the one still being           *)
(* initialised, or the first that is not in use.                           *)
getParsingTargetRXContextID(d) ==
    LET init == getInitializationStageRXContextID(d)
        unused == {i \in Contexts : ~d.ctx[i].valid}
    IN  IF init # {} THEN init ELSE {i \in unused : \A j \in unused : i <= j}

FrontID(d) == Head(d.rxContextIDQueue)

(* The job at the front is the only one the DTA works on.                  *)
IsFrontJob(d, job) ==
    /\ d.rxContextIDQueue # <<>>
    /\ d.ctx[FrontID(d)].valid /\ d.ctx[FrontID(d)].job = job

PopContext(d) ==
    [d EXCEPT !.ctx[FrontID(d)] = clearDTARXContext,
              !.rxContextIDQueue = Tail(d.rxContextIDQueue)]

(* Writes for the cache: the completion word, a line of descriptors, a     *)
(* line of a packet.                                                       *)
CompletionWrite(v) == [kind |-> "completion", value |-> v]
DescWrite(first, pkts) == [kind |-> "desc", first |-> first, pkts |-> pkts]
DataWrite(w, buf, pkt, line) ==
    [kind |-> "data", worker |-> w, buf |-> buf, pkt |-> pkt, line |-> line]

pushIOCacheRequestQueue(d, write) == [d EXCEPT !.io = Append(d.io, write)]

(* parseJobRequestAndSetContext on a flit that opens a job.                *)
OpenContext(d, i, flit) ==
    LET nb == flit[2]
        n == Min({nb, FirstN})
        c == [clearDTARXContext EXCEPT !.valid = TRUE, !.job = d.global_rx_job_id + 1,
                !.completion_addr = flit[1], !.nb_pkts = nb,
                !.mbuf_addr = SubSeq(flit, 3, 2 + n)]
    IN  pushIOCacheRequestQueue(
            [d EXCEPT !.ctx[i] = c, !.global_rx_job_id = c.job,
                      !.rxContextIDQueue = Append(d.rxContextIDQueue, i)],
            CompletionWrite(0))

(* ... and on one that carries a job on.  The last flit also writes a      *)
(* count the driver does not take for an end, so that it keeps waiting.    *)
(* Wrong: it writes the number of buffers.                                 *)
ExtendContextWithCount(d, i, flit) ==
    LET c == d.ctx[i]
        n == Min({RestN, c.nb_pkts - Len(c.mbuf_addr)})
        e == [d EXCEPT !.ctx[i].mbuf_addr = c.mbuf_addr \o SubSeq(flit, 1, n)]
    IN  IF IsInitializing(e.ctx[i]) THEN e
        ELSE pushIOCacheRequestQueue(e, CompletionWrite(c.nb_pkts))

ExtendContext(d, i, flit) ==
    LET c == d.ctx[i]
        n == Min({RestN, c.nb_pkts - Len(c.mbuf_addr)})
        e == [d EXCEPT !.ctx[i].mbuf_addr = c.mbuf_addr \o SubSeq(flit, 1, n)]
    IN  IF IsInitializing(e.ctx[i]) THEN e
        ELSE pushIOCacheRequestQueue(e, CompletionWrite(IF c.n_recv = 0 THEN 1 ELSE c.n_recv))

checkSubmissionQueue(d) ==
    IF d.rxJobSubmissionQueue = <<>> \/ getParsingTargetRXContextID(d) = {}
    THEN d
    ELSE LET i == CHOOSE j \in getParsingTargetRXContextID(d) : TRUE
             flit == Head(d.rxJobSubmissionQueue)
             e == IF d.ctx[i].valid THEN ExtendContext(d, i, flit) ELSE OpenContext(d, i, flit)
         IN  [e EXCEPT !.rxJobSubmissionQueue = Tail(d.rxJobSubmissionQueue)]

(* recvTimingReq: while no context is being initialised a flit whose       *)
(* second word is no count belongs to a job whose beginning was lost, and  *)
(* is dropped.  Wrong: every flit is taken.                                *)
IsValidJobAlways(d, flit) == TRUE

IsValidJob(d, flit) ==
    getInitializationStageRXContextID(d) # {} \/ flit[2] <= countLimit

recvTimingReq(d, flit) ==
    IF IsValidJob(d, flit)
    THEN [d EXCEPT !.rxJobSubmissionQueue = Append(d.rxJobSubmissionQueue, flit), !.rxTick = TRUE]
    ELSE d

-----------------------------------------------------------------------------
(* Reads from the card.                                                    *)

(* What checkThreshold asserts of the front context.                       *)
ThresholdAsserts(c) ==
    IF ~c.valid THEN {}
    ELSE Failing("extra", c.extra_needed >= c.extra_received)
         \union Failing("n_recv", Len(c.mbuf_addr) >= c.n_recv)

checkThreshold(c) ==
    /\ c.valid
    /\ c.num_free < (Len(c.mbuf_addr) - c.n_recv) + (c.extra_needed - c.extra_received)

(* The request at the front goes to the card, which takes it unless its    *)
(* buffer is full; then the DTA waits for a retry.                         *)
SendFront(d, n) ==
    IF d.waitingOnRetry \/ d.cxlReqQueue = <<>> THEN [dta |-> d, nic |-> n]
    ELSE IF Len(n.m2funcCXLReqBuf) < ReqBufSize
    THEN [dta |-> [d EXCEPT !.cxlReqQueue = Tail(d.cxlReqQueue)],
          nic |-> [n EXCEPT !.m2funcCXLReqBuf = Append(n.m2funcCXLReqBuf, Head(d.cxlReqQueue))]]
    ELSE [dta |-> [d EXCEPT !.waitingOnRetry = TRUE], nic |-> n]

sendRequestToNIC(d, n) ==
    LET s == SendFront(d, n)
        f == FrontID(d)
        c == s.dta.ctx[f]
    IN  IF d.rxContextIDQueue # <<>> /\ checkThreshold(c) /\ Len(s.dta.cxlReqQueue) < cxlReqQueueMaxSize
        THEN [s EXCEPT !.dta.cxlReqQueue = Append(s.dta.cxlReqQueue, c.job),
                       !.dta.ctx[f].num_free = c.num_free + 1]
        ELSE s

-----------------------------------------------------------------------------
(* Workers.                                                                *)

freeWorker ==
    [working |-> FALSE, ctx |-> 0, buf |-> 0, pkt |-> NoPkt, got |-> 0, sent |-> 0, done |-> 0]

(* processDTAResponse: the first flit carries the descriptor, which tells  *)
(* how many more are to be read.  Wrong: they are not counted.             *)
processDTAResponseNoExtra(s, w, r) ==
    LET k == s.workers[w]
        pkt == [id |-> r.pkt, len |-> r.len]
        got == flitSize - descLen
    IN  IF r.flit > 1 THEN [s EXCEPT !.workers[w].got = k.got + flitSize]
        ELSE [s EXCEPT !.workers[w].pkt = pkt, !.workers[w].got = got,
                       !.dta.ctx[k.ctx].RXDescMap = (k.buf :> pkt) @@ @]

processDTAResponse(s, w, r) ==
    LET k == s.workers[w]
        pkt == [id |-> r.pkt, len |-> r.len]
        got == flitSize - descLen
    IN  IF r.flit > 1 THEN [s EXCEPT !.workers[w].got = k.got + flitSize]
        ELSE [s EXCEPT !.workers[w].pkt = pkt, !.workers[w].got = got,
                       !.dta.ctx[k.ctx].extra_needed = @ + CeilDiv(r.len - got, flitSize),
                       !.dta.ctx[k.ctx].RXDescMap = (k.buf :> pkt) @@ @]

(* allocateWorkerFromQueue, with findDTARXWorker: a first flit goes to an  *)
(* idle worker, if there is one, and its buffer is the one its number      *)
(* names; another goes to the worker of the flit before it.                *)
allocateWorkerFromQueue(s, i) ==
    LET q == s.dta.workerWaitingQueue
        r == Head(q).resp
        idle == {w \in Workers : ~s.workers[w].working}
        w == Min(idle)
        popped == [s EXCEPT !.dta.workerWaitingQueue = Tail(q)]
    IN  IF q = <<>> THEN s
        ELSE IF r.flit > 1 THEN processDTAResponse(popped, s.dta.ctx[i].lastWorker, r)
        ELSE IF idle = {} THEN s
        ELSE processDTAResponse(
                [popped EXCEPT !.dta.ctx[i].lastWorker = w,
                               !.workers[w] = [freeWorker EXCEPT !.working = TRUE, !.ctx = i,
                                   !.buf = s.dta.ctx[i].mbuf_addr[Head(q).n_recv + 1]]],
                w, r)

(* The panic and the asserts on the way: a flit counts with all its bytes, *)
(* and they must not be more than the descriptor has announced.            *)
AllocateAsserts(s, i) ==
    LET q == s.dta.workerWaitingQueue
        last == s.workers[s.dta.ctx[i].lastWorker]
    IN  IF q = <<>> THEN {}
        ELSE IF Head(q).resp.flit > 1
        THEN Failing("last worker", last.working)
             \union Failing("payload", last.working => last.got + flitSize <= last.pkt.len)
        ELSE Failing("mbuf_addr", (\E w \in Workers : ~s.workers[w].working)
                                     => Head(q).n_recv < Len(s.dta.ctx[i].mbuf_addr))

(* DTAWork sends a line once a whole one is there; the last one, which the *)
(* descriptor's room in the first flit leaves short, once all is there.    *)
WCBufferReadyforDMA(k) ==
    k.working /\ (k.got - k.sent >= cacheLineSize \/ (k.got = k.pkt.len /\ k.got > k.sent))

DTAWork(k) ==
    LET sent == IF WCBufferReadyforDMA(k) THEN Min({k.sent + cacheLineSize, k.got}) ELSE k.sent
    IN  IF k.working /\ sent >= k.pkt.len /\ k.got = k.pkt.len /\ k.done >= k.pkt.len
        THEN freeWorker
        ELSE [k EXCEPT !.sent = sent]

WorkersSend(s) ==
    LET ready == SelectSeq([w \in Workers |-> w], LAMBDA w : WCBufferReadyforDMA(s.workers[w]))
        lines == [j \in 1 .. Len(ready) |->
                    LET k == s.workers[ready[j]]
                    IN  DataWrite(ready[j], k.buf, k.pkt, k.sent \div cacheLineSize + 1)]
    IN  [s EXCEPT !.dta.io = @ \o lines,
                  !.workers = [w \in Workers |-> DTAWork(s.workers[w])]]

-----------------------------------------------------------------------------
(* Completion of a job.                                                    *)

(* All packets have been read from the card and written to memory.         *)
AllDMAed(c) == c.n_recv = c.nb_pkts /\ \A b \in 1 .. c.nb_pkts : c.mbuf_addr[b] \in c.RXComplete

(* The next line of descriptors.                                           *)
NextDescs(c) ==
    LET n == Min({DescPerLine, c.nb_pkts - c.n_desc})
    IN  [j \in 1 .. n |-> c.RXDescMap[c.mbuf_addr[c.n_desc + j]]]

checkRXJobCompletion(d, i) ==
    LET c == d.ctx[i]
        stage == c.completion_stage \/ AllDMAed(c)
        staged == [d EXCEPT !.ctx[i].completion_stage = stage]
    IN  IF ~c.valid \/ ~stage THEN d
        ELSE IF c.n_desc < c.nb_pkts
        THEN pushIOCacheRequestQueue(
                [staged EXCEPT !.ctx[i].n_desc = c.n_desc + Len(NextDescs(c))],
                DescWrite(c.n_desc + 1, NextDescs(c)))
        ELSE PopContext(pushIOCacheRequestQueue(d, CompletionWrite(c.n_recv)))

(* DTARXStateMachine.  front is the job it began with, which               *)
(* checkRXJobCompletion may end.                                           *)
DTARXCheckAndWork(s) ==
    IF s.dta.rxContextIDQueue = <<>> THEN [s |-> s, front |-> 0]
    ELSE [s |-> WorkersSend([s EXCEPT !.dta = checkRXJobCompletion(s.dta, FrontID(s.dta))]),
          front |-> FrontID(s.dta)]

DTARXAllocate(x) == IF x.front = 0 THEN x.s ELSE allocateWorkerFromQueue(x.s, x.front)

(* What the tick asserts, d being the state before it.                     *)
TickAsserts(d, x) ==
    LET c == d.ctx[FrontID(d)]
        first == IF d.rxContextIDQueue = <<>> THEN {}
                 ELSE ThresholdAsserts(c) \union Failing("nb_pkts", c.nb_pkts # 0)
    IN  IF first # {} \/ x.front = 0 THEN first ELSE AllocateAsserts(x.s, x.front)

-----------------------------------------------------------------------------
(* The I/O cache.                                                          *)

(* The line a write is for.                                                *)
LineOf(x) ==
    CASE x.kind = "completion" -> <<"completion">>
      [] x.kind = "desc" -> <<"desc", x.first>>
      [] x.kind = "data" -> <<"data", x.buf, x.line>>

(* satisfyRequest: the line has what a write says.                         *)
satisfyRequest(m, x) ==
    CASE x.kind = "completion" -> [m EXCEPT !.completion = x.value]
      [] x.kind = "desc" ->
            [m EXCEPT !.desc = [j \in Bufs |-> IF j \in x.first .. (x.first + Len(x.pkts) - 1)
                                               THEN x.pkts[j - x.first + 1] ELSE @[j]]]
      [] x.kind = "data" -> [m EXCEPT !.buf[x.buf][x.line] = x.pkt]

(* recvTimingRespfromCache: workers are told, other answers are dropped.   *)
Answered(out, x) == IF x.kind = "data" THEN [out EXCEPT ![x.worker] = @ + 1] ELSE out

Waiting(a) == SelectSeq(mshrQueue, LAMBDA x : LineOf(x) = a)

(* BaseCache::recvTimingReq: a write to a line that is writable here is    *)
(* done at once, another waits for the line, behind those before it.       *)
sendIOCacheRequest(s, outcome) ==
    LET x == Head(s.dta.io)
        taken == [s EXCEPT !.dta.io = Tail(@)]
    IN  CASE outcome = "hit" -> [taken EXCEPT !.mem = satisfyRequest(@, x), !.dmaOut = Answered(@, x)]
          [] outcome = "miss" -> [taken EXCEPT !.mshrs = Append(@, x)]
          [] OTHER -> s

(* What the cache may do: it has no work, it has the line or not, or it    *)
(* takes nothing because all its MSHRs are in use (isBlocked).             *)
Blocked == Cardinality({LineOf(mshrQueue[j]) : j \in 1 .. Len(mshrQueue)}) >= NumMSHRs

CanBe(outcome) ==
    CASE outcome = "none" -> dta.io = <<>>
      [] outcome = "hit" -> dta.io # <<>> /\ ~Blocked /\ Waiting(LineOf(Head(dta.io))) = <<>>
      [] outcome = "miss" -> dta.io # <<>> /\ ~Blocked
      [] outcome = "blocked" -> dta.io # <<>> /\ Blocked

(* One tick: a read to the card, a write to the cache, then, if there is a *)
(* job, its completion, the workers and the flits that wait for one        *)
(* (DTARXStateMachine), and last a flit of a job.  The clock starts with   *)
(* the first job and never stops, as nothing clears rxTick.  The stages    *)
(* are bound one after the other, each to the state the last one left.     *)
DTATick(outcome) ==
    /\ Running /\ dta.rxTick /\ CanBe(outcome)
    /\ \E req \in {sendRequestToNIC(dta, nic)} :
       \E sent \in {sendIOCacheRequest([dta |-> [req.dta EXCEPT !.answered = FALSE],
                            workers |-> workers, mshrs |-> mshrQueue, dmaOut |-> dmaOut,
                            mem |-> mem], outcome)} :
       \E worked \in {DTARXCheckAndWork(sent)} :
       \E failed \in {TickAsserts(dta, worked)} :
       \E done \in {IF failed = {} THEN DTARXAllocate(worked) ELSE sent} :
          /\ aborted' = failed
          /\ nic' = req.nic
          /\ dta' = checkSubmissionQueue(done.dta)
          /\ workers' = done.workers
          /\ mshrQueue' = done.mshrs
          /\ dmaOut' = done.dmaOut
          /\ mem' = done.mem
    /\ UNCHANGED <<resps, drv, coming, delivered>>

(* serviceMSHRTargets: the line is there, and the writes that wait for it  *)
(* are done in their order.                                                *)
serviceMSHRTargets(a) ==
    /\ Running /\ Waiting(a) # <<>>
    /\ mem' = FoldLeft(satisfyRequest, mem, Waiting(a))
    /\ dmaOut' = FoldLeft(Answered, dmaOut, Waiting(a))
    /\ mshrQueue' = SelectSeq(mshrQueue, LAMBDA x : LineOf(x) # a)
    /\ UNCHANGED <<dta, workers, nic, resps, drv, coming, delivered, aborted>>

(* handleDMACompletion: the cache has written a line of a worker's packet. *)
handleDMACompletion(w) ==
    LET k == [workers[w] EXCEPT !.done = @ + cacheLineSize]
    IN  /\ Running /\ dmaOut[w] > 0
        /\ dmaOut' = [dmaOut EXCEPT ![w] = @ - 1]
        /\ workers' = [workers EXCEPT ![w] = IF @.working THEN k ELSE @]
        /\ dta' = IF k.working /\ k.done >= k.pkt.len
                  THEN [dta EXCEPT !.ctx[k.ctx].RXComplete = @ \union {k.buf}]
                  ELSE dta
        /\ aborted' = Failing("idle worker", k.working)
        /\ UNCHANGED <<nic, resps, mshrQueue, mem, drv, coming, delivered>>

(* freeDTARequest: a read that was answered is over.  Wrong: it is taken   *)
(* for one of the job at the front; it is not counted.                     *)
freeDTARequestAnyJob(d, r) ==
    IF d.rxContextIDQueue # <<>> THEN [d EXCEPT !.ctx[FrontID(d)].num_free = @ - 1] ELSE d

freeDTARequestUncounted(d, r) == d

freeDTARequest(d, r) ==
    IF IsFrontJob(d, r.job) THEN [d EXCEPT !.ctx[FrontID(d)].num_free = @ - 1] ELSE d

(* recvTimingRespfromNIC: a flit of zeros ends the job at the front with   *)
(* -1, another waits for a worker, and what is not for the job at the      *)
(* front is dropped.  A flit waits together with n_recv, the number of     *)
(* packets that were received before its own, or with it.                  *)
recvTimingRespfromNIC ==
    LET r == Head(resps)
        d == freeDTARequest([dta EXCEPT !.answered = TRUE], r)
        f == FrontID(d)
        waiting == [d EXCEPT !.workerWaitingQueue = Append(@, [resp |-> r, n_recv |-> d.ctx[f].n_recv])]
    IN  /\ Running /\ resps # <<>> /\ ~dta.answered
        /\ resps' = Tail(resps)
        /\ dta' = IF ~IsFrontJob(dta, r.job) THEN d
                  ELSE IF r.pkt = 0 THEN PopContext(pushIOCacheRequestQueue(d, CompletionWrite(-1)))
                  ELSE IF r.flit = 1 THEN [waiting EXCEPT !.ctx[f].n_recv = @ + 1]
                  ELSE [waiting EXCEPT !.ctx[f].extra_received = @ + 1]
        /\ UNCHANGED <<workers, mshrQueue, dmaOut, nic, mem, drv, coming, delivered, aborted>>

-----------------------------------------------------------------------------
(* The card.                                                               *)

ZeroedResponse(job) == [job |-> job, pkt |-> 0, flit |-> 0, len |-> 0]

(* readM2funcPacket: the next flit of the packet at the front.             *)
FlitResponse(n, job) ==
    LET p == Head(n.m2funcRxFifo)
    IN  [job |-> job, pkt |-> p.id, flit |-> n.flitsSent + 1, len |-> p.len]
readM2funcPacket(n) ==
    IF n.flitsSent + 1 < Flits(Head(n.m2funcRxFifo).len)
    THEN [n EXCEPT !.flitsSent = @ + 1]
    ELSE [n EXCEPT !.flitsSent = 0, !.m2funcRxFifo = Tail(@)]

(* How the read at the front is answered: once a job has been given a      *)
(* packet its other reads wait for one, once it has been given zeros they  *)
(* all are; before the first packet of all a job is not kept waiting.      *)
(* Wrong: each read is answered by what there is.                          *)
AnswerEachRead(n) ==
    IF n.m2funcCXLReqBuf = <<>> THEN "none"
    ELSE CASE n.m2funcRxFifo # <<>> -> "flit"
           [] ~n.isLoadGenStarted -> "zeros"
           [] OTHER -> "none"

Answer(n) ==
    LET job == Head(n.m2funcCXLReqBuf)
    IN  IF n.m2funcCXLReqBuf = <<>> THEN "none"
        ELSE CASE n.dtaRXJobSuccess[job] = "no" -> "zeros"
               [] n.m2funcRxFifo # <<>> -> "flit"
               [] n.dtaRXJobSuccess[job] = "unknown" /\ ~n.isLoadGenStarted -> "zeros"
               [] OTHER -> "none"

(* processRxPacket: the packet that has arrived goes to the FIFO.          *)
processRxPacket(n) ==
    IF n.rxPacket = NoPkt \/ Len(n.m2funcRxFifo) >= RxFifoSize THEN n
    ELSE [n EXCEPT !.m2funcRxFifo = Append(@, n.rxPacket), !.rxPacket = NoPkt]

rxM2funcStateMachine ==
    LET a == Answer(nic)
        job == Head(nic.m2funcCXLReqBuf)
        popped == [nic EXCEPT !.m2funcCXLReqBuf = Tail(@),
                              !.dtaRXJobSuccess[job] = IF a = "flit" THEN "yes" ELSE "no"]
    IN  /\ Running
        /\ CASE a = "flit" ->
                  /\ nic' = processRxPacket(readM2funcPacket([popped EXCEPT !.isLoadGenStarted = TRUE]))
                  /\ resps' = Append(resps, FlitResponse(nic, job))
             [] a = "zeros" ->
                  /\ nic' = processRxPacket(popped)
                  /\ resps' = Append(resps, ZeroedResponse(job))
             [] a = "none" -> nic' = processRxPacket(nic) /\ resps' = resps
        /\ UNCHANGED <<dta, workers, mshrQueue, dmaOut, mem, drv, coming, delivered, aborted>>

(* The receive FIFO of the card hands over the next packet.                *)
PacketArrives ==
    /\ Running /\ coming # <<>> /\ nic.rxPacket = NoPkt
    /\ nic' = [nic EXCEPT !.rxPacket = Head(coming)]
    /\ coming' = Tail(coming)
    /\ UNCHANGED <<dta, workers, mshrQueue, dmaOut, resps, mem, drv, delivered, aborted>>

-----------------------------------------------------------------------------
(* The driver, eth_em_recv_pkts_m2func_dta.  Its buffers come from a pool  *)
(* that gives out the buffers freed last: every job names the same ones.   *)

Padded(words) == words \o [j \in 1 .. (RestN - Len(words)) |-> 0]
BufAddrs(first, last) == [j \in 1 .. (last - first + 1) |-> BufAddr(first + j - 1)]

(* Up to which buffer the flit after n buffers goes.                       *)
FlitEnd(size, n) == Min({size, IF n = 0 THEN FirstN ELSE n + RestN})

JobFlit(size, n) ==
    IF n = 0 THEN Padded(<<CompletionAddr, size>> \o BufAddrs(1, FlitEnd(size, 0)))
    ELSE Padded(BufAddrs(n + 1, FlitEnd(size, n)))

SubmitFlit ==
    LET n == IF drv.pc = "idle" THEN 0 ELSE drv.submitted
    IN  /\ Running /\ dta.rxJobSubmissionQueue = <<>>
        /\ \/ drv.pc = "idle" /\ drv.jobs < MaxJobs
           \/ drv.pc = "submit"
        /\ dta' = recvTimingReq(dta, JobFlit(drv.size, n))
        /\ drv' = [drv EXCEPT !.jobs = IF n = 0 THEN @ + 1 ELSE @, !.submitted = FlitEnd(drv.size, n),
                              !.pc = IF FlitEnd(drv.size, n) = drv.size THEN "poll" ELSE "submit"]
        /\ UNCHANGED <<workers, mshrQueue, dmaOut, nic, resps, mem, coming, delivered, aborted>>

(* What the application finds in the i-th buffer: a whole packet, and the  *)
(* descriptor that was written for it, unless that line of descriptors is  *)
(* still to come (Late).                                                   *)
Torn == -1
Late == 0
PayloadIn(i) ==
    LET lines == mem.buf[BufAddr(i)]
        p == lines[1]
    IN  IF p # NoPkt /\ \A l \in 1 .. CeilDiv(p.len, cacheLineSize) : lines[l] = p THEN p.id ELSE Torn
DescLine(i) == <<"desc", ((i - 1) \div DescPerLine) * DescPerLine + 1>>
Received(i) ==
    [payload |-> PayloadIn(i),
     desc |-> IF Waiting(DescLine(i)) # <<>> THEN Late ELSE mem.desc[i].id]

(* The completion word says that all packets are there.                    *)
TakePackets ==
    /\ Running /\ drv.pc = "poll" /\ mem.completion >= drv.size
    /\ delivered' = delivered \o [i \in 1 .. drv.size |-> Received(i)]
    /\ mem' = [mem EXCEPT !.completion = 0]
    /\ drv' = [drv EXCEPT !.pc = "idle"]
    /\ UNCHANGED <<dta, workers, mshrQueue, dmaOut, nic, resps, coming, aborted>>

(* It says that there are none.                                            *)
JobFailed ==
    /\ Running /\ drv.pc = "poll" /\ mem.completion = -1
    /\ mem' = [mem EXCEPT !.completion = 0]
    /\ drv' = [drv EXCEPT !.pc = "idle"]
    /\ UNCHANGED <<dta, workers, mshrQueue, dmaOut, nic, resps, coming, delivered, aborted>>

(* It was 0 a hundred times: the driver frees the buffers and returns,     *)
(* whether or not the DTA still works on the job.                          *)
GiveUp ==
    /\ Running /\ drv.pc = "poll" /\ mem.completion = 0 /\ drv.giveUps < MaxGiveUps
    /\ drv' = [drv EXCEPT !.pc = "idle", !.giveUps = @ + 1,
                          !.abandoned = @ \/ dta.rxContextIDQueue # <<>>
                                          \/ dta.rxJobSubmissionQueue # <<>>
                                          \/ dta.io # <<>> \/ mshrQueue # <<>>]
    /\ UNCHANGED <<dta, workers, mshrQueue, dmaOut, nic, resps, mem, coming, delivered, aborted>>

-----------------------------------------------------------------------------
Lens == UNION {{t[j] : j \in 1 .. Len(t)} : t \in Traffic}
NumPkts == Len(CHOOSE t \in Traffic : TRUE)
Lines == 1 .. CeilDiv(Max(Lens), cacheLineSize)
CacheLines == {<<"completion">>} \union {<<"desc", i>> : i \in Bufs}
              \union {<<"data", BufAddr(i), l>> : i \in Bufs, l \in Lines}

(* The driver is between two calls, or, after a checkpoint was restored,   *)
(* in one: n buffers of its job have been submitted to a DTA which is in   *)
(* no checkpoint and knows nothing of them (nor had it written anything).  *)
InitDriver(size, n) ==
    drv = [pc |-> IF n = 0 THEN "idle" ELSE IF n = size THEN "poll" ELSE "submit",
           size |-> size, submitted |-> n, jobs |-> 0, giveUps |-> 0, abandoned |-> FALSE]

(* The FIFO is restored, and may hold a packet; isLoadGenStarted is not.   *)
InitNIC(size, n) ==
    \E t \in Traffic, started \in BOOLEAN, held \in 0 .. 1 :
       LET pkts == [j \in 1 .. NumPkts |-> [id |-> j, len |-> t[j]]]
       IN  /\ started => n = 0
           /\ started \/ held > 0 \/ size <= FirstN \/ EarlyLargeJobs
           /\ nic = [rxPacket |-> NoPkt, flitsSent |-> 0, m2funcCXLReqBuf |-> <<>>,
                     m2funcRxFifo |-> SubSeq(pkts, 1, held),
                     dtaRXJobSuccess |-> [j \in 1 .. MaxJobs |-> "unknown"],
                     isLoadGenStarted |-> started]
           /\ coming = SubSeq(pkts, held + 1, NumPkts)

Init ==
    /\ \E size \in JobSizes : \E n \in {0} \union {FlitEnd(size, k) : k \in 0 .. (size - 1)} :
          InitDriver(size, n) /\ InitNIC(size, n)
    /\ dta = [rxJobSubmissionQueue |-> <<>>, ctx |-> [i \in Contexts |-> clearDTARXContext],
              rxContextIDQueue |-> <<>>, global_rx_job_id |-> 0, cxlReqQueue |-> <<>>,
              waitingOnRetry |-> FALSE, workerWaitingQueue |-> <<>>, io |-> <<>>,
              rxTick |-> FALSE, answered |-> FALSE]
    /\ workers = [w \in Workers |-> freeWorker]
    /\ mshrQueue = <<>>
    /\ dmaOut = [w \in Workers |-> 0]
    /\ resps = <<>>
    /\ mem = [completion |-> 0, desc |-> [i \in Bufs |-> NoPkt],
              buf |-> [a \in {BufAddr(i) : i \in Bufs} |-> [l \in Lines |-> NoPkt]]]
    /\ delivered = <<>> /\ aborted = {}

Card == rxM2funcStateMachine \/ recvTimingRespfromNIC \/ PacketArrives
Driver == SubmitFlit \/ TakePackets \/ JobFailed \/ GiveUp
IOCache == (\E a \in CacheLines : serviceMSHRTargets(a)) \/ \E w \in Workers : handleDMACompletion(w)

Next ==
    \/ DTATick("none") \/ DTATick("hit") \/ DTATick("miss") \/ DTATick("blocked")
    \/ \E a \in CacheLines : serviceMSHRTargets(a)
    \/ \E w \in Workers : handleDMACompletion(w)
    \/ recvTimingRespfromNIC
    \/ rxM2funcStateMachine
    \/ PacketArrives
    \/ SubmitFlit \/ TakePackets \/ JobFailed \/ GiveUp

Spec == Init /\ [][Next]_vars

(* Both clocks tick, the cache gets its lines and answers, the card's      *)
(* answers arrive, packets keep coming and the driver runs.                *)
FairSpec ==
    /\ Spec
    /\ WF_vars(\E outcome \in {"none", "hit", "miss", "blocked"} : DTATick(outcome))
    /\ WF_vars(IOCache) /\ WF_vars(Card) /\ WF_vars(Driver)

-----------------------------------------------------------------------------
(* Properties.                                                             *)

Pkt == [id : 0 .. NumPkts, len : {0} \union Lens]

(* Type invariant.                                                         *)
DTATypeOK ==
    /\ \A i \in Contexts :
          LET c == dta.ctx[i]
          IN  /\ c.valid \in BOOLEAN /\ c.job \in 0 .. MaxJobs
              /\ c.num_free \in 0 .. ReqBufSize /\ c.n_recv \in 0 .. drv.size
              /\ c.n_desc \in 0 .. drv.size /\ c.RXComplete \subseteq {BufAddr(b) : b \in Bufs}
    /\ dta.rxContextIDQueue \in Seq(Contexts) /\ dta.global_rx_job_id \in 0 .. MaxJobs
    /\ dta.cxlReqQueue \in Seq(1 .. MaxJobs) /\ nic.m2funcCXLReqBuf \in Seq(1 .. MaxJobs)
    /\ \A w \in Workers : workers[w].pkt \in Pkt /\ dmaOut[w] \in 0 .. Max(Lines)
    /\ nic.m2funcRxFifo \in Seq(Pkt) /\ Len(nic.m2funcRxFifo) <= RxFifoSize
    /\ mem.completion \in -1 .. drv.size
    /\ \A j \in 1 .. Len(mshrQueue) : LineOf(mshrQueue[j]) \in CacheLines
    /\ drv.pc \in {"idle", "submit", "poll"} /\ drv.jobs \in 0 .. MaxJobs

(* Which asserts of the path may stop the simulation, and for what reason. *)
(* checkThreshold's, that no more extra flits are received than needed:    *)
(* only for a job of more packets than there are workers, when a packet of *)
(* several flits waits for one.  processDTAResponse's, that a packet is    *)
(* not longer than its descriptor announces: only when a worker has one    *)
(* that does not fill its flits.  No other: the counts of checkThreshold,  *)
(* the worker a flit goes to, the buffer a packet goes to, the worker an   *)
(* answer of the cache is for.                                             *)
AssertsExplained ==
    /\ aborted \subseteq {"extra", "payload"}
    /\ "extra" \in aborted =>
          /\ dta.ctx[FrontID(dta)].nb_pkts > NumWorkers
          /\ \E j \in 1 .. Len(dta.workerWaitingQueue) :
                LET r == dta.workerWaitingQueue[j].resp IN r.flit = 1 /\ Flits(r.len) > 1
    /\ "payload" \in aborted =>
          \E w \in Workers : /\ workers[w].working
                             /\ (descLen + workers[w].pkt.len) % flitSize # 0

(* recvTimingReq and the parser: every context is a job the driver has     *)
(* submitted, its buffers in the driver's order, and at most one of them   *)
(* waits for more, also when the driver was restored in the middle of one. *)
JobsAsSubmitted ==
    /\ Cardinality(getInitializationStageRXContextID(dta)) <= 1
    /\ \A i \in Contexts :
          LET c == dta.ctx[i]
          IN  c.valid => /\ c.completion_addr = CompletionAddr /\ c.nb_pkts = drv.size
                         /\ c.mbuf_addr = BufAddrs(1, Len(c.mbuf_addr))

(* A packet is read for the job at the front or not at all: its flits on   *)
(* the way, those that wait and those with workers all belong to that job. *)
(* A job that has ended, with packets or without, leaves none behind, and  *)
(* no write to a buffer the driver has got back.                           *)
OnlyFrontJobServed ==
    /\ \A j \in 1 .. Len(resps) : resps[j].pkt # 0 => IsFrontJob(dta, resps[j].job)
    /\ \A j \in 1 .. Len(dta.workerWaitingQueue) :
          IsFrontJob(dta, dta.workerWaitingQueue[j].resp.job)
    /\ \A w \in Workers : workers[w].working =>
          dta.rxContextIDQueue # <<>> /\ workers[w].ctx = FrontID(dta)
    /\ LET writes == dta.io \o mshrQueue
       IN  \A j \in 1 .. Len(writes) : writes[j].kind = "data" =>
              workers[writes[j].worker].working /\ workers[writes[j].worker].buf = writes[j].buf

(* The application finds the packets in its buffers in the order in which  *)
(* they came, each once and whole, although the lines of all of them reach *)
(* memory in any order and the driver looks at nothing but the count: the  *)
(* DTA waits for the answers, and the driver does not take the temporary   *)
(* count of a job of several flits for its end.  Except when the driver    *)
(* has given up a job the DTA was working on.  The descriptors are those   *)
(* of the packets too, but for a line that has missed and is overtaken by  *)
(* the count, as the DTA does not wait for the answers of descriptors.     *)
DeliveredInOrder ==
    ~drv.abandoned => \A j \in 1 .. Len(delivered) :
        delivered[j].payload = j /\ delivered[j].desc \in {j, Late}

(* No call of the driver waits for ever while packets come for it, unless  *)
(* it has given up a job the DTA was working on: the job ends with packets *)
(* or, before the first packet of all, without; the card never turns down  *)
(* a read, after which it would not ask for a retry; and a call restored   *)
(* in the middle of a job ends.  Unless an assert stops the simulation.    *)
JobsEnd ==
    drv.pc = "poll" ~>
        (drv.pc = "idle" \/ drv.abandoned \/ ~Running \/ Len(delivered) + drv.size > NumPkts)

=============================================================================
