---------------------------- MODULE DescDMAJobs ----------------------------
(***************************************************************************)
(* The bank of descriptor DMA engines of one direction (descriptor fetch   *)
(* or descriptor write-back) of a gem5 IGbE descriptor cache, and the      *)
(* queue that retires their jobs in the order in which they were issued    *)
(* (src/gem5/src/dev/net/i8254xGBe.cc, DescDMAEngine and the per-direction *)
(* arrays of DescCacheGlobal).                                             *)
(*                                                                         *)
(* A bank is a record j.  The two directions have the same fields in the   *)
(* source, with Fetch or Wb in their names:                                *)
(*   queue    fetchDMAJobQueue / wbDMAJobQueue                             *)
(*   working  descFetchDMAEngineWorking / descWbDMAEngineWorking           *)
(*   done     descFetchDMAEngineDone / descWbDMAEngineDone                 *)
(*   base     descFetchBaseIdx / descWbBaseIdx       (0 when no job)       *)
(*   num      descFetchNum / descWbNum               (0 when no job)       *)
(*   buf      fetchBufArray / wbBufArray                                   *)
(*   pnt      curFetchDMAPnt / curWbDMAPnt                                 *)
(*   ing      curFetchingNum / curWbingNum                                 *)
(*   ev       which event of the engine is due: none ("idle"), the delay   *)
(*            event ("delay"), the transfer is in the memory system        *)
(*            ("dma"), the completion event ("event")                      *)
(*   moved    how many descriptors of the transfer memory has performed    *)
(***************************************************************************)
EXTENDS Integers, Sequences, FiniteSets

CONSTANTS
    DescLen,         \* descLen(): descriptors in the ring
    NumDescEngines   \* numDescDMAEngines

ASSUME DescLenAssumption == DescLen \in Nat \ {0}
ASSUME NumDescEnginesAssumption == NumDescEngines \in Nat \ {0}

DescEngines == 0 .. NumDescEngines - 1
Slots       == 0 .. DescLen - 1

Stages == {"idle", "delay", "dma", "event"}

(* The ring pointers wrap by one conditional subtraction. *)
Wrap(x) == IF x >= DescLen THEN x - DescLen ELSE x

(* The banks that move descriptors of type T. *)
JobsType(T) ==
    [queue   : Seq(DescEngines),
     working : [DescEngines -> BOOLEAN],
     done    : [DescEngines -> BOOLEAN],
     base    : [DescEngines -> Slots],
     num     : [DescEngines -> 0 .. DescLen],
     buf     : [DescEngines -> Seq(T)],
     ev      : [DescEngines -> Stages],
     moved   : [DescEngines -> Nat],
     pnt     : Slots,
     ing     : Nat]

NoJobs ==
    [queue   |-> <<>>,
     working |-> [e \in DescEngines |-> FALSE],
     done    |-> [e \in DescEngines |-> FALSE],
     base    |-> [e \in DescEngines |-> 0],
     num     |-> [e \in DescEngines |-> 0],
     buf     |-> [e \in DescEngines |-> <<>>],
     ev      |-> [e \in DescEngines |-> "idle"],
     moved   |-> [e \in DescEngines |-> 0],
     pnt     |-> 0,
     ing     |-> 0]

-----------------------------------------------------------------------------
hasFreeEngine(j) == \E e \in DescEngines : ~ j.working[e]

(* The scan takes the idle engine with the lowest index. *)
getFreeEngine(j) ==
    CHOOSE e \in DescEngines :
        ~ j.working[e] /\ \A f \in DescEngines : f < e => j.working[f]

(* Give n descriptors starting at the bank's pointer to a free engine.  b  *)
(* is the engine's buffer: the descriptors to write back, or empty for a   *)
(* fetch.  The engine's delay event is now scheduled.                      *)
Register(j, n, b) ==
    LET e == getFreeEngine(j) IN
    [queue   |-> Append(j.queue, e),
     working |-> [j.working EXCEPT ![e] = TRUE],
     done    |-> [j.done EXCEPT ![e] = FALSE],
     base    |-> [j.base EXCEPT ![e] = j.pnt],
     num     |-> [j.num EXCEPT ![e] = n],
     buf     |-> [j.buf EXCEPT ![e] = b],
     ev      |-> [j.ev EXCEPT ![e] = "delay"],
     moved   |-> [j.moved EXCEPT ![e] = 0],
     pnt     |-> Wrap(j.pnt + n),
     ing     |-> j.ing + n]

(* The delay event fires in a running system: the transfer is issued. *)
Issue(j, e) == [j EXCEPT !.ev[e] = "dma"]

(* Memory performs the next descriptor of engine e's transfer; the answer  *)
(* to the last one schedules the completion event.                         *)
Beat(j, e) ==
    [j EXCEPT !.moved[e] = @ + 1,
              !.ev[e] = IF j.moved[e] + 1 = j.num[e] THEN "event" ELSE "dma"]

(* The same for a fetch, whose buffer receives the descriptor d. *)
FetchBeat(j, e, d) == [Beat(j, e) EXCEPT !.buf[e] = Append(j.buf[e], d)]

-----------------------------------------------------------------------------
(* How many descriptors the first k queued jobs hold. *)
Ahead(j, k) ==
    Cardinality({p \in (1 .. k) \X (1 .. DescLen) : p[2] <= j.num[j.queue[p[1]]]})

(* Two retirements that would be wrong: any finished job is taken for the  *)
(* oldest; the jobs behind the oldest are not asked whether they are done. *)
RetiredAnyJob(j, e) == 1
RetiredAllJobs(j, e) == IF Head(j.queue) # e THEN 0 ELSE Len(j.queue)

(* Engine e has just finished: nothing retires unless its job is the       *)
(* oldest, and then every finished job at the front of the queue does.     *)
RetiredJobs(j, e) ==
    IF Head(j.queue) # e THEN 0
    ELSE CHOOSE k \in 1 .. Len(j.queue) :
            /\ \A i \in 2 .. k : j.done[j.queue[i]]
            /\ k < Len(j.queue) => ~ j.done[j.queue[k + 1]]

RetiredDescs(j, e) == Ahead(j, RetiredJobs(j, e))

(* The retired jobs' buffers, one after the other. *)
RetiredBuf(j, e) ==
    [x \in 1 .. RetiredDescs(j, e) |->
        LET i == CHOOSE i \in 1 .. RetiredJobs(j, e) :
                    Ahead(j, i - 1) < x /\ x <= Ahead(j, i)
        IN  j.buf[j.queue[i]][x - Ahead(j, i - 1)]]

(* The completion event of engine e: its registers are cleared, its job is *)
(* marked done, and the retired jobs leave the queue and free their engines*)
Complete(j, e) ==
    LET k    == RetiredJobs(j, e)
        gone == {j.queue[i] : i \in 1 .. k}
    IN  [queue   |-> SubSeq(j.queue, k + 1, Len(j.queue)),
         working |-> [f \in DescEngines |-> j.working[f] /\ f \notin gone],
         done    |-> [f \in DescEngines |-> (j.done[f] \/ f = e) /\ f \notin gone],
         base    |-> [f \in DescEngines |-> IF f \in gone THEN 0 ELSE j.base[f]],
         num     |-> [f \in DescEngines |-> IF f \in gone THEN 0 ELSE j.num[f]],
         buf     |-> [f \in DescEngines |-> IF f \in gone THEN <<>> ELSE j.buf[f]],
         ev      |-> [j.ev EXCEPT ![e] = "idle"],
         moved   |-> [j.moved EXCEPT ![e] = 0],
         pnt     |-> j.pnt,
         ing     |-> j.ing - RetiredDescs(j, e)]

(* DescDMAEngine::hasOutstandingEvents: only a scheduled completion counts.*)
hasOutstandingEvents(j) == \E e \in DescEngines : j.ev[e] = "event"

-----------------------------------------------------------------------------
(* The jobs of a bank of descriptor engines lie one after the other on the *)
(* ring from start to the bank's pointer, none runs past the end of the    *)
(* ring, no engine has two, and an engine is working exactly while its job *)
(* is queued.  The oldest job is never left behind finished.               *)
JobsContiguous(j, start) ==
    /\ \A i \in 1 .. Len(j.queue) :
          LET e == j.queue[i] IN
          /\ j.base[e] = (start + Ahead(j, i - 1)) % DescLen
          /\ j.num[e] > 0 /\ j.base[e] + j.num[e] <= DescLen
          /\ \A k \in 1 .. Len(j.queue) : j.queue[k] = e => k = i
    /\ j.ing = Ahead(j, Len(j.queue))
    /\ j.pnt = (start + j.ing) % DescLen
    /\ \A e \in DescEngines :
          /\ j.working[e] <=> \E i \in 1 .. Len(j.queue) : j.queue[i] = e
          /\ j.ev[e] # "idle" <=> j.working[e] /\ ~ j.done[e]
          /\ j.done[e] => j.working[e]
    /\ j.queue # <<>> => ~ j.done[Head(j.queue)]

(* How far each transfer has got agrees with which event is due. *)
TransfersAgree(j) ==
    \A e \in DescEngines :
        /\ j.ev[e] = "delay" => j.moved[e] = 0
        /\ j.ev[e] = "dma"   => j.moved[e] < j.num[e]
        /\ j.ev[e] = "event" => j.moved[e] = j.num[e]

=============================================================================
