-------------------------------- MODULE DistSync --------------------------------
(***************************************************************************)
(* The synchronisation of a distributed gem5 run (dist_iface.cc): node     *)
(* processes and one switch process, joined by TCP streams, simulate a     *)
(* quantum of time each, meet in a global barrier, and go on.  The barrier *)
(* also agrees on exits and checkpoints.  In every process a simulation    *)
(* thread (pc) and one receiver thread per stream (thread) share the Sync  *)
(* object, under its mutex, and the event queue, under its lock.           *)
(*                                                                         *)
(* A step of the simulation thread is one event, or a stretch of run()     *)
(* between two points where it lets go of a lock.                          *)
(***************************************************************************)
EXTENDS Integers, Sequences, FiniteSets

CONSTANTS Nodes, Switch,
          Repeat,       \* nextRepeat: ticks between two periodic syncs
          LinkDelay,    \* linkDelay of the simulated Ethernet links
          SyncStart,    \* tick of the first periodic sync
          MaxTick,      \* bound: no clock goes past it
          MaxDrain,     \* bound: ticks the drain before a checkpoint may take
          ReqTypes,     \* kinds of request the guests make
          Workloads     \* what the guests and the environment may do: a set of
                        \* [ops, pkts, deaths] records, one of which is chosen

Ops == {"exit", "ckpt"}

ASSUME SyncAssumption ==
    /\ Switch \notin Nodes /\ IsFiniteSet(Nodes) /\ Nodes # {}
    /\ Repeat \in Nat \ {0} /\ LinkDelay \in Nat /\ Repeat <= LinkDelay
    /\ SyncStart \in Nat /\ Repeat <= SyncStart
    /\ MaxTick \in Nat /\ SyncStart <= MaxTick /\ MaxDrain \in Nat
    /\ ReqTypes \subseteq {"collective", "immediate"}
    /\ Workloads \subseteq [ops : SUBSET Ops, pkts : Nat, deaths : Nat]

Processes == Nodes \cup {Switch}
\* A link is one direction of a stream, from its sender to its receiver.
Links == (Nodes \X {Switch}) \cup ({Switch} \X Nodes)
From(l) == l[1]
To(l) == l[2]

VARIABLES
    tick,         \* curTick() of each process
    when,         \* when() of its SyncEvent
    pc,           \* where its simulation thread is
    caller,       \* who called Sync::run: start, process or drainComplete
    exiting,      \* an exit event is in the event queue, and why
    waitNum, isAbort, nextAt,   \* the Sync object
    doing,        \* doExit, doCkpt
    need,         \* needExit, needCkpt of a node
    numReq,       \* numExitReq, numCkptReq of the switch
    thread,       \* the receiver thread at the end of each link
    chan,         \* the messages in transit on each link
    descQueue,    \* send ticks of the packets RecvScheduler holds
    prevRecvTick, \* tick of the last packet popped
    txDone,       \* tick at which the sending end of a link is idle again
    saved,        \* checkpoints a process has written
    load          \* what the workload still allows

simVars  == <<tick, when, pc, caller, exiting>>
syncVars == <<waitNum, isAbort, nextAt, doing, need, numReq>>
linkVars == <<descQueue, prevRecvTick, txDone>>
vars == <<simVars, syncVars, linkVars, thread, chan, saved, load>>

---------------------------------------------------------------------------
\* Packets and packet times

SendDelay == 1    \* TxLink::transmit: at least one tick

\* Variant: the link delay is left out.
ReceiveTickNoDelay(t) == t + SendDelay

\* Tick of the receive event of a packet sent at tick t.
ReceiveTick(t) == t + SendDelay + LinkDelay

\* The receive event of link l is due now.
RxDue(l) == descQueue[l] # <<>> /\ ReceiveTick(Head(descQueue[l])) = tick[To(l)]

\* An event of the current quantum can run: the sync event comes last at its
\* tick, so that what belongs to that tick is over once it has run.
InQuantum(p) == tick[p] + Repeat > when[p]

Simulating(p) == pc[p] \in {"simulate", "unsynced", "drain"}

Live(p) == pc[p] # "exited"

---------------------------------------------------------------------------
\* The TCP streams

\* sendTCP: a message to a process that is gone is lost.
Put(ch, l, m) == IF Live(To(l)) THEN [ch EXCEPT ![l] = Append(@, m)] ELSE ch

\* What is left in the streams when process p is gone.
Without(ch, p) == [l \in Links |-> IF To(l) = p THEN <<>> ELSE ch[l]]

\* The process ends (exit, panic or failed assertion), having put ch on the wire.
Ends(p, ch) == /\ pc' = [pc EXCEPT ![p] = "exited"]
               /\ chan' = Without(ch, p)

Peers(p) == IF p = Switch THEN Nodes ELSE {Switch}

\* sendTCP panics once the kernel reports that the peer has closed the stream;
\* a command goes to the streams one by one, so that only some may have got it.
SendFails(p, m) ==
    \E sent \in SUBSET {q \in Peers(p) : Live(q)} :
        /\ \E q \in Peers(p) : ~Live(q)
        /\ Ends(p, [l \in Links |-> IF From(l) = p /\ To(l) \in sent
                                    THEN Append(chan[l], m) ELSE chan[l]])

sendCmd(p, m) == chan' = [l \in Links |-> IF From(l) = p /\ Live(To(l))
                                          THEN Append(chan[l], m) ELSE chan[l]]

---------------------------------------------------------------------------
\* The simulation thread: events

Advance(p) ==
    /\ Simulating(p) /\ exiting[p] = "no"
    /\ tick[p] < MaxTick
    /\ tick[p] < when[p] \/ pc[p] = "unsynced"
    /\ pc[p] = "drain" => tick[p] + Repeat < when[p] + MaxDrain
    /\ \A l \in Links : To(l) = p => ~RxDue(l)
    /\ tick' = [tick EXCEPT ![p] = @ + 1]
    /\ UNCHANGED <<when, pc, caller, exiting, syncVars, linkVars, thread, chan,
                   saved, load>>

\* The link can be given a packet; the network is idle until the first sync.
CanTransmit(l) == LET p == From(l) IN /\ Simulating(p) /\ InQuantum(p)
                                      /\ tick[p] >= txDone[l] /\ tick[p] > SyncStart

\* DistEtherLink::TxLink::transmit and DistIface::packetOut
transmit(l) ==
    LET p == From(l)
    IN /\ CanTransmit(l) /\ load.pkts > 0
       /\ load' = [load EXCEPT !.pkts = @ - 1]
       /\ txDone' = [txDone EXCEPT ![l] = tick[p] + SendDelay]
       /\ chan' = Put(chan, l, [type |-> "data", tick |-> tick[p], epoch |-> saved[p]])
       /\ UNCHANGED <<simVars, syncVars, descQueue, prevRecvTick, thread, saved>>

\* The same to a peer that is gone: sendTCP panics.
transmitFails(l) ==
    /\ CanTransmit(l) /\ ~Live(To(l))
    /\ Ends(From(l), chan)
    /\ UNCHANGED <<tick, when, caller, exiting, syncVars, linkVars, thread, saved, load>>

\* DistEtherLink::RxLink::rxDone and RecvScheduler::popPacket
rxDone(l) ==
    /\ Simulating(To(l)) /\ RxDue(l)
    /\ descQueue' = [descQueue EXCEPT ![l] = Tail(@)]
    /\ prevRecvTick' = [prevRecvTick EXCEPT ![l] = tick[To(l)]]
    /\ UNCHANGED <<simVars, syncVars, txDone, thread, chan, saved, load>>

\* readyToExit and requestExit, readyToCkpt and requestCkpt: the guest of a
\* node executes m5 exit or m5 checkpoint.
request(n, op, req) ==
    /\ pc[n] \in {"simulate", "drain"} /\ InQuantum(n) /\ when[n] <= MaxTick
    /\ op \in load.ops
    /\ need[n][op] = "none" \/ req = "immediate"
    /\ need[n][op] # req
    /\ need' = [need EXCEPT ![n][op] = req]
    /\ UNCHANGED <<simVars, waitNum, isAbort, nextAt, doing, numReq, linkVars,
                   thread, chan, saved, load>>

\* SyncEvent::process up to the release of the event queue lock.  The event is
\* the last of its tick, and an exit event of the same tick comes before it.
SyncProcess(p) ==
    /\ pc[p] \in {"simulate", "drain"} /\ exiting[p] = "no"
    /\ tick[p] = when[p]
    /\ \A l \in Links : To(l) = p => ~RxDue(l)
    /\ IF pc[p] = "drain"                          \* panic_if(_draining && ...)
       THEN Ends(p, chan) /\ UNCHANGED caller
       ELSE /\ pc' = [pc EXCEPT ![p] = "run"]
            /\ caller' = [caller EXCEPT ![p] = "process"]
            /\ UNCHANGED chan
    /\ UNCHANGED <<tick, when, exiting, syncVars, linkVars, thread, saved, load>>

\* The exit event ends the simulation loop and then the process; m5.drain
\* swallows the exit events that it meets.
ExitEvent(p) ==
    /\ Simulating(p) /\ exiting[p] # "no"
    /\ IF pc[p] = "drain"
       THEN exiting' = [exiting EXCEPT ![p] = "no"] /\ UNCHANGED <<pc, chan>>
       ELSE Ends(p, chan) /\ UNCHANGED exiting
    /\ UNCHANGED <<tick, when, caller, syncVars, linkVars, thread, saved, load>>

\* Variant: the checkpoint is written without a second barrier.
drainCompleteAlone(p) ==
    /\ pc[p] = "drain"
    /\ pc' = [pc EXCEPT ![p] = "save"]
    /\ doing' = [doing EXCEPT ![p]["ckpt"] = FALSE]
    /\ UNCHANGED <<tick, when, caller, exiting, waitNum, isAbort, nextAt, need, numReq,
                   linkVars, thread, chan, saved, load>>

\* DistIface::serialize, reached when every object of the process has drained,
\* calls Sync::drainComplete.
drainComplete(p) ==
    /\ pc[p] = "drain"
    /\ pc' = [pc EXCEPT ![p] = "run"]
    /\ caller' = [caller EXCEPT ![p] = "drainComplete"]
    /\ UNCHANGED <<tick, when, exiting, syncVars, linkVars, thread, chan, saved, load>>

\* The rest of DistIface::serialize, and the resumed simulation.
serialize(p) ==
    /\ pc[p] = "save"
    /\ saved' = [saved EXCEPT ![p] = @ + 1]
    /\ pc' = [pc EXCEPT ![p] = "simulate"]
    /\ UNCHANGED <<tick, when, caller, exiting, syncVars, linkVars, thread, chan, load>>

---------------------------------------------------------------------------
\* The simulation thread: the barrier

\* SyncNode::run up to its wait: assert(!isAbort), then a request to the switch.
NodeRun(n) ==
    LET m == [type |-> "req", tick |-> tick[n], need |-> need[n]]
    IN /\ n \in Nodes /\ pc[n] = "run"
       /\ IF isAbort[n]
          THEN Ends(n, chan) /\ UNCHANGED <<waitNum, need>>
          ELSE /\ waitNum' = [waitNum EXCEPT ![n] = 1]
               /\ need' = [need EXCEPT ![n] =
                    [op \in Ops |-> IF @[op] = "none" THEN "none" ELSE "pending"]]
               /\ \/ sendCmd(n, m) /\ pc' = [pc EXCEPT ![n] = "wait"]
                  \/ SendFails(n, m)
       /\ UNCHANGED <<tick, when, caller, exiting, isAbort, nextAt, doing, numReq,
                      linkVars, thread, saved, load>>

\* Variant: the barrier completes one request too early.
AlmostAllAsked == waitNum[Switch] <= 1

\* The switch has what it needs to complete the barrier.
AllAsked == waitNum[Switch] = 0

\* Variant: one request more than there are nodes is asked for.
DecidedByMore(op) == doing[Switch][op] \/ numReq[op] > Cardinality(Nodes)

\* What the switch decides of op at the end of a barrier.
Decided(op) == doing[Switch][op] \/ numReq[op] = Cardinality(Nodes)

\* SyncSwitch::run once it has waited, when the barrier is not aborted.
SwitchRun ==
    LET m == [type |-> "ack", tick |-> nextAt[Switch],
              do |-> [op \in Ops |-> Decided(op)]]
    IN /\ pc[Switch] = "run" /\ AllAsked /\ ~isAbort[Switch]
       /\ waitNum' = [waitNum EXCEPT ![Switch] = Cardinality(Nodes)]
       /\ doing' = [doing EXCEPT ![Switch] = m.do]
       /\ numReq' = IF m.do["ckpt"] THEN [numReq EXCEPT !["ckpt"] = 0] ELSE numReq
       /\ \/ sendCmd(Switch, m) /\ pc' = [pc EXCEPT ![Switch] = "return"]
          \/ SendFails(Switch, m)
       /\ UNCHANGED <<tick, when, caller, exiting, isAbort, nextAt, need, linkVars,
                      thread, saved, load>>

\* run() has returned true, or false, and the event queue lock is held again.
Completed(p) == \/ pc[p] = "return"
                \/ p \in Nodes /\ pc[p] = "wait" /\ waitNum[p] = 0 /\ ~isAbort[p]
Aborted(p) == /\ isAbort[p] /\ waitNum[p] = 0
              /\ pc[p] = IF p = Switch THEN "run" ELSE "wait"

\* SyncEvent::start after run()
StartReturns(p) ==
    /\ caller[p] = "start"
    /\ \/ /\ Completed(p)
          /\ when' = [when EXCEPT ![p] = nextAt[p]]
          /\ pc' = [pc EXCEPT ![p] = "simulate"]
          /\ UNCHANGED chan
       \/ Aborted(p) /\ Ends(p, chan) /\ UNCHANGED when
    /\ UNCHANGED <<tick, caller, exiting, syncVars, linkVars, thread, saved, load>>

\* SyncEvent::process after run(): the exit event goes before the checkpoint
\* event of the same tick, and the next sync is not scheduled on the way out.
ProcessReturns(p) ==
    /\ caller[p] = "process"
    /\ \/ /\ Completed(p) /\ doing[p]["exit"]
          /\ exiting' = [exiting EXCEPT ![p] = "request"]
          /\ pc' = [pc EXCEPT ![p] = "unsynced"]
          /\ UNCHANGED when
       \/ /\ Completed(p) /\ ~doing[p]["exit"]
          /\ pc' = [pc EXCEPT ![p] = IF doing[p]["ckpt"] THEN "drain" ELSE "simulate"]
          /\ when' = [when EXCEPT ![p] = tick[p] + Repeat]
          /\ UNCHANGED exiting
       \/ /\ Aborted(p)
          /\ pc' = [pc EXCEPT ![p] = "unsynced"]
          /\ UNCHANGED <<when, exiting>>
    /\ UNCHANGED <<tick, caller, syncVars, linkVars, thread, chan, saved, load>>

\* Sync::drainComplete after run(), whose result it ignores.
DrainReturns(p) ==
    /\ caller[p] = "drainComplete"
    /\ Completed(p) \/ Aborted(p)
    /\ doing' = [doing EXCEPT ![p]["ckpt"] = FALSE]
    /\ pc' = [pc EXCEPT ![p] = "save"]
    /\ UNCHANGED <<tick, when, caller, exiting, waitNum, isAbort, nextAt, need, numReq,
                   linkVars, thread, chan, saved, load>>

---------------------------------------------------------------------------
\* The receiver threads: recvThreadFunc

Receiving(l, types) == /\ Live(To(l)) /\ thread[l] = "recv"
                       /\ chan[l] # <<>> /\ Head(chan[l]).type \in types

\* RecvScheduler::pushPacket
pushPacket(l) ==
    /\ Receiving(l, {"data"})
    /\ chan' = [chan EXCEPT ![l] = Tail(@)]
    /\ descQueue' = [descQueue EXCEPT ![l] = Append(@, Head(chan[l]).tick)]
    /\ UNCHANGED <<simVars, syncVars, prevRecvTick, txDone, thread, saved, load>>

\* Variant: a node does not take over the tick of the barrier.
NodeProgressKeepsTick(n, m) ==
    /\ doing' = [doing EXCEPT ![n] = m.do]
    /\ waitNum' = [waitNum EXCEPT ![n] = @ - 1]
    /\ UNCHANGED <<nextAt, numReq>>

\* SyncNode::progress
NodeProgress(n, m) ==
    /\ nextAt' = [nextAt EXCEPT ![n] = m.tick]
    /\ doing' = [doing EXCEPT ![n] = m.do]
    /\ waitNum' = [waitNum EXCEPT ![n] = @ - 1]
    /\ UNCHANGED numReq

\* Variant: a request that is pending is counted again in every barrier.
SwitchProgressRecounts(m) ==
    /\ nextAt' = [nextAt EXCEPT ![Switch] = IF m.tick > @ THEN m.tick ELSE @]
    /\ numReq' = [op \in Ops |-> IF m.need[op] # "none" THEN numReq[op] + 1 ELSE numReq[op]]
    /\ waitNum' = [waitNum EXCEPT ![Switch] = @ - 1]
    /\ UNCHANGED doing

\* Variant: the receiver thread that counts the last request takes the decision.
SwitchProgressDecides(m) ==
    /\ nextAt' = [nextAt EXCEPT ![Switch] = IF m.tick > @ THEN m.tick ELSE @]
    /\ numReq' = [op \in Ops |-> IF m.need[op] = "collective" THEN numReq[op] + 1
                                                              ELSE numReq[op]]
    /\ doing' = [doing EXCEPT ![Switch] =
                    [op \in Ops |-> @[op] \/ numReq'[op] = Cardinality(Nodes)]]
    /\ waitNum' = [waitNum EXCEPT ![Switch] = @ - 1]

\* SyncSwitch::progress
SwitchProgress(m) ==
    /\ nextAt' = [nextAt EXCEPT ![Switch] = IF m.tick > @ THEN m.tick ELSE @]
    /\ numReq' = [op \in Ops |-> IF m.need[op] = "collective" THEN numReq[op] + 1
                                                              ELSE numReq[op]]
    /\ doing' = [doing EXCEPT ![Switch] =
                    [op \in Ops |-> @[op] \/ m.need[op] = "immediate"]]
    /\ waitNum' = [waitNum EXCEPT ![Switch] = @ - 1]

\* Variant: the receiver thread ends after any decision.
ThreadEndsEarly(l, m) == isAbort[To(l)] \/ (To(l) # Switch /\ \E op \in Ops : m.do[op])

\* The receiver thread ends after a command that aborted or, on a node, exits.
ThreadEnds(l, m) == isAbort[To(l)] \/ (To(l) # Switch /\ m.do["exit"])

progress(l) ==
    LET p == To(l)
        m == Head(chan[l])
    IN /\ Receiving(l, {"req", "ack"})
       /\ chan' = [chan EXCEPT ![l] = Tail(@)]
       /\ IF isAbort[p] THEN UNCHANGED <<nextAt, doing, numReq, waitNum>>
          ELSE IF p = Switch THEN SwitchProgress(m) ELSE NodeProgress(p, m)
       /\ thread' = IF ThreadEnds(l, m) THEN [thread EXCEPT ![l] = "done"] ELSE thread
       /\ UNCHANGED <<simVars, isAbort, need, linkVars, saved, load>>

\* recvHeader fails: an exit event goes into the event queue ...
ConnectionLost(l) ==
    /\ Live(To(l)) /\ thread[l] = "recv"
    /\ chan[l] = <<>> /\ ~Live(From(l))
    /\ exiting' = [exiting EXCEPT ![To(l)] = IF @ = "no" THEN "lost" ELSE @]
    /\ thread' = [thread EXCEPT ![l] = "lost"]
    /\ UNCHANGED <<tick, when, pc, caller, syncVars, linkVars, chan, saved, load>>

\* Variant: abort sets its flag and leaves the count.
abortFlagOnly(l) ==
    /\ Live(To(l)) /\ thread[l] = "lost"
    /\ isAbort' = [isAbort EXCEPT ![To(l)] = TRUE]
    /\ thread' = [thread EXCEPT ![l] = "done"]
    /\ UNCHANGED <<simVars, waitNum, nextAt, doing, need, numReq, linkVars, chan, saved, load>>

\* ... and then, under another lock, Sync::abort lets the simulation thread go.
abort(l) ==
    /\ Live(To(l)) /\ thread[l] = "lost"
    /\ waitNum' = [waitNum EXCEPT ![To(l)] = 0]
    /\ isAbort' = [isAbort EXCEPT ![To(l)] = TRUE]
    /\ thread' = [thread EXCEPT ![l] = "done"]
    /\ UNCHANGED <<simVars, nextAt, doing, need, numReq, linkVars, chan, saved, load>>

---------------------------------------------------------------------------
\* A process is killed, or fails for a reason of its own.
Die(p) ==
    /\ Live(p) /\ load.deaths > 0
    /\ load' = [load EXCEPT !.deaths = @ - 1]
    /\ Ends(p, chan)
    /\ UNCHANGED <<tick, when, caller, exiting, syncVars, linkVars, thread, saved>>

Init ==
    /\ tick = [p \in Processes |-> 0]
    /\ when = [p \in Processes |-> 0]
    /\ pc = [p \in Processes |-> "run"]             \* DistIface::startup
    /\ caller = [p \in Processes |-> "start"]
    /\ exiting = [p \in Processes |-> "no"]
    /\ waitNum = [p \in Processes |-> IF p = Switch THEN Cardinality(Nodes) ELSE 0]
    /\ isAbort = [p \in Processes |-> FALSE]
    /\ nextAt = [p \in Processes |-> SyncStart]     \* Sync::init
    /\ doing = [p \in Processes |-> [op \in Ops |-> FALSE]]
    /\ need = [n \in Nodes |-> [op \in Ops |-> "none"]]
    /\ numReq = [op \in Ops |-> 0]
    /\ thread = [l \in Links |-> "recv"]
    /\ chan = [l \in Links |-> <<>>]
    /\ descQueue = [l \in Links |-> <<>>]
    /\ prevRecvTick = [l \in Links |-> 0]
    /\ txDone = [l \in Links |-> 0]
    /\ saved = [p \in Processes |-> 0]
    /\ load \in Workloads

SimThread(p) == \/ Advance(p) \/ SyncProcess(p) \/ ExitEvent(p)
                \/ drainComplete(p) \/ serialize(p) \/ NodeRun(p)
                \/ p = Switch /\ SwitchRun
                \/ StartReturns(p) \/ ProcessReturns(p) \/ DrainReturns(p)
                \/ \E l \in Links : To(l) = p /\ rxDone(l)

RecvThread(l) == pushPacket(l) \/ progress(l) \/ ConnectionLost(l) \/ abort(l)

Next == \/ \E p \in Processes : SimThread(p) \/ Die(p)
        \/ \E l \in Links : RecvThread(l) \/ transmit(l) \/ transmitFails(l)
        \/ \E n \in Nodes, op \in Ops, req \in ReqTypes : request(n, op, req)

\* Both kinds of thread are run by the host; guests and failures are free.
Fairness == /\ \A p \in Processes : WF_vars(SimThread(p))
            /\ \A l \in Links : WF_vars(RecvThread(l))

Spec == Init /\ [][Next]_vars
FairSpec == Spec /\ Fairness
---------------------------------------------------------------------------
\* Properties

Data(l) == [type : {"data"}, tick : 0..MaxTick, epoch : Nat]
Req == [type : {"req"}, tick : 0..MaxTick,
        need : [Ops -> {"none", "collective", "immediate", "pending"}]]
Ack == [type : {"ack"}, tick : Nat, do : [Ops -> BOOLEAN]]

\* The state has the shape the code gives it: a barrier never counts more
\* requests than there are nodes, requests travel to the switch only and
\* acknowledgements from it only.
SyncTypeOK ==
    /\ tick \in [Processes -> 0..MaxTick]
    /\ when \in [Processes -> 0..(MaxTick + Repeat)]
    /\ pc \in [Processes -> {"run", "wait", "return", "simulate", "unsynced", "drain",
                             "save", "exited"}]
    /\ caller \in [Processes -> {"start", "process", "drainComplete"}]
    /\ exiting \in [Processes -> {"no", "request", "lost"}]
    /\ waitNum \in [Processes -> 0..Cardinality(Nodes)]
    /\ isAbort \in [Processes -> BOOLEAN]
    /\ nextAt \in [Processes -> Nat]
    /\ doing \in [Processes -> [Ops -> BOOLEAN]]
    /\ need \in [Nodes -> [Ops -> {"none", "collective", "immediate", "pending"}]]
    /\ numReq \in [Ops -> 0..Cardinality(Nodes)]
    /\ thread \in [Links -> {"recv", "lost", "done"}]
    /\ \A l \in Links : chan[l] \in Seq(Data(l) \cup (IF To(l) = Switch THEN Req ELSE Ack))
    /\ descQueue \in [Links -> Seq(0..MaxTick)]
    /\ prevRecvTick \in [Links -> 0..MaxTick]
    /\ txDone \in [Links -> 0..(MaxTick + SendDelay)]
    /\ saved \in [Processes -> Nat]

\* The checks of calcReceiveTick and pushPacket for a packet sent at tick t.
\* Ticks are unsigned: when - Repeat wraps round below zero.
CanPush(l, t) ==
    LET p == To(l)
    IN /\ ReceiveTick(t) >= prevRecvTick[l] + SendDelay
       /\ ReceiveTick(t) > tick[p]
       /\ when[p] >= Repeat /\ t > when[p] - Repeat
       /\ ReceiveTick(t) > when[p]
       /\ descQueue[l] # <<>> => Head(descQueue[l]) + SendDelay <= ReceiveTick(t)

\* Whenever a receiver thread takes a packet from its stream, however far its
\* own process and the sender have simulated, the assertions and panics of
\* pushPacket hold: "every packet must be sent and arrive in the same quantum",
\* "no packet may be scheduled for receive in the arrival quantum", and the
\* receive event lies in the future.
PacketsArriveInTime ==
    \A l \in Links : Receiving(l, {"data"}) => CanPush(l, Head(chan[l]).tick)

\* The assertions of the barrier itself hold, whatever the order of requests,
\* acknowledgements and threads: a command is only counted while a barrier
\* waits for one, a periodic barrier completes at the tick of all its members
\* (so that it never pairs with the barrier of a checkpoint), and the first
\* barrier carries no decision.
BarrierAsserts ==
    /\ \A l \in Links : Receiving(l, {"req", "ack"}) /\ ~isAbort[To(l)] => waitNum[To(l)] > 0
    /\ \A n \in Nodes : pc[n] = "run" => waitNum[n] = 0 \/ isAbort[n]
    /\ \A n \in Nodes : Completed(n) /\ caller[n] = "process" => nextAt[n] = tick[n]
    /\ pc[Switch] = "run" /\ AllAsked /\ ~isAbort[Switch] /\ caller[Switch] = "process"
          => nextAt[Switch] = tick[Switch]
    /\ \A p \in Processes : Completed(p) /\ caller[p] = "start"
          => ~doing[p]["exit"] /\ ~doing[p]["ckpt"] /\ nextAt[p] >= tick[p]

\* p is on its way out because the barrier decided so, or taking a checkpoint.
LeavesOnRequest(p) == exiting[p] = "request"
InCheckpoint(p) == \/ pc[p] = "drain"
                   \/ pc[p] \in {"run", "wait", "return"} /\ caller[p] = "drainComplete"

\* What one process does on the decision of a barrier, all do: nobody simulates
\* past the tick at which one process leaves on request, and while one process
\* takes a checkpoint, and none has failed, every other one takes the same
\* checkpoint, has written it, or has not left the barrier that decided it yet.
AllActTogether ==
    \A p, q \in Processes :
        /\ LeavesOnRequest(p) => tick[q] <= tick[p]
        /\ InCheckpoint(p) /\ (\A r \in Processes : Live(r)) =>
              \/ InCheckpoint(q)
              \/ pc[q] \in {"wait", "return"} /\ caller[q] = "process"
              \/ saved[q] + (IF pc[q] = "save" THEN 1 ELSE 0) = saved[p] + 1

\* drainComplete "drains the underlying physical network": when a process
\* writes a checkpoint and the barrier was not aborted, no packet that its
\* sender sent before that same checkpoint is still in a stream, where neither
\* side would save it.
CheckpointDrainsNetwork ==
    \A l \in Links : pc[To(l)] = "save" /\ ~isAbort[To(l)] =>
        \A i \in 1..Len(chan[l]) :
            chan[l][i].type = "data" => chan[l][i].epoch > saved[To(l)]

\* The processes implement the clock of QuantumClock.
Clock == INSTANCE QuantumClock WITH clock <- tick
ClockSpec == Clock!Spec

\* Unless a process ends, every process simulates to the end: the barriers
\* never leave everyone waiting for everyone.
Progress == <>(\A p \in Processes : tick[p] = MaxTick \/ \E q \in Processes : ~Live(q))

\* When every node has asked for it, in the same quantum or one after the other,
\* all processes end.
ExitsTogether ==
    (load.ops = {"exit"} /\ \A n \in Nodes : need[n]["exit"] # "none")
        ~> (\A p \in Processes : ~Live(p))

\* In a run that takes no checkpoint, the end of any process ends them all:
\* nobody is left waiting in a barrier for a process that is gone.
EndsSpread ==
    ("ckpt" \notin load.ops /\ \E p \in Processes : ~Live(p))
        ~> (\A p \in Processes : ~Live(p))
=============================================================================
