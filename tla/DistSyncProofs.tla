--------------------------- MODULE DistSyncProofs ---------------------------
(***************************************************************************)
(* The barrier of a distributed run never fails an assertion, whatever the *)
(* number of nodes, the quantum, the checkpoints and the processes that    *)
(* die, as long as the guests make collective requests only (immediate     *)
(* ones do break it).                                                      *)
(*                                                                         *)
(* The invariant follows one node through a barrier.  Its request is on    *)
(* the wire, or it is counted at the switch, or its acknowledgement is on  *)
(* the wire, and never two of these.  The nodes the switch still waits for *)
(* form a set whose size is waitNum; all others sleep and sent nothing     *)
(* more.  Where a node and the switch go next (Kind, NextSync) is the same *)
(* for both at every moment, an acknowledgement on the wire included.      *)
(***************************************************************************)
EXTENDS DistSync, FiniteSetTheorems, TLAPS

CollectiveOnly == ReqTypes \subseteq {"collective"}

-----------------------------------------------------------------------------
\* The streams

Up(n) == chan[<<n, Switch>>]
Down(n) == chan[<<Switch, n>>]

Msgs(s) == {s[i] : i \in 1..Len(s)}
AcksIn(n) == {m \in Msgs(Down(n)) : m.type = "ack"}
ReqsIn(n) == {m \in Msgs(Up(n)) : m.type = "req"}

OneAck(s) == \A i, j \in 1..Len(s) : s[i].type = "ack" /\ s[j].type = "ack" => i = j
ReqLast(s) == \A i \in 1..Len(s) : s[i].type = "req" => i = Len(s)

Wire(l) == Data(l) \cup (IF To(l) = Switch THEN Req ELSE Ack)

-----------------------------------------------------------------------------
\* Where a process goes next

InBarrier(p) == pc[p] \in {"run", "wait", "return"}
InStart(p) == InBarrier(p) /\ caller[p] = "start"
Waiting(n) == pc[n] = "wait" /\ waitNum[n] = 1

\* The barrier that follows one of kind c in which do was decided.
After(c, do) == IF c # "process" THEN "process"
                ELSE IF do["exit"] THEN "none"
                ELSE IF do["ckpt"] THEN "drainComplete" ELSE "process"

\* The barrier a process is in, or goes to next if it has completed that one.
Kind(p) == IF Completed(p) THEN After(caller[p], doing[p])
           ELSE IF InBarrier(p) THEN caller[p]
           ELSE IF pc[p] = "drain" THEN "drainComplete"
           ELSE IF pc[p] = "unsynced" THEN "none" ELSE "process"

\* The tick of its next periodic sync, and what an acknowledgement makes of it.
NextSync(p) == IF InStart(p) THEN SyncStart
               ELSE IF Completed(p) /\ caller[p] = "process" /\ ~doing[p]["exit"]
               THEN tick[p] + Repeat ELSE when[p]
AckSync(n, m) == IF caller[n] = "start" THEN SyncStart
                 ELSE IF caller[n] = "process" /\ ~m.do["exit"] THEN tick[n] + Repeat
                 ELSE when[n]

-----------------------------------------------------------------------------
\* The inductive invariant

StateOK ==
    /\ tick \in [Processes -> 0..MaxTick]
    /\ when \in [Processes -> 0..(MaxTick + Repeat)]
    /\ pc \in [Processes -> {"run", "wait", "return", "simulate", "unsynced", "drain",
                             "save", "exited"}]
    /\ caller \in [Processes -> {"start", "process", "drainComplete"}]
    /\ exiting \in [Processes -> {"no", "request", "lost"}]
    /\ waitNum \in [Processes -> 0..Cardinality(Nodes)]
    /\ isAbort \in [Processes -> BOOLEAN]
    /\ nextAt \in [Processes -> Nat]
    /\ doing \in [Processes -> [Ops -> BOOLEAN]]
    /\ need \in [Nodes -> [Ops -> {"none", "collective", "pending"}]]
    /\ numReq \in [Ops -> 0..Cardinality(Nodes)]
    /\ thread \in [Links -> {"recv", "lost", "done"}]
    /\ descQueue \in [Links -> Seq(0..MaxTick)]
    /\ prevRecvTick \in [Links -> 0..MaxTick]
    /\ txDone \in [Links -> 0..(MaxTick + SendDelay)]
    /\ saved \in [Processes -> Nat]

ChanOK ==
    /\ chan = [l \in Links |-> chan[l]]
    /\ \A l \in Links : chan[l] \in Seq(Wire(l))
    /\ \A l \in Links : ~Live(To(l)) => chan[l] = <<>>
    /\ \A n \in Nodes : \A m \in ReqsIn(n), op \in Ops : m.need[op] # "immediate"

ProcessOK(p) == Live(p) =>
    /\ pc[p] = "wait" => p # Switch
    /\ pc[p] = "return" => p = Switch
    /\ InStart(p) => when[p] = 0 /\ tick[p] = 0
    /\ ~InStart(p) => when[p] >= SyncStart
    /\ InBarrier(p) /\ caller[p] = "process" => tick[p] = when[p]
    /\ pc[p] # "unsynced" => tick[p] <= when[p]
    /\ Completed(p) /\ caller[p] = "start" => \A op \in Ops : ~doing[p][op]

NodeOK(n) ==
    /\ waitNum[n] \in 0..1
    /\ isAbort[n] \/ thread[<<Switch, n>>] = "lost" => ~Live(Switch) /\ Down(n) = <<>>
    /\ Live(n) => /\ waitNum[n] = 1 => pc[n] = "wait" /\ ~isAbort[n]
                  /\ InStart(n) => \A op \in Ops : need[n][op] = "none"
                  /\ Completed(n) /\ caller[n] = "process" => nextAt[n] = tick[n]
                  /\ Completed(n) /\ caller[n] = "start" => nextAt[n] = SyncStart

AckOK(n) ==
    /\ OneAck(Down(n))
    /\ \A m \in AcksIn(n) :
          /\ Waiting(n)
          /\ caller[n] = "process" => m.tick = tick[n]
          /\ caller[n] = "start" => m.tick = SyncStart /\ \A op \in Ops : ~m.do[op]

ReqOK(n) ==
    /\ ReqLast(Up(n))
    /\ \A m \in ReqsIn(n) :
          /\ Live(n) => Waiting(n) /\ AcksIn(n) = {}
          /\ ~isAbort[Switch] =>
                /\ m.tick <= NextSync(Switch)
                /\ Kind(Switch) = "process" => m.tick = NextSync(Switch) /\ tick[n] = m.tick
                /\ Kind(Switch) = "start" => \A op \in Ops : m.need[op] = "none"
          /\ \A op \in Ops : m.need[op] = "collective" => need[n][op] = "pending"

\* Node n has asked and is counted.
Counted(n) ==
    /\ Up(n) = <<>>
    /\ Live(n) => Waiting(n) /\ AcksIn(n) = {}
    /\ Kind(Switch) = "process" =>
          tick[n] = NextSync(Switch) /\ nextAt[Switch] = NextSync(Switch)

\* W is the set of nodes that the switch still waits for.
WaitsFor(W) ==
    /\ Cardinality(W) = waitNum[Switch]
    /\ \A n \in Nodes \ W : Counted(n)

SwitchOK == Live(Switch) =>
    /\ SyncStart <= nextAt[Switch] /\ nextAt[Switch] <= NextSync(Switch)
    /\ ~isAbort[Switch] =>
          /\ Kind(Switch) = "start" => \A op \in Ops : numReq[op] = 0 /\ ~doing[Switch][op]
          /\ \E W \in SUBSET Nodes : WaitsFor(W)

AlignedOK(n) == Live(Switch) /\ Live(n) =>
    /\ AcksIn(n) = {} => /\ NextSync(n) = NextSync(Switch)
                         /\ isAbort[Switch] \/ Kind(n) = Kind(Switch)
    /\ \A m \in AcksIn(n) : /\ AckSync(n, m) = NextSync(Switch)
                            /\ isAbort[Switch] \/ After(caller[n], m.do) = Kind(Switch)

\* The requests that numReq[op] counts are those of the nodes in R.
CountsOf(op, R) ==
    /\ Cardinality(R) = numReq[op]
    /\ \A n \in R : /\ need[n][op] = "pending"
                    /\ \A m \in ReqsIn(n) : m.need[op] # "collective"

CountsOK == \A op \in Ops : \E R \in SUBSET Nodes : CountsOf(op, R)

SyncInv ==
    /\ StateOK /\ ChanOK
    /\ \A p \in Processes : ProcessOK(p)
    /\ \A n \in Nodes : NodeOK(n) /\ AckOK(n) /\ ReqOK(n) /\ AlignedOK(n)
    /\ SwitchOK
    /\ CountsOK
-----------------------------------------------------------------------------
(* Facts about constants, links and sequences of messages. *)

LEMMA Consts ==
    /\ Switch \notin Nodes /\ IsFiniteSet(Nodes)
    /\ Cardinality(Nodes) \in Nat /\ Cardinality(Nodes) > 0
    /\ Repeat \in Nat /\ Repeat > 0 /\ SyncStart \in Nat /\ SyncStart > 0
    /\ MaxTick \in Nat /\ SyncStart <= MaxTick /\ LinkDelay \in Nat /\ Repeat <= LinkDelay
<1>1. /\ Switch \notin Nodes /\ IsFiniteSet(Nodes) /\ Nodes # {}
      /\ Repeat \in Nat \ {0} /\ LinkDelay \in Nat /\ Repeat <= LinkDelay
      /\ SyncStart \in Nat /\ Repeat <= SyncStart
      /\ MaxTick \in Nat /\ SyncStart <= MaxTick
  BY SyncAssumption DEF SyncAssumption
<1>2. Cardinality(Nodes) \in Nat /\ Cardinality(Nodes) # 0
  BY <1>1, FS_CardinalityType, FS_EmptySet
<1> QED
  BY <1>1, <1>2

LEMMA LinkEnds ==
    /\ \A n \in Nodes : /\ <<n, Switch>> \in Links /\ <<Switch, n>> \in Links
                        /\ From(<<n, Switch>>) = n /\ To(<<n, Switch>>) = Switch
                        /\ From(<<Switch, n>>) = Switch /\ To(<<Switch, n>>) = n
                        /\ n # Switch /\ n \in Processes
    /\ Switch \in Processes
    /\ \A l \in Links : \E n \in Nodes : l = <<n, Switch>> \/ l = <<Switch, n>>
    /\ \A l \in Links : From(l) \in Processes /\ To(l) \in Processes
    /\ \A n, k \in Nodes : /\ <<n, Switch>> # <<Switch, k>>
                           /\ <<n, Switch>> = <<k, Switch>> => n = k
                           /\ <<Switch, n>> = <<Switch, k>> => n = k
BY Consts DEF Links, From, To, Processes

LEMMA LinkTo ==
    ASSUME NEW l \in Links
    PROVE  /\ To(l) \in Nodes => l = <<Switch, To(l)>> /\ From(l) = Switch
           /\ To(l) = Switch => l = <<From(l), Switch>> /\ From(l) \in Nodes
           /\ To(l) \in Nodes \/ To(l) = Switch
<1>1. PICK n \in Nodes : l = <<n, Switch>> \/ l = <<Switch, n>>
  BY LinkEnds
<1>2. CASE l = <<n, Switch>>
  BY <1>2, LinkEnds, Consts
<1>3. CASE l = <<Switch, n>>
  BY <1>3, LinkEnds, Consts
<1> QED
  BY <1>1, <1>2, <1>3

LEMMA EmptyLen == \A S : \A s \in Seq(S) : Len(s) = 0 => s = <<>>
OBVIOUS

LEMMA MsgsEmpty == Msgs(<<>>) = {}
BY DEF Msgs

LEMMA MsgsAppend ==
    ASSUME NEW S, NEW s \in Seq(S), NEW m \in S
    PROVE  Msgs(Append(s, m)) = Msgs(s) \cup {m}
<1>1. /\ Len(Append(s, m)) = Len(s) + 1 /\ Len(s) \in Nat
      /\ \A i \in 1..Len(s) : Append(s, m)[i] = s[i]
      /\ Append(s, m)[Len(s) + 1] = m
  OBVIOUS
<1>2. \A i \in 1..(Len(s) + 1) : i \in 1..Len(s) \/ i = Len(s) + 1
  BY <1>1
<1>3. \A x \in Msgs(Append(s, m)) : x \in Msgs(s) \cup {m}
  BY <1>1, <1>2 DEF Msgs
<1>4. \A x \in Msgs(s) : x \in Msgs(Append(s, m))
  BY <1>1 DEF Msgs
<1>5. m \in Msgs(Append(s, m))
  BY <1>1 DEF Msgs
<1> QED
  BY <1>3, <1>4, <1>5

LEMMA MsgsTail ==
    ASSUME NEW S, NEW s \in Seq(S), s # <<>>
    PROVE  /\ Head(s) \in Msgs(s) /\ Head(s) \in S
           /\ Tail(s) \in Seq(S)
           /\ Msgs(Tail(s)) \subseteq Msgs(s)
           /\ \A m \in Msgs(s) : m = Head(s) \/ m \in Msgs(Tail(s))
<1>1. /\ Len(s) \in Nat /\ Len(s) > 0 /\ Head(s) = s[1] /\ Head(s) \in S
      /\ Tail(s) \in Seq(S) /\ Len(Tail(s)) = Len(s) - 1
      /\ \A i \in 1..(Len(s) - 1) : Tail(s)[i] = s[i + 1]
  OBVIOUS
<1>2. \A i \in 1..Len(s) : i = 1 \/ (i - 1 \in 1..(Len(s) - 1) /\ (i - 1) + 1 = i)
  BY <1>1
<1>3. \A i \in 1..(Len(s) - 1) : i + 1 \in 1..Len(s)
  BY <1>1
<1>4. Head(s) \in Msgs(s)
  BY <1>1 DEF Msgs
<1>5. \A x \in Msgs(Tail(s)) : x \in Msgs(s)
  BY <1>1, <1>3 DEF Msgs
<1>6. ASSUME NEW m \in Msgs(s) PROVE m = Head(s) \/ m \in Msgs(Tail(s))
  <2>1. PICK i \in 1..Len(s) : m = s[i]
    BY DEF Msgs
  <2>2. CASE i = 1
    BY <2>1, <2>2, <1>1
  <2>3. CASE i # 1
    <3>1. i - 1 \in 1..Len(Tail(s)) /\ Tail(s)[i - 1] = m
      BY <2>1, <2>3, <1>1, <1>2
    <3> QED
      BY <3>1 DEF Msgs
  <2> QED
    BY <2>2, <2>3
<1> QED
  BY <1>1, <1>4, <1>5, <1>6

LEMMA OneAckAppend ==
    ASSUME NEW S, NEW s \in Seq(S), NEW m \in S, OneAck(s),
           m.type = "ack" => \A x \in Msgs(s) : x.type # "ack"
    PROVE  OneAck(Append(s, m))
<1>1. /\ Len(Append(s, m)) = Len(s) + 1 /\ Len(s) \in Nat
      /\ \A i \in 1..Len(s) : Append(s, m)[i] = s[i]
      /\ Append(s, m)[Len(s) + 1] = m
  OBVIOUS
<1>2. m.type = "ack" => \A i \in 1..Len(s) : s[i].type # "ack"
  BY DEF Msgs
<1>3. \A i \in 1..(Len(s) + 1) : i \in 1..Len(s) \/ i = Len(s) + 1
  BY <1>1
<1> QED
  BY <1>1, <1>2, <1>3 DEF OneAck

LEMMA OneAckTail ==
    ASSUME NEW S, NEW s \in Seq(S), s # <<>>, OneAck(s)
    PROVE  /\ OneAck(Tail(s))
           /\ Head(s).type = "ack" => \A x \in Msgs(Tail(s)) : x.type # "ack"
<1>1. /\ Len(s) \in Nat /\ Len(s) > 0 /\ Head(s) = s[1]
      /\ Len(Tail(s)) = Len(s) - 1
      /\ \A i \in 1..(Len(s) - 1) : Tail(s)[i] = s[i + 1] /\ i + 1 \in 1..Len(s) /\ i + 1 # 1
  OBVIOUS
<1>2. OneAck(Tail(s))
  BY <1>1 DEF OneAck
<1>3. Head(s).type = "ack" => \A i \in 1..(Len(s) - 1) : Tail(s)[i].type # "ack"
  BY <1>1 DEF OneAck
<1> QED
  BY <1>1, <1>2, <1>3 DEF Msgs

LEMMA ReqLastAppend ==
    ASSUME NEW S, NEW s \in Seq(S), NEW m \in S, \A x \in Msgs(s) : x.type # "req"
    PROVE  ReqLast(Append(s, m))
<1>1. /\ Len(Append(s, m)) = Len(s) + 1 /\ Len(s) \in Nat
      /\ \A i \in 1..Len(s) : Append(s, m)[i] = s[i]
      /\ Append(s, m)[Len(s) + 1] = m
  OBVIOUS
<1>2. \A i \in 1..Len(s) : s[i].type # "req"
  BY DEF Msgs
<1> QED
  BY <1>1, <1>2 DEF ReqLast

LEMMA ReqLastTail ==
    ASSUME NEW S, NEW s \in Seq(S), s # <<>>, ReqLast(s)
    PROVE  /\ ReqLast(Tail(s))
           /\ Head(s).type = "req" => Tail(s) = <<>>
<1>1. /\ Len(s) \in Nat /\ Len(s) > 0 /\ Head(s) = s[1] /\ Tail(s) \in Seq(S)
      /\ Len(Tail(s)) = Len(s) - 1
      /\ \A i \in 1..(Len(s) - 1) : Tail(s)[i] = s[i + 1] /\ i + 1 \in 1..Len(s)
  OBVIOUS
<1>2. \A i \in 1..Len(s) : s[i].type = "req" => i = Len(s)
  BY DEF ReqLast
<1>3. ASSUME NEW i \in 1..(Len(s) - 1), Tail(s)[i].type = "req" PROVE i = Len(s) - 1
  <2>1. s[i + 1].type = "req" /\ i + 1 \in 1..Len(s)
    BY <1>1, <1>3
  <2>2. i + 1 = Len(s)
    BY <2>1, <1>2, Zenon
  <2>3. Len(s) \in Nat /\ i \in Int
    BY <1>1
  <2> QED
    BY <2>2, <2>3
<1>4. Head(s).type = "req" => Len(s) = 1
  <2>1. 1 \in 1..Len(s)
    BY <1>1
  <2> QED
    BY <2>1, <1>1, <1>2
<1>5. Len(Tail(s)) = 0 => Tail(s) = <<>>
  BY <1>1, EmptyLen
<1>6. Head(s).type = "req" => Tail(s) = <<>>
  BY <1>1, <1>4, <1>5
<1>7. ReqLast(Tail(s))
  BY <1>1, <1>3 DEF ReqLast
<1> QED
  BY <1>6, <1>7
-----------------------------------------------------------------------------
(* What the state of a process and the streams say, for use one at a time. *)

LEMMA TypeFollows == StateOK /\ ChanOK => SyncTypeOK
<1> SUFFICES ASSUME StateOK, ChanOK PROVE SyncTypeOK
  OBVIOUS
<1>1. need \in [Nodes -> [Ops -> {"none", "collective", "immediate", "pending"}]]
  BY DEF StateOK
<1>2. \A l \in Links : chan[l] \in Seq(Data(l) \cup (IF To(l) = Switch THEN Req ELSE Ack))
  BY DEF ChanOK, Wire
<1> QED
  BY <1>1, <1>2 DEF StateOK, SyncTypeOK

LEMMA TicksNat ==
    ASSUME StateOK, NEW p \in Processes
    PROVE  tick[p] \in Nat /\ when[p] \in Nat
<1>1. /\ tick \in [Processes -> 0..MaxTick] /\ when \in [Processes -> 0..(MaxTick + Repeat)]
  BY DEF StateOK
<1> QED
  BY <1>1, Consts

LEMMA StreamTypes ==
    ASSUME ChanOK, NEW n \in Nodes
    PROVE  /\ Up(n) \in Seq(Wire(<<n, Switch>>)) /\ Down(n) \in Seq(Wire(<<Switch, n>>))
           /\ Wire(<<n, Switch>>) = Data(<<n, Switch>>) \cup Req
           /\ Wire(<<Switch, n>>) = Data(<<Switch, n>>) \cup Ack
           /\ AcksIn(n) \subseteq Ack /\ ReqsIn(n) \subseteq Req
<1>1. /\ Up(n) \in Seq(Wire(<<n, Switch>>)) /\ Down(n) \in Seq(Wire(<<Switch, n>>))
  BY LinkEnds DEF ChanOK, Up, Down
<1>2. /\ Wire(<<n, Switch>>) = Data(<<n, Switch>>) \cup Req
      /\ Wire(<<Switch, n>>) = Data(<<Switch, n>>) \cup Ack
  BY LinkEnds DEF Wire
<1>3. ASSUME NEW S, NEW s \in Seq(S) PROVE Msgs(s) \subseteq S
  BY DEF Msgs
<1>4. Msgs(Up(n)) \subseteq Data(<<n, Switch>>) \cup Req
  BY <1>1, <1>2, <1>3
<1>5. Msgs(Down(n)) \subseteq Data(<<Switch, n>>) \cup Ack
  BY <1>1, <1>2, <1>3
<1>6. \A l : \A m \in Data(l) : m.type = "data"
  BY DEF Data
<1> QED
  BY <1>1, <1>2, <1>4, <1>5, <1>6 DEF AcksIn, ReqsIn

\* The variables that belong to process p.
Same(p) == /\ pc'[p] = pc[p] /\ caller'[p] = caller[p] /\ when'[p] = when[p]
           /\ tick'[p] = tick[p] /\ doing'[p] = doing[p]
           /\ waitNum'[p] = waitNum[p] /\ isAbort'[p] = isAbort[p]

LEMMA SameView ==
    ASSUME NEW p \in Processes, Same(p)
    PROVE  /\ Live(p)' <=> Live(p)
           /\ Waiting(p)' <=> Waiting(p)
           /\ InStart(p)' <=> InStart(p)
           /\ Completed(p)' <=> Completed(p)
           /\ Kind(p)' = Kind(p)
           /\ NextSync(p)' = NextSync(p)
           /\ \A m : AckSync(p, m)' = AckSync(p, m)
<1>1. Completed(p)' <=> Completed(p)
  BY DEF Same, Completed
<1>2. InStart(p)' <=> InStart(p)
  BY DEF Same, InStart, InBarrier
<1>3. Kind(p)' = Kind(p)
  BY <1>1 DEF Same, Kind, InBarrier, After
<1>4. NextSync(p)' = NextSync(p)
  BY <1>1, <1>2 DEF Same, NextSync
<1>5. \A m : AckSync(p, m)' = AckSync(p, m)
  BY DEF Same, AckSync
<1> QED
  BY <1>1, <1>2, <1>3, <1>4, <1>5 DEF Same, Live, Waiting

LEMMA SameProcessOK ==
    ASSUME NEW p \in Processes, Same(p), ProcessOK(p)
    PROVE  ProcessOK(p)'
BY SameView DEF ProcessOK, Same, InBarrier
-----------------------------------------------------------------------------
(* One lemma for the steps of a simulation thread outside the barrier, and  *)
(* on its way out of it: they leave the streams alone and keep the promise  *)
(* of where the process goes next.                                          *)

Busy(p) == Live(p) /\ ~Waiting(p)

LEMMA BusyNode ==
    ASSUME SyncInv, NEW n \in Nodes, Busy(n)
    PROVE  /\ AcksIn(n) = {} /\ ReqsIn(n) = {}
           /\ \A W \in SUBSET Nodes : WaitsFor(W) => n \in W
<1>1. AckOK(n) /\ ReqOK(n)
  BY DEF SyncInv
<1>2. AcksIn(n) = {} /\ ReqsIn(n) = {}
  BY <1>1 DEF AckOK, ReqOK, Busy
<1> QED
  BY <1>2 DEF WaitsFor, Counted, Busy

LEMMA LocalStep ==
    ASSUME SyncInv, NEW p \in Processes,
           \A q \in Processes \ {p} : Same(q),
           UNCHANGED <<chan, need, numReq, nextAt, thread, waitNum, isAbort>>,
           StateOK', Busy(p), Busy(p)',
           NextSync(p)' = NextSync(p),
           isAbort[p] \/ Kind(p)' = Kind(p),
           \A op \in Ops : doing'[p][op] => doing[p][op],
           ProcessOK(p)', p \in Nodes => NodeOK(p)'
    PROVE  SyncInv'
<1>1. \A q \in Processes : Live(q)' <=> Live(q)
  BY SameView DEF Busy
<1>2. \A n \in Nodes : /\ AcksIn(n)' = AcksIn(n) /\ ReqsIn(n)' = ReqsIn(n)
                       /\ Up(n)' = Up(n) /\ Down(n)' = Down(n)
  BY DEF AcksIn, ReqsIn, Up, Down
<1>3. ChanOK'
  <2>1. \A l \in Links : Live(To(l))' <=> Live(To(l))
    BY <1>1, LinkEnds
  <2>2. ChanOK
    BY DEF SyncInv
  <2> QED
    BY <2>1, <2>2, <1>2 DEF ChanOK
<1>4. NextSync(Switch)' = NextSync(Switch)
  BY SameView, LinkEnds
<1>5. isAbort[Switch] \/ Kind(Switch)' = Kind(Switch)
  BY SameView, LinkEnds
<1>6. \A op \in Ops : doing'[Switch][op] => doing[Switch][op]
  BY LinkEnds DEF Same
<1>7. \A q \in Processes : ProcessOK(q)'
  <2>1. \A q \in Processes \ {p} : ProcessOK(q)'
    BY SameProcessOK DEF SyncInv
  <2> QED
    BY <2>1
<1>8. ASSUME NEW n \in Nodes
      PROVE  NodeOK(n)' /\ AckOK(n)' /\ ReqOK(n)' /\ AlignedOK(n)' /\ (Counted(n) => Counted(n)' \/ n = p \/ isAbort[Switch])
  <2>0. NodeOK(n) /\ AckOK(n) /\ ReqOK(n) /\ AlignedOK(n) /\ n \in Processes
    BY LinkEnds DEF SyncInv
  <2>1. CASE n = p
    <3>1. AcksIn(n) = {} /\ ReqsIn(n) = {}
      BY <2>1, BusyNode
    <3>2. NodeOK(n)'
      BY <2>1
    <3>3. AckOK(n)' /\ ReqOK(n)'
      BY <3>1, <2>0, <1>2 DEF AckOK, ReqOK
    <3>4. isAbort[n] => ~Live(Switch)
      BY <2>0 DEF NodeOK
    <3>5. AlignedOK(n)'
      BY <3>1, <3>4, <2>0, <2>1, <1>1, <1>2, <1>4, <1>5, LinkEnds DEF AlignedOK
    <3> QED
      BY <3>2, <3>3, <3>5, <2>1
  <2>2. CASE n # p
    <3>1. Same(n)
      BY <2>2, <2>0
    <3>2. /\ Waiting(n)' <=> Waiting(n)
          /\ InStart(n)' <=> InStart(n)
          /\ Completed(n)' <=> Completed(n)
          /\ Kind(n)' = Kind(n) /\ NextSync(n)' = NextSync(n)
          /\ \A m : AckSync(n, m)' = AckSync(n, m)
      BY <3>1, <2>0, SameView
    <3>3. NodeOK(n)'
      BY <3>1, <3>2, <2>0, <1>1, <1>2, LinkEnds DEF NodeOK, Same
    <3>4. AckOK(n)'
      BY <3>1, <3>2, <2>0, <1>2 DEF AckOK, Same
    <3>5. ReqOK(n)'
      BY <3>1, <3>2, <2>0, <1>1, <1>2, <1>4, <1>5 DEF ReqOK, Same
    <3>6. AlignedOK(n)'
      BY <3>1, <3>2, <2>0, <1>1, <1>2, <1>4, <1>5, LinkEnds DEF AlignedOK, Same
    <3>7. Counted(n) => Counted(n)' \/ isAbort[Switch]
      BY <3>1, <3>2, <2>0, <1>1, <1>2, <1>4, <1>5 DEF Counted, Same
    <3> QED
      BY <3>3, <3>4, <3>5, <3>6, <3>7
  <2> QED
    BY <2>1, <2>2
<1>9. SwitchOK'
  <2>1. SwitchOK
    BY DEF SyncInv
  <2>2. ASSUME NEW W \in SUBSET Nodes, WaitsFor(W), ~isAbort[Switch] PROVE WaitsFor(W)'
    <3>1. p \in Nodes => p \in W
      BY <2>2, BusyNode
    <3>2. \A n \in Nodes \ W : Counted(n)'
      BY <3>1, <2>2, <1>8 DEF WaitsFor
    <3> QED
      BY <3>2, <2>2 DEF WaitsFor
  <2> QED
    BY <2>1, <2>2, <1>1, <1>4, <1>5, <1>6, LinkEnds DEF SwitchOK
<1>10. CountsOK'
  <2>1. \A op \in Ops : \A R \in SUBSET Nodes : CountsOf(op, R) => CountsOf(op, R)'
    BY <1>2 DEF CountsOf
  <2> QED
    BY <2>1 DEF SyncInv, CountsOK
<1> QED
  BY <1>3, <1>7, <1>8, <1>9, <1>10 DEF SyncInv
LEMMA AdvanceOK ==
    ASSUME SyncInv, NEW p \in Processes, Advance(p)
    PROVE  SyncInv'
<1>0. StateOK /\ ProcessOK(p) /\ (p \in Nodes => NodeOK(p))
  BY DEF SyncInv
<1>1. /\ tick' = [tick EXCEPT ![p] = tick[p] + 1] /\ tick[p] < MaxTick
      /\ pc[p] \in {"simulate", "unsynced", "drain"}
      /\ tick[p] < when[p] \/ pc[p] = "unsynced"
      /\ UNCHANGED <<when, pc, caller, exiting, waitNum, isAbort, nextAt, doing, need, numReq,
                     descQueue, prevRecvTick, txDone, thread, chan, saved, load>>
  BY DEF Advance, Simulating, syncVars, linkVars
<1>2. StateOK'
  BY SMTT(30), <1>0, <1>1, Consts DEF StateOK
<1>3. \A q \in Processes \ {p} : Same(q)
  BY <1>0, <1>1 DEF Same, StateOK
<1>4. /\ Busy(p) /\ Busy(p)' /\ ~InBarrier(p) /\ ~InBarrier(p)' /\ ~Completed(p)
      /\ ~Completed(p)' /\ tick'[p] = tick[p] + 1 /\ tick[p] \in Nat /\ when[p] \in Nat
  BY <1>0, <1>1, Consts DEF Busy, Live, Waiting, InBarrier, Completed, StateOK
<1>5. NextSync(p)' = NextSync(p) /\ Kind(p)' = Kind(p)
  BY <1>1, <1>4 DEF NextSync, Kind, InStart, InBarrier
<1>6. ProcessOK(p)'
  BY <1>0, <1>1, <1>4 DEF ProcessOK, InStart, Busy
<1>7. p \in Nodes => NodeOK(p)'
  BY <1>0, <1>1, <1>4 DEF NodeOK, InStart, Live, Down
<1> QED
  BY <1>1, <1>2, <1>3, <1>4, <1>5, <1>6, <1>7, LocalStep

LEMMA SyncProcessOK ==
    ASSUME SyncInv, NEW p \in Processes, SyncProcess(p), pc[p] # "drain"
    PROVE  SyncInv'
<1>0. StateOK /\ ProcessOK(p) /\ (p \in Nodes => NodeOK(p))
  BY DEF SyncInv
<1>1. /\ pc' = [pc EXCEPT ![p] = "run"] /\ caller' = [caller EXCEPT ![p] = "process"]
      /\ pc[p] = "simulate" /\ tick[p] = when[p]
      /\ UNCHANGED <<tick, when, exiting, waitNum, isAbort, nextAt, doing, need, numReq,
                     descQueue, prevRecvTick, txDone, thread, chan, saved, load>>
  BY DEF SyncProcess, syncVars, linkVars
<1>2. StateOK'
  BY <1>0, <1>1 DEF StateOK
<1>3. \A q \in Processes \ {p} : Same(q)
  BY <1>0, <1>1 DEF Same, StateOK
<1>4. /\ Busy(p) /\ Busy(p)' /\ ~InBarrier(p) /\ InBarrier(p)' /\ ~Completed(p)
      /\ ~Completed(p)' /\ pc'[p] = "run" /\ caller'[p] = "process"
      /\ tick[p] \in Nat /\ when[p] \in Nat
  BY <1>0, <1>1, Consts DEF Busy, Live, Waiting, InBarrier, Completed, StateOK
<1>5. NextSync(p)' = NextSync(p) /\ Kind(p)' = Kind(p)
  BY <1>1, <1>4 DEF NextSync, Kind, InStart, InBarrier
<1>6. ProcessOK(p)'
  BY <1>0, <1>1, <1>4 DEF ProcessOK, InStart, Busy
<1>7. p \in Nodes => NodeOK(p)'
  <2> SUFFICES ASSUME p \in Nodes PROVE NodeOK(p)'
    OBVIOUS
  <2>1. Live(Switch)' <=> Live(Switch)
    BY <1>3, SameView, LinkEnds
  <2> QED
    BY <2>1, <1>0, <1>1, <1>4 DEF NodeOK, InStart, Busy, Down
<1> QED
  BY <1>1, <1>2, <1>3, <1>4, <1>5, <1>6, <1>7, LocalStep

LEMMA DrainCompleteOK ==
    ASSUME SyncInv, NEW p \in Processes, drainComplete(p)
    PROVE  SyncInv'
<1>0. StateOK /\ ProcessOK(p) /\ (p \in Nodes => NodeOK(p))
  BY DEF SyncInv
<1>1. /\ pc' = [pc EXCEPT ![p] = "run"] /\ caller' = [caller EXCEPT ![p] = "drainComplete"]
      /\ pc[p] = "drain"
      /\ UNCHANGED <<tick, when, exiting, waitNum, isAbort, nextAt, doing, need, numReq,
                     descQueue, prevRecvTick, txDone, thread, chan, saved, load>>
  BY DEF drainComplete, syncVars, linkVars
<1>2. StateOK'
  BY <1>0, <1>1 DEF StateOK
<1>3. \A q \in Processes \ {p} : Same(q)
  BY <1>0, <1>1 DEF Same, StateOK
<1>4. /\ Busy(p) /\ Busy(p)' /\ ~InBarrier(p) /\ InBarrier(p)' /\ ~Completed(p)
      /\ ~Completed(p)' /\ pc'[p] = "run" /\ caller'[p] = "drainComplete"
  BY <1>0, <1>1, Consts DEF Busy, Live, Waiting, InBarrier, Completed, StateOK
<1>5. NextSync(p)' = NextSync(p) /\ Kind(p)' = Kind(p)
  BY <1>1, <1>4 DEF NextSync, Kind, InStart, InBarrier
<1>6. ProcessOK(p)'
  BY <1>0, <1>1, <1>4 DEF ProcessOK, InStart, Busy
<1>7. p \in Nodes => NodeOK(p)'
  <2> SUFFICES ASSUME p \in Nodes PROVE NodeOK(p)'
    OBVIOUS
  <2>1. Live(Switch)' <=> Live(Switch)
    BY <1>3, SameView, LinkEnds
  <2> QED
    BY <2>1, <1>0, <1>1, <1>4 DEF NodeOK, InStart, Busy, Down
<1> QED
  BY <1>1, <1>2, <1>3, <1>4, <1>5, <1>6, <1>7, LocalStep

LEMMA SerializeOK ==
    ASSUME SyncInv, NEW p \in Processes, serialize(p)
    PROVE  SyncInv'
<1>0. StateOK /\ ProcessOK(p) /\ (p \in Nodes => NodeOK(p))
  BY DEF SyncInv
<1>1. /\ pc' = [pc EXCEPT ![p] = "simulate"] /\ saved' = [saved EXCEPT ![p] = saved[p] + 1]
      /\ pc[p] = "save"
      /\ UNCHANGED <<tick, when, caller, exiting, waitNum, isAbort, nextAt, doing, need, numReq,
                     descQueue, prevRecvTick, txDone, thread, chan, load>>
  BY DEF serialize, syncVars, linkVars
<1>2. StateOK'
  BY <1>0, <1>1 DEF StateOK
<1>3. \A q \in Processes \ {p} : Same(q)
  BY <1>0, <1>1 DEF Same, StateOK
<1>4. /\ Busy(p) /\ Busy(p)' /\ ~InBarrier(p) /\ ~InBarrier(p)' /\ ~Completed(p)
      /\ ~Completed(p)' /\ pc'[p] = "simulate"
  BY <1>0, <1>1, Consts DEF Busy, Live, Waiting, InBarrier, Completed, StateOK
<1>5. NextSync(p)' = NextSync(p) /\ Kind(p)' = Kind(p)
  BY <1>1, <1>4 DEF NextSync, Kind, InStart, InBarrier
<1>6. ProcessOK(p)'
  BY <1>0, <1>1, <1>4 DEF ProcessOK, InStart, Busy
<1>7. p \in Nodes => NodeOK(p)'
  <2> SUFFICES ASSUME p \in Nodes PROVE NodeOK(p)'
    OBVIOUS
  <2>1. Live(Switch)' <=> Live(Switch)
    BY <1>3, SameView, LinkEnds
  <2> QED
    BY <2>1, <1>0, <1>1, <1>4 DEF NodeOK, InStart, Busy, Down
<1> QED
  BY <1>1, <1>2, <1>3, <1>4, <1>5, <1>6, <1>7, LocalStep

LEMMA RxDoneOK ==
    ASSUME SyncInv, NEW l \in Links, rxDone(l)
    PROVE  SyncInv'
<1> DEFINE p == To(l)
<1>0. p \in Processes /\ StateOK /\ ProcessOK(p) /\ (p \in Nodes => NodeOK(p))
  BY LinkEnds DEF SyncInv
<1>1. /\ pc[p] \in {"simulate", "unsynced", "drain"} /\ descQueue[l] # <<>>
      /\ descQueue' = [descQueue EXCEPT ![l] = Tail(descQueue[l])]
      /\ prevRecvTick' = [prevRecvTick EXCEPT ![l] = tick[p]]
      /\ UNCHANGED <<tick, when, pc, caller, exiting, waitNum, isAbort, nextAt, doing, need,
                     numReq, txDone, thread, chan, saved, load>>
  BY DEF rxDone, Simulating, RxDue, simVars, syncVars
<1>2. StateOK'
  BY SMTT(30), <1>0, <1>1 DEF StateOK
<1>3. \A q \in Processes : Same(q)
  BY <1>1 DEF Same
<1>4. Busy(p) /\ Busy(p)'
  BY <1>1 DEF Busy, Live, Waiting
<1>5. NextSync(p)' = NextSync(p) /\ Kind(p)' = Kind(p)
  BY <1>0, <1>3, SameView
<1>6. ProcessOK(p)'
  BY <1>0, <1>3, SameProcessOK
<1>7. p \in Nodes => NodeOK(p)'
  BY <1>0, <1>1 DEF NodeOK, InStart, InBarrier, Completed, Live, Down
<1> HIDE DEF p
<1> QED
  BY <1>0, <1>1, <1>2, <1>3, <1>4, <1>5, <1>6, <1>7, LocalStep
LEMMA SwallowExitOK ==
    ASSUME SyncInv, NEW p \in Processes, ExitEvent(p), pc[p] = "drain"
    PROVE  SyncInv'
<1>0. StateOK /\ ProcessOK(p) /\ (p \in Nodes => NodeOK(p))
  BY DEF SyncInv
<1>1. /\ exiting' = [exiting EXCEPT ![p] = "no"]
      /\ UNCHANGED <<tick, when, pc, caller, waitNum, isAbort, nextAt, doing, need, numReq,
                     descQueue, prevRecvTick, txDone, thread, chan, saved, load>>
  BY DEF ExitEvent, syncVars, linkVars
<1>2. StateOK'
  BY <1>0, <1>1 DEF StateOK
<1>3. \A q \in Processes : Same(q)
  BY <1>1 DEF Same
<1>4. Busy(p) /\ Busy(p)'
  BY <1>1 DEF Busy, Live, Waiting
<1>5. NextSync(p)' = NextSync(p) /\ Kind(p)' = Kind(p)
  BY <1>3, SameView
<1>6. ProcessOK(p)'
  BY <1>0, <1>3, SameProcessOK
<1>7. p \in Nodes => NodeOK(p)'
  BY <1>0, <1>1 DEF NodeOK, InStart, InBarrier, Completed, Live, Down
<1> QED
  BY <1>1, <1>2, <1>3, <1>4, <1>5, <1>6, <1>7, LocalStep

(* What Completed and Aborted say of a process. *)
LEMMA OutOfBarrier ==
    ASSUME SyncInv, NEW p \in Processes, Completed(p) \/ Aborted(p)
    PROVE  /\ Busy(p) /\ InBarrier(p) /\ (Aborted(p) => isAbort[p])
           /\ p \in Nodes => waitNum[p] = 0
<1>1. ProcessOK(p) /\ (p \in Nodes => NodeOK(p)) /\ StateOK
  BY DEF SyncInv
<1>2. Live(p) /\ InBarrier(p)
  BY DEF Completed, Aborted, Live, InBarrier
<1>3. p = Switch => ~Waiting(p)
  BY <1>1, <1>2 DEF ProcessOK, Waiting
<1>4. p \in Nodes => waitNum[p] = 0
  BY <1>1, <1>2, LinkEnds DEF ProcessOK, Completed, Aborted
<1> QED
  BY <1>2, <1>3, <1>4 DEF Busy, Waiting, Processes, Aborted

LEMMA StartReturnsOK ==
    ASSUME SyncInv, NEW p \in Processes, StartReturns(p), ~Aborted(p)
    PROVE  SyncInv'
<1>0. StateOK /\ ProcessOK(p) /\ (p \in Nodes => NodeOK(p)) /\ SwitchOK
  BY DEF SyncInv
<1>1. /\ when' = [when EXCEPT ![p] = nextAt[p]] /\ pc' = [pc EXCEPT ![p] = "simulate"]
      /\ Completed(p) /\ caller[p] = "start"
      /\ UNCHANGED <<tick, caller, exiting, waitNum, isAbort, nextAt, doing, need, numReq,
                     descQueue, prevRecvTick, txDone, thread, chan, saved, load>>
  BY DEF StartReturns, syncVars, linkVars
<1>2. Busy(p) /\ InBarrier(p) /\ (p \in Nodes => waitNum[p] = 0) /\ InStart(p)
  BY <1>1, OutOfBarrier DEF InStart
<1>3. nextAt[p] = SyncStart
  <2>1. CASE p \in Nodes
    BY <2>1, <1>0, <1>1, <1>2 DEF NodeOK, Busy
  <2>2. CASE p = Switch
    BY <2>2, <1>0, <1>1, <1>2, Consts DEF SwitchOK, Busy, NextSync, StateOK
  <2> QED
    BY <2>1, <2>2 DEF Processes
<1>4. StateOK'
  BY SMTT(30), <1>0, <1>1, <1>3, Consts DEF StateOK
<1>5. \A q \in Processes \ {p} : Same(q)
  BY <1>0, <1>1 DEF Same, StateOK
<1>6. /\ Busy(p)' /\ ~InBarrier(p)' /\ ~Completed(p)' /\ ~InStart(p)' /\ pc'[p] = "simulate"
      /\ when'[p] = SyncStart /\ tick[p] = 0 /\ caller'[p] = "start"
  BY <1>0, <1>1, <1>2, <1>3, Consts
     DEF Busy, Live, Waiting, InBarrier, InStart, Completed, StateOK, ProcessOK
<1>7. NextSync(p)' = NextSync(p) /\ Kind(p)' = Kind(p)
  BY <1>1, <1>2, <1>6 DEF NextSync, Kind, After
<1>8. ProcessOK(p)'
  BY <1>1, <1>6, Consts DEF ProcessOK, Busy
<1>9. p \in Nodes => NodeOK(p)'
  <2> SUFFICES ASSUME p \in Nodes PROVE NodeOK(p)'
    OBVIOUS
  <2>1. Live(Switch)' <=> Live(Switch)
    BY <1>5, SameView, LinkEnds
  <2> QED
    BY <2>1, <1>0, <1>1, <1>2, <1>6 DEF NodeOK, Busy, Down
<1> QED
  BY <1>1, <1>2, <1>4, <1>5, <1>6, <1>7, <1>8, <1>9, LocalStep

LEMMA ProcessReturnsOK ==
    ASSUME SyncInv, NEW p \in Processes, ProcessReturns(p)
    PROVE  SyncInv'
<1>0. StateOK /\ ProcessOK(p) /\ (p \in Nodes => NodeOK(p))
  BY DEF SyncInv
<1>1. /\ caller[p] = "process" /\ (Completed(p) \/ Aborted(p))
      /\ UNCHANGED <<tick, caller, waitNum, isAbort, nextAt, doing, need, numReq,
                     descQueue, prevRecvTick, txDone, thread, chan, saved, load>>
  BY DEF ProcessReturns, syncVars, linkVars
<1>2. /\ Busy(p) /\ InBarrier(p) /\ (p \in Nodes => waitNum[p] = 0)
      /\ (Aborted(p) => isAbort[p] /\ (p \in Nodes => ~Completed(p)))
  BY <1>1, OutOfBarrier, LinkEnds DEF Completed, Aborted
<1>3. /\ tick[p] = when[p] /\ ~InStart(p) /\ when[p] >= SyncStart
      /\ tick[p] \in 0..MaxTick /\ when[p] \in Nat
  BY <1>0, <1>1, <1>2, Consts DEF ProcessOK, Busy, InStart, StateOK
<1>4. /\ \/ /\ pc' = [pc EXCEPT ![p] = "unsynced"] /\ UNCHANGED when
            /\ \/ Completed(p) /\ doing[p]["exit"]
               \/ Aborted(p)
         \/ /\ Completed(p) /\ ~doing[p]["exit"]
            /\ pc' = [pc EXCEPT ![p] = IF doing[p]["ckpt"] THEN "drain" ELSE "simulate"]
            /\ when' = [when EXCEPT ![p] = tick[p] + Repeat]
      /\ exiting' = exiting \/ exiting' = [exiting EXCEPT ![p] = "request"]
  BY <1>1 DEF ProcessReturns
<1>5. StateOK'
  <2>1. when' \in [Processes -> 0..(MaxTick + Repeat)]
    <3>1. when \in [Processes -> 0..(MaxTick + Repeat)]
      BY <1>0 DEF StateOK
    <3>2. tick[p] + Repeat \in 0..(MaxTick + Repeat)
      BY <1>3, Consts
    <3>3. when' = when \/ when' = [when EXCEPT ![p] = tick[p] + Repeat]
      BY <1>4
    <3> QED
      BY <3>1, <3>2, <3>3
  <2>2. pc' \in [Processes -> {"run", "wait", "return", "simulate", "unsynced", "drain",
                               "save", "exited"}]
    BY <1>0, <1>4 DEF StateOK
  <2>3. exiting' \in [Processes -> {"no", "request", "lost"}]
    BY <1>0, <1>4 DEF StateOK
  <2> QED
    BY <2>1, <2>2, <2>3, <1>0, <1>1 DEF StateOK
<1>6. \A q \in Processes \ {p} : Same(q)
  BY <1>0, <1>1, <1>4 DEF Same, StateOK
<1>7. /\ Busy(p)' /\ ~InBarrier(p)' /\ ~Completed(p)' /\ ~InStart(p)'
      /\ when'[p] >= SyncStart /\ tick[p] <= when'[p]
      /\ \/ /\ pc'[p] = "unsynced" /\ when'[p] = when[p]
            /\ (Completed(p) /\ doing[p]["exit"]) \/ Aborted(p)
         \/ /\ Completed(p) /\ ~doing[p]["exit"] /\ when'[p] = tick[p] + Repeat
            /\ pc'[p] = IF doing[p]["ckpt"] THEN "drain" ELSE "simulate"
  BY <1>0, <1>1, <1>3, <1>4, Consts DEF Busy, Live, Waiting, InBarrier, InStart, Completed, StateOK
<1>8. isAbort[p] \/ Kind(p)' = Kind(p)
  BY <1>1, <1>2, <1>7 DEF Kind, After
<1>9. NextSync(p)' = NextSync(p)
  <2>1. CASE p = Switch
    <3>1. Aborted(p) => ~Completed(p)
      BY <2>1, LinkEnds DEF Aborted, Completed
    <3> QED
      BY <3>1, <1>1, <1>2, <1>3, <1>7 DEF NextSync
  <2>2. CASE p \in Nodes
    BY <2>2, <1>1, <1>2, <1>3, <1>7 DEF NextSync
  <2> QED
    BY <2>1, <2>2 DEF Processes
<1>10. ProcessOK(p)'
  <2>1. pc'[p] \notin {"wait", "return"}
    BY <1>7
  <2> QED
    BY <2>1, <1>1, <1>7 DEF ProcessOK
<1>11. p \in Nodes => NodeOK(p)'
  <2> SUFFICES ASSUME p \in Nodes PROVE NodeOK(p)'
    OBVIOUS
  <2>1. Live(Switch)' <=> Live(Switch)
    BY <1>6, SameView, LinkEnds
  <2> QED
    BY <2>1, <1>0, <1>1, <1>2, <1>7 DEF NodeOK, Busy, Down
<1> QED
  BY <1>1, <1>2, <1>5, <1>6, <1>7, <1>8, <1>9, <1>10, <1>11, LocalStep

LEMMA DrainReturnsOK ==
    ASSUME SyncInv, NEW p \in Processes, DrainReturns(p)
    PROVE  SyncInv'
<1>0. StateOK /\ ProcessOK(p) /\ (p \in Nodes => NodeOK(p))
  BY DEF SyncInv
<1>1. /\ caller[p] = "drainComplete" /\ (Completed(p) \/ Aborted(p))
      /\ doing' = [doing EXCEPT ![p] = [doing[p] EXCEPT !["ckpt"] = FALSE]]
      /\ pc' = [pc EXCEPT ![p] = "save"]
      /\ UNCHANGED <<tick, when, caller, exiting, waitNum, isAbort, nextAt, need, numReq,
                     descQueue, prevRecvTick, txDone, thread, chan, saved, load>>
  BY DEF DrainReturns, linkVars
<1>2. /\ Busy(p) /\ InBarrier(p) /\ (p \in Nodes => waitNum[p] = 0)
      /\ (Aborted(p) => isAbort[p])
  BY <1>1, OutOfBarrier
<1>3. /\ StateOK' /\ doing'[p] \in [Ops -> BOOLEAN]
      /\ \A op \in Ops : doing'[p][op] => doing[p][op]
  BY <1>0, <1>1 DEF StateOK, Ops
<1>4. \A q \in Processes \ {p} : Same(q)
  BY <1>0, <1>1 DEF Same, StateOK
<1>5. /\ Busy(p)' /\ ~InBarrier(p)' /\ ~Completed(p)' /\ ~InStart(p)' /\ ~InStart(p)
      /\ pc'[p] = "save" /\ caller'[p] = "drainComplete"
  BY <1>0, <1>1, Consts DEF Busy, Live, Waiting, InBarrier, InStart, Completed, StateOK
<1>6. /\ isAbort[p] \/ Kind(p)' = Kind(p)
      /\ NextSync(p)' = NextSync(p)
  BY <1>1, <1>2, <1>5 DEF Kind, After, NextSync
<1>7. ProcessOK(p)'
  <2>1. tick[p] <= when[p] /\ when[p] >= SyncStart
    BY <1>0, <1>2, <1>5 DEF ProcessOK, Busy, InBarrier
  <2> QED
    BY <2>1, <1>1, <1>5 DEF ProcessOK
<1>8. p \in Nodes => NodeOK(p)'
  <2> SUFFICES ASSUME p \in Nodes PROVE NodeOK(p)'
    OBVIOUS
  <2>1. Live(Switch)' <=> Live(Switch)
    BY <1>4, SameView, LinkEnds
  <2> QED
    BY <2>1, <1>0, <1>1, <1>2, <1>5 DEF NodeOK, Busy, Down
<1> QED
  BY <1>1, <1>2, <1>3, <1>4, <1>5, <1>6, <1>7, <1>8, LocalStep
-----------------------------------------------------------------------------
(* A process ends.  It may have been about to send a request that no longer  *)
(* reaches anybody.                                                          *)

LEMMA EndsOK ==
    ASSUME SyncInv, NEW p \in Processes, Ends(p, chan), StateOK',
           UNCHANGED <<tick, when, caller, isAbort, nextAt, doing, numReq, thread>>,
           \A q \in Processes \ {p} : waitNum'[q] = waitNum[q],
           p \in Nodes => waitNum'[p] \in 0..1,
           \A n \in Nodes \ {p} : need'[n] = need[n],
           \A n \in Nodes, op \in Ops : need[n][op] = "pending" => need'[n][op] = "pending"
    PROVE  SyncInv'
<1>0. StateOK /\ ChanOK /\ SwitchOK
  BY DEF SyncInv
<1>1. /\ pc' = [pc EXCEPT ![p] = "exited"]
      /\ chan' = [l \in Links |-> IF To(l) = p THEN <<>> ELSE chan[l]]
  BY DEF Ends, Without
<1>2. ~Live(p)' /\ \A q \in Processes \ {p} : Same(q)
  BY <1>0, <1>1 DEF Same, StateOK, Live
<1>3. /\ \A q \in Processes \ {p} : Live(q)' <=> Live(q)
      /\ \A q \in Processes : Live(q)' => Live(q) /\ q # p
  BY <1>2, SameView
<1>4. \A n \in Nodes : /\ Up(n)' = IF p = Switch THEN <<>> ELSE Up(n)
                       /\ Down(n)' = IF p = n THEN <<>> ELSE Down(n)
                       /\ ReqsIn(n)' = IF p = Switch THEN {} ELSE ReqsIn(n)
                       /\ AcksIn(n)' = IF p = n THEN {} ELSE AcksIn(n)
  <2>1. \A n \in Nodes : /\ Up(n)' = IF p = Switch THEN <<>> ELSE Up(n)
                         /\ Down(n)' = IF p = n THEN <<>> ELSE Down(n)
    BY <1>1, LinkEnds DEF Up, Down
  <2> QED
    BY <2>1, MsgsEmpty DEF ReqsIn, AcksIn
<1>5. ChanOK'
  <2>1. \A l \in Links : chan'[l] = IF To(l) = p THEN <<>> ELSE chan[l]
    BY <1>1
  <2>2. \A l \in Links : chan'[l] \in Seq(Wire(l))
    <3>1. \A l \in Links : chan[l] \in Seq(Wire(l)) /\ <<>> \in Seq(Wire(l))
      BY <1>0 DEF ChanOK
    <3> QED
      BY <2>1, <3>1
  <2>3. \A l \in Links : ~Live(To(l))' => chan'[l] = <<>>
    BY <2>1, <1>0, <1>3, LinkEnds DEF ChanOK
  <2>4. chan' = [l \in Links |-> chan'[l]]
    BY <1>1
  <2>5. \A n \in Nodes : \A m \in ReqsIn(n)', op \in Ops : m.need[op] # "immediate"
    BY <1>0, <1>4 DEF ChanOK
  <2> QED
    BY <2>2, <2>3, <2>4, <2>5 DEF ChanOK, Wire, Data, Req, Ack
<1>6. \A q \in Processes : ProcessOK(q)'
  <2>1. \A q \in Processes \ {p} : ProcessOK(q)'
    BY <1>2, SameProcessOK DEF SyncInv
  <2>2. ProcessOK(p)'
    BY <1>2 DEF ProcessOK
  <2> QED
    BY <2>1, <2>2
<1>7. p # Switch => /\ Kind(Switch)' = Kind(Switch) /\ NextSync(Switch)' = NextSync(Switch)
                    /\ Live(Switch)' <=> Live(Switch)
                    /\ doing'[Switch] = doing[Switch] /\ waitNum'[Switch] = waitNum[Switch]
  BY <1>2, SameView, LinkEnds DEF Same
<1>8. ASSUME NEW n \in Nodes
      PROVE  /\ NodeOK(n)' /\ AckOK(n)' /\ ReqOK(n)' /\ AlignedOK(n)'
             /\ p # Switch => (Counted(n) => Counted(n)')
  <2>0. NodeOK(n) /\ AckOK(n) /\ ReqOK(n) /\ AlignedOK(n) /\ n \in Processes
    BY LinkEnds DEF SyncInv
  <2>1. CASE n = p
    <3>0. n # Switch
      BY LinkEnds
    <3>1. AckOK(n)'
      BY <2>1, <1>4 DEF AckOK, OneAck
    <3>2. NodeOK(n)'
      BY <2>0, <2>1, <3>0, <1>2, <1>4, <1>7 DEF NodeOK
    <3>3. ReqOK(n)'
      BY <2>0, <2>1, <3>0, <1>2, <1>4, <1>7 DEF ReqOK
    <3>4. AlignedOK(n)'
      BY <2>1, <1>2 DEF AlignedOK
    <3>5. Counted(n) => Counted(n)'
      BY <2>1, <3>0, <1>2, <1>4, <1>7 DEF Counted
    <3> QED
      BY <3>1, <3>2, <3>3, <3>4, <3>5
  <2>2. CASE n # p
    <3>1. Same(n)
      BY <1>2, <2>0, <2>2
    <3>2. /\ Waiting(n)' <=> Waiting(n)
          /\ InStart(n)' <=> InStart(n)
          /\ Completed(n)' <=> Completed(n)
          /\ Kind(n)' = Kind(n) /\ NextSync(n)' = NextSync(n)
          /\ \A m : AckSync(n, m)' = AckSync(n, m)
          /\ Live(n)' <=> Live(n)
      BY <3>1, <2>0, SameView
    <3>3. need'[n] = need[n] /\ waitNum'[n] = waitNum[n] /\ Down(n)' = Down(n)
          /\ AcksIn(n)' = AcksIn(n) /\ (Live(Switch)' => Live(Switch) /\ p # Switch)
      BY <1>3, <1>4, <2>0, <2>2, LinkEnds
    <3>4. NodeOK(n)'
      BY <3>1, <3>2, <3>3, <2>0 DEF NodeOK, Same
    <3>5. AckOK(n)'
      BY <3>1, <3>2, <3>3, <2>0 DEF AckOK, Same
    <3>6. ReqOK(n)'
      <4>1. CASE p = Switch
        BY <4>1, <1>4 DEF ReqOK, ReqLast
      <4>2. CASE p # Switch
        BY <4>2, <3>1, <3>2, <3>3, <2>0, <1>4, <1>7 DEF ReqOK, Same
      <4> QED
        BY <4>1, <4>2
    <3>7. AlignedOK(n)'
      BY <3>1, <3>2, <3>3, <2>0, <1>7 DEF AlignedOK, Same
    <3>8. p # Switch => (Counted(n) => Counted(n)')
      BY <3>1, <3>2, <3>3, <2>0, <1>4, <1>7 DEF Counted, Same
    <3> QED
      BY <3>4, <3>5, <3>6, <3>7, <3>8
  <2> QED
    BY <2>1, <2>2
<1>9. SwitchOK'
  <2>1. CASE p = Switch
    BY <2>1, <1>2 DEF SwitchOK
  <2>2. CASE p # Switch
    <3>1. \A W \in SUBSET Nodes : WaitsFor(W) => WaitsFor(W)'
      BY <2>2, <1>7, <1>8 DEF WaitsFor
    <3> QED
      BY <3>1, <2>2, <1>0, <1>7 DEF SwitchOK
  <2> QED
    BY <2>1, <2>2
<1>10. CountsOK'
  <2>1. \A op \in Ops : \A R \in SUBSET Nodes : CountsOf(op, R) => CountsOf(op, R)'
    BY <1>4 DEF CountsOf
  <2> QED
    BY <2>1 DEF SyncInv, CountsOK
<1> QED
  BY <1>5, <1>6, <1>8, <1>9, <1>10 DEF SyncInv

LEMMA EndsActionsOK ==
    ASSUME SyncInv, NEW p \in Processes,
           Ends(p, chan), UNCHANGED <<tick, when, caller, syncVars, linkVars, thread, saved>>,
           UNCHANGED exiting
    PROVE  SyncInv'
<1>1. StateOK
  BY DEF SyncInv
<1>2. StateOK'
  BY <1>1 DEF Ends, StateOK, syncVars, linkVars
<1>3. \A n \in Nodes : n \in Processes /\ (n = p => waitNum[n] \in 0..1)
  BY LinkEnds DEF SyncInv, NodeOK
<1> QED
  BY <1>2, <1>3, EndsOK DEF syncVars
-----------------------------------------------------------------------------
(* Steps that only move messages which no barrier counts. *)

LEMMA StreamStep ==
    ASSUME SyncInv, StateOK', ChanOK',
           \A q \in Processes : Same(q), UNCHANGED <<need, numReq, nextAt>>,
           \A n \in Nodes :
              /\ AcksIn(n)' = AcksIn(n) /\ ReqsIn(n)' \subseteq ReqsIn(n)
              /\ OneAck(Down(n)') /\ ReqLast(Up(n)')
              /\ Up(n) = <<>> => Up(n)' = <<>> \/ Busy(n)
              /\ isAbort[n] \/ thread'[<<Switch, n>>] = "lost" => ~Live(Switch) /\ Down(n)' = <<>>
    PROVE  SyncInv'
<1>0. SwitchOK /\ CountsOK
  BY DEF SyncInv
<1>1. /\ Kind(Switch)' = Kind(Switch) /\ NextSync(Switch)' = NextSync(Switch)
      /\ Live(Switch)' <=> Live(Switch)
      /\ doing'[Switch] = doing[Switch] /\ waitNum'[Switch] = waitNum[Switch]
      /\ isAbort'[Switch] = isAbort[Switch]
  BY SameView, LinkEnds DEF Same
<1>2. \A q \in Processes : ProcessOK(q)'
  BY SameProcessOK DEF SyncInv
<1>3. ASSUME NEW n \in Nodes
      PROVE  /\ NodeOK(n)' /\ AckOK(n)' /\ ReqOK(n)' /\ AlignedOK(n)'
             /\ Counted(n) => Counted(n)'
  <2>0. NodeOK(n) /\ AckOK(n) /\ ReqOK(n) /\ AlignedOK(n) /\ n \in Processes
    BY LinkEnds DEF SyncInv
  <2>1. /\ Waiting(n)' <=> Waiting(n)
        /\ InStart(n)' <=> InStart(n)
        /\ Completed(n)' <=> Completed(n)
        /\ Kind(n)' = Kind(n) /\ NextSync(n)' = NextSync(n)
        /\ \A m : AckSync(n, m)' = AckSync(n, m)
        /\ Live(n)' <=> Live(n)
    BY <2>0, SameView
  <2>2. Same(n)
    BY <2>0
  <2>3. NodeOK(n)'
    BY <2>0, <2>1, <2>2, <1>1 DEF NodeOK, Same
  <2>4. AckOK(n)'
    BY <2>0, <2>1, <2>2 DEF AckOK, Same
  <2>5. ReqOK(n)'
    BY ZenonT(40), <2>0, <2>1, <2>2, <1>1 DEF ReqOK, Same
  <2>6. AlignedOK(n)'
    BY <2>0, <2>1, <2>2, <1>1 DEF AlignedOK, Same
  <2>7. Counted(n) => Counted(n)'
    BY <2>0, <2>1, <2>2, <1>1 DEF Counted, Same, Busy
  <2> QED
    BY <2>3, <2>4, <2>5, <2>6, <2>7
<1>4. SwitchOK'
  <2>1. \A W \in SUBSET Nodes : WaitsFor(W) => WaitsFor(W)'
    BY <1>1, <1>3 DEF WaitsFor
  <2> QED
    BY <2>1, <1>0, <1>1 DEF SwitchOK
<1>5. CountsOK'
  <2>1. \A op \in Ops : \A R \in SUBSET Nodes : CountsOf(op, R) => CountsOf(op, R)'
    BY DEF CountsOf
  <2> QED
    BY <2>1, <1>0 DEF CountsOK
<1> QED
  BY <1>2, <1>3, <1>4, <1>5 DEF SyncInv

(* The head of a stream is taken from it. *)
LEMMA TakeHead ==
    ASSUME ChanOK, NEW l \in Links, chan[l] # <<>>,
           chan' = [chan EXCEPT ![l] = Tail(chan[l])], UNCHANGED pc
    PROVE  /\ ChanOK'
           /\ Head(chan[l]) \in Wire(l)
           /\ \A k \in Links : chan'[k] = IF k = l THEN Tail(chan[l]) ELSE chan[k]
<1>1. chan = [k \in Links |-> chan[k]] /\ \A k \in Links : chan[k] \in Seq(Wire(k))
  BY DEF ChanOK
<1>2. /\ chan' = [k \in Links |-> chan'[k]]
      /\ \A k \in Links : chan'[k] = IF k = l THEN Tail(chan[l]) ELSE chan[k]
  BY <1>1
<1>3. /\ Tail(chan[l]) \in Seq(Wire(l)) /\ Head(chan[l]) \in Wire(l)
      /\ Msgs(Tail(chan[l])) \subseteq Msgs(chan[l])
  BY <1>1, MsgsTail
<1>4. \A k \in Links : chan'[k] \in Seq(Wire(k)) /\ Msgs(chan'[k]) \subseteq Msgs(chan[k])
  BY <1>1, <1>2, <1>3
<1>5. \A n \in Nodes : ReqsIn(n)' \subseteq ReqsIn(n)
  BY <1>4, LinkEnds DEF ReqsIn, Up
<1>6. \A k \in Links : ~Live(To(k))' => chan'[k] = <<>>
  <2>1. \A k \in Links : ~Live(To(k)) => chan[k] = <<>>
    BY DEF ChanOK
  <2>2. Live(To(l))
    BY <2>1
  <2>3. \A k : Live(k)' <=> Live(k)
    BY DEF Live
  <2> QED
    BY <2>1, <2>2, <2>3, <1>2
<1>7. \A n \in Nodes : \A m \in ReqsIn(n)', op \in Ops : m.need[op] # "immediate"
  BY <1>5 DEF ChanOK
<1> QED
  BY <1>2, <1>3, <1>4, <1>6, <1>7 DEF ChanOK, Wire, Data, Req, Ack

(* A message is put on the stream to a process that lives. *)
LEMMA PutLast ==
    ASSUME ChanOK, NEW l \in Links, NEW m \in Wire(l), Live(To(l)), m.type = "data",
           chan' = [chan EXCEPT ![l] = Append(chan[l], m)], UNCHANGED pc
    PROVE  /\ ChanOK'
           /\ \A k \in Links : chan'[k] = IF k = l THEN Append(chan[l], m) ELSE chan[k]
<1>1. chan = [k \in Links |-> chan[k]] /\ \A k \in Links : chan[k] \in Seq(Wire(k))
  BY DEF ChanOK
<1>2. /\ chan' = [k \in Links |-> chan'[k]]
      /\ \A k \in Links : chan'[k] = IF k = l THEN Append(chan[l], m) ELSE chan[k]
  BY <1>1
<1>3. Append(chan[l], m) \in Seq(Wire(l)) /\ Msgs(Append(chan[l], m)) = Msgs(chan[l]) \cup {m}
  BY <1>1, MsgsAppend
<1>4. \A k \in Links : chan'[k] \in Seq(Wire(k))
  BY <1>1, <1>2, <1>3
<1>5. \A k \in Links : \A x \in Msgs(chan'[k]) : x \in Msgs(chan[k]) \/ x = m
  BY <1>2, <1>3
<1>6. \A n \in Nodes : ReqsIn(n)' \subseteq ReqsIn(n)
  BY <1>5, LinkEnds DEF ReqsIn, Up
<1>7. \A k \in Links : ~Live(To(k))' => chan'[k] = <<>>
  BY <1>2 DEF ChanOK, Live
<1>8. \A n \in Nodes : \A x \in ReqsIn(n)', op \in Ops : x.need[op] # "immediate"
  BY <1>6 DEF ChanOK
<1> QED
  BY <1>2, <1>4, <1>7, <1>8 DEF ChanOK, Wire, Data, Req, Ack
LEMMA TransmitOK ==
    ASSUME SyncInv, NEW l \in Links, transmit(l)
    PROVE  SyncInv'
<1> DEFINE p == From(l)
           m == [type |-> "data", tick |-> tick[p], epoch |-> saved[p]]
<1>0. p \in Processes /\ StateOK /\ ChanOK
  BY LinkEnds DEF SyncInv
<1>1. /\ pc[p] \in {"simulate", "unsynced", "drain"}
      /\ chan' = Put(chan, l, m)
      /\ txDone' = [txDone EXCEPT ![l] = tick[p] + SendDelay]
      /\ UNCHANGED <<tick, when, pc, caller, exiting, waitNum, isAbort, nextAt, doing, need,
                     numReq, descQueue, prevRecvTick, thread, saved>>
  BY DEF transmit, CanTransmit, Simulating, simVars, syncVars
<1>2. tick[p] \in 0..MaxTick /\ saved[p] \in Nat
  BY <1>0 DEF StateOK
<1>3. StateOK'
  <2>1. tick[p] + SendDelay \in 0..(MaxTick + SendDelay)
    BY <1>2, Consts DEF SendDelay
  <2>2. txDone' \in [Links -> 0..(MaxTick + SendDelay)]
    BY <2>1, <1>0, <1>1 DEF StateOK
  <2> QED
    BY <2>2, <1>0, <1>1 DEF StateOK
<1>4. \A q \in Processes : Same(q)
  BY <1>1 DEF Same
<1>5. Busy(p) /\ Busy(p)'
  BY <1>1 DEF Busy, Live, Waiting
<1>6. m \in Wire(l) /\ m.type = "data"
  BY <1>2 DEF Wire, Data
<1> HIDE DEF m
<1>7. CASE ~Live(To(l))
  <2>1. UNCHANGED chan
    BY <1>1, <1>7 DEF Put
  <2>2. NextSync(p)' = NextSync(p) /\ Kind(p)' = Kind(p) /\ ProcessOK(p)'
    BY <1>0, <1>4, SameView, SameProcessOK DEF SyncInv
  <2>3. p \in Nodes => NodeOK(p)'
    BY <1>1, <2>1 DEF SyncInv, NodeOK, InStart, InBarrier, Completed, Live, Down
  <2> HIDE DEF p
  <2> QED
    BY <2>1, <2>2, <2>3, <1>0, <1>1, <1>3, <1>4, <1>5, LocalStep
<1>8. CASE Live(To(l))
  <2>1. chan' = [chan EXCEPT ![l] = Append(chan[l], m)]
    BY <1>1, <1>8 DEF Put
  <2>2. ChanOK' /\ \A k \in Links : chan'[k] = IF k = l THEN Append(chan[l], m) ELSE chan[k]
    BY <2>1, <1>0, <1>1, <1>6, <1>8, PutLast
  <2>3. ASSUME NEW n \in Nodes
        PROVE  /\ AcksIn(n)' = AcksIn(n) /\ ReqsIn(n)' = ReqsIn(n)
               /\ OneAck(Down(n)') /\ ReqLast(Up(n)')
               /\ Up(n) = <<>> => Up(n)' = <<>> \/ Busy(n)
               /\ isAbort[n] \/ thread[<<Switch, n>>] = "lost" => ~Live(Switch) /\ Down(n)' = <<>>
    <3>0. /\ Up(n) \in Seq(Wire(<<n, Switch>>)) /\ Down(n) \in Seq(Wire(<<Switch, n>>))
          /\ NodeOK(n) /\ OneAck(Down(n)) /\ ReqLast(Up(n))
      BY <1>0, StreamTypes DEF SyncInv, AckOK, ReqOK
    <3>1. CASE l = <<n, Switch>>
      <4>1. Up(n)' = Append(Up(n), m) /\ Down(n)' = Down(n) /\ p = n
        BY <2>2, <3>1, LinkEnds DEF Up, Down
      <4>2. AcksIn(n)' = AcksIn(n)
        BY <4>1 DEF AcksIn
      <4>3. Msgs(Append(Up(n), m)) = Msgs(Up(n)) \cup {m}
        BY <3>0, <3>1, <1>6, MsgsAppend
      <4>4. ReqsIn(n) = {} /\ ReqsIn(n)' = {}
        BY <4>1, <4>3, <1>5, <1>6, BusyNode DEF ReqsIn
      <4>5. ReqLast(Up(n)')
        BY <4>1, <4>4, <3>0, <3>1, <1>6, ReqLastAppend DEF ReqsIn
      <4> QED
        BY <4>1, <4>2, <4>4, <4>5, <3>0, <1>5 DEF NodeOK
    <3>2. CASE l = <<Switch, n>>
      <4>1. Up(n)' = Up(n) /\ Down(n)' = Append(Down(n), m) /\ p = Switch
        BY <2>2, <3>2, LinkEnds DEF Up, Down
      <4>2. ReqsIn(n)' = ReqsIn(n)
        BY <4>1 DEF ReqsIn
      <4>3. Msgs(Append(Down(n), m)) = Msgs(Down(n)) \cup {m}
        BY <3>0, <3>2, <1>6, MsgsAppend
      <4>4. AcksIn(n)' = AcksIn(n)
        BY <4>1, <4>3, <1>6 DEF AcksIn
      <4>5. OneAck(Down(n)')
        BY <4>1, <3>0, <3>2, <1>6, OneAckAppend
      <4>6. Live(Switch)
        BY <4>1, <1>5 DEF Busy
      <4> QED
        BY <4>1, <4>2, <4>4, <4>5, <4>6, <3>0 DEF NodeOK
    <3>3. CASE l # <<n, Switch>> /\ l # <<Switch, n>>
      <4>1. Up(n)' = Up(n) /\ Down(n)' = Down(n)
        BY <2>2, <3>3, LinkEnds DEF Up, Down
      <4> QED
        BY <4>1, <3>0 DEF AcksIn, ReqsIn, NodeOK
    <3> QED
      BY <3>1, <3>2, <3>3
  <2> QED
    BY <2>2, <2>3, <1>1, <1>3, <1>4, StreamStep
<1> QED
  BY <1>7, <1>8

(* Taking a message that no barrier counts: a packet, or whatever is left   *)
(* for a process whose barrier is aborted.                                  *)
LEMMA TakeOK ==
    ASSUME SyncInv, NEW l \in Links, chan[l] # <<>>,
           chan' = [chan EXCEPT ![l] = Tail(chan[l])], StateOK',
           UNCHANGED <<tick, when, pc, caller, waitNum, isAbort, nextAt, doing, need, numReq>>,
           \A k \in Links : thread'[k] = "lost" => thread[k] = "lost",
           Head(chan[l]).type # "ack"
    PROVE  SyncInv'
<1>0. StateOK /\ ChanOK
  BY DEF SyncInv
<1>1. ChanOK' /\ \A k \in Links : chan'[k] = IF k = l THEN Tail(chan[l]) ELSE chan[k]
  BY <1>0, TakeHead
<1>2. \A q \in Processes : Same(q)
  BY DEF Same
<1>3. ASSUME NEW n \in Nodes
      PROVE  /\ AcksIn(n)' = AcksIn(n) /\ ReqsIn(n)' \subseteq ReqsIn(n)
             /\ OneAck(Down(n)') /\ ReqLast(Up(n)')
             /\ Up(n) = <<>> => Up(n)' = <<>> \/ Busy(n)
             /\ isAbort[n] \/ thread'[<<Switch, n>>] = "lost" => ~Live(Switch) /\ Down(n)' = <<>>
  <2>0. /\ Up(n) \in Seq(Wire(<<n, Switch>>)) /\ Down(n) \in Seq(Wire(<<Switch, n>>))
        /\ NodeOK(n) /\ OneAck(Down(n)) /\ ReqLast(Up(n))
    BY <1>0, StreamTypes DEF SyncInv, AckOK, ReqOK
  <2>1. isAbort[n] \/ thread'[<<Switch, n>>] = "lost" => ~Live(Switch) /\ Down(n) = <<>>
    BY <2>0, LinkEnds DEF NodeOK
  <2>2. CASE l = <<n, Switch>>
    <3>1. Up(n)' = Tail(Up(n)) /\ Down(n)' = Down(n) /\ Up(n) # <<>>
      BY <1>1, <2>2, LinkEnds DEF Up, Down
    <3>2. ReqsIn(n)' \subseteq ReqsIn(n) /\ ReqLast(Up(n)')
      BY <3>1, <2>0, MsgsTail, ReqLastTail DEF ReqsIn
    <3> QED
      BY <3>1, <3>2, <2>0, <2>1 DEF AcksIn
  <2>3. CASE l = <<Switch, n>>
    <3>1. Up(n)' = Up(n) /\ Down(n)' = Tail(Down(n)) /\ Down(n) # <<>>
          /\ Head(Down(n)).type # "ack"
      BY <1>1, <2>3, LinkEnds DEF Up, Down
    <3>2. /\ Msgs(Tail(Down(n))) \subseteq Msgs(Down(n))
          /\ \A m \in Msgs(Down(n)) : m = Head(Down(n)) \/ m \in Msgs(Tail(Down(n)))
          /\ OneAck(Down(n)')
      BY <3>1, <2>0, MsgsTail, OneAckTail
    <3>3. AcksIn(n)' = AcksIn(n)
      BY <3>1, <3>2 DEF AcksIn
    <3> QED
      BY <3>1, <3>2, <3>3, <2>0, <2>1 DEF ReqsIn
  <2>4. CASE l # <<n, Switch>> /\ l # <<Switch, n>>
    <3>1. Up(n)' = Up(n) /\ Down(n)' = Down(n)
      BY <1>1, <2>4, LinkEnds DEF Up, Down
    <3> QED
      BY <3>1, <2>0, <2>1 DEF AcksIn, ReqsIn
  <2> QED
    BY <2>2, <2>3, <2>4
<1> QED
  BY <1>1, <1>2, <1>3, StreamStep

LEMMA PushPacketOK ==
    ASSUME SyncInv, NEW l \in Links, pushPacket(l)
    PROVE  SyncInv'
<1>0. StateOK /\ ChanOK
  BY DEF SyncInv
<1>1. /\ chan[l] # <<>> /\ Head(chan[l]).type = "data"
      /\ chan' = [chan EXCEPT ![l] = Tail(chan[l])]
      /\ descQueue' = [descQueue EXCEPT ![l] = Append(descQueue[l], Head(chan[l]).tick)]
      /\ UNCHANGED <<tick, when, pc, caller, exiting, waitNum, isAbort, nextAt, doing, need,
                     numReq, prevRecvTick, txDone, thread, saved>>
  BY DEF pushPacket, Receiving, simVars, syncVars
<1>2. Head(chan[l]) \in Wire(l)
  BY <1>0, <1>1, TakeHead
<1>3. Head(chan[l]).tick \in 0..MaxTick
  BY <1>1, <1>2 DEF Wire, Data, Req, Ack
<1>4. StateOK'
  <2>1. Append(descQueue[l], Head(chan[l]).tick) \in Seq(0..MaxTick)
    BY <1>0, <1>3 DEF StateOK
  <2>2. descQueue' \in [Links -> Seq(0..MaxTick)]
    BY <1>0, <1>1, <2>1 DEF StateOK
  <2> QED
    BY <2>2, <1>0, <1>1 DEF StateOK
<1> QED
  BY <1>1, <1>4, TakeOK

LEMMA ConnectionLostOK ==
    ASSUME SyncInv, NEW l \in Links, ConnectionLost(l)
    PROVE  SyncInv'
<1>0. StateOK /\ ChanOK /\ To(l) \in Processes
  BY LinkEnds DEF SyncInv
<1>1. /\ chan[l] = <<>> /\ ~Live(From(l))
      /\ exiting' = [exiting EXCEPT ![To(l)] = IF exiting[To(l)] = "no" THEN "lost"
                                               ELSE exiting[To(l)]]
      /\ thread' = [thread EXCEPT ![l] = "lost"]
      /\ UNCHANGED <<tick, when, pc, caller, waitNum, isAbort, nextAt, doing, need,
                     numReq, descQueue, prevRecvTick, txDone, chan, saved>>
  BY DEF ConnectionLost, syncVars, linkVars
<1>2. StateOK'
  BY <1>0, <1>1 DEF StateOK
<1>3. ChanOK'
  BY <1>0, <1>1 DEF ChanOK, Live, ReqsIn, Up, Wire, Data, Req, Ack
<1>4. \A q \in Processes : Same(q)
  BY <1>1 DEF Same
<1>5. \A k \in Links : thread'[k] = "lost" => thread[k] = "lost" \/ k = l
  BY <1>0, <1>1 DEF StateOK
<1>6. ASSUME NEW n \in Nodes
      PROVE  /\ AcksIn(n)' = AcksIn(n) /\ ReqsIn(n)' = ReqsIn(n)
             /\ OneAck(Down(n)') /\ ReqLast(Up(n)')
             /\ Up(n) = <<>> => Up(n)' = <<>> \/ Busy(n)
             /\ isAbort[n] \/ thread'[<<Switch, n>>] = "lost" => ~Live(Switch) /\ Down(n)' = <<>>
  <2>1. Up(n)' = Up(n) /\ Down(n)' = Down(n)
    BY <1>1 DEF Up, Down
  <2>2. NodeOK(n) /\ OneAck(Down(n)) /\ ReqLast(Up(n))
    BY DEF SyncInv, AckOK, ReqOK
  <2>3. <<Switch, n>> = l => Down(n) = <<>> /\ ~Live(Switch)
    BY <1>1, LinkEnds DEF Down
  <2> QED
    BY <2>1, <2>2, <2>3, <1>5, LinkEnds DEF AcksIn, ReqsIn, NodeOK
<1> QED
  BY <1>1, <1>2, <1>3, <1>4, <1>6, StreamStep
-----------------------------------------------------------------------------
(* A connection is lost, or a guest makes a request. *)

LEMMA AbortOK ==
    ASSUME SyncInv, NEW l \in Links, abort(l)
    PROVE  SyncInv'
<1> DEFINE p == To(l)
<1>0. StateOK /\ ChanOK /\ p \in Processes /\ SwitchOK
  BY LinkEnds DEF SyncInv
<1>1. /\ Live(p) /\ thread[l] = "lost"
      /\ waitNum' = [waitNum EXCEPT ![p] = 0]
      /\ isAbort' = [isAbort EXCEPT ![p] = TRUE]
      /\ thread' = [thread EXCEPT ![l] = "done"]
      /\ UNCHANGED <<tick, when, pc, caller, exiting, nextAt, doing, need, numReq,
                     descQueue, prevRecvTick, txDone, chan, saved>>
  BY DEF abort, simVars, linkVars
<1>2. StateOK'
  BY SMTT(30), <1>0, <1>1, Consts DEF StateOK
<1>3. ChanOK'
  BY <1>0, <1>1 DEF ChanOK, Live, ReqsIn, Up, Wire, Data, Req, Ack
<1>4. /\ \A q \in Processes \ {p} : Same(q)
      /\ waitNum'[p] = 0 /\ isAbort'[p]
      /\ \A k \in Links : thread'[k] = "lost" => thread[k] = "lost"
  BY <1>0, <1>1 DEF Same, StateOK
<1>5. \A q \in Processes : Live(q)' <=> Live(q)
  BY <1>1 DEF Live
<1>6. \A n \in Nodes : /\ AcksIn(n)' = AcksIn(n) /\ ReqsIn(n)' = ReqsIn(n)
                       /\ Up(n)' = Up(n) /\ Down(n)' = Down(n)
  BY <1>1 DEF AcksIn, ReqsIn, Up, Down
<1>7. /\ Completed(p)' => Completed(p) /\ p = Switch
      /\ p = Switch => (Completed(p)' <=> Completed(p)) /\ NextSync(p)' = NextSync(p)
  <2>1. ProcessOK(p)
    BY <1>0 DEF SyncInv
  <2>2. Completed(p)' => Completed(p) /\ p = Switch
    BY <2>1, <1>1, <1>4 DEF ProcessOK, Completed
  <2>3. p = Switch => (Completed(p)' <=> Completed(p))
    BY <1>1, LinkEnds DEF Completed
  <2>4. p = Switch => NextSync(p)' = NextSync(p)
    BY <2>3, <1>1 DEF NextSync, InStart, InBarrier
  <2> QED
    BY <2>2, <2>3, <2>4
<1> HIDE DEF p
<1>8. \A q \in Processes : ProcessOK(q)'
  <2>1. \A q \in Processes \ {p} : ProcessOK(q)'
    BY <1>4, SameProcessOK DEF SyncInv
  <2>2. ProcessOK(p)
    BY <1>0 DEF SyncInv
  <2>3. ProcessOK(p)'
    BY <2>2, <1>1, <1>7 DEF ProcessOK, Live, InStart, InBarrier
  <2> QED
    BY <2>1, <2>3
<1>9. ASSUME NEW n \in Nodes PROVE NodeOK(n)' /\ AckOK(n)' /\ ReqOK(n)' /\ AlignedOK(n)'
  <2>0. NodeOK(n) /\ AckOK(n) /\ ReqOK(n) /\ AlignedOK(n) /\ n \in Processes
    BY LinkEnds DEF SyncInv
  <2>1. CASE n = p
    <3>1. l = <<Switch, n>> /\ n # Switch
      BY <2>1, LinkEnds, LinkTo DEF p
    <3>2. ~Live(Switch) /\ Down(n) = <<>>
      BY <3>1, <2>0, <1>1 DEF NodeOK
    <3>3. Up(n) = <<>> /\ ReqsIn(n) = {} /\ AcksIn(n) = {}
      BY <3>2, <1>0, LinkEnds, MsgsEmpty DEF ChanOK, Up, ReqsIn, AcksIn
    <3>4. NodeOK(n)'
      BY <3>1, <3>2, <2>0, <2>1, <1>1, <1>4, <1>5, <1>6, <1>7, LinkEnds
         DEF NodeOK, InStart, InBarrier
    <3>5. AckOK(n)' /\ ReqOK(n)'
      BY <3>3, <2>0, <1>6 DEF AckOK, ReqOK
    <3>6. AlignedOK(n)'
      BY <3>2, <1>5, LinkEnds DEF AlignedOK
    <3> QED
      BY <3>4, <3>5, <3>6
  <2>2. CASE n # p
    <3>1. Same(n)
      BY <2>0, <2>2, <1>4
    <3>2. /\ Waiting(n)' <=> Waiting(n)
          /\ InStart(n)' <=> InStart(n)
          /\ Completed(n)' <=> Completed(n)
          /\ Kind(n)' = Kind(n) /\ NextSync(n)' = NextSync(n)
          /\ \A m : AckSync(n, m)' = AckSync(n, m)
          /\ Live(n)' <=> Live(n)
      BY <3>1, <2>0, SameView
    <3>3. /\ NextSync(Switch)' = NextSync(Switch) /\ (Live(Switch)' <=> Live(Switch))
          /\ isAbort'[Switch] \/ (Kind(Switch)' = Kind(Switch) /\ isAbort'[Switch] = isAbort[Switch])
      BY <1>4, <1>5, <1>7, SameView, LinkEnds DEF Same
    <3>4. NodeOK(n)'
      BY <3>1, <3>2, <3>3, <2>0, <1>1, <1>4, <1>6, LinkEnds DEF NodeOK, Same
    <3>5. AckOK(n)'
      BY <3>1, <3>2, <2>0, <1>6 DEF AckOK, Same
    <3>6. ReqOK(n)'
      BY <3>1, <3>2, <3>3, <2>0, <1>1, <1>6 DEF ReqOK, Same
    <3>7. AlignedOK(n)'
      BY <3>1, <3>2, <3>3, <2>0, <1>6 DEF AlignedOK, Same
    <3> QED
      BY <3>4, <3>5, <3>6, <3>7
  <2> QED
    BY <2>1, <2>2
<1>10. SwitchOK'
  <2>1. CASE p = Switch
    BY <2>1, <1>0, <1>1, <1>4, <1>5, <1>7 DEF SwitchOK
  <2>2. CASE p # Switch
    <3>0. Same(Switch) /\ p \in Nodes
      BY <2>2, <1>0, <1>4, LinkEnds DEF Processes
    <3>1. thread[<<Switch, p>>] = "lost"
      BY <3>0, <1>1, LinkTo DEF p
    <3>2. ~Live(Switch)
      BY <3>0, <3>1 DEF SyncInv, NodeOK
    <3> QED
      BY <3>2, <1>5, LinkEnds DEF SwitchOK
  <2> QED
    BY <2>1, <2>2
<1>11. CountsOK'
  <2>1. \A op \in Ops : \A R \in SUBSET Nodes : CountsOf(op, R) => CountsOf(op, R)'
    BY <1>1, <1>6 DEF CountsOf
  <2> QED
    BY <2>1 DEF SyncInv, CountsOK
<1> QED
  BY <1>2, <1>3, <1>8, <1>9, <1>10, <1>11 DEF SyncInv

LEMMA RequestOK ==
    ASSUME SyncInv, CollectiveOnly, NEW n \in Nodes, NEW op \in Ops, NEW req \in ReqTypes,
           request(n, op, req)
    PROVE  SyncInv'
<1>0. StateOK /\ ChanOK /\ n \in Processes
  BY LinkEnds DEF SyncInv
<1>1. /\ pc[n] \in {"simulate", "drain"} /\ req = "collective" /\ need[n][op] = "none"
      /\ need' = [need EXCEPT ![n] = [need[n] EXCEPT ![op] = req]]
      /\ UNCHANGED <<tick, when, pc, caller, exiting, waitNum, isAbort, nextAt, doing, numReq,
                     descQueue, prevRecvTick, txDone, thread, chan, saved>>
  BY DEF request, CollectiveOnly, simVars, linkVars
<1>2. StateOK'
  BY <1>0, <1>1 DEF StateOK
<1>3. \A k \in Nodes, o \in Ops : need'[k][o] = IF k = n /\ o = op THEN "collective" ELSE need[k][o]
  BY <1>0, <1>1 DEF StateOK
<1>4. Busy(n) /\ ~InStart(n)
  BY <1>1 DEF Busy, Live, Waiting, InStart, InBarrier
<1>5. AcksIn(n) = {} /\ ReqsIn(n) = {}
  BY <1>4, BusyNode
<1>6. \A q \in Processes : Same(q)
  BY <1>1 DEF Same
<1>7. \A k \in Nodes : /\ AcksIn(k)' = AcksIn(k) /\ ReqsIn(k)' = ReqsIn(k)
                       /\ Up(k)' = Up(k) /\ Down(k)' = Down(k)
  BY <1>1 DEF AcksIn, ReqsIn, Up, Down
<1>8. ChanOK'
  BY <1>0, <1>1 DEF ChanOK, Live, ReqsIn, Up, Wire, Data, Req, Ack
<1>9. \A q \in Processes : ProcessOK(q)'
  BY <1>6, SameProcessOK DEF SyncInv
<1>10. /\ Kind(Switch)' = Kind(Switch) /\ NextSync(Switch)' = NextSync(Switch)
       /\ Live(Switch)' <=> Live(Switch)
  BY <1>6, SameView, LinkEnds
<1>11. ASSUME NEW k \in Nodes
       PROVE  NodeOK(k)' /\ AckOK(k)' /\ ReqOK(k)' /\ AlignedOK(k)' /\ (Counted(k) => Counted(k)')
  <2>0. NodeOK(k) /\ AckOK(k) /\ ReqOK(k) /\ AlignedOK(k) /\ Same(k) /\ k \in Processes
    BY <1>6, LinkEnds DEF SyncInv
  <2>1. /\ Waiting(k)' <=> Waiting(k)
        /\ InStart(k)' <=> InStart(k)
        /\ Completed(k)' <=> Completed(k)
        /\ Kind(k)' = Kind(k) /\ NextSync(k)' = NextSync(k)
        /\ \A m : AckSync(k, m)' = AckSync(k, m)
        /\ Live(k)' <=> Live(k)
    BY <2>0, SameView
  <2>2. NodeOK(k)'
    BY <2>0, <2>1, <1>1, <1>3, <1>4, <1>7, <1>10 DEF NodeOK
  <2>3. AckOK(k)' /\ AlignedOK(k)' /\ (Counted(k) => Counted(k)')
    BY <2>0, <2>1, <1>1, <1>7, <1>10 DEF AckOK, AlignedOK, Counted
  <2>4. ReqOK(k)'
    BY <2>0, <2>1, <1>1, <1>3, <1>5, <1>7, <1>10 DEF ReqOK
  <2> QED
    BY <2>2, <2>3, <2>4
<1>12. SwitchOK'
  <2>1. \A W \in SUBSET Nodes : WaitsFor(W) => WaitsFor(W)'
    BY <1>1, <1>11 DEF WaitsFor
  <2> QED
    BY <2>1, <1>1, <1>10 DEF SyncInv, SwitchOK
<1>13. CountsOK'
  <2>1. \A o \in Ops : \A R \in SUBSET Nodes : CountsOf(o, R) => CountsOf(o, R)'
    BY <1>1, <1>3, <1>7 DEF CountsOf
  <2> QED
    BY <2>1 DEF SyncInv, CountsOK
<1> QED
  BY <1>2, <1>8, <1>9, <1>11, <1>12, <1>13 DEF SyncInv
-----------------------------------------------------------------------------
(* A node asks. *)

LEMMA NodeRunSendsOK ==
    ASSUME SyncInv, NEW n \in Nodes, pc[n] = "run", ~isAbort[n],
           NEW m, m = [type |-> "req", tick |-> tick[n], need |-> need[n]],
           sendCmd(n, m), pc' = [pc EXCEPT ![n] = "wait"],
           waitNum' = [waitNum EXCEPT ![n] = 1],
           need' = [need EXCEPT ![n] =
                    [op \in Ops |-> IF @[op] = "none" THEN "none" ELSE "pending"]],
           UNCHANGED <<tick, when, caller, exiting, isAbort, nextAt, doing, numReq,
                       linkVars, thread, saved>>
    PROVE  SyncInv'
<1>0. /\ StateOK /\ ChanOK /\ n \in Processes /\ n # Switch /\ SwitchOK
      /\ ProcessOK(n) /\ NodeOK(n) /\ AckOK(n) /\ ReqOK(n) /\ AlignedOK(n)
  BY LinkEnds DEF SyncInv
<1>1. Busy(n) /\ InBarrier(n) /\ ~Completed(n)
  BY <1>0 DEF Busy, Live, Waiting, InBarrier, Completed
<1>2. /\ AcksIn(n) = {} /\ ReqsIn(n) = {}
      /\ \A W \in SUBSET Nodes : WaitsFor(W) => n \in W
  BY <1>1, BusyNode
<1>3. /\ tick[n] \in 0..MaxTick /\ need[n] \in [Ops -> {"none", "collective", "pending"}]
      /\ \A k \in Nodes, op \in Ops :
            need'[k][op] = IF k = n /\ need[k][op] # "none" THEN "pending" ELSE need[k][op]
  BY <1>0 DEF StateOK
<1>4. StateOK'
  <2>1. need' \in [Nodes -> [Ops -> {"none", "collective", "pending"}]]
    BY <1>0 DEF StateOK
  <2>2. waitNum' \in [Processes -> 0..Cardinality(Nodes)]
    BY <1>0, Consts DEF StateOK
  <2> QED
    BY <2>1, <2>2, <1>0 DEF StateOK, linkVars
<1>5. \A q \in Processes \ {n} : Same(q)
  BY <1>0 DEF Same, StateOK
<1>6. /\ pc'[n] = "wait" /\ waitNum'[n] = 1 /\ Waiting(n)' /\ Live(n)' /\ InBarrier(n)'
      /\ ~Completed(n)'
      /\ \A q \in Processes : Live(q)' <=> Live(q)
      /\ \A q \in Processes \ {n} : waitNum'[q] = waitNum[q]
  <2>1. pc'[n] = "wait" /\ waitNum'[n] = 1
    BY <1>0 DEF StateOK
  <2>2. \A q \in Processes : Live(q)' <=> Live(q)
    BY <2>1, <1>0 DEF Live, StateOK
  <2> QED
    BY <2>1, <2>2, <1>0, <1>1, <1>5 DEF Waiting, InBarrier, Completed, Busy, Same
<1>7. /\ Kind(n)' = Kind(n) /\ NextSync(n)' = NextSync(n) /\ Kind(n) = caller[n]
      /\ InStart(n)' <=> InStart(n)
  BY <1>1, <1>6 DEF Kind, NextSync, InStart
<1>8. /\ Same(Switch)
      /\ Kind(Switch)' = Kind(Switch) /\ NextSync(Switch)' = NextSync(Switch)
      /\ Live(Switch)' <=> Live(Switch)
  BY <1>0, <1>5, SameView, LinkEnds
<1>9. m \in Req /\ m.type = "req" /\ m.tick = tick[n] /\ m.need = need[n]
  BY <1>3 DEF Req
<1>10. \A k \in Links : chan'[k] = IF k = <<n, Switch>> /\ Live(Switch)
                                   THEN Append(chan[k], m) ELSE chan[k]
  <2>1. \A k \in Links : From(k) = n <=> k = <<n, Switch>>
    BY LinkEnds, LinkTo
  <2>2. \A k \in Links : chan'[k] = IF From(k) = n /\ Live(To(k)) THEN Append(chan[k], m) ELSE chan[k]
    BY DEF sendCmd
  <2> QED
    BY <2>1, <2>2, LinkEnds
<1>11. \A k \in Nodes : /\ Down(k)' = Down(k) /\ AcksIn(k)' = AcksIn(k)
                        /\ k # n \/ ~Live(Switch) => Up(k)' = Up(k) /\ ReqsIn(k)' = ReqsIn(k)
  BY <1>10, LinkEnds DEF Up, Down, AcksIn, ReqsIn
<1>12. Live(Switch) => Up(n)' = Append(Up(n), m) /\ ReqsIn(n)' = {m} /\ ReqLast(Up(n)')
  <2> SUFFICES ASSUME Live(Switch)
               PROVE  Up(n)' = Append(Up(n), m) /\ ReqsIn(n)' = {m} /\ ReqLast(Up(n)')
    OBVIOUS
  <2>1. Up(n)' = Append(Up(n), m) /\ Up(n) \in Seq(Wire(<<n, Switch>>)) /\ m \in Wire(<<n, Switch>>)
    BY <1>0, <1>9, <1>10, LinkEnds, StreamTypes DEF Up
  <2>2. Msgs(Append(Up(n), m)) = Msgs(Up(n)) \cup {m}
    BY <2>1, MsgsAppend
  <2>3. ReqsIn(n)' = {m}
    BY <2>1, <2>2, <1>2, <1>9 DEF ReqsIn
  <2>4. ReqLast(Append(Up(n), m))
    BY <2>1, <1>2, ReqLastAppend DEF ReqsIn
  <2> QED
    BY <2>1, <2>3, <2>4
<1>13. ChanOK'
  <2>1. chan' = [k \in Links |-> chan'[k]]
    BY DEF sendCmd
  <2>2. \A k \in Links : chan'[k] \in Seq(Wire(k))
    <3>1. \A k \in Links : chan[k] \in Seq(Wire(k))
      BY <1>0 DEF ChanOK
    <3>2. m \in Wire(<<n, Switch>>)
      BY <1>0, <1>9, StreamTypes
    <3>3. \A S : \A s \in Seq(S), x \in S : Append(s, x) \in Seq(S)
      OBVIOUS
    <3>4. chan[<<n, Switch>>] \in Seq(Wire(<<n, Switch>>))
      BY <3>1, LinkEnds
    <3>5. Append(chan[<<n, Switch>>], m) \in Seq(Wire(<<n, Switch>>))
      BY <3>2, <3>3, <3>4, Zenon
    <3> QED
      BY <3>1, <3>5, <1>10
  <2>3. \A k \in Links : ~Live(To(k))' => chan'[k] = <<>>
    <3>1. \A k \in Links : ~Live(To(k)) => chan[k] = <<>>
      BY <1>0 DEF ChanOK
    <3>2. \A k \in Links : Live(To(k))' <=> Live(To(k))
      BY <1>6, LinkEnds
    <3> QED
      BY <3>1, <3>2, <1>0, <1>10, LinkEnds
  <2>4. \A k \in Nodes : \A x \in ReqsIn(k)', op \in Ops : x.need[op] # "immediate"
    BY ZenonT(40), <1>0, <1>3, <1>9, <1>11, <1>12 DEF ChanOK
  <2> QED
    BY <2>1, <2>2, <2>3, <2>4 DEF ChanOK, Wire, Data, Req, Ack
<1>14. ProcessOK(n)'
  BY <1>0, <1>1, <1>6, <1>7 DEF ProcessOK, Busy
<1>15. \A q \in Processes : ProcessOK(q)'
  <2>1. \A q \in Processes \ {n} : ProcessOK(q)'
    BY <1>5, SameProcessOK DEF SyncInv
  <2> QED
    BY <2>1, <1>14
<1>16. NodeOK(n)' /\ AckOK(n)' /\ AlignedOK(n)'
  <2>1. NodeOK(n)'
    BY <1>0, <1>1, <1>3, <1>6, <1>7, <1>8, <1>11 DEF NodeOK, Busy
  <2>2. AckOK(n)'
    BY <1>0, <1>2, <1>11 DEF AckOK
  <2>3. AlignedOK(n)'
    BY <1>0, <1>1, <1>2, <1>6, <1>7, <1>8, <1>11 DEF AlignedOK, Busy
  <2> QED
    BY <2>1, <2>2, <2>3
<1>17. ReqOK(n)'
  <2>1. CASE ~Live(Switch)
    BY <2>1, <1>0, <1>2, <1>11 DEF ReqOK
  <2>2. CASE Live(Switch)
    <3>1. /\ NextSync(n) = NextSync(Switch)
          /\ isAbort[Switch] \/ caller[n] = Kind(Switch)
      BY <2>2, <1>0, <1>1, <1>2, <1>7 DEF AlignedOK, Busy
    <3>2. /\ tick[n] <= NextSync(n) /\ (caller[n] = "process" => tick[n] = NextSync(n))
          /\ (caller[n] = "start" => \A op \in Ops : need[n][op] = "none")
      BY <1>0, <1>1, Consts DEF ProcessOK, NodeOK, NextSync, InStart, Busy
    <3> QED
      BY <3>1, <3>2, <2>2, <1>2, <1>3, <1>6, <1>8, <1>9, <1>11, <1>12 DEF ReqOK
  <2> QED
    BY <2>1, <2>2
<1>18. ASSUME NEW k \in Nodes, k # n
       PROVE  NodeOK(k)' /\ AckOK(k)' /\ ReqOK(k)' /\ AlignedOK(k)' /\ (Counted(k) => Counted(k)')
  <2>0. NodeOK(k) /\ AckOK(k) /\ ReqOK(k) /\ AlignedOK(k) /\ Same(k) /\ k \in Processes
    BY <1>18, <1>5, LinkEnds DEF SyncInv
  <2>1. /\ Waiting(k)' <=> Waiting(k)
        /\ InStart(k)' <=> InStart(k)
        /\ Completed(k)' <=> Completed(k)
        /\ Kind(k)' = Kind(k) /\ NextSync(k)' = NextSync(k)
        /\ \A x : AckSync(k, x)' = AckSync(k, x)
        /\ Live(k)' <=> Live(k)
    BY <2>0, SameView
  <2>2. NodeOK(k)'
    BY <2>0, <2>1, <1>3, <1>8, <1>11, <1>18 DEF NodeOK, Same
  <2>3. AckOK(k)' /\ AlignedOK(k)' /\ (Counted(k) => Counted(k)')
    BY <2>0, <2>1, <1>8, <1>11, <1>18 DEF AckOK, AlignedOK, Counted, Same
  <2>4. ReqOK(k)'
    BY <2>0, <2>1, <1>3, <1>8, <1>11, <1>18 DEF ReqOK, Same
  <2> QED
    BY <2>2, <2>3, <2>4
<1>19. SwitchOK'
  <2>1. \A W \in SUBSET Nodes : WaitsFor(W) => WaitsFor(W)'
    BY <1>2, <1>8, <1>18 DEF WaitsFor, Same
  <2> QED
    BY <2>1, <1>0, <1>8 DEF SwitchOK, Same
<1>20. CountsOK'
  <2>1. \A op \in Ops : \A R \in SUBSET Nodes : CountsOf(op, R) => CountsOf(op, R)'
    BY <1>2, <1>3, <1>9, <1>11, <1>12 DEF CountsOf
  <2> QED
    BY <2>1 DEF SyncInv, CountsOK
<1> QED
  BY <1>4, <1>13, <1>15, <1>16, <1>17, <1>18, <1>19, <1>20 DEF SyncInv

LEMMA NodeRunOK ==
    ASSUME SyncInv, NEW p \in Processes, NodeRun(p)
    PROVE  SyncInv'
<1> DEFINE m == [type |-> "req", tick |-> tick[p], need |-> need[p]]
<1>0. p \in Nodes /\ StateOK /\ ChanOK /\ pc[p] = "run"
  BY DEF SyncInv, NodeRun
<1>1. CASE isAbort[p]
  BY <1>1, EndsActionsOK DEF NodeRun, syncVars
<1>2. CASE ~isAbort[p] /\ sendCmd(p, m) /\ pc' = [pc EXCEPT ![p] = "wait"]
  <2>1. /\ waitNum' = [waitNum EXCEPT ![p] = 1]
        /\ need' = [need EXCEPT ![p] =
                    [op \in Ops |-> IF @[op] = "none" THEN "none" ELSE "pending"]]
        /\ UNCHANGED <<tick, when, caller, exiting, isAbort, nextAt, doing, numReq,
                       linkVars, thread, saved>>
    BY <1>2 DEF NodeRun
  <2> HIDE DEF m
  <2>2. m = [type |-> "req", tick |-> tick[p], need |-> need[p]]
    BY DEF m
  <2> QED
    BY <1>0, <1>2, <2>1, <2>2, NodeRunSendsOK
<1>3. CASE ~isAbort[p] /\ SendFails(p, m)
  <2>1. /\ waitNum' = [waitNum EXCEPT ![p] = 1]
        /\ need' = [need EXCEPT ![p] =
                    [op \in Ops |-> IF @[op] = "none" THEN "none" ELSE "pending"]]
        /\ UNCHANGED <<tick, when, caller, exiting, isAbort, nextAt, doing, numReq,
                       descQueue, prevRecvTick, txDone, thread, saved>>
    BY <1>3 DEF NodeRun, linkVars
  <2>2. Peers(p) = {Switch}
    BY <1>0, LinkEnds DEF Peers
  <2>3. PICK sent \in SUBSET {q \in Peers(p) : Live(q)} :
            /\ \E q \in Peers(p) : ~Live(q)
            /\ Ends(p, [l \in Links |-> IF From(l) = p /\ To(l) \in sent
                                        THEN Append(chan[l], m) ELSE chan[l]])
    BY <1>3 DEF SendFails
  <2>4. sent = {}
    BY <2>2, <2>3
  <2>5. [l \in Links |-> IF From(l) = p /\ To(l) \in sent THEN Append(chan[l], m) ELSE chan[l]]
        = [l \in Links |-> chan[l]]
    BY <2>4
  <2>6. Ends(p, chan)
    BY <2>3, <2>5, <1>0 DEF ChanOK
  <2>7. StateOK'
    <3>1. need' \in [Nodes -> [Ops -> {"none", "collective", "pending"}]]
      BY <1>0, <2>1 DEF StateOK
    <3>2. waitNum' \in [Processes -> 0..Cardinality(Nodes)]
      BY <1>0, <2>1, Consts DEF StateOK
    <3>3. pc' = [pc EXCEPT ![p] = "exited"]
      BY <2>6 DEF Ends
    <3> QED
      BY <3>1, <3>2, <3>3, <1>0, <2>1 DEF StateOK
  <2>8. /\ \A q \in Processes \ {p} : waitNum'[q] = waitNum[q]
        /\ waitNum'[p] \in 0..1
        /\ \A n \in Nodes \ {p} : need'[n] = need[n]
        /\ \A n \in Nodes, op \in Ops : need[n][op] = "pending" => need'[n][op] = "pending"
    BY <1>0, <2>1 DEF StateOK
  <2> QED
    BY <2>1, <2>6, <2>7, <2>8, EndsOK
<1> QED
  BY <1>1, <1>2, <1>3 DEF NodeRun
-----------------------------------------------------------------------------
(* A node hears from the switch. *)

LEMMA NodeHearsOK ==
    ASSUME SyncInv, NEW n \in Nodes, progress(<<Switch, n>>)
    PROVE  SyncInv'
<1> DEFINE l == <<Switch, n>>
           m == Head(Down(n))
<1>0. /\ StateOK /\ ChanOK /\ SwitchOK /\ n \in Processes /\ n # Switch /\ l \in Links /\ To(l) = n
      /\ ProcessOK(n) /\ NodeOK(n) /\ AckOK(n) /\ ReqOK(n) /\ AlignedOK(n)
  BY LinkEnds DEF SyncInv
<1>1. /\ chan[l] # <<>> /\ m.type \in {"req", "ack"} /\ m = Head(chan[l]) /\ Down(n) = chan[l]
      /\ Live(n) /\ chan' = [chan EXCEPT ![l] = Tail(chan[l])]
  BY <1>0 DEF progress, Receiving, Down
<1>2. ChanOK' /\ (\A k \in Links : chan'[k] = IF k = l THEN Tail(chan[l]) ELSE chan[k])
      /\ m \in Wire(l)
  <2>1. UNCHANGED pc
    BY DEF progress, simVars
  <2> QED
    BY <2>1, <1>0, <1>1, TakeHead
<1>3. m \in Ack /\ m.type = "ack" /\ m.tick \in Nat /\ m.do \in [Ops -> BOOLEAN]
  <2>1. m \in Data(l) \cup Ack
    BY <1>0, <1>2 DEF Wire
  <2> QED
    BY <2>1, <1>1 DEF Data, Ack
<1>4. /\ m \in AcksIn(n)
      /\ \A x \in Msgs(Tail(Down(n))) : x.type # "ack"
      /\ OneAck(Tail(Down(n)))
  <2>1. Down(n) \in Seq(Wire(l)) /\ OneAck(Down(n)) /\ Down(n) # <<>>
    BY <1>0, <1>1, StreamTypes DEF AckOK
  <2>2. m \in Msgs(Down(n))
    BY <2>1, MsgsTail
  <2> QED
    BY <2>1, <2>2, <1>3, OneAckTail DEF AcksIn
<1>5. /\ Waiting(n) /\ ~isAbort[n] /\ waitNum[n] = 1 /\ pc[n] = "wait" /\ InBarrier(n)
      /\ ~Completed(n)
      /\ caller[n] = "process" => m.tick = tick[n]
      /\ caller[n] = "start" => m.tick = SyncStart /\ \A op \in Ops : ~m.do[op]
  BY SMTT(30), <1>0, <1>1, <1>4 DEF AckOK, NodeOK, Waiting, Completed, InBarrier
<1>6. ReqsIn(n) = {} /\ \A W \in SUBSET Nodes : WaitsFor(W) => n \in W
  BY <1>0, <1>1, <1>4 DEF ReqOK, WaitsFor, Counted
<1>7. /\ nextAt' = [nextAt EXCEPT ![n] = m.tick]
      /\ doing' = [doing EXCEPT ![n] = m.do]
      /\ waitNum' = [waitNum EXCEPT ![n] = waitNum[n] - 1]
      /\ \A k \in Links : thread'[k] = "lost" => thread[k] = "lost"
      /\ thread' \in [Links -> {"recv", "lost", "done"}]
      /\ UNCHANGED <<tick, when, pc, caller, exiting, isAbort, need, numReq,
                     descQueue, prevRecvTick, txDone, saved>>
  <2>1. NodeProgress(n, m)
    BY <1>0, <1>1, <1>5 DEF progress
  <2>2. thread' = thread \/ thread' = [thread EXCEPT ![l] = "done"]
    BY DEF progress
  <2>3. /\ thread' \in [Links -> {"recv", "lost", "done"}]
        /\ \A k \in Links : thread'[k] = "lost" => thread[k] = "lost"
    BY <2>2, <1>0 DEF StateOK
  <2>4. UNCHANGED <<tick, when, pc, caller, exiting, isAbort, need,
                     descQueue, prevRecvTick, txDone, saved>>
    BY DEF progress, simVars, linkVars
  <2> QED
    BY <2>1, <2>3, <2>4 DEF NodeProgress
<1> HIDE DEF m, l
<1>8. StateOK'
  <2>1. waitNum' \in [Processes -> 0..Cardinality(Nodes)]
    BY <1>0, <1>5, <1>7, Consts DEF StateOK
  <2> QED
    BY <2>1, <1>0, <1>3, <1>7 DEF StateOK
<1>9. \A q \in Processes \ {n} : Same(q)
  BY <1>0, <1>7 DEF Same, StateOK
<1>10. /\ waitNum'[n] = 0 /\ doing'[n] = m.do /\ nextAt'[n] = m.tick /\ Completed(n)'
       /\ InBarrier(n)' /\ pc'[n] = "wait"
       /\ \A q \in Processes : Live(q)' <=> Live(q)
       /\ \A q \in Processes \ {n} : nextAt'[q] = nextAt[q]
  <2>1. waitNum'[n] = 0 /\ doing'[n] = m.do /\ nextAt'[n] = m.tick
    BY <1>0, <1>5, <1>7 DEF StateOK
  <2> QED
    BY <2>1, <1>0, <1>5, <1>7 DEF Completed, InBarrier, Live, StateOK
<1>11. /\ Same(Switch)
       /\ Kind(Switch)' = Kind(Switch) /\ NextSync(Switch)' = NextSync(Switch)
       /\ Live(Switch)' <=> Live(Switch)
       /\ nextAt'[Switch] = nextAt[Switch]
  BY <1>0, <1>9, <1>10, SameView, LinkEnds
<1>12. \A k \in Nodes : /\ Up(k)' = Up(k) /\ ReqsIn(k)' = ReqsIn(k)
                        /\ k # n => Down(k)' = Down(k) /\ AcksIn(k)' = AcksIn(k)
  BY <1>2, LinkEnds DEF Up, Down, ReqsIn, AcksIn, l
<1>13. Down(n)' = Tail(Down(n)) /\ AcksIn(n)' = {} /\ OneAck(Down(n)')
  <2>1. Down(n)' = Tail(Down(n))
    BY <1>0, <1>2 DEF Down, l
  <2> QED
    BY <2>1, <1>4 DEF AcksIn
<1>14. Kind(n)' = After(caller[n], m.do) /\ NextSync(n)' = AckSync(n, m)
  BY <1>7, <1>10 DEF Kind, NextSync, AckSync, InStart
<1>15. \A q \in Processes : ProcessOK(q)'
  <2>1. \A q \in Processes \ {n} : ProcessOK(q)'
    BY <1>9, SameProcessOK DEF SyncInv
  <2>2. InStart(n)' <=> InStart(n)
    BY <1>5, <1>7, <1>10 DEF InStart
  <2>3. ProcessOK(n)'
    BY <2>2, <1>0, <1>1, <1>5, <1>7, <1>10 DEF ProcessOK
  <2> QED
    BY <2>1, <2>3
<1>16. NodeOK(n)' /\ AckOK(n)' /\ ReqOK(n)' /\ AlignedOK(n)'
  <2>1. NodeOK(n)'
    <3>1. InStart(n)' <=> InStart(n)
      BY <1>5, <1>7, <1>10 DEF InStart
    <3>2. isAbort'[n] \/ thread'[<<Switch, n>>] = "lost" => FALSE
      BY <1>0, <1>1, <1>7, LinkEnds DEF NodeOK
    <3> QED
      BY <3>1, <3>2, <1>0, <1>1, <1>5, <1>7, <1>10 DEF NodeOK
  <2>2. AckOK(n)'
    BY <1>13 DEF AckOK
  <2>3. ReqOK(n)'
    BY <1>0, <1>6, <1>12 DEF ReqOK
  <2>4. AlignedOK(n)'
    BY <1>0, <1>1, <1>4, <1>7, <1>10, <1>11, <1>13, <1>14 DEF AlignedOK
  <2> QED
    BY <2>1, <2>2, <2>3, <2>4
<1>17. ASSUME NEW k \in Nodes, k # n
       PROVE  NodeOK(k)' /\ AckOK(k)' /\ ReqOK(k)' /\ AlignedOK(k)' /\ (Counted(k) => Counted(k)')
  <2>0. NodeOK(k) /\ AckOK(k) /\ ReqOK(k) /\ AlignedOK(k) /\ Same(k) /\ k \in Processes
    BY <1>17, <1>9, LinkEnds DEF SyncInv
  <2>1. /\ Waiting(k)' <=> Waiting(k)
        /\ InStart(k)' <=> InStart(k)
        /\ Completed(k)' <=> Completed(k)
        /\ Kind(k)' = Kind(k) /\ NextSync(k)' = NextSync(k)
        /\ \A x : AckSync(k, x)' = AckSync(k, x)
        /\ Live(k)' <=> Live(k)
    BY <2>0, SameView
  <2>2. NodeOK(k)'
    BY <2>0, <2>1, <1>7, <1>10, <1>11, <1>12, <1>17, LinkEnds DEF NodeOK, Same
  <2>3. AckOK(k)' /\ AlignedOK(k)' /\ (Counted(k) => Counted(k)')
    BY <2>0, <2>1, <1>7, <1>11, <1>12, <1>17 DEF AckOK, AlignedOK, Counted, Same
  <2>4. ReqOK(k)'
    BY <2>0, <2>1, <1>7, <1>11, <1>12, <1>17 DEF ReqOK, Same
  <2> QED
    BY <2>2, <2>3, <2>4
<1>18. SwitchOK'
  <2>1. \A W \in SUBSET Nodes : WaitsFor(W) => WaitsFor(W)'
    BY <1>6, <1>11, <1>17 DEF WaitsFor, Same
  <2> QED
    BY <2>1, <1>0, <1>7, <1>11 DEF SwitchOK, Same
<1>19. CountsOK'
  <2>1. \A op \in Ops : \A R \in SUBSET Nodes : CountsOf(op, R) => CountsOf(op, R)'
    BY <1>7, <1>12 DEF CountsOf
  <2> QED
    BY <2>1 DEF SyncInv, CountsOK
<1> QED
  BY <1>2, <1>8, <1>15, <1>16, <1>17, <1>18, <1>19 DEF SyncInv
-----------------------------------------------------------------------------
(* The switch hears from a node. *)

(* The requests counted so far, and one more. *)
LEMMA CountsOneMore ==
    ASSUME CountsOK, NEW n \in Nodes, NEW m \in ReqsIn(n), ReqOK(n), ReqsIn(n)' = {},
           \A k \in Nodes \ {n} : ReqsIn(k)' = ReqsIn(k), UNCHANGED need,
           numReq \in [Ops -> 0..Cardinality(Nodes)],
           numReq' = [op \in Ops |-> IF m.need[op] = "collective" THEN numReq[op] + 1
                                                                  ELSE numReq[op]]
    PROVE  CountsOK' /\ numReq' \in [Ops -> 0..Cardinality(Nodes)]
<1>1. ASSUME NEW op \in Ops
      PROVE  (\E R \in SUBSET Nodes : CountsOf(op, R)') /\ numReq'[op] \in 0..Cardinality(Nodes)
  <2>1. PICK R \in SUBSET Nodes : CountsOf(op, R)
    BY DEF CountsOK
  <2>2. IsFiniteSet(R) /\ Cardinality(R) = numReq[op] /\ numReq[op] \in Nat
    BY <2>1, Consts, FS_Subset DEF CountsOf
  <2>3. CASE m.need[op] # "collective"
    <3>1. CountsOf(op, R)' /\ numReq'[op] = numReq[op]
      BY <2>1, <2>3 DEF CountsOf
    <3> QED
      BY <3>1
  <2>4. CASE m.need[op] = "collective"
    <3>1. n \notin R /\ need[n][op] = "pending"
      BY <2>1, <2>4 DEF CountsOf, ReqOK
    <3>2. IsFiniteSet(R \cup {n}) /\ Cardinality(R \cup {n}) = numReq[op] + 1
      BY <2>2, <3>1, FS_AddElement
    <3>3. R \cup {n} \in SUBSET Nodes /\ Cardinality(R \cup {n}) <= Cardinality(Nodes)
      BY Consts, FS_Subset
    <3>4. numReq'[op] = numReq[op] + 1
      BY <2>4
    <3>5. CountsOf(op, R \cup {n})'
      BY <2>1, <3>1, <3>2, <3>4 DEF CountsOf
    <3> QED
      BY <2>2, <3>2, <3>3, <3>4, <3>5, Consts
  <2> QED
    BY <2>3, <2>4
<1> QED
  BY <1>1 DEF CountsOK

LEMMA SwitchHearsOK ==
    ASSUME SyncInv, NEW n \in Nodes, progress(<<n, Switch>>)
    PROVE  SyncInv'
<1> DEFINE l == <<n, Switch>>
           m == Head(Up(n))
<1>0. /\ StateOK /\ ChanOK /\ SwitchOK /\ n \in Processes /\ n # Switch /\ l \in Links
      /\ To(l) = Switch /\ Switch \in Processes /\ CountsOK
      /\ ProcessOK(n) /\ NodeOK(n) /\ AckOK(n) /\ ReqOK(n) /\ AlignedOK(n)
  BY LinkEnds DEF SyncInv
<1>1. /\ chan[l] # <<>> /\ m.type \in {"req", "ack"} /\ m = Head(chan[l]) /\ Up(n) = chan[l]
      /\ Live(Switch) /\ chan' = [chan EXCEPT ![l] = Tail(chan[l])]
  BY <1>0 DEF progress, Receiving, Up
<1>2. ChanOK' /\ (\A k \in Links : chan'[k] = IF k = l THEN Tail(chan[l]) ELSE chan[k])
      /\ m \in Wire(l)
  <2>1. UNCHANGED pc
    BY DEF progress, simVars
  <2> QED
    BY <2>1, <1>0, <1>1, TakeHead
<1>3. /\ m \in Req /\ m.type = "req" /\ m.tick \in 0..MaxTick
      /\ m.need \in [Ops -> {"none", "collective", "immediate", "pending"}]
  <2>1. m \in Data(l) \cup Req
    BY <1>0, <1>2 DEF Wire
  <2> QED
    BY <2>1, <1>1 DEF Data, Req
<1>4. m \in ReqsIn(n) /\ Tail(Up(n)) = <<>>
  <2>1. Up(n) \in Seq(Wire(l)) /\ ReqLast(Up(n)) /\ Up(n) # <<>>
    BY <1>0, <1>1, StreamTypes DEF ReqOK
  <2>2. m \in Msgs(Up(n))
    BY <2>1, MsgsTail
  <2> QED
    BY <2>1, <2>2, <1>3, ReqLastTail DEF ReqsIn
<1>5. /\ thread' \in [Links -> {"recv", "lost", "done"}]
      /\ \A k \in Links : thread'[k] = "lost" => thread[k] = "lost"
      /\ UNCHANGED <<tick, when, pc, caller, exiting, isAbort, need,
                     descQueue, prevRecvTick, txDone, saved>>
  <2>1. thread' = thread \/ thread' = [thread EXCEPT ![l] = "done"]
    BY DEF progress
  <2>2. /\ thread' \in [Links -> {"recv", "lost", "done"}]
        /\ \A k \in Links : thread'[k] = "lost" => thread[k] = "lost"
    BY <2>1, <1>0 DEF StateOK
  <2> QED
    BY <2>2 DEF progress, simVars, linkVars
<1>6. CASE isAbort[Switch]
  <2>1. UNCHANGED <<nextAt, doing, numReq, waitNum>>
    BY <1>6, <1>0 DEF progress
  <2>2. StateOK'
    BY <2>1, <1>0, <1>5 DEF StateOK
  <2> HIDE DEF l, m
  <2> QED
    BY <2>1, <2>2, <1>0, <1>1, <1>3, <1>5, TakeOK
<1>7. CASE ~isAbort[Switch]
  <2>1. /\ nextAt' = [nextAt EXCEPT ![Switch] = IF m.tick > nextAt[Switch] THEN m.tick
                                                ELSE nextAt[Switch]]
        /\ numReq' = [op \in Ops |-> IF m.need[op] = "collective" THEN numReq[op] + 1
                                                                  ELSE numReq[op]]
        /\ doing' = [doing EXCEPT ![Switch] =
                        [op \in Ops |-> doing[Switch][op] \/ m.need[op] = "immediate"]]
        /\ waitNum' = [waitNum EXCEPT ![Switch] = waitNum[Switch] - 1]
    <3>1. SwitchProgress(m)
      BY <1>7, <1>0, <1>1 DEF progress
    <3> HIDE DEF m
    <3> QED
      BY <3>1 DEF SwitchProgress
  <2> HIDE DEF m, l
  <2>2. doing' = doing
    <3>1. \A op \in Ops : m.need[op] # "immediate"
      BY <1>0, <1>4 DEF ChanOK
    <3>2. [op \in Ops |-> doing[Switch][op] \/ m.need[op] = "immediate"] = doing[Switch]
      BY <3>1, <1>0 DEF StateOK
    <3> QED
      BY <3>2, <2>1, <1>0 DEF StateOK
  <2>3. \A k \in Nodes : /\ Down(k)' = Down(k) /\ AcksIn(k)' = AcksIn(k)
                         /\ k # n => Up(k)' = Up(k) /\ ReqsIn(k)' = ReqsIn(k)
    BY <1>2, LinkEnds DEF Up, Down, ReqsIn, AcksIn, l
  <2>4. Up(n)' = <<>> /\ ReqsIn(n)' = {}
    <3>1. Up(n)' = <<>>
      BY <1>0, <1>2, <1>4 DEF Up, l
    <3> QED
      BY <3>1, MsgsEmpty DEF ReqsIn
  <2>5. CountsOK' /\ numReq' \in [Ops -> 0..Cardinality(Nodes)]
    BY <2>1, <2>3, <2>4, <1>0, <1>4, <1>5, CountsOneMore DEF StateOK
  <2>6. PICK W \in SUBSET Nodes : WaitsFor(W)
    BY <1>0, <1>1, <1>7 DEF SwitchOK
  <2>7. /\ n \in W /\ IsFiniteSet(W) /\ Cardinality(W) = waitNum[Switch]
        /\ Cardinality(W \ {n}) = waitNum[Switch] - 1
        /\ waitNum[Switch] \in Nat /\ waitNum[Switch] > 0
    <3>1. n \in W
      BY <2>6, <1>4, MsgsEmpty DEF WaitsFor, Counted, ReqsIn
    <3>2. IsFiniteSet(W) /\ Cardinality(W) = waitNum[Switch]
      BY <2>6, Consts, FS_Subset DEF WaitsFor
    <3>3. Cardinality(W \ {n}) = waitNum[Switch] - 1
      BY <3>1, <3>2, FS_RemoveElement
    <3>4. Cardinality(W) # 0 /\ Cardinality(W) \in Nat
      BY <3>1, <3>2, FS_EmptySet, FS_CardinalityType
    <3> QED
      BY <3>1, <3>2, <3>3, <3>4
  <2>8. StateOK'
    <3>0. waitNum \in [Processes -> 0..Cardinality(Nodes)]
      BY <1>0 DEF StateOK
    <3>a. waitNum[Switch] - 1 \in 0..Cardinality(Nodes)
      BY <3>0, <2>7, <1>0, Consts
    <3>1. waitNum' \in [Processes -> 0..Cardinality(Nodes)]
      BY <3>0, <3>a, <2>1
    <3>2. nextAt' \in [Processes -> Nat]
      BY SMTT(30), <2>1, <1>0, <1>3 DEF StateOK
    <3> QED
      BY <3>1, <3>2, <2>2, <2>5, <1>0, <1>5 DEF StateOK
  <2>9. /\ \A q \in Processes \ {Switch} : Same(q) /\ nextAt'[q] = nextAt[q]
        /\ waitNum'[Switch] = waitNum[Switch] - 1
        /\ nextAt'[Switch] = IF m.tick > nextAt[Switch] THEN m.tick ELSE nextAt[Switch]
        /\ nextAt[Switch] \in Nat
    BY <2>1, <2>2, <1>0, <1>5 DEF Same, StateOK
  <2>10. /\ Kind(Switch)' = Kind(Switch) /\ NextSync(Switch)' = NextSync(Switch)
         /\ Completed(Switch)' <=> Completed(Switch)
         /\ \A q \in Processes : Live(q)' <=> Live(q)
    <3>1. Completed(Switch)' <=> Completed(Switch)
      BY <1>0, <1>5, LinkEnds DEF Completed
    <3> QED
      BY <3>1, <2>2, <1>5 DEF Kind, After, NextSync, InStart, InBarrier, Live
  <2>11. \A q \in Processes : ProcessOK(q)'
    <3>1. \A q \in Processes \ {Switch} : ProcessOK(q)'
      BY <2>9, SameProcessOK DEF SyncInv
    <3>2. ProcessOK(Switch)
      BY <1>0 DEF SyncInv
    <3>3. ProcessOK(Switch)'
      BY <3>2, <2>2, <2>10, <1>5 DEF ProcessOK, Live, InStart, InBarrier
    <3> QED
      BY <3>1, <3>3
  <2>12. /\ Live(n) => Waiting(n) /\ AcksIn(n) = {}
         /\ m.tick <= NextSync(Switch)
         /\ Kind(Switch) = "process" => m.tick = NextSync(Switch) /\ tick[n] = m.tick
         /\ Kind(Switch) = "start" => \A op \in Ops : m.need[op] = "none"
    BY <1>0, <1>4, <1>7 DEF ReqOK
  <2>13. /\ SyncStart <= nextAt[Switch] /\ nextAt[Switch] <= NextSync(Switch)
         /\ Kind(Switch) = "start" => \A op \in Ops : numReq[op] = 0 /\ ~doing[Switch][op]
    BY <1>0, <1>1, <1>7 DEF SwitchOK
  <2>14. NextSync(Switch) \in Nat
    <3>1. tick[Switch] \in Nat /\ when[Switch] \in Nat /\ tick[Switch] + Repeat \in Nat
      BY <1>0, TicksNat, Consts
    <3> QED
      BY <3>1, Consts DEF NextSync
  <2>15. ASSUME NEW k \in Nodes
         PROVE  /\ NodeOK(k)' /\ AckOK(k)' /\ ReqOK(k)' /\ AlignedOK(k)'
                /\ Counted(k) \/ k = n => Counted(k)'
    <3>0. NodeOK(k) /\ AckOK(k) /\ ReqOK(k) /\ AlignedOK(k) /\ Same(k) /\ nextAt'[k] = nextAt[k]
          /\ k \in Processes
      BY <2>9, LinkEnds DEF SyncInv
    <3>1. /\ Waiting(k)' <=> Waiting(k)
          /\ InStart(k)' <=> InStart(k)
          /\ Completed(k)' <=> Completed(k)
          /\ Kind(k)' = Kind(k) /\ NextSync(k)' = NextSync(k)
          /\ \A x : AckSync(k, x)' = AckSync(k, x)
          /\ Live(k)' <=> Live(k)
      BY <3>0, SameView
    <3>2. NodeOK(k)'
      BY <3>0, <3>1, <2>3, <2>10, <1>5, LinkEnds DEF NodeOK, Same
    <3>3. AckOK(k)' /\ AlignedOK(k)'
      BY <3>0, <3>1, <2>3, <2>10, <1>0, <1>5 DEF AckOK, AlignedOK, Same
    <3>4. ReqOK(k)'
      <4>1. CASE k = n
        BY <4>1, <2>4 DEF ReqOK, ReqLast
      <4>2. CASE k # n
        BY <4>2, <3>0, <3>1, <2>3, <2>10, <1>5 DEF ReqOK, Same
      <4> QED
        BY <4>1, <4>2
    <3>5. Counted(k) /\ k # n => Counted(k)'
      <4>1. Counted(k) /\ Kind(Switch) = "process" => nextAt'[Switch] = NextSync(Switch)
        BY <2>9, <2>12, <1>3, <2>14 DEF Counted
      <4> QED
        BY <4>1, <3>0, <3>1, <2>3, <2>10 DEF Counted, Same
    <3>6. k = n => Counted(k)'
      <4>1. Kind(Switch) = "process" => nextAt'[Switch] = NextSync(Switch)
        BY <2>9, <2>12, <2>13, <2>14, <1>3
      <4> QED
        BY <4>1, <3>0, <3>1, <2>3, <2>4, <2>10, <2>12 DEF Counted, Same
    <3> QED
      BY <3>2, <3>3, <3>4, <3>5, <3>6
  <2>16. SwitchOK'
    <3>1. WaitsFor(W \ {n})'
      <4>1. \A k \in Nodes \ (W \ {n}) : Counted(k)'
        BY <2>6, <2>15 DEF WaitsFor
      <4> QED
        BY <4>1, <2>7, <2>9 DEF WaitsFor
    <3>2. SyncStart <= nextAt'[Switch] /\ nextAt'[Switch] <= NextSync(Switch)
      BY <2>9, <2>12, <2>13, <2>14, <1>3, Consts
    <3>3. Kind(Switch) = "start" => \A op \in Ops : numReq'[op] = 0
      BY <2>1, <2>12, <2>13
    <3> QED
      BY <3>1, <3>2, <3>3, <2>2, <2>10, <2>13 DEF SwitchOK
  <2> QED
    BY <2>5, <2>8, <2>11, <2>15, <2>16, <1>2 DEF SyncInv
<1> QED
  BY <1>6, <1>7
-----------------------------------------------------------------------------
(* The switch completes the barrier: the nodes in S get their answer.  All  *)
(* that live do, unless the switch ends on a stream that is gone.           *)

LEMMA NobodyMissing ==
    ASSUME SyncInv, Live(Switch), ~isAbort[Switch], waitNum[Switch] = 0, NEW n \in Nodes
    PROVE  Counted(n)
<1>1. PICK W \in SUBSET Nodes : WaitsFor(W)
  BY DEF SyncInv, SwitchOK
<1>2. IsFiniteSet(W) /\ Cardinality(W) = 0
  BY <1>1, Consts, FS_Subset DEF WaitsFor
<1>3. W = {}
  BY <1>2, FS_EmptySet
<1> QED
  BY <1>1, <1>3 DEF WaitsFor

LEMMA SwitchAnswersOK ==
    ASSUME SyncInv, pc[Switch] = "run", waitNum[Switch] = 0, ~isAbort[Switch],
           NEW m, m = [type |-> "ack", tick |-> nextAt[Switch],
                       do |-> [op \in Ops |-> Decided(op)]],
           waitNum' = [waitNum EXCEPT ![Switch] = Cardinality(Nodes)],
           doing' = [doing EXCEPT ![Switch] = m.do],
           numReq' = IF m.do["ckpt"] THEN [numReq EXCEPT !["ckpt"] = 0] ELSE numReq,
           NEW at \in {"return", "exited"}, pc' = [pc EXCEPT ![Switch] = at],
           NEW S \in SUBSET {n \in Nodes : Live(n)},
           at = "return" => S = {n \in Nodes : Live(n)},
           chan' = [k \in Links |-> IF From(k) = Switch /\ To(k) \in S
                                    THEN Append(chan[k], m) ELSE chan[k]],
           UNCHANGED <<tick, when, caller, exiting, isAbort, nextAt, need, linkVars,
                       thread, saved>>
    PROVE  SyncInv'
<1>0. /\ StateOK /\ ChanOK /\ SwitchOK /\ CountsOK /\ Switch \in Processes /\ ProcessOK(Switch)
      /\ Live(Switch) /\ InBarrier(Switch) /\ ~Completed(Switch)
  BY LinkEnds DEF SyncInv, Live, InBarrier, Completed
<1>1. /\ m \in Ack /\ m.type = "ack" /\ m.tick = nextAt[Switch] /\ m.do \in [Ops -> BOOLEAN]
      /\ \A op \in Ops : m.do[op] <=> Decided(op)
  <2>1. /\ m.type = "ack" /\ m.tick = nextAt[Switch] /\ m.do = [op \in Ops |-> Decided(op)]
        /\ nextAt[Switch] \in Nat
    BY <1>0 DEF StateOK
  <2>2. \A op \in Ops : Decided(op) \in BOOLEAN
    BY DEF Decided
  <2>3. m.do \in [Ops -> BOOLEAN]
    BY <2>1, <2>2
  <2> QED
    BY <2>1, <2>3 DEF Ack
<1>2. \A n \in Nodes : Counted(n)
  BY <1>0, NobodyMissing
<1>3. /\ Kind(Switch) = caller[Switch]
      /\ SyncStart <= nextAt[Switch] /\ nextAt[Switch] <= NextSync(Switch)
      /\ caller[Switch] = "start" => NextSync(Switch) = SyncStart /\ \A op \in Ops : ~m.do[op]
      /\ caller[Switch] # "start" => NextSync(Switch) = when[Switch]
      /\ caller[Switch] = "process" => tick[Switch] = when[Switch]
  <2>1. Kind(Switch) = caller[Switch]
    BY <1>0 DEF Kind
  <2>2. caller[Switch] = "start" => \A op \in Ops : ~Decided(op)
    BY <2>1, <1>0, Consts DEF SwitchOK, Decided
  <2>3. /\ caller[Switch] = "start" => NextSync(Switch) = SyncStart
        /\ caller[Switch] # "start" => NextSync(Switch) = when[Switch]
    BY <1>0 DEF NextSync, InStart
  <2> QED
    BY <2>1, <2>2, <2>3, <1>0, <1>1 DEF SwitchOK, ProcessOK
<1>4. /\ doing'[Switch] = m.do /\ pc'[Switch] = at /\ waitNum'[Switch] = Cardinality(Nodes)
      /\ \A q \in Processes \ {Switch} : Same(q)
      /\ \A q \in Processes \ {Switch} : Live(q)' <=> Live(q)
  BY <1>0 DEF Same, StateOK, Live
<1>5. StateOK'
  <2>1. doing' \in [Processes -> [Ops -> BOOLEAN]]
    BY <1>0, <1>1 DEF StateOK
  <2>2. waitNum' \in [Processes -> 0..Cardinality(Nodes)]
    BY <1>0, Consts DEF StateOK
  <2>3. numReq' \in [Ops -> 0..Cardinality(Nodes)]
    BY <1>0, Consts DEF StateOK
  <2>4. pc' \in [Processes -> {"run", "wait", "return", "simulate", "unsynced", "drain",
                               "save", "exited"}]
    BY <1>0 DEF StateOK
  <2> QED
    BY <2>1, <2>2, <2>3, <2>4, <1>0 DEF StateOK, linkVars
<1>6. ASSUME NEW n \in Nodes
      PROVE  /\ Up(n)' = <<>> /\ ReqsIn(n)' = {}
             /\ Down(n)' = IF n \in S THEN Append(Down(n), m) ELSE Down(n)
             /\ Down(n) \in Seq(Wire(<<Switch, n>>)) /\ m \in Wire(<<Switch, n>>)
  <2>1. Up(n) = <<>>
    BY <1>2 DEF Counted
  <2>2. Up(n)' = <<>> /\ Down(n)' = IF n \in S THEN Append(Down(n), m) ELSE Down(n)
    BY <2>1, LinkEnds DEF Up, Down
  <2> QED
    BY <2>2, <1>0, <1>1, MsgsEmpty, StreamTypes DEF ReqsIn
<1>7. ASSUME NEW n \in Nodes, Live(n)
      PROVE  /\ Waiting(n) /\ AcksIn(n) = {}
             /\ caller[n] = caller[Switch]
             /\ caller[n] = "process" => m.tick = tick[n] /\ tick[n] = when[Switch]
             /\ caller[n] = "start" => m.tick = SyncStart /\ \A op \in Ops : ~m.do[op]
             /\ caller[n] # "start" => when[n] = when[Switch]
  <2>0. Counted(n) /\ AlignedOK(n) /\ NodeOK(n) /\ n # Switch
    BY <1>2, LinkEnds DEF SyncInv
  <2>1. Waiting(n) /\ AcksIn(n) = {}
    BY <2>0, <1>7 DEF Counted
  <2>2. NextSync(n) = NextSync(Switch) /\ Kind(n) = Kind(Switch)
    BY <2>0, <2>1, <1>0, <1>7 DEF AlignedOK
  <2>3. Kind(n) = caller[n] /\ (caller[n] # "start" => NextSync(n) = when[n])
    BY <2>0, <2>1 DEF Kind, NextSync, Waiting, Completed, InBarrier, InStart
  <2>4. caller[n] = "process" => m.tick = tick[n] /\ tick[n] = when[Switch]
    BY <2>0, <2>2, <2>3, <1>1, <1>3 DEF Counted
  <2>5. caller[n] = "start" => m.tick = SyncStart /\ \A op \in Ops : ~m.do[op]
    <3>1. nextAt[Switch] \in Nat
      BY <1>0 DEF StateOK
    <3>2. caller[Switch] = "start" => nextAt[Switch] = SyncStart
      BY <3>1, <1>3, Consts
    <3> QED
      BY <3>2, <2>2, <2>3, <1>1, <1>3
  <2> QED
    BY <2>1, <2>2, <2>3, <2>4, <2>5, <1>3
<1>8. ASSUME NEW n \in Nodes
      PROVE  /\ AcksIn(n)' = IF n \in S THEN {m} ELSE AcksIn(n)
             /\ OneAck(Down(n)')
  <2>1. CASE n \in S
    <3>1. AcksIn(n) = {} /\ OneAck(Down(n))
      BY <2>1, <1>7 DEF SyncInv, AckOK
    <3>a. /\ Down(n) \in Seq(Wire(<<Switch, n>>)) /\ m \in Wire(<<Switch, n>>)
          /\ Down(n)' = Append(Down(n), m)
      BY <2>1, <1>6
    <3>2. Msgs(Append(Down(n), m)) = Msgs(Down(n)) \cup {m}
      BY <3>a, MsgsAppend
    <3>3. OneAck(Append(Down(n), m))
      BY <3>1, <3>a, OneAckAppend DEF AcksIn
    <3>4. AcksIn(n)' = {m}
      BY <3>1, <3>2, <3>a, <1>1 DEF AcksIn
    <3> QED
      BY <2>1, <3>3, <3>4, <3>a
  <2>2. CASE n \notin S
    <3>1. OneAck(Down(n))
      BY DEF SyncInv, AckOK
    <3> QED
      BY <2>2, <3>1, <1>6 DEF AcksIn
  <2> QED
    BY <2>1, <2>2
<1>9. ChanOK'
  <2>1. chan' = [k \in Links |-> chan'[k]]
    OBVIOUS
  <2>2. \A k \in Links : chan'[k] \in Seq(Wire(k))
    <3>1. \A k \in Links : chan[k] \in Seq(Wire(k))
      BY <1>0 DEF ChanOK
    <3>2. \A k \in Links : To(k) \in S => m \in Wire(k)
      BY <1>1, LinkEnds DEF Wire
    <3>3. \A T : \A s \in Seq(T), x \in T : Append(s, x) \in Seq(T)
      OBVIOUS
    <3>4. \A k \in Links : To(k) \in S => Append(chan[k], m) \in Seq(Wire(k))
      BY <3>1, <3>2, <3>3, Zenon
    <3> QED
      BY <3>1, <3>4
  <2>3. \A k \in Links : ~Live(To(k))' => chan'[k] = <<>>
    <3>1. \A k \in Links : ~Live(To(k)) => chan[k] = <<>>
      BY <1>0 DEF ChanOK
    <3>2. \A k \in Links : To(k) = Switch => chan[k] = <<>>
      BY <1>2, LinkTo DEF Counted, Up
    <3>3. \A k \in Links : To(k) \in S => Live(To(k)) /\ To(k) # Switch
      BY LinkEnds
    <3>4. \A k \in Links : To(k) # Switch => (Live(To(k))' <=> Live(To(k)))
      BY <1>4, LinkEnds
    <3> QED
      BY <3>1, <3>2, <3>3, <3>4
  <2>4. \A n \in Nodes : \A x \in ReqsIn(n)', op \in Ops : x.need[op] # "immediate"
    BY <1>6
  <2> QED
    BY <2>1, <2>2, <2>3, <2>4 DEF ChanOK, Wire, Data, Req, Ack
<1>10. at = "return" =>
         /\ Completed(Switch)' /\ InBarrier(Switch)' /\ Live(Switch)'
         /\ InStart(Switch)' <=> InStart(Switch)
         /\ Kind(Switch)' = After(caller[Switch], m.do)
         /\ NextSync(Switch)' =
              IF caller[Switch] = "start" THEN SyncStart
              ELSE IF caller[Switch] = "process" /\ ~m.do["exit"] THEN tick[Switch] + Repeat
              ELSE when[Switch]
  <2>1. at = "return" => Completed(Switch)' /\ InBarrier(Switch)' /\ Live(Switch)'
    BY <1>4 DEF Completed, InBarrier, Live
  <2>2. at = "return" => (InStart(Switch)' <=> InStart(Switch))
    BY <2>1, <1>0 DEF InStart
  <2> QED
    BY <2>1, <2>2, <1>4 DEF Kind, NextSync, InStart
<1>11. at = "exited" => ~Live(Switch)'
  BY <1>4 DEF Live
<1>12. ASSUME NEW n \in Nodes PROVE NodeOK(n)' /\ AckOK(n)' /\ ReqOK(n)' /\ AlignedOK(n)'
  <2>0. NodeOK(n) /\ AckOK(n) /\ ReqOK(n) /\ AlignedOK(n) /\ Same(n) /\ n \in Processes
    BY <1>4, LinkEnds DEF SyncInv
  <2>1. /\ Waiting(n)' <=> Waiting(n)
        /\ InStart(n)' <=> InStart(n)
        /\ Completed(n)' <=> Completed(n)
        /\ Kind(n)' = Kind(n) /\ NextSync(n)' = NextSync(n)
        /\ \A x : AckSync(n, x)' = AckSync(n, x)
        /\ Live(n)' <=> Live(n)
    BY <2>0, SameView
  <2>2. NodeOK(n)'
    <3>1. ~isAbort[n] /\ thread[<<Switch, n>>] # "lost"
      BY <2>0, <1>0 DEF NodeOK
    <3> QED
      BY <3>1, <2>0, <2>1 DEF NodeOK, Same
  <2>3. AckOK(n)'
    <3>1. CASE n \in S
      BY <3>1, <2>0, <2>1, <1>7, <1>8 DEF AckOK, Same
    <3>2. CASE n \notin S
      BY <3>2, <2>0, <2>1, <1>8 DEF AckOK, Same
    <3> QED
      BY <3>1, <3>2
  <2>4. ReqOK(n)'
    <3>1. Up(n)' = <<>> /\ ReqsIn(n)' = {}
      BY <1>6
    <3> QED
      BY <3>1 DEF ReqOK, ReqLast
  <2>5. AlignedOK(n)'
    <3>1. CASE at = "exited"
      BY <3>1, <1>11 DEF AlignedOK
    <3>2. CASE at = "return"
      <4> SUFFICES ASSUME Live(n)' PROVE AlignedOK(n)'
        BY DEF AlignedOK
      <4>1. n \in S /\ AcksIn(n)' = {m} /\ caller[n] = caller[Switch]
        BY <3>2, <2>1, <1>7, <1>8
      <4>2. After(caller[n], m.do) = Kind(Switch)' /\ AckSync(n, m) = NextSync(Switch)'
        BY <4>1, <3>2, <2>1, <1>3, <1>7, <1>10 DEF AckSync
      <4> QED
        BY <4>1, <4>2, <2>0, <2>1 DEF AlignedOK, Same
    <3> QED
      BY <3>1, <3>2
  <2> QED
    BY <2>2, <2>3, <2>4, <2>5
<1>13. \A q \in Processes : ProcessOK(q)'
  <2>1. \A q \in Processes \ {Switch} : ProcessOK(q)'
    BY <1>4, SameProcessOK DEF SyncInv
  <2>2. CASE at = "exited"
    BY <2>1, <2>2, <1>11 DEF ProcessOK
  <2>3. CASE at = "return"
    <3>1. ProcessOK(Switch)'
      BY <2>3, <1>0, <1>3, <1>4, <1>10 DEF ProcessOK
    <3> QED
      BY <2>1, <3>1
  <2> QED
    BY <2>2, <2>3
<1>14. SwitchOK'
  <2>1. CASE at = "exited"
    BY <2>1, <1>11 DEF SwitchOK
  <2>2. CASE at = "return"
    <3>1. WaitsFor(Nodes)'
      BY <1>4 DEF WaitsFor
    <3>2. nextAt[Switch] <= NextSync(Switch)'
      <4>1. /\ tick[Switch] \in Nat /\ when[Switch] \in Nat /\ nextAt[Switch] \in Nat
        BY <1>0, Consts DEF StateOK
      <4> QED
        BY <4>1, <2>2, <1>3, <1>10, Consts
    <3>3. Kind(Switch)' # "start"
      BY <2>2, <1>10 DEF After
    <3> QED
      BY <3>1, <3>2, <3>3, <1>3 DEF SwitchOK
  <2> QED
    BY <2>1, <2>2
<1>15. CountsOK'
  <2>1. ASSUME NEW op \in Ops PROVE \E R \in SUBSET Nodes : CountsOf(op, R)'
    <3>1. PICK R \in SUBSET Nodes : CountsOf(op, R)
      BY <1>0 DEF CountsOK
    <3>2. numReq'[op] = numReq[op] \/ numReq'[op] = 0
      BY <1>0 DEF StateOK, Ops
    <3>3. CASE numReq'[op] = numReq[op]
      BY <3>1, <3>3, <1>6 DEF CountsOf
    <3>4. CASE numReq'[op] = 0
      <4>1. CountsOf(op, {})'
        BY <3>4, FS_EmptySet DEF CountsOf
      <4> QED
        BY <4>1
    <3> QED
      BY <3>2, <3>3, <3>4
  <2> QED
    BY <2>1 DEF CountsOK
<1> QED
  BY <1>5, <1>9, <1>12, <1>13, <1>14, <1>15 DEF SyncInv
LEMMA SwitchRunOK ==
    ASSUME SyncInv, SwitchRun
    PROVE  SyncInv'
<1> DEFINE m == [type |-> "ack", tick |-> nextAt[Switch], do |-> [op \in Ops |-> Decided(op)]]
<1>0. ChanOK /\ Live(Switch)
  BY DEF SyncInv, SwitchRun, Live
<1>1. /\ pc[Switch] = "run" /\ waitNum[Switch] = 0 /\ ~isAbort[Switch]
      /\ waitNum' = [waitNum EXCEPT ![Switch] = Cardinality(Nodes)]
      /\ doing' = [doing EXCEPT ![Switch] = m.do]
      /\ numReq' = IF m.do["ckpt"] THEN [numReq EXCEPT !["ckpt"] = 0] ELSE numReq
      /\ \/ sendCmd(Switch, m) /\ pc' = [pc EXCEPT ![Switch] = "return"]
         \/ SendFails(Switch, m)
      /\ UNCHANGED <<tick, when, caller, exiting, isAbort, nextAt, need, linkVars,
                     thread, saved>>
  BY DEF SwitchRun, AllAsked
<1> HIDE DEF m
<1>2. m = [type |-> "ack", tick |-> nextAt[Switch], do |-> [op \in Ops |-> Decided(op)]]
  BY DEF m
<1>3. CASE sendCmd(Switch, m) /\ pc' = [pc EXCEPT ![Switch] = "return"]
  <2> DEFINE S == {n \in Nodes : Live(n)}
  <2>1. \A k \in Links : From(k) = Switch => (Live(To(k)) <=> To(k) \in S)
    BY LinkTo, Consts
  <2>2. chan' = [k \in Links |-> IF From(k) = Switch /\ To(k) \in S
                                 THEN Append(chan[k], m) ELSE chan[k]]
    BY <2>1, <1>3 DEF sendCmd
  <2>3. S \in SUBSET {n \in Nodes : Live(n)} /\ S = {n \in Nodes : Live(n)}
    OBVIOUS
  <2> HIDE DEF S
  <2> QED
    BY ZenonT(40), <2>2, <2>3, <1>1, <1>2, <1>3, SwitchAnswersOK
<1>4. CASE SendFails(Switch, m)
  <2>1. Peers(Switch) = Nodes
    BY DEF Peers
  <2>2. PICK S \in SUBSET {n \in Nodes : Live(n)} :
            Ends(Switch, [l \in Links |-> IF From(l) = Switch /\ To(l) \in S
                                          THEN Append(chan[l], m) ELSE chan[l]])
    BY <1>4, <2>1 DEF SendFails
  <2>3. \A k \in Links : To(k) = Switch => chan[k] = <<>> /\ From(k) # Switch
    <3>1. \A n \in Nodes : Up(n) = <<>>
      BY <1>0, <1>1, NobodyMissing DEF Counted
    <3> QED
      BY <3>1, LinkTo, LinkEnds DEF Up
  <2>4. chan' = [k \in Links |-> IF From(k) = Switch /\ To(k) \in S
                                 THEN Append(chan[k], m) ELSE chan[k]]
    <3>1. chan' = [k \in Links |-> IF To(k) = Switch THEN <<>>
                                   ELSE IF From(k) = Switch /\ To(k) \in S
                                        THEN Append(chan[k], m) ELSE chan[k]]
      BY <2>2 DEF Ends, Without
    <3> QED
      BY <3>1, <2>3
  <2>5. pc' = [pc EXCEPT ![Switch] = "exited"]
    BY <2>2 DEF Ends
  <2> QED
    BY <2>4, <2>5, <1>1, <1>2, SwitchAnswersOK
<1> QED
  BY <1>1, <1>3, <1>4

LEMMA ProgressOK ==
    ASSUME SyncInv, NEW l \in Links, progress(l)
    PROVE  SyncInv'
BY LinkEnds, NodeHearsOK, SwitchHearsOK

-----------------------------------------------------------------------------
(* The invariant of the barrier. *)

LEMMA InitSyncInv == Init => SyncInv
<1> SUFFICES ASSUME Init PROVE SyncInv
  OBVIOUS
<1>1. StateOK
  <2>1. [p \in Processes |-> IF p = Switch THEN Cardinality(Nodes) ELSE 0]
          \in [Processes -> 0..Cardinality(Nodes)]
    BY Consts
  <2> QED
    BY <2>1, Consts DEF Init, StateOK, SendDelay
<1>2. \A n \in Nodes : Up(n) = <<>> /\ Down(n) = <<>> /\ AcksIn(n) = {} /\ ReqsIn(n) = {}
  BY LinkEnds, MsgsEmpty DEF Init, Up, Down, AcksIn, ReqsIn
<1>3. ChanOK
  BY <1>2 DEF ChanOK, Init
<1>4. /\ \A p \in Processes : InStart(p) /\ Live(p) /\ ~Completed(p) /\ ~isAbort[p]
                              /\ when[p] = 0 /\ tick[p] = 0 /\ caller[p] = "start"
                              /\ NextSync(p) = SyncStart /\ Kind(p) = "start" /\ pc[p] = "run"
      /\ \A n \in Nodes : waitNum[n] = 0 /\ thread[<<Switch, n>>] = "recv"
      /\ waitNum[Switch] = Cardinality(Nodes) /\ nextAt[Switch] = SyncStart
  BY LinkEnds DEF Init, InStart, InBarrier, Live, Completed, NextSync, Kind
<1>5. \A p \in Processes : ProcessOK(p)
  BY <1>4 DEF ProcessOK
<1>6. ASSUME NEW n \in Nodes PROVE NodeOK(n) /\ AckOK(n) /\ ReqOK(n) /\ AlignedOK(n)
  <2>1. NodeOK(n)
    <3>1. n \in Processes /\ \A op \in Ops : need[n][op] = "none"
      BY LinkEnds DEF Init
    <3> QED
      BY <3>1, <1>4 DEF NodeOK
  <2>2. AckOK(n) /\ ReqOK(n)
    BY <1>2 DEF AckOK, ReqOK, OneAck, ReqLast
  <2>3. AlignedOK(n)
    BY <1>2, <1>4, LinkEnds DEF AlignedOK
  <2> QED
    BY <2>1, <2>2, <2>3
<1>7. SwitchOK
  <2>1. WaitsFor(Nodes)
    BY <1>4 DEF WaitsFor
  <2> QED
    BY <2>1, <1>4, LinkEnds, Consts DEF SwitchOK, Init
<1>8. CountsOK
  <2>1. \A op \in Ops : CountsOf(op, {})
    BY FS_EmptySet DEF CountsOf, Init
  <2> QED
    BY <2>1 DEF CountsOK
<1> QED
  BY <1>1, <1>3, <1>5, <1>6, <1>7, <1>8 DEF SyncInv

LEMMA StutterOK ==
    ASSUME SyncInv, UNCHANGED vars
    PROVE  SyncInv'
<1>0. StateOK /\ ChanOK
  BY DEF SyncInv
<1>1. UNCHANGED <<tick, when, pc, caller, exiting, waitNum, isAbort, nextAt, doing, need, numReq,
                  descQueue, prevRecvTick, txDone, thread, chan, saved>>
  BY DEF vars, simVars, syncVars, linkVars
<1>2. StateOK' /\ ChanOK'
  BY <1>0, <1>1 DEF StateOK, ChanOK, Live, ReqsIn, Up, Wire, Data, Req, Ack
<1>3. \A q \in Processes : Same(q)
  BY <1>1 DEF Same
<1>4. ASSUME NEW n \in Nodes
      PROVE  /\ AcksIn(n)' = AcksIn(n) /\ ReqsIn(n)' = ReqsIn(n)
             /\ OneAck(Down(n)') /\ ReqLast(Up(n)')
             /\ Up(n)' = Up(n)
             /\ isAbort[n] \/ thread'[<<Switch, n>>] = "lost" => ~Live(Switch) /\ Down(n)' = <<>>
  <2>1. Up(n)' = Up(n) /\ Down(n)' = Down(n)
    BY <1>1 DEF Up, Down
  <2>2. NodeOK(n) /\ OneAck(Down(n)) /\ ReqLast(Up(n))
    BY DEF SyncInv, AckOK, ReqOK
  <2> QED
    BY <2>1, <2>2, <1>1 DEF AcksIn, ReqsIn, NodeOK
<1> QED
  BY <1>1, <1>2, <1>3, <1>4, StreamStep

LEMMA NextSyncInv ==
    ASSUME CollectiveOnly, SyncInv, Next
    PROVE  SyncInv'
<1>1. ASSUME NEW p \in Processes, SimThread(p) PROVE SyncInv'
  <2>1. CASE Advance(p)
    BY <2>1, AdvanceOK
  <2>2. CASE SyncProcess(p)
    <3>1. CASE pc[p] = "drain"
      <4>1. Ends(p, chan) /\ UNCHANGED <<tick, when, caller, syncVars, linkVars, thread, saved>>
            /\ UNCHANGED exiting
        BY <2>2, <3>1 DEF SyncProcess
      <4> QED
        BY <4>1, EndsActionsOK
    <3>2. CASE pc[p] # "drain"
      BY <2>2, <3>2, SyncProcessOK
    <3> QED
      BY <3>1, <3>2
  <2>3. CASE ExitEvent(p)
    <3>1. CASE pc[p] = "drain"
      BY <2>3, <3>1, SwallowExitOK
    <3>2. CASE pc[p] # "drain"
      <4>1. Ends(p, chan) /\ UNCHANGED <<tick, when, caller, syncVars, linkVars, thread, saved>>
            /\ UNCHANGED exiting
        BY <2>3, <3>2 DEF ExitEvent
      <4> QED
        BY <4>1, EndsActionsOK
    <3> QED
      BY <3>1, <3>2
  <2>4. CASE drainComplete(p)
    BY <2>4, DrainCompleteOK
  <2>5. CASE serialize(p)
    BY <2>5, SerializeOK
  <2>6. CASE NodeRun(p)
    BY <2>6, NodeRunOK
  <2>7. CASE SwitchRun
    BY <2>7, SwitchRunOK
  <2>8. CASE StartReturns(p)
    <3>1. CASE Aborted(p)
      <4>0. ~Completed(p)
        BY <3>1, <1>1 DEF SyncInv, ProcessOK, Aborted, Completed, Live
      <4>1. Ends(p, chan) /\ UNCHANGED <<tick, when, caller, syncVars, linkVars, thread, saved>>
            /\ UNCHANGED exiting
        BY <2>8, <4>0 DEF StartReturns
      <4> QED
        BY <4>1, EndsActionsOK
    <3>2. CASE ~Aborted(p)
      BY <2>8, <3>2, StartReturnsOK
    <3> QED
      BY <3>1, <3>2
  <2>9. CASE ProcessReturns(p)
    BY <2>9, ProcessReturnsOK
  <2>10. CASE DrainReturns(p)
    BY <2>10, DrainReturnsOK
  <2>11. CASE \E l \in Links : To(l) = p /\ rxDone(l)
    BY <2>11, RxDoneOK
  <2> QED
    BY <1>1, <2>1, <2>2, <2>3, <2>4, <2>5, <2>6, <2>7, <2>8, <2>9, <2>10, <2>11 DEF SimThread
<1>2. ASSUME NEW p \in Processes, Die(p) PROVE SyncInv'
  <2>1. Ends(p, chan) /\ UNCHANGED <<tick, when, caller, syncVars, linkVars, thread, saved>>
        /\ UNCHANGED exiting
    BY <1>2 DEF Die
  <2> QED
    BY <2>1, EndsActionsOK
<1>3. ASSUME NEW l \in Links, RecvThread(l) PROVE SyncInv'
  BY <1>3, PushPacketOK, ProgressOK, ConnectionLostOK, AbortOK DEF RecvThread
<1>4. ASSUME NEW l \in Links, transmit(l) PROVE SyncInv'
  BY <1>4, TransmitOK
<1>5. ASSUME NEW l \in Links, transmitFails(l) PROVE SyncInv'
  <2>1. Ends(From(l), chan) /\ From(l) \in Processes
        /\ UNCHANGED <<tick, when, caller, syncVars, linkVars, thread, saved>> /\ UNCHANGED exiting
    BY <1>5, LinkEnds DEF transmitFails
  <2> QED
    BY <2>1, EndsActionsOK
<1>6. ASSUME NEW n \in Nodes, NEW op \in Ops, NEW req \in ReqTypes, request(n, op, req)
      PROVE  SyncInv'
  BY <1>6, RequestOK
<1> QED
  BY <1>1, <1>2, <1>3, <1>4, <1>5, <1>6 DEF Next

LEMMA SpecSyncInv ==
    ASSUME CollectiveOnly
    PROVE  Spec => []SyncInv
<1>1. SyncInv /\ [Next]_vars => SyncInv'
  BY NextSyncInv, StutterOK
<1> QED
  BY <1>1, InitSyncInv, PTL DEF Spec
LEMMA InvGivesBarrierAsserts == SyncInv => BarrierAsserts
<1> SUFFICES ASSUME SyncInv PROVE BarrierAsserts
  OBVIOUS
<1>0. StateOK /\ ChanOK
  BY DEF SyncInv
<1>1. ASSUME NEW l \in Links, Receiving(l, {"req", "ack"}), ~isAbort[To(l)]
      PROVE  waitNum[To(l)] > 0
  <2>1. /\ chan[l] # <<>> /\ Head(chan[l]).type \in {"req", "ack"} /\ Live(To(l))
        /\ chan[l] \in Seq(Wire(l))
    BY <1>0, <1>1 DEF Receiving, ChanOK
  <2>2. Head(chan[l]) \in Msgs(chan[l]) /\ Head(chan[l]) \in Wire(l)
    BY <2>1, MsgsTail
  <2>3. CASE To(l) \in Nodes
    <3>1. Head(chan[l]).type = "ack"
      BY <2>1, <2>2, <2>3, Consts DEF Wire, Data, Ack
    <3>2. Head(chan[l]) \in AcksIn(To(l))
      BY <2>2, <2>3, <3>1, LinkTo DEF AcksIn, Down
    <3> QED
      BY <2>3, <3>2 DEF SyncInv, AckOK, Waiting
  <2>4. CASE To(l) = Switch
    <3>1. Head(chan[l]).type = "req"
      BY <2>1, <2>2, <2>4 DEF Wire, Data, Req
    <3>2. From(l) \in Nodes /\ Head(chan[l]) \in ReqsIn(From(l)) /\ Up(From(l)) # <<>>
      BY <2>1, <2>2, <2>4, <3>1, LinkTo DEF ReqsIn, Up
    <3>3. waitNum[Switch] # 0
      BY <2>1, <2>4, <3>2, <1>1, NobodyMissing DEF Counted
    <3>4. waitNum[Switch] \in Nat
      BY <1>0, LinkEnds, Consts DEF StateOK
    <3> QED
      BY <2>4, <3>3, <3>4
  <2> QED
    BY <2>3, <2>4, LinkTo
<1>2. ASSUME NEW n \in Nodes
      PROVE  /\ pc[n] = "run" => waitNum[n] = 0 \/ isAbort[n]
             /\ Completed(n) /\ caller[n] = "process" => nextAt[n] = tick[n]
  <2>1. NodeOK(n) /\ (Completed(n) => Live(n)) /\ (pc[n] = "run" => Live(n))
    BY DEF SyncInv, Completed, Live
  <2> QED
    BY <2>1 DEF NodeOK
<1>3. pc[Switch] = "run" /\ AllAsked /\ ~isAbort[Switch] /\ caller[Switch] = "process"
        => nextAt[Switch] = tick[Switch]
  <2> SUFFICES ASSUME pc[Switch] = "run", AllAsked, ~isAbort[Switch], caller[Switch] = "process"
               PROVE  nextAt[Switch] = tick[Switch]
    OBVIOUS
  <2>1. Live(Switch) /\ InBarrier(Switch) /\ ~Completed(Switch) /\ waitNum[Switch] = 0
    BY LinkEnds DEF Live, InBarrier, Completed, AllAsked
  <2>2. PICK n \in Nodes : TRUE
    BY SyncAssumption
  <2>3. Counted(n)
    BY <2>1, NobodyMissing
  <2>4. Kind(Switch) = "process" /\ NextSync(Switch) = when[Switch]
    BY <2>1 DEF Kind, NextSync, InStart
  <2>5. tick[Switch] = when[Switch]
    BY <2>1, LinkEnds DEF SyncInv, ProcessOK
  <2> QED
    BY <2>3, <2>4, <2>5 DEF Counted
<1>4. ASSUME NEW p \in Processes, Completed(p), caller[p] = "start"
      PROVE  ~doing[p]["exit"] /\ ~doing[p]["ckpt"] /\ nextAt[p] >= tick[p]
  <2>1. ProcessOK(p) /\ Live(p) /\ InStart(p) /\ nextAt[p] \in Nat
    BY <1>0, <1>4 DEF SyncInv, StateOK, Completed, Live, InStart, InBarrier
  <2> QED
    BY <2>1, <1>4 DEF ProcessOK, Ops
<1> QED
  BY <1>1, <1>2, <1>3, <1>4 DEF BarrierAsserts

(* With collective requests only, the state of every process and of every  *)
(* stream keeps its shape, for any number of nodes and with processes that *)
(* die at any moment: SyncSwitch::progress never counts below zero or more *)
(* requests than there are nodes, and sequences hold what belongs in them. *)
THEOREM SyncTypeCorrect ==
    ASSUME CollectiveOnly
    PROVE  Spec => []SyncTypeOK
<1>1. SyncInv => SyncTypeOK
  BY TypeFollows DEF SyncInv
<1> QED
  BY <1>1, SpecSyncInv, PTL

(* With collective requests only, no assertion of SyncNode::run,           *)
(* SyncNode::progress, SyncSwitch::run, SyncSwitch::progress and           *)
(* SyncEvent::start fires, in any interleaving of simulation and receiver  *)
(* threads, checkpoints and failures included: a periodic barrier never    *)
(* pairs with the barrier of a checkpoint.                                 *)
THEOREM BarrierAssertsHold ==
    ASSUME CollectiveOnly
    PROVE  Spec => []BarrierAsserts
BY InvGivesBarrierAsserts, SpecSyncInv, PTL

=============================================================================
