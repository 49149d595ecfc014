------------------------- MODULE DistTogetherProofs -------------------------
(***************************************************************************)
(* What the barrier of a distributed run decides, every process does: exits *)
(* and checkpoints are taken together, and a checkpoint leaves no packet on *)
(* the wire.  The guests make collective requests only; processes may die   *)
(* and lose their connections at any moment.                                *)
(*                                                                         *)
(* Three invariants on top of SyncInv.  Once an exit has been decided and   *)
(* anybody has heard of it, everybody is on the way out, at one tick.  The  *)
(* number of checkpoints a process has completed the barrier of (Written)   *)
(* is the same in a node and in the switch, an acknowledgement on the wire  *)
(* counted as heard; after an abort the switch may be ahead.  And a packet  *)
(* on the wire was sent after all the checkpoints of its receiver, those    *)
(* behind an acknowledgement after the one it completes too.                *)
(*                                                                         *)
(* The second half is about time, in runs that keep failures and checkpoints *)
(* apart: packets arrive in the quantum they were sent in (PacketsInTime),  *)
(* and the clocks are those of QuantumClock (ClockRefined).                 *)
(***************************************************************************)
EXTENDS DistSyncProofs

-----------------------------------------------------------------------------
\* The inductive invariant

\* Process p has been told to exit, or the message is on its way.
Leaves(p) ==
    \/ exiting[p] = "request"
    \/ caller[p] = "process" /\ Completed(p) /\ doing[p]["exit"]
    \/ p \in Nodes /\ caller[p] = "process" /\ \E m \in AcksIn(p) : m.do["exit"]

\* Process q simulates no further.
StoppedNode(q) ==
    /\ pc[q] = "wait" /\ caller[q] = "process"
    /\ Completed(q) => doing[q]["exit"]
    /\ \A m \in AcksIn(q) : m.do["exit"]
    /\ Completed(q) \/ AcksIn(q) # {} \/ ~Live(Switch)
    /\ isAbort[q] \/ thread[<<Switch, q>>] = "lost" => exiting[q] # "no"

Stopped(q) == Live(q) =>
    \/ pc[q] = "unsynced" /\ exiting[q] # "no"
    \/ q = Switch /\ pc[q] = "return" /\ caller[q] = "process" /\ doing[q]["exit"]
    \/ q \in Nodes /\ StoppedNode(q)

AllStopped == /\ \A q \in Processes : Stopped(q)
              /\ \A q, r \in Processes : tick[q] = tick[r]

LeaveOK == (\E p \in Processes : Leaves(p)) => AllStopped

\* The checkpoints whose second barrier p has completed, and those it will
\* have completed when it has read the acknowledgement.
Written(p) == IF pc[p] = "save" \/ (Completed(p) /\ caller[p] = "drainComplete")
              THEN saved[p] + 1 ELSE saved[p]
AckWritten(n) == IF caller[n] = "drainComplete" THEN saved[n] + 1 ELSE saved[n]

Agree(c) == c <= Written(Switch) /\ (isAbort[Switch] \/ c = Written(Switch))

SavesOK(n) == Live(Switch) /\ Live(n) =>
                  Agree(IF AcksIn(n) = {} THEN Written(n) ELSE AckWritten(n))

\* The packets of stream s are in A as far as its acknowledgement, in B after it.
Parts(s, A, B) == \A i \in 1..Len(s) : s[i].type = "data" =>
                     IF \E j \in 1..i : s[j].type = "ack" THEN s[i] \in B ELSE s[i] \in A

\* Packets sent after c checkpoints.
Since(c) == {d \in Data(Switch) : d.epoch >= c}

EpochOK(n) ==
    /\ Parts(Down(n), Since(Written(n)), Since(AckWritten(n)))
    /\ ~isAbort[Switch] => Parts(Up(n), Since(Written(Switch)), {})

LostOK(n) == isAbort[Switch] \/ thread[<<n, Switch>>] = "lost" => \E k \in Nodes : ~Live(k)

TogetherInv == /\ LeaveOK
               /\ \A n \in Nodes : SavesOK(n) /\ EpochOK(n) /\ LostOK(n)
-----------------------------------------------------------------------------
(* Packets before and after the acknowledgement of a stream. *)

LEMMA PartsEmpty == \A A, B : Parts(<<>>, A, B)
BY DEF Parts

LEMMA PartsTail ==
    ASSUME NEW S, NEW s \in Seq(S), s # <<>>, NEW A, NEW B, Parts(s, A, B)
    PROVE  /\ Head(s).type # "ack" => Parts(Tail(s), A, B)
           /\ Head(s).type = "ack" => Parts(Tail(s), B, B)
           /\ Head(s).type = "data" => Head(s) \in A
<1>1. /\ Len(s) \in Nat /\ Len(s) > 0 /\ Head(s) = s[1] /\ Len(Tail(s)) = Len(s) - 1
      /\ \A i \in 1..(Len(s) - 1) : Tail(s)[i] = s[i + 1] /\ i + 1 \in 1..Len(s)
  OBVIOUS
<1>2. \A i \in 1..Len(s) : s[i].type = "data" =>
         IF \E j \in 1..i : s[j].type = "ack" THEN s[i] \in B ELSE s[i] \in A
  BY DEF Parts
<1>3. ASSUME NEW i \in 1..(Len(s) - 1), Tail(s)[i].type = "data"
      PROVE  /\ (Head(s).type = "ack" \/ \E j \in 1..i : Tail(s)[j].type = "ack")
                   => Tail(s)[i] \in B
             /\ ~(Head(s).type = "ack" \/ \E j \in 1..i : Tail(s)[j].type = "ack")
                   => Tail(s)[i] \in A
  <2>1. i + 1 \in 1..Len(s) /\ Tail(s)[i] = s[i + 1] /\ i \in Nat
    BY <1>1, <1>3
  <2>2. IF \E j \in 1..(i + 1) : s[j].type = "ack" THEN s[i + 1] \in B ELSE s[i + 1] \in A
    BY <2>1, <1>2, <1>3
  <2>3. ASSUME NEW j \in 1..i PROVE j + 1 \in 1..(i + 1) /\ Tail(s)[j] = s[j + 1]
    <3>1. j \in 1..(Len(s) - 1) /\ j + 1 \in 1..(i + 1)
      BY <2>1, <1>1
    <3> QED
      BY <3>1, <1>1
  <2>4. 1 \in 1..(i + 1)
    BY <2>1
  <2>5. ASSUME NEW j \in 1..(i + 1), j # 1 PROVE j - 1 \in 1..i /\ Tail(s)[j - 1] = s[j]
    <3>1. j - 1 \in 1..i /\ (j - 1) + 1 = j
      BY <2>1, <2>5
    <3> QED
      BY <3>1, <2>3
  <2>6. (\E j \in 1..(i + 1) : s[j].type = "ack")
           <=> (Head(s).type = "ack" \/ \E j \in 1..i : Tail(s)[j].type = "ack")
    BY SMTT(30), <1>1, <2>3, <2>4, <2>5
  <2> QED
    BY <2>1, <2>2, <2>6
<1>4. Head(s).type = "data" => Head(s) \in A
  <2>1. 1 \in 1..Len(s) /\ \A j \in 1..1 : j = 1
    BY <1>1
  <2> QED
    BY <2>1, <1>1, <1>2
<1> QED
  BY <1>1, <1>3, <1>4 DEF Parts

LEMMA PartsAppend ==
    ASSUME NEW S, NEW s \in Seq(S), NEW m \in S, NEW A, NEW B, Parts(s, A, B),
           m.type = "data" => IF \E x \in Msgs(s) : x.type = "ack" THEN m \in B ELSE m \in A
    PROVE  Parts(Append(s, m), A, B)
<1>1. /\ Len(Append(s, m)) = Len(s) + 1 /\ Len(s) \in Nat
      /\ \A i \in 1..Len(s) : Append(s, m)[i] = s[i]
      /\ Append(s, m)[Len(s) + 1] = m
  OBVIOUS
<1>2. ASSUME NEW i \in 1..Len(s), Append(s, m)[i].type = "data"
      PROVE  IF \E j \in 1..i : Append(s, m)[j].type = "ack"
             THEN Append(s, m)[i] \in B ELSE Append(s, m)[i] \in A
  <2>1. \A j \in 1..i : j \in 1..Len(s)
    BY <1>1
  <2>2. \A j \in 1..i : Append(s, m)[j] = s[j]
    BY <2>1, <1>1
  <2> QED
    BY <2>2, <1>1, <1>2 DEF Parts
<1>3. ASSUME m.type = "data"
      PROVE  IF \E j \in 1..(Len(s) + 1) : Append(s, m)[j].type = "ack" THEN m \in B ELSE m \in A
  <2>1. \A j \in 1..(Len(s) + 1) : j \in 1..Len(s) \/ j = Len(s) + 1
    BY <1>1
  <2>2. \A j \in 1..Len(s) : j \in 1..(Len(s) + 1)
    BY <1>1
  <2>3. (\E j \in 1..(Len(s) + 1) : Append(s, m)[j].type = "ack")
           <=> (\E x \in Msgs(s) : x.type = "ack")
    BY <2>1, <2>2, <1>1, <1>3 DEF Msgs
  <2> QED
    BY <2>3, <1>3
<1>4. \A i \in 1..(Len(s) + 1) : i \in 1..Len(s) \/ i = Len(s) + 1
  BY <1>1
<1> QED
  BY <1>1, <1>2, <1>3, <1>4 DEF Parts

LEMMA PartsWider ==
    ASSUME NEW S, NEW s \in Seq(S), NEW A, NEW B, NEW X, NEW Y, Parts(s, A, B),
           (\E x \in Msgs(s) : x.type = "data") => A \subseteq X,
           (\E x \in Msgs(s) : x.type = "ack") => B \subseteq Y
    PROVE  Parts(s, X, Y)
<1>1. ASSUME NEW i \in 1..Len(s), s[i].type = "data"
      PROVE  IF \E j \in 1..i : s[j].type = "ack" THEN s[i] \in Y ELSE s[i] \in X
  <2>1. IF \E j \in 1..i : s[j].type = "ack" THEN s[i] \in B ELSE s[i] \in A
    BY <1>1 DEF Parts
  <2>2. \A j \in 1..i : j \in 1..Len(s)
    <3>1. Len(s) \in Nat
      OBVIOUS
    <3> QED
      BY <3>1
  <2>3. (\E j \in 1..i : s[j].type = "ack") => B \subseteq Y
    BY <2>2 DEF Msgs
  <2>4. A \subseteq X
    BY <1>1 DEF Msgs
  <2> QED
    BY <2>1, <2>3, <2>4
<1> QED
  BY <1>1 DEF Parts

LEMMA PartsHolds ==
    ASSUME NEW S, NEW s \in Seq(S), NEW A, NEW B, Parts(s, A, B),
           \A x \in Msgs(s) : x.type # "ack", NEW i \in 1..Len(s), s[i].type = "data"
    PROVE  s[i] \in A
<1>1. \A j \in 1..i : j \in 1..Len(s)
  <2>1. Len(s) \in Nat
    OBVIOUS
  <2> QED
    BY <2>1
<1> QED
  BY <1>1 DEF Parts, Msgs
-----------------------------------------------------------------------------
(* Checkpoints: steps of one process that leave the streams alone. *)

CkptInv == \A n \in Nodes : SavesOK(n) /\ EpochOK(n) /\ LostOK(n)

\* What else belongs to process p.
Keeps(p) == Same(p) /\ saved'[p] = saved[p]

LEMMA WrittenTypes ==
    ASSUME SyncInv
    PROVE  \A p \in Processes : Written(p) \in Nat /\ AckWritten(p) \in Nat
BY DEF SyncInv, StateOK, Written, AckWritten

LEMMA KeepsWritten ==
    ASSUME NEW p \in Processes, Keeps(p)
    PROVE  /\ Written(p)' = Written(p) /\ AckWritten(p)' = AckWritten(p)
           /\ Live(p)' <=> Live(p)
<1>1. /\ Live(p)' <=> Live(p)
      /\ Completed(p)' <=> Completed(p)
  BY SameView DEF Keeps
<1> QED
  BY <1>1 DEF Keeps, Same, Written, AckWritten

LEMMA WrittenFrame ==
    ASSUME SyncInv, SyncInv', NEW n \in Nodes, SavesOK(n), EpochOK(n),
           Live(n)' => Live(n), Live(Switch)' => Live(Switch),
           isAbort[Switch] => isAbort'[Switch],
           Live(Switch)' => /\ Written(Switch) <= Written(Switch)'
                            /\ isAbort[Switch] \/ Written(Switch)' = Written(Switch),
           Down(n)' = Down(n), Up(n)' = Up(n),
           Written(n)' = Written(n) \/ (~Live(Switch) /\ Down(n) = <<>>),
           AcksIn(n) # {} => AckWritten(n)' = AckWritten(n)
    PROVE  SavesOK(n)' /\ EpochOK(n)'
<1>1. AcksIn(n)' = AcksIn(n)
  BY DEF AcksIn
<1>2. /\ Written(n) \in Nat /\ AckWritten(n) \in Nat /\ Written(Switch) \in Nat
      /\ Written(n)' \in Nat /\ AckWritten(n)' \in Nat /\ Written(Switch)' \in Nat
  <2>1. n \in Processes /\ Switch \in Processes
    BY LinkEnds
  <2>2. \A p \in Processes : Written(p)' \in Nat /\ AckWritten(p)' \in Nat
    <3>1. \A p \in Processes : saved'[p] \in Nat
      BY DEF SyncInv, StateOK
    <3> QED
      BY <3>1 DEF Written, AckWritten
  <2> QED
    BY <2>1, <2>2, WrittenTypes
<1>3. SavesOK(n)'
  <2> SUFFICES ASSUME Live(Switch)', Live(n)'
               PROVE  Agree(IF AcksIn(n) = {} THEN Written(n) ELSE AckWritten(n))'
    BY DEF SavesOK
  <2>1. Agree(IF AcksIn(n) = {} THEN Written(n) ELSE AckWritten(n)) /\ Live(Switch)
    BY DEF SavesOK
  <2>2. (IF AcksIn(n) = {} THEN Written(n) ELSE AckWritten(n))'
           = IF AcksIn(n) = {} THEN Written(n) ELSE AckWritten(n)
    BY <2>1, <1>1
  <2> QED
    BY <2>1, <2>2, <1>2 DEF Agree
<1>4. Parts(Down(n)', Since(Written(n)'), Since(AckWritten(n)'))
  <2>1. Parts(Down(n), Since(Written(n)), Since(AckWritten(n)))
    BY DEF EpochOK
  <2>2. CASE Down(n) = <<>>
    BY <2>2, PartsEmpty
  <2>3. CASE Written(n)' = Written(n)
    <3>1. PICK S : Down(n) \in Seq(S)
      BY StreamTypes DEF SyncInv
    <3>2. (\E x \in Msgs(Down(n)) : x.type = "ack") => AckWritten(n)' = AckWritten(n)
      BY DEF AcksIn
    <3> QED
      BY <2>1, <2>3, <3>1, <3>2, PartsWider
  <2> QED
    BY <2>2, <2>3
<1>5. ASSUME ~isAbort'[Switch] PROVE Parts(Up(n)', Since(Written(Switch)'), {})
  <2>1. CASE Live(Switch)'
    BY <2>1, <1>5 DEF EpochOK
  <2>2. CASE ~Live(Switch)'
    <3>1. Up(n)' = <<>>
      BY <2>2, LinkEnds DEF SyncInv, ChanOK, Up
    <3> QED
      BY <3>1, PartsEmpty
  <2> QED
    BY <2>1, <2>2
<1>6. EpochOK(n)'
  BY <1>4, <1>5 DEF EpochOK, Since, Data
<1> QED
  BY <1>3, <1>6

LEMMA LocalCkpt ==
    ASSUME SyncInv, SyncInv', CkptInv, NEW p \in Processes,
           \A q \in Processes \ {p} : Keeps(q), UNCHANGED <<chan, thread, isAbort>>,
           Live(p)' <=> Live(p), p \in Nodes => AcksIn(p) = {} \/ AckWritten(p)' = AckWritten(p),
           Written(p)' = Written(p) \/ (isAbort[p] /\ Written(p)' >= Written(p))
    PROVE  CkptInv'
<1>1. /\ \A q \in Processes : Live(q)' <=> Live(q)
      /\ \A q \in Processes \ {p} : Written(q)' = Written(q) /\ AckWritten(q)' = AckWritten(q)
  BY KeepsWritten
<1>2. \A n \in Nodes : Down(n)' = Down(n) /\ Up(n)' = Up(n) /\ n \in Processes
  BY LinkEnds DEF Up, Down
<1>3. Written(Switch) \in Nat /\ Switch \in Processes
  BY WrittenTypes, LinkEnds
<1>4. /\ Written(Switch) <= Written(Switch)'
      /\ isAbort[Switch] \/ Written(Switch)' = Written(Switch)
  BY <1>1, <1>3
<1>5. ASSUME NEW n \in Nodes PROVE SavesOK(n)' /\ EpochOK(n)' /\ LostOK(n)'
  <2>1. Written(n)' = Written(n) \/ (~Live(Switch) /\ Down(n) = <<>>)
    <3>1. isAbort[n] => ~Live(Switch) /\ Down(n) = <<>>
      BY DEF SyncInv, NodeOK
    <3> QED
      BY <3>1, <1>1, <1>2
  <2>2. AcksIn(n) # {} => AckWritten(n)' = AckWritten(n)
    BY <1>1, <1>2
  <2>3. SavesOK(n) /\ EpochOK(n) /\ LostOK(n)
    BY DEF CkptInv
  <2>4. SavesOK(n)' /\ EpochOK(n)'
    BY <2>1, <2>2, <2>3, <1>1, <1>2, <1>3, <1>4, WrittenFrame
  <2>5. LostOK(n)'
    BY <2>3, <1>1, <1>2 DEF LostOK
  <2> QED
    BY <2>4, <2>5
<1> QED
  BY <1>5 DEF CkptInv

(* A process ends, after it has put a command on some of its streams. *)
LEMMA EndsCkpt ==
    ASSUME SyncInv, SyncInv', CkptInv, NEW p \in Processes, ~Live(p)',
           \A q \in Processes \ {p} : Keeps(q), UNCHANGED <<thread, isAbort>>,
           \A n \in Nodes \ {p} : \/ Down(n)' = Down(n)
                                  \/ p = Switch /\ \E m \in Ack : Down(n)' = Append(Down(n), m),
           p # Switch => \A n \in Nodes : \/ Up(n)' = Up(n)
                                          \/ n = p /\ \E m \in Req : Up(n)' = Append(Up(n), m)
    PROVE  CkptInv'
<1>1. /\ \A q \in Processes \ {p} : /\ Written(q)' = Written(q) /\ AckWritten(q)' = AckWritten(q)
                                    /\ Live(q)' <=> Live(q)
      /\ \A q \in Processes : Live(q)' => Live(q)
  BY KeepsWritten
<1>2. /\ \A n \in Nodes : n \in Processes /\ n # Switch
      /\ Switch \in Processes
  BY LinkEnds
<1>3. ASSUME NEW n \in Nodes PROVE SavesOK(n)' /\ EpochOK(n)' /\ LostOK(n)'
  <2>0. SavesOK(n) /\ EpochOK(n) /\ LostOK(n)
    BY DEF CkptInv
  <2>1. LostOK(n)'
    BY <2>0, <1>1, <1>2 DEF LostOK
  <2>2. /\ Down(n) \in Seq(Data(<<Switch, n>>) \cup Ack)
        /\ Up(n) \in Seq(Data(<<n, Switch>>) \cup Req)
        /\ \A m \in Ack : m.type = "ack"
        /\ \A m \in Req : m.type = "req"
    BY StreamTypes DEF SyncInv, Ack, Req
  <2>3. CASE p = Switch
    <3>1. SavesOK(n)'
      BY <2>3 DEF SavesOK
    <3>2. Up(n)' = <<>>
      BY <2>3, LinkEnds DEF SyncInv, ChanOK, Up
    <3>3. Parts(Down(n), Since(Written(n)), Since(AckWritten(n)))
      BY <2>0 DEF EpochOK
    <3>4. Parts(Down(n)', Since(Written(n)), Since(AckWritten(n)))
      <4>1. CASE Down(n)' = Down(n)
        BY <4>1, <3>3
      <4>2. ASSUME NEW m \in Ack, Down(n)' = Append(Down(n), m)
            PROVE  Parts(Down(n)', Since(Written(n)), Since(AckWritten(n)))
        <5>1. m.type # "data" /\ m \in Data(<<Switch, n>>) \cup Ack
          BY <2>2
        <5> QED
          BY <5>1, <4>2, <3>3, <2>2, PartsAppend
      <4> QED
        BY <4>1, <4>2, <2>3, <1>2
    <3>5. Written(n)' = Written(n) /\ AckWritten(n)' = AckWritten(n)
      BY <2>3, <1>1, <1>2
    <3> QED
      BY <3>1, <3>2, <3>4, <3>5, <2>1, PartsEmpty DEF EpochOK, Since, Data
  <2>4. CASE p # Switch
    <3>1. /\ Written(Switch)' = Written(Switch) /\ (Live(Switch)' <=> Live(Switch))
          /\ isAbort'[Switch] = isAbort[Switch]
      BY <2>4, <1>1, <1>2
    <3>2. CASE n # p
      <4>1. Down(n)' = Down(n) /\ Up(n)' = Up(n) /\ Written(n)' = Written(n)
            /\ AckWritten(n)' = AckWritten(n)
        BY <2>4, <3>2, <1>1, <1>2
      <4>2. Written(Switch) \in Nat
        BY WrittenTypes, <1>2
      <4>3. SavesOK(n)' /\ EpochOK(n)'
        BY <4>1, <4>2, <3>1, <2>0, <1>1, <1>2, WrittenFrame
      <4> QED
        BY <4>3, <2>1
    <3>3. CASE n = p
      <4>1. SavesOK(n)'
        BY <3>3 DEF SavesOK
      <4>2. Down(n)' = <<>>
        BY <3>3, LinkEnds DEF SyncInv, ChanOK, Down
      <4>3. ASSUME ~isAbort[Switch] PROVE Parts(Up(n)', Since(Written(Switch)), {})
        <5>1. Parts(Up(n), Since(Written(Switch)), {})
          BY <2>0, <4>3 DEF EpochOK
        <5>2. ASSUME NEW m \in Req, Up(n)' = Append(Up(n), m)
              PROVE  Parts(Up(n)', Since(Written(Switch)), {})
          <6>1. m.type # "data" /\ m \in Data(<<n, Switch>>) \cup Req
            BY <2>2
          <6> QED
            BY <6>1, <5>1, <5>2, <2>2, PartsAppend
        <5> QED
          BY <5>1, <5>2, <2>4
      <4> QED
        BY <4>1, <4>2, <4>3, <3>1, <2>1, PartsEmpty DEF EpochOK, Since, Data
    <3> QED
      BY <3>2, <3>3
  <2> QED
    BY <2>3, <2>4
<1> QED
  BY <1>3 DEF CkptInv
-----------------------------------------------------------------------------
(* What each step does, as far as the invariants of this module see it. *)

\* Nobody but p changes, and the streams do not.
Others(p) == \A q \in Processes \ {p} : Keeps(q) /\ exiting'[q] = exiting[q]
Quiet == UNCHANGED <<chan, thread, isAbort>>
Nobody == \A q \in Processes : Keeps(q) /\ exiting'[q] = exiting[q]

\* Steps of the simulation thread of p alone.
LocalAct(p) ==
    \/ Advance(p)
    \/ SyncProcess(p) /\ pc[p] # "drain"
    \/ ExitEvent(p) /\ pc[p] = "drain"
    \/ drainComplete(p) \/ serialize(p)
    \/ StartReturns(p) /\ ~Aborted(p)
    \/ ProcessReturns(p) \/ DrainReturns(p)
    \/ \E l \in Links : To(l) = p /\ rxDone(l)
    \/ p \in Nodes /\ \E op \in Ops, req \in ReqTypes : request(p, op, req)

\* Process p ends.
Gone(p) ==
    /\ ~Live(p)' /\ Live(p) /\ Others(p)
    /\ UNCHANGED <<thread, isAbort, exiting, tick>>
    /\ \A n \in Nodes : /\ Up(n)' = IF p = Switch THEN <<>> ELSE Up(n)
                        /\ Down(n)' = IF p = n THEN <<>> ELSE Down(n)

\* Node n asks for the barrier.
Asks(n) ==
    /\ Others(n) /\ UNCHANGED <<thread, isAbort, exiting, tick, when, caller, doing, saved>>
    /\ pc[n] = "run" /\ pc'[n] = "wait" /\ waitNum'[n] = 1 /\ ~isAbort[n]
    /\ \A k \in Nodes : Down(k)' = Down(k)
    /\ \A k \in Nodes \ {n} : Up(k)' = Up(k)
    /\ \/ Up(n)' = Up(n)
       \/ \E m \in Req : Up(n)' = Append(Up(n), m)

\* The switch completes the barrier with m, which gets to the nodes in S.
Answers(m, S) ==
    /\ Others(Switch) /\ UNCHANGED <<thread, isAbort, exiting, tick, when, caller, saved>>
    /\ pc[Switch] = "run" /\ ~isAbort[Switch] /\ Live(Switch) /\ ~Completed(Switch)
    /\ \/ pc'[Switch] = "return" /\ S = {n \in Nodes : Live(n)}
       \/ pc'[Switch] = "exited"
    /\ doing'[Switch] = m.do
    /\ caller[Switch] = "process" => \A n \in Nodes : tick[n] = tick[Switch]
    /\ \A n \in Nodes : /\ Up(n) = <<>> /\ Up(n)' = <<>>
                        /\ Down(n)' = IF n \in S THEN Append(Down(n), m) ELSE Down(n)
                        /\ AcksIn(n)' = IF n \in S THEN {m} ELSE AcksIn(n)
                        /\ Live(n) => /\ Waiting(n) /\ AcksIn(n) = {} /\ ~isAbort[n]
                                      /\ caller[n] = caller[Switch]

\* Node n reads acknowledgement m.
Hears(n, m) ==
    /\ Others(n) /\ UNCHANGED <<isAbort, exiting, tick, when, pc, caller, saved>>
    /\ \A k \in Links : thread'[k] = "lost" => thread[k] = "lost"
    /\ m \in AcksIn(n) /\ m = Head(Down(n)) /\ Waiting(n) /\ ~isAbort[n] /\ Live(n)
    /\ waitNum'[n] = 0 /\ doing'[n] = m.do
    /\ Down(n) # <<>> /\ Down(n)' = Tail(Down(n)) /\ AcksIn(n)' = {}
    /\ \A k \in Nodes : Up(k)' = Up(k)
    /\ \A k \in Nodes \ {n} : Down(k)' = Down(k)

\* The switch counts the request of node n.
Counts(n) ==
    /\ Others(Switch) /\ UNCHANGED <<isAbort, exiting, tick, when, pc, caller, doing, saved>>
    /\ \A k \in Links : thread'[k] = "lost" => thread[k] = "lost"
    /\ Up(n)' = <<>>
    /\ \A k \in Nodes : Down(k)' = Down(k)
    /\ \A k \in Nodes \ {n} : Up(k)' = Up(k)

\* A packet is put on link l, or taken from it.
Sends(l, m) ==
    /\ Nobody /\ UNCHANGED <<thread, isAbort, exiting, tick, when, pc, caller, doing, saved>>
    /\ Simulating(From(l)) /\ InQuantum(From(l)) /\ tick[From(l)] > SyncStart
    /\ m \in Data(Switch) /\ m.tick = tick[From(l)] /\ m.epoch = saved[From(l)]
    /\ \A k \in Links : chan'[k] = IF k = l /\ Live(To(l)) THEN Append(chan[k], m) ELSE chan[k]
Takes(l) ==
    /\ Nobody /\ UNCHANGED <<thread, isAbort, exiting, tick, when, pc, caller, doing, saved>>
    /\ chan[l] # <<>> /\ Head(chan[l]).type = "data"
    /\ \A k \in Links : chan'[k] = IF k = l THEN Tail(chan[l]) ELSE chan[k]

LEMMA LocalFrame ==
    ASSUME SyncInv, NEW p \in Processes, LocalAct(p)
    PROVE  /\ Others(p) /\ Quiet /\ UNCHANGED waitNum /\ Busy(p) /\ Live(p)'
           /\ p \in Nodes => AcksIn(p) = {}
<1>0. StateOK
  BY DEF SyncInv
<1>1. ASSUME Others(p), Quiet, UNCHANGED waitNum, Busy(p), Live(p)'
      PROVE  /\ Others(p) /\ Quiet /\ UNCHANGED waitNum /\ Busy(p) /\ Live(p)'
             /\ p \in Nodes => AcksIn(p) = {}
  BY <1>1, BusyNode
<1>2. CASE Advance(p)
  <2>1. /\ tick' = [tick EXCEPT ![p] = tick[p] + 1]
        /\ pc[p] \in {"simulate", "unsynced", "drain"}
        /\ UNCHANGED <<when, pc, caller, exiting, waitNum, isAbort, doing, thread, chan, saved>>
    BY <1>2 DEF Advance, Simulating, syncVars
  <2> QED
    BY <2>1, <1>0, <1>1 DEF Others, Keeps, Same, StateOK, Quiet, Busy, Live, Waiting
<1>3. CASE SyncProcess(p) /\ pc[p] # "drain"
  <2>1. /\ pc' = [pc EXCEPT ![p] = "run"] /\ caller' = [caller EXCEPT ![p] = "process"]
        /\ pc[p] = "simulate"
        /\ UNCHANGED <<tick, when, exiting, waitNum, isAbort, doing, thread, chan, saved>>
    BY <1>3 DEF SyncProcess, syncVars
  <2> QED
    BY <2>1, <1>0, <1>1 DEF Others, Keeps, Same, StateOK, Quiet, Busy, Live, Waiting
<1>4. CASE ExitEvent(p) /\ pc[p] = "drain"
  <2>1. /\ exiting' = [exiting EXCEPT ![p] = "no"]
        /\ UNCHANGED <<tick, when, pc, caller, waitNum, isAbort, doing, thread, chan, saved>>
    BY <1>4 DEF ExitEvent, syncVars
  <2> QED
    BY <2>1, <1>0, <1>1, <1>4 DEF Others, Keeps, Same, StateOK, Quiet, Busy, Live, Waiting
<1>5. CASE drainComplete(p)
  <2>1. /\ pc' = [pc EXCEPT ![p] = "run"] /\ caller' = [caller EXCEPT ![p] = "drainComplete"]
        /\ pc[p] = "drain"
        /\ UNCHANGED <<tick, when, exiting, waitNum, isAbort, doing, thread, chan, saved>>
    BY <1>5 DEF drainComplete, syncVars
  <2> QED
    BY <2>1, <1>0, <1>1 DEF Others, Keeps, Same, StateOK, Quiet, Busy, Live, Waiting
<1>6. CASE serialize(p)
  <2>1. /\ pc' = [pc EXCEPT ![p] = "simulate"] /\ saved' = [saved EXCEPT ![p] = saved[p] + 1]
        /\ pc[p] = "save"
        /\ UNCHANGED <<tick, when, caller, exiting, waitNum, isAbort, doing, thread, chan>>
    BY <1>6 DEF serialize, syncVars
  <2> QED
    BY <2>1, <1>0, <1>1 DEF Others, Keeps, Same, StateOK, Quiet, Busy, Live, Waiting
<1>7. CASE StartReturns(p) /\ ~Aborted(p)
  <2>1. /\ when' = [when EXCEPT ![p] = nextAt[p]] /\ pc' = [pc EXCEPT ![p] = "simulate"]
        /\ Completed(p)
        /\ UNCHANGED <<tick, caller, exiting, waitNum, isAbort, doing, thread, chan, saved>>
    BY <1>7 DEF StartReturns, syncVars
  <2>2. Busy(p)
    BY <2>1, OutOfBarrier
  <2> QED
    BY <2>1, <2>2, <1>0, <1>1 DEF Others, Keeps, Same, StateOK, Quiet, Live
<1>8. CASE ProcessReturns(p)
  <2>1. /\ Completed(p) \/ Aborted(p)
        /\ UNCHANGED <<tick, caller, waitNum, isAbort, doing, thread, chan, saved>>
    BY <1>8 DEF ProcessReturns, syncVars
  <2>2. Busy(p)
    BY <2>1, OutOfBarrier
  <2>3. \E x \in {"unsynced", "drain", "simulate"} : \E y, z :
           /\ pc' = [pc EXCEPT ![p] = x]
           /\ when' = [when EXCEPT ![p] = y] /\ exiting' = [exiting EXCEPT ![p] = z]
    <3>1. when = [when EXCEPT ![p] = when[p]] /\ exiting = [exiting EXCEPT ![p] = exiting[p]]
      BY <1>0 DEF StateOK
    <3> QED
      BY <1>8, <3>1 DEF ProcessReturns
  <2> QED
    BY <2>1, <2>2, <2>3, <1>0, <1>1 DEF Others, Keeps, Same, StateOK, Quiet, Live
<1>9. CASE DrainReturns(p)
  <2>1. /\ Completed(p) \/ Aborted(p)
        /\ pc' = [pc EXCEPT ![p] = "save"] /\ doing' = [doing EXCEPT ![p]["ckpt"] = FALSE]
        /\ UNCHANGED <<tick, when, caller, exiting, waitNum, isAbort, thread, chan, saved>>
    BY <1>9 DEF DrainReturns
  <2>2. Busy(p)
    BY <2>1, OutOfBarrier
  <2> QED
    BY <2>1, <2>2, <1>0, <1>1 DEF Others, Keeps, Same, StateOK, Quiet, Live
<1>10. CASE \E l \in Links : To(l) = p /\ rxDone(l)
  <2>1. /\ pc[p] \in {"simulate", "unsynced", "drain"}
        /\ UNCHANGED <<tick, when, pc, caller, exiting, waitNum, isAbort, doing, thread, chan, saved>>
    BY <1>10 DEF rxDone, Simulating, simVars, syncVars
  <2> QED
    BY <2>1, <1>0, <1>1 DEF Others, Keeps, Same, StateOK, Quiet, Busy, Live, Waiting
<1>11. CASE p \in Nodes /\ \E op \in Ops, req \in ReqTypes : request(p, op, req)
  <2>1. /\ pc[p] \in {"simulate", "drain"}
        /\ UNCHANGED <<tick, when, pc, caller, exiting, waitNum, isAbort, doing, thread, chan, saved>>
    BY <1>11 DEF request, simVars
  <2> QED
    BY <2>1, <1>0, <1>1 DEF Others, Keeps, Same, StateOK, Quiet, Busy, Live, Waiting
<1> QED
  BY <1>2, <1>3, <1>4, <1>5, <1>6, <1>7, <1>8, <1>9, <1>10, <1>11 DEF LocalAct

LEMMA EndsFrame ==
    ASSUME SyncInv, NEW p \in Processes, Live(p), Ends(p, chan),
           \A q \in Processes \ {p} : waitNum'[q] = waitNum[q],
           UNCHANGED <<tick, when, caller, exiting, isAbort, doing, thread, saved>>
    PROVE  Gone(p)
<1>0. StateOK
  BY DEF SyncInv
<1>1. /\ pc' = [pc EXCEPT ![p] = "exited"]
      /\ chan' = [l \in Links |-> IF To(l) = p THEN <<>> ELSE chan[l]]
  BY DEF Ends, Without
<1>2. Others(p) /\ ~Live(p)'
  BY <1>0, <1>1 DEF Others, Keeps, Same, Live, StateOK
<1>3. \A n \in Nodes : /\ Up(n)' = IF p = Switch THEN <<>> ELSE Up(n)
                       /\ Down(n)' = IF p = n THEN <<>> ELSE Down(n)
  BY <1>1, LinkEnds DEF Up, Down
<1> QED
  BY <1>2, <1>3 DEF Gone

LEMMA NodeRunEffect ==
    ASSUME SyncInv, NEW n \in Processes, NodeRun(n)
    PROVE  n \in Nodes /\ (Asks(n) \/ Gone(n))
<1> DEFINE m == [type |-> "req", tick |-> tick[n], need |-> need[n]]
<1>0. n \in Nodes /\ n # Switch /\ StateOK /\ ChanOK /\ pc[n] = "run" /\ Live(n)
  BY LinkEnds DEF SyncInv, NodeRun, Live
<1>1. UNCHANGED <<tick, when, caller, exiting, isAbort, doing, thread, saved>>
  BY DEF NodeRun
<1>2. CASE isAbort[n]
  BY <1>0, <1>1, <1>2, EndsFrame DEF NodeRun
<1>3. CASE ~isAbort[n] /\ sendCmd(n, m) /\ pc' = [pc EXCEPT ![n] = "wait"]
  <2>1. waitNum' = [waitNum EXCEPT ![n] = 1]
    BY <1>3 DEF NodeRun
  <2>2. m \in Req
    <3>1. /\ tick[n] \in 0..MaxTick
          /\ need[n] \in [Ops -> {"none", "collective", "immediate", "pending"}]
      BY <1>0 DEF StateOK
    <3> QED
      BY <3>1 DEF Req
  <2> HIDE DEF m
  <2>3. Others(n) /\ pc'[n] = "wait" /\ waitNum'[n] = 1
    BY <2>1, <1>0, <1>1, <1>3 DEF Others, Keeps, Same, StateOK
  <2>4. chan' = [k \in Links |-> IF From(k) = n /\ Live(To(k)) THEN Append(chan[k], m) ELSE chan[k]]
    BY <1>3 DEF sendCmd
  <2>5. /\ \A k \in Nodes : Down(k)' = Down(k)
        /\ \A k \in Nodes \ {n} : Up(k)' = Up(k)
        /\ Up(n)' = Up(n) \/ Up(n)' = Append(Up(n), m)
    BY <2>4, <1>0, LinkEnds DEF Up, Down
  <2> QED
    BY <2>2, <2>3, <2>5, <1>0, <1>1, <1>3 DEF Asks
<1>4. CASE ~isAbort[n] /\ SendFails(n, m)
  <2>1. waitNum' = [waitNum EXCEPT ![n] = 1]
    BY <1>4 DEF NodeRun
  <2>2. Peers(n) = {Switch}
    BY <1>0 DEF Peers
  <2>3. PICK sent \in SUBSET {q \in Peers(n) : Live(q)} :
            /\ \E q \in Peers(n) : ~Live(q)
            /\ Ends(n, [l \in Links |-> IF From(l) = n /\ To(l) \in sent
                                        THEN Append(chan[l], m) ELSE chan[l]])
    BY <1>4 DEF SendFails
  <2>4. sent = {}
    BY <2>2, <2>3
  <2>5. [l \in Links |-> IF From(l) = n /\ To(l) \in sent THEN Append(chan[l], m) ELSE chan[l]]
        = [l \in Links |-> chan[l]]
    BY <2>4
  <2>6. Ends(n, chan)
    BY <2>3, <2>5, <1>0 DEF ChanOK
  <2>7. \A q \in Processes \ {n} : waitNum'[q] = waitNum[q]
    BY <2>1, <1>0 DEF StateOK
  <2> QED
    BY <2>6, <2>7, <1>0, <1>1, EndsFrame
<1> QED
  BY <1>0, <1>2, <1>3, <1>4 DEF NodeRun

LEMMA SwitchRunEffect ==
    ASSUME SyncInv, SwitchRun
    PROVE  \E m \in Ack, S \in SUBSET {n \in Nodes : Live(n)} : Answers(m, S)
<1> DEFINE m == [type |-> "ack", tick |-> nextAt[Switch], do |-> [op \in Ops |-> Decided(op)]]
<1>0. /\ StateOK /\ ChanOK /\ Switch \in Processes /\ ProcessOK(Switch)
      /\ pc[Switch] = "run" /\ waitNum[Switch] = 0 /\ ~isAbort[Switch]
      /\ Live(Switch) /\ InBarrier(Switch) /\ ~Completed(Switch)
  BY LinkEnds DEF SyncInv, SwitchRun, AllAsked, Live, InBarrier, Completed
<1>1. /\ waitNum' = [waitNum EXCEPT ![Switch] = Cardinality(Nodes)]
      /\ doing' = [doing EXCEPT ![Switch] = m.do]
      /\ \/ sendCmd(Switch, m) /\ pc' = [pc EXCEPT ![Switch] = "return"]
         \/ SendFails(Switch, m)
      /\ UNCHANGED <<tick, when, caller, exiting, isAbort, thread, saved>>
  BY DEF SwitchRun
<1>2. m \in Ack /\ m.type = "ack"
  <2>1. \A op \in Ops : Decided(op) \in BOOLEAN
    BY DEF Decided
  <2>2. [op \in Ops |-> Decided(op)] \in [Ops -> BOOLEAN] /\ nextAt[Switch] \in Nat
    BY <2>1, <1>0 DEF StateOK
  <2> QED
    BY <2>2 DEF Ack
<1> HIDE DEF m
<1>3. \A n \in Nodes : Counted(n)
  BY <1>0, NobodyMissing
<1>4. ASSUME NEW n \in Nodes, Live(n)
      PROVE  Waiting(n) /\ AcksIn(n) = {} /\ ~isAbort[n] /\ caller[n] = caller[Switch]
  <2>0. Counted(n) /\ AlignedOK(n) /\ NodeOK(n) /\ n # Switch
    BY <1>3, LinkEnds DEF SyncInv
  <2>1. Waiting(n) /\ AcksIn(n) = {} /\ ~isAbort[n]
    BY <2>0, <1>0, <1>4 DEF Counted, NodeOK
  <2>2. Kind(n) = Kind(Switch)
    BY <2>0, <2>1, <1>0, <1>4 DEF AlignedOK
  <2>3. Kind(n) = caller[n]
    BY <2>0, <2>1 DEF Kind, Waiting, Completed, InBarrier
  <2>4. Kind(Switch) = caller[Switch]
    BY <1>0 DEF Kind
  <2> QED
    BY <2>1, <2>2, <2>3, <2>4
<1>5. ASSUME caller[Switch] = "process", NEW n \in Nodes PROVE tick[n] = tick[Switch]
  <2>1. Kind(Switch) = "process" /\ NextSync(Switch) = when[Switch]
    BY <1>0, <1>5 DEF Kind, NextSync, InStart
  <2>2. tick[Switch] = when[Switch]
    BY <1>0, <1>5 DEF ProcessOK
  <2> QED
    BY <2>1, <2>2, <1>3 DEF Counted
<1>6. ASSUME NEW at \in {"return", "exited"}, NEW S \in SUBSET {n \in Nodes : Live(n)},
             at = "return" => S = {n \in Nodes : Live(n)},
             pc' = [pc EXCEPT ![Switch] = at],
             \A k \in Links : chan'[k] = IF From(k) = Switch /\ To(k) \in S
                                         THEN Append(chan[k], m) ELSE chan[k]
      PROVE  Answers(m, S)
  <2>1. Others(Switch) /\ doing'[Switch] = m.do /\ pc'[Switch] = at
    BY <1>0, <1>1, <1>6 DEF Others, Keeps, Same, StateOK
  <2>2. ASSUME NEW n \in Nodes
        PROVE  /\ Up(n) = <<>> /\ Up(n)' = <<>>
               /\ Down(n)' = IF n \in S THEN Append(Down(n), m) ELSE Down(n)
               /\ AcksIn(n)' = IF n \in S THEN {m} ELSE AcksIn(n)
    <3>1. Up(n) = <<>>
      BY <1>3 DEF Counted
    <3>2. Up(n)' = <<>> /\ Down(n)' = IF n \in S THEN Append(Down(n), m) ELSE Down(n)
      BY <3>1, <1>6, LinkEnds DEF Up, Down
    <3>3. CASE n \in S
      <4>1. Down(n) \in Seq(Wire(<<Switch, n>>)) /\ m \in Wire(<<Switch, n>>)
        BY <1>0, <1>2, StreamTypes
      <4>2. Msgs(Append(Down(n), m)) = Msgs(Down(n)) \cup {m}
        BY <4>1, MsgsAppend
      <4>3. AcksIn(n) = {}
        BY <3>3, <1>4, <1>6
      <4> QED
        BY <4>2, <4>3, <3>1, <3>2, <3>3, <1>2 DEF AcksIn
    <3>4. CASE n \notin S
      BY <3>1, <3>2, <3>4 DEF AcksIn
    <3> QED
      BY <3>3, <3>4
  <2> QED
    BY <2>1, <2>2, <1>0, <1>1, <1>4, <1>5, <1>6 DEF Answers
<1>7. CASE sendCmd(Switch, m) /\ pc' = [pc EXCEPT ![Switch] = "return"]
  <2> DEFINE S == {n \in Nodes : Live(n)}
  <2>1. \A k \in Links : From(k) = Switch => (Live(To(k)) <=> To(k) \in S)
    BY LinkTo, Consts
  <2>2. \A k \in Links : chan'[k] = IF From(k) = Switch /\ To(k) \in S
                                    THEN Append(chan[k], m) ELSE chan[k]
    BY <2>1, <1>7 DEF sendCmd
  <2>3. S \in SUBSET {n \in Nodes : Live(n)} /\ S = {n \in Nodes : Live(n)}
    OBVIOUS
  <2> HIDE DEF S
  <2>4. Answers(m, S)
    BY <2>2, <2>3, <1>6, <1>7
  <2> QED
    BY <2>3, <2>4, <1>2
<1>8. CASE SendFails(Switch, m)
  <2>1. Peers(Switch) = Nodes
    BY DEF Peers
  <2>2. PICK S \in SUBSET {n \in Nodes : Live(n)} :
            Ends(Switch, [l \in Links |-> IF From(l) = Switch /\ To(l) \in S
                                          THEN Append(chan[l], m) ELSE chan[l]])
    BY <1>8, <2>1 DEF SendFails
  <2>3. \A k \in Links : To(k) = Switch => chan[k] = <<>> /\ From(k) # Switch
    <3>1. \A n \in Nodes : Up(n) = <<>>
      BY <1>3 DEF Counted
    <3> QED
      BY <3>1, LinkTo, LinkEnds DEF Up
  <2>4. \A k \in Links : chan'[k] = IF From(k) = Switch /\ To(k) \in S
                                    THEN Append(chan[k], m) ELSE chan[k]
    <3>1. chan' = [k \in Links |-> IF To(k) = Switch THEN <<>>
                                   ELSE IF From(k) = Switch /\ To(k) \in S
                                        THEN Append(chan[k], m) ELSE chan[k]]
      BY <2>2 DEF Ends, Without
    <3> QED
      BY <3>1, <2>3
  <2>5. pc' = [pc EXCEPT ![Switch] = "exited"]
    BY <2>2 DEF Ends
  <2>6. Answers(m, S)
    BY <2>2, <2>4, <2>5, <1>6
  <2> QED
    BY <2>2, <2>6, <1>2
<1> QED
  BY <1>1, <1>7, <1>8

LEMMA NodeHearsEffect ==
    ASSUME SyncInv, NEW n \in Nodes, progress(<<Switch, n>>)
    PROVE  \E m \in Ack : Hears(n, m)
<1> DEFINE l == <<Switch, n>>
           m == Head(Down(n))
<1>0. /\ StateOK /\ ChanOK /\ n \in Processes /\ n # Switch /\ l \in Links /\ To(l) = n
      /\ NodeOK(n) /\ AckOK(n)
  BY LinkEnds DEF SyncInv
<1>1. /\ chan[l] # <<>> /\ m.type \in {"req", "ack"} /\ m = Head(chan[l]) /\ Down(n) = chan[l]
      /\ Live(n) /\ chan' = [chan EXCEPT ![l] = Tail(chan[l])]
      /\ UNCHANGED <<tick, when, pc, caller, exiting, isAbort, saved>>
  BY <1>0 DEF progress, Receiving, Down, simVars
<1>2. (\A k \in Links : chan'[k] = IF k = l THEN Tail(chan[l]) ELSE chan[k]) /\ m \in Wire(l)
  BY <1>0, <1>1, TakeHead
<1>3. m \in Ack /\ m.type = "ack" /\ m.do \in [Ops -> BOOLEAN]
  <2>1. m \in Data(l) \cup Ack
    BY <1>0, <1>2 DEF Wire
  <2> QED
    BY <2>1, <1>1 DEF Data, Ack
<1>4. m \in AcksIn(n) /\ \A x \in Msgs(Tail(Down(n))) : x.type # "ack"
  <2>1. Down(n) \in Seq(Wire(l)) /\ OneAck(Down(n)) /\ Down(n) # <<>>
    BY <1>0, <1>1, StreamTypes DEF AckOK
  <2>2. m \in Msgs(Down(n))
    BY <2>1, MsgsTail
  <2> QED
    BY <2>1, <2>2, <1>3, OneAckTail DEF AcksIn
<1>5. Waiting(n) /\ ~isAbort[n] /\ waitNum[n] = 1
  BY <1>0, <1>1, <1>4 DEF AckOK, NodeOK, Waiting
<1>6. /\ doing' = [doing EXCEPT ![n] = m.do]
      /\ waitNum' = [waitNum EXCEPT ![n] = waitNum[n] - 1]
      /\ \A k \in Links : thread'[k] = "lost" => thread[k] = "lost"
  <2>1. NodeProgress(n, m)
    BY <1>0, <1>1, <1>5 DEF progress
  <2>2. thread' = thread \/ thread' = [thread EXCEPT ![l] = "done"]
    BY DEF progress
  <2>3. \A k \in Links : thread'[k] = "lost" => thread[k] = "lost"
    BY <2>2, <1>0 DEF StateOK
  <2> QED
    BY <2>1, <2>3 DEF NodeProgress
<1> HIDE DEF m
<1>7. Others(n) /\ waitNum'[n] = 0 /\ doing'[n] = m.do
  BY <1>0, <1>1, <1>5, <1>6 DEF Others, Keeps, Same, StateOK
<1>8. /\ Down(n)' = Tail(Down(n)) /\ \A k \in Nodes : Up(k)' = Up(k)
      /\ \A k \in Nodes \ {n} : Down(k)' = Down(k)
  BY <1>1, <1>2, LinkEnds DEF Up, Down
<1>9. AcksIn(n)' = {}
  BY <1>4, <1>8 DEF AcksIn
<1>10. m = Head(Down(n)) /\ Down(n) # <<>>
  BY <1>1 DEF m
<1>11. Hears(n, m)
  BY <1>1, <1>4, <1>5, <1>6, <1>7, <1>8, <1>9, <1>10 DEF Hears
<1> QED
  BY <1>3, <1>11

LEMMA SwitchHearsEffect ==
    ASSUME SyncInv, NEW n \in Nodes, progress(<<n, Switch>>)
    PROVE  Counts(n)
<1> DEFINE l == <<n, Switch>>
           m == Head(Up(n))
<1>0. /\ StateOK /\ ChanOK /\ n \in Processes /\ n # Switch /\ l \in Links
      /\ To(l) = Switch /\ Switch \in Processes /\ ReqOK(n)
  BY LinkEnds DEF SyncInv
<1>1. /\ chan[l] # <<>> /\ m.type \in {"req", "ack"} /\ m = Head(chan[l]) /\ Up(n) = chan[l]
      /\ Live(Switch) /\ chan' = [chan EXCEPT ![l] = Tail(chan[l])]
      /\ UNCHANGED <<tick, when, pc, caller, exiting, isAbort, saved>>
  BY <1>0 DEF progress, Receiving, Up, simVars
<1>2. (\A k \in Links : chan'[k] = IF k = l THEN Tail(chan[l]) ELSE chan[k]) /\ m \in Wire(l)
  BY <1>0, <1>1, TakeHead
<1>3. m.type = "req" /\ m.need \in [Ops -> {"none", "collective", "immediate", "pending"}]
  <2>1. m \in Data(l) \cup Req
    BY <1>0, <1>2 DEF Wire
  <2> QED
    BY <2>1, <1>1 DEF Data, Req
<1>4. m \in ReqsIn(n) /\ Tail(Up(n)) = <<>>
  <2>1. Up(n) \in Seq(Wire(l)) /\ ReqLast(Up(n)) /\ Up(n) # <<>>
    BY <1>0, <1>1, StreamTypes DEF ReqOK
  <2>2. m \in Msgs(Up(n))
    BY <2>1, MsgsTail
  <2> QED
    BY <2>1, <2>2, <1>3, ReqLastTail DEF ReqsIn
<1>5. \A k \in Links : thread'[k] = "lost" => thread[k] = "lost"
  <2>1. thread' = thread \/ thread' = [thread EXCEPT ![l] = "done"]
    BY DEF progress
  <2> QED
    BY <2>1, <1>0 DEF StateOK
<1>6. /\ doing' = doing
      /\ \A q \in Processes \ {Switch} : waitNum'[q] = waitNum[q]
  <2>1. CASE isAbort[Switch]
    BY <2>1, <1>0 DEF progress
  <2>2. CASE ~isAbort[Switch]
    <3>1. SwitchProgress(m)
      BY <2>2, <1>0, <1>1 DEF progress
    <3> HIDE DEF m
    <3>2. /\ doing' = [doing EXCEPT ![Switch] =
                        [op \in Ops |-> doing[Switch][op] \/ m.need[op] = "immediate"]]
          /\ waitNum' = [waitNum EXCEPT ![Switch] = waitNum[Switch] - 1]
      BY <3>1 DEF SwitchProgress
    <3>3. \A op \in Ops : m.need[op] # "immediate"
      BY <1>0, <1>4 DEF ChanOK
    <3>4. [op \in Ops |-> doing[Switch][op] \/ m.need[op] = "immediate"] = doing[Switch]
      BY <3>3, <1>0 DEF StateOK
    <3> QED
      BY <3>2, <3>4, <1>0 DEF StateOK
  <2> QED
    BY <2>1, <2>2
<1> HIDE DEF m
<1>7. Others(Switch)
  BY <1>1, <1>6 DEF Others, Keeps, Same
<1>8. /\ Up(n)' = <<>> /\ \A k \in Nodes : Down(k)' = Down(k)
      /\ \A k \in Nodes \ {n} : Up(k)' = Up(k)
  BY <1>1, <1>2, <1>4, LinkEnds DEF Up, Down
<1> QED
  BY <1>1, <1>5, <1>6, <1>7, <1>8 DEF Counts

LEMMA TransmitEffect ==
    ASSUME SyncInv, NEW l \in Links, transmit(l)
    PROVE  \E m \in Data(Switch) : Sends(l, m)
<1> DEFINE p == From(l)
           m == [type |-> "data", tick |-> tick[p], epoch |-> saved[p]]
<1>0. p \in Processes /\ StateOK /\ ChanOK
  BY LinkEnds DEF SyncInv
<1>1. /\ Simulating(p) /\ InQuantum(p) /\ tick[p] > SyncStart
      /\ chan' = Put(chan, l, m)
      /\ UNCHANGED <<tick, when, pc, caller, exiting, waitNum, isAbort, doing, thread, saved>>
  BY DEF transmit, CanTransmit, simVars, syncVars
<1>2. m \in Data(Switch) /\ m.tick = tick[p] /\ m.epoch = saved[p]
  <2>1. tick[p] \in 0..MaxTick /\ saved[p] \in Nat
    BY <1>0 DEF StateOK
  <2> QED
    BY <2>1 DEF Data
<1> HIDE DEF m
<1>3. \A k \in Links : chan'[k] = IF k = l /\ Live(To(l)) THEN Append(chan[k], m) ELSE chan[k]
  <2>1. chan = [k \in Links |-> chan[k]]
    BY <1>0 DEF ChanOK
  <2> QED
    BY <2>1, <1>1 DEF Put
<1>4. Nobody
  BY <1>1 DEF Nobody, Keeps, Same
<1>5. Sends(l, m)
  BY <1>1, <1>2, <1>3, <1>4 DEF Sends
<1> QED
  BY <1>2, <1>5

LEMMA PushPacketEffect ==
    ASSUME SyncInv, NEW l \in Links, pushPacket(l)
    PROVE  Takes(l)
<1>0. ChanOK
  BY DEF SyncInv
<1>1. /\ chan[l] # <<>> /\ Head(chan[l]).type = "data"
      /\ chan' = [chan EXCEPT ![l] = Tail(chan[l])]
      /\ UNCHANGED <<tick, when, pc, caller, exiting, waitNum, isAbort, doing, thread, saved>>
  BY DEF pushPacket, Receiving, simVars, syncVars
<1>2. \A k \in Links : chan'[k] = IF k = l THEN Tail(chan[l]) ELSE chan[k]
  BY <1>0, <1>1, TakeHead
<1>3. Nobody
  BY <1>1 DEF Nobody, Keeps, Same
<1> QED
  BY <1>1, <1>2, <1>3 DEF Takes

LEMMA StepCases ==
    ASSUME SyncInv, Next
    PROVE  \/ \E p \in Processes : LocalAct(p) \/ Gone(p)
           \/ \E n \in Nodes : Asks(n) \/ Counts(n) \/ \E m \in Ack : Hears(n, m)
           \/ \E m \in Ack, S \in SUBSET {n \in Nodes : Live(n)} : Answers(m, S)
           \/ \E l \in Links : \/ Takes(l) \/ ConnectionLost(l) \/ abort(l)
                               \/ \E m \in Data(Switch) : Sends(l, m)
<1> DEFINE Goal == \/ \E p \in Processes : LocalAct(p) \/ Gone(p)
                   \/ \E n \in Nodes : Asks(n) \/ Counts(n) \/ \E m \in Ack : Hears(n, m)
                   \/ \E m \in Ack, S \in SUBSET {n \in Nodes : Live(n)} : Answers(m, S)
                   \/ \E l \in Links : \/ Takes(l) \/ ConnectionLost(l) \/ abort(l)
                                       \/ \E m \in Data(Switch) : Sends(l, m)
<1>0. ASSUME NEW p \in Processes, Live(p), Ends(p, chan), UNCHANGED waitNum,
             UNCHANGED <<tick, when, caller, exiting, isAbort, doing, thread, saved>>
      PROVE  Goal
  BY <1>0, EndsFrame
<1>1. ASSUME NEW p \in Processes, SimThread(p) PROVE Goal
  <2>1. CASE LocalAct(p)
    BY <2>1
  <2>2. CASE SyncProcess(p) /\ pc[p] = "drain"
    <3>1. /\ Live(p) /\ Ends(p, chan) /\ UNCHANGED waitNum
          /\ UNCHANGED <<tick, when, caller, exiting, isAbort, doing, thread, saved>>
      BY <2>2 DEF SyncProcess, Live, syncVars
    <3> QED
      BY <3>1, <1>0
  <2>3. CASE ExitEvent(p) /\ pc[p] # "drain"
    <3>1. /\ Live(p) /\ Ends(p, chan) /\ UNCHANGED waitNum
          /\ UNCHANGED <<tick, when, caller, exiting, isAbort, doing, thread, saved>>
      BY <2>3 DEF ExitEvent, Live, Simulating, syncVars
    <3> QED
      BY <3>1, <1>0
  <2>4. CASE StartReturns(p) /\ Aborted(p)
    <3>0. ~Completed(p)
      BY <2>4 DEF SyncInv, ProcessOK, Aborted, Completed, Live
    <3>1. /\ Live(p) /\ Ends(p, chan) /\ UNCHANGED waitNum
          /\ UNCHANGED <<tick, when, caller, exiting, isAbort, doing, thread, saved>>
      BY <2>4, <3>0 DEF StartReturns, Aborted, Live, syncVars
    <3> QED
      BY <3>1, <1>0
  <2>5. CASE NodeRun(p)
    BY <2>5, NodeRunEffect
  <2>6. CASE SwitchRun
    BY <2>6, SwitchRunEffect
  <2> HIDE DEF Goal
  <2> QED
    BY <1>1, <2>1, <2>2, <2>3, <2>4, <2>5, <2>6 DEF SimThread, LocalAct
<1>2. ASSUME NEW p \in Processes, Die(p) PROVE Goal
  <2>1. /\ Live(p) /\ Ends(p, chan) /\ UNCHANGED waitNum
        /\ UNCHANGED <<tick, when, caller, exiting, isAbort, doing, thread, saved>>
    BY <1>2 DEF Die, syncVars
  <2> QED
    BY <2>1, <1>0
<1>3. ASSUME NEW l \in Links, RecvThread(l) PROVE Goal
  <2>1. CASE pushPacket(l)
    BY <2>1, PushPacketEffect
  <2>2. CASE progress(l)
    BY <2>2, LinkEnds, NodeHearsEffect, SwitchHearsEffect
  <2> QED
    BY <1>3, <2>1, <2>2 DEF RecvThread
<1>4. ASSUME NEW l \in Links, transmit(l) PROVE Goal
  BY <1>4, TransmitEffect
<1>5. ASSUME NEW l \in Links, transmitFails(l) PROVE Goal
  <2>1. /\ From(l) \in Processes /\ Live(From(l)) /\ Ends(From(l), chan) /\ UNCHANGED waitNum
        /\ UNCHANGED <<tick, when, caller, exiting, isAbort, doing, thread, saved>>
    BY <1>5, LinkEnds DEF transmitFails, CanTransmit, Simulating, Live, syncVars
  <2> QED
    BY <2>1, <1>0
<1>6. ASSUME NEW n \in Nodes, NEW op \in Ops, NEW req \in ReqTypes, request(n, op, req)
      PROVE  Goal
  <2>1. n \in Processes /\ LocalAct(n)
    BY <1>6, LinkEnds DEF LocalAct
  <2> QED
    BY <2>1
<1> HIDE DEF Goal
<1>7. Goal
  BY <1>1, <1>2, <1>3, <1>4, <1>5, <1>6 DEF Next
<1> QED
  BY <1>7 DEF Goal
-----------------------------------------------------------------------------
(* Every step preserves what the invariant says of checkpoints. *)

LEMMA LocalWritten ==
    ASSUME SyncInv, NEW p \in Processes, LocalAct(p)
    PROVE  Written(p)' = Written(p) \/ (isAbort[p] /\ Written(p)' >= Written(p))
<1>0. /\ StateOK /\ saved[p] \in Nat /\ (pc[p] = "return" => p = Switch)
      /\ UNCHANGED waitNum /\ UNCHANGED isAbort
  <2>1. ProcessOK(p) /\ StateOK
    BY DEF SyncInv
  <2>2. pc[p] = "return" => p = Switch
    BY <2>1 DEF ProcessOK, Live
  <2> QED
    BY <2>1, <2>2, LocalFrame DEF StateOK, Quiet
<1>1. CASE Advance(p) \/ (\E l \in Links : To(l) = p /\ rxDone(l))
           \/ (ExitEvent(p) /\ pc[p] = "drain")
           \/ (p \in Nodes /\ \E op \in Ops, req \in ReqTypes : request(p, op, req))
  <2>1. UNCHANGED <<pc, caller, saved>>
    BY <1>1 DEF Advance, rxDone, ExitEvent, request, simVars
  <2> QED
    BY <2>1, <1>0 DEF Written, Completed
<1>2. CASE SyncProcess(p) /\ pc[p] # "drain"
  <2>1. pc'[p] = "run" /\ pc[p] = "simulate" /\ UNCHANGED saved
    BY <1>0, <1>2 DEF SyncProcess, StateOK
  <2> QED
    BY <2>1 DEF Written, Completed
<1>3. CASE drainComplete(p)
  <2>1. pc'[p] = "run" /\ pc[p] = "drain" /\ UNCHANGED saved
    BY <1>0, <1>3 DEF drainComplete, StateOK
  <2> QED
    BY <2>1 DEF Written, Completed
<1>4. CASE serialize(p)
  <2>1. pc'[p] = "simulate" /\ pc[p] = "save" /\ saved'[p] = saved[p] + 1
    BY <1>0, <1>4 DEF serialize, StateOK
  <2> QED
    BY <2>1 DEF Written, Completed
<1>5. CASE StartReturns(p) /\ ~Aborted(p)
  <2>1. /\ pc'[p] = "simulate" /\ pc[p] # "save" /\ caller[p] = "start" /\ UNCHANGED saved
    BY <1>0, <1>5 DEF StartReturns, StateOK, Completed
  <2> QED
    BY <2>1 DEF Written, Completed
<1>6. CASE ProcessReturns(p)
  <2>1. /\ pc'[p] \in {"unsynced", "drain", "simulate"} /\ pc[p] # "save"
        /\ caller[p] = "process" /\ UNCHANGED saved
    BY <1>0, <1>6 DEF ProcessReturns, StateOK, Completed, Aborted
  <2> QED
    BY <2>1 DEF Written, Completed
<1>7. CASE DrainReturns(p)
  <2>1. /\ pc'[p] = "save" /\ caller[p] = "drainComplete" /\ UNCHANGED saved
        /\ Completed(p) \/ isAbort[p]
    BY <1>0, <1>7 DEF DrainReturns, StateOK, Aborted
  <2>2. Written(p)' = saved[p] + 1
    BY <2>1 DEF Written
  <2>3. Completed(p) => Written(p) = saved[p] + 1
    BY <2>1 DEF Written
  <2>4. Written(p) \in {saved[p], saved[p] + 1}
    BY DEF Written
  <2> QED
    BY <2>1, <2>2, <2>3, <2>4, <1>0
<1> QED
  BY <1>1, <1>2, <1>3, <1>4, <1>5, <1>6, <1>7 DEF LocalAct

LEMMA LocalActCkpt ==
    ASSUME SyncInv, SyncInv', CkptInv, NEW p \in Processes, LocalAct(p)
    PROVE  CkptInv'
<1>1. /\ Others(p) /\ Quiet /\ Live(p)' /\ Live(p) /\ (p \in Nodes => AcksIn(p) = {})
  BY LocalFrame DEF Busy
<1>2. (\A q \in Processes \ {p} : Keeps(q)) /\ UNCHANGED <<chan, thread, isAbort>>
  BY <1>1 DEF Others, Quiet
<1> QED
  BY <1>1, <1>2, LocalWritten, LocalCkpt

LEMMA GoneCkpt ==
    ASSUME SyncInv, SyncInv', CkptInv, NEW p \in Processes, Gone(p)
    PROVE  CkptInv'
<1>1. /\ ~Live(p)' /\ (\A q \in Processes \ {p} : Keeps(q)) /\ UNCHANGED <<thread, isAbort>>
      /\ \A n \in Nodes \ {p} : Down(n)' = Down(n)
      /\ p # Switch => \A n \in Nodes : Up(n)' = Up(n)
  BY DEF Gone, Others
<1> QED
  BY <1>1, EndsCkpt

\* The streams of the other nodes, and what else may change.
LEMMA OtherCkpt ==
    ASSUME SyncInv, SyncInv', NEW n \in Nodes, SavesOK(n), EpochOK(n), LostOK(n),
           \A q \in Nodes : Live(q)' <=> Live(q), Live(Switch)' <=> Live(Switch),
           thread'[<<n, Switch>>] = "lost" => thread[<<n, Switch>>] = "lost",
           isAbort'[Switch] = isAbort[Switch],
           Written(Switch)' = Written(Switch),
           Written(n)' = Written(n), AckWritten(n)' = AckWritten(n),
           Down(n)' = Down(n), Up(n)' = Up(n)
    PROVE  SavesOK(n)' /\ EpochOK(n)' /\ LostOK(n)'
<1>1. Written(Switch) \in Nat
  BY WrittenTypes, LinkEnds
<1>2. SavesOK(n)' /\ EpochOK(n)'
  BY <1>1, WrittenFrame
<1>3. LostOK(n)'
  BY DEF LostOK
<1> QED
  BY <1>2, <1>3

LEMMA AsksCkpt ==
    ASSUME SyncInv, SyncInv', CkptInv, NEW n \in Nodes, Asks(n)
    PROVE  CkptInv'
<1>0. /\ n \in Processes /\ n # Switch /\ Switch \in Processes
      /\ \A k \in Nodes : k \in Processes
  BY LinkEnds
<1>1. /\ Others(n) /\ UNCHANGED <<thread, isAbort, saved, caller>>
      /\ pc[n] = "run" /\ pc'[n] = "wait" /\ waitNum'[n] = 1
      /\ \A k \in Nodes : Down(k)' = Down(k)
      /\ \A k \in Nodes \ {n} : Up(k)' = Up(k)
      /\ Up(n)' = Up(n) \/ \E m \in Req : Up(n)' = Append(Up(n), m)
  BY DEF Asks
<1>2. \A q \in Processes : /\ Written(q)' = Written(q) /\ AckWritten(q)' = AckWritten(q)
                           /\ Live(q)' <=> Live(q)
  <2>1. \A q \in Processes \ {n} : /\ Written(q)' = Written(q) /\ AckWritten(q)' = AckWritten(q)
                                   /\ Live(q)' <=> Live(q)
    BY <1>1, KeepsWritten DEF Others
  <2>2. /\ Written(n)' = Written(n) /\ AckWritten(n)' = AckWritten(n)
        /\ Live(n)' <=> Live(n)
    BY <1>1, <1>0 DEF Written, AckWritten, Completed, Live
  <2> QED
    BY <2>1, <2>2
<1>3. ASSUME NEW k \in Nodes PROVE SavesOK(k)' /\ EpochOK(k)' /\ LostOK(k)'
  <2>0. SavesOK(k) /\ EpochOK(k) /\ LostOK(k)
    BY DEF CkptInv
  <2>1. CASE k # n
    BY <2>0, <2>1, <1>0, <1>1, <1>2, OtherCkpt
  <2>2. CASE k = n
    <3>1. SavesOK(k)' /\ LostOK(k)'
      BY <2>0, <1>0, <1>1, <1>2 DEF SavesOK, LostOK, Agree, AcksIn
    <3>2. ASSUME ~isAbort[Switch] PROVE Parts(Up(n)', Since(Written(Switch)), {})
      <4>1. Parts(Up(n), Since(Written(Switch)), {})
        BY <2>0, <2>2, <3>2 DEF EpochOK
      <4>2. /\ Up(n) \in Seq(Data(<<n, Switch>>) \cup Req)
            /\ \A m \in Req : m.type # "data"
        BY StreamTypes DEF SyncInv, Req
      <4>3. ASSUME NEW m \in Req, Up(n)' = Append(Up(n), m)
            PROVE  Parts(Up(n)', Since(Written(Switch)), {})
        <5>1. m \in Data(<<n, Switch>>) \cup Req /\ m.type # "data"
          BY <4>2
        <5> QED
          BY <5>1, <4>1, <4>2, <4>3, PartsAppend
      <4> QED
        BY <4>1, <4>3, <1>1
    <3>3. Parts(Down(n), Since(Written(n)), Since(AckWritten(n)))
      BY <2>0, <2>2 DEF EpochOK
    <3>4. EpochOK(k)'
      BY <2>2, <3>2, <3>3, <1>0, <1>1, <1>2 DEF EpochOK, Since, Data
    <3> QED
      BY <3>1, <3>4
  <2> QED
    BY <2>1, <2>2
<1> QED
  BY <1>3 DEF CkptInv

LEMMA CountsCkpt ==
    ASSUME SyncInv, SyncInv', CkptInv, NEW n \in Nodes, Counts(n)
    PROVE  CkptInv'
<1>0. /\ n \in Processes /\ n # Switch /\ Switch \in Processes
      /\ \A k \in Nodes : k \in Processes /\ <<k, Switch>> \in Links
  BY LinkEnds
<1>1. /\ UNCHANGED <<isAbort, pc, caller, saved>>
      /\ \A k \in Links : thread'[k] = "lost" => thread[k] = "lost"
      /\ Up(n)' = <<>> /\ \A k \in Nodes : Down(k)' = Down(k)
      /\ \A k \in Nodes \ {n} : Up(k)' = Up(k)
      /\ \A q \in Processes \ {Switch} : Keeps(q)
  BY DEF Counts, Others
<1>2. \A q \in Processes : /\ Written(q)' = Written(q) /\ AckWritten(q)' = AckWritten(q)
                           /\ Live(q)' <=> Live(q)
  <2>1. \A q \in Processes \ {Switch} :
           /\ Written(q)' = Written(q) /\ AckWritten(q)' = AckWritten(q)
           /\ Live(q)' <=> Live(q)
    BY <1>1, KeepsWritten
  <2>2. /\ Written(Switch)' = Written(Switch) /\ AckWritten(Switch)' = AckWritten(Switch)
        /\ Live(Switch)' <=> Live(Switch)
    BY <1>1, Consts DEF Written, AckWritten, Completed, Live
  <2> QED
    BY <2>1, <2>2
<1>3. ASSUME NEW k \in Nodes PROVE SavesOK(k)' /\ EpochOK(k)' /\ LostOK(k)'
  <2>0. SavesOK(k) /\ EpochOK(k) /\ LostOK(k)
    BY DEF CkptInv
  <2>1. CASE k # n
    BY <2>0, <2>1, <1>0, <1>1, <1>2, OtherCkpt
  <2>2. CASE k = n
    <3>1. SavesOK(k)' /\ LostOK(k)'
      BY <2>0, <1>0, <1>1, <1>2 DEF SavesOK, LostOK, Agree, AcksIn
    <3>2. EpochOK(k)'
      BY <2>0, <2>2, <1>0, <1>1, <1>2, PartsEmpty DEF EpochOK, Since, Data
    <3> QED
      BY <3>1, <3>2
  <2> QED
    BY <2>1, <2>2
<1> QED
  BY <1>3 DEF CkptInv

LEMMA HearsCkpt ==
    ASSUME SyncInv, SyncInv', CkptInv, NEW n \in Nodes, NEW m \in Ack, Hears(n, m)
    PROVE  CkptInv'
<1>0. /\ n \in Processes /\ n # Switch /\ Switch \in Processes
      /\ \A k \in Nodes : k \in Processes /\ <<k, Switch>> \in Links
  BY LinkEnds
<1>1. /\ UNCHANGED <<isAbort, pc, caller, saved>>
      /\ \A k \in Links : thread'[k] = "lost" => thread[k] = "lost"
      /\ Down(n) # <<>> /\ m = Head(Down(n)) /\ m \in AcksIn(n)
      /\ Down(n)' = Tail(Down(n)) /\ AcksIn(n)' = {}
      /\ waitNum'[n] = 0 /\ pc[n] = "wait" /\ ~isAbort[n]
      /\ \A k \in Nodes : Up(k)' = Up(k)
      /\ \A k \in Nodes \ {n} : Down(k)' = Down(k)
      /\ \A q \in Processes \ {n} : Keeps(q)
  BY DEF Hears, Others, Waiting
<1>2. /\ \A q \in Processes : Live(q)' <=> Live(q)
      /\ \A q \in Processes \ {n} : Written(q)' = Written(q) /\ AckWritten(q)' = AckWritten(q)
  BY <1>1, KeepsWritten DEF Live
<1>3. Written(n)' = AckWritten(n) /\ AckWritten(n)' = AckWritten(n)
  BY <1>0, <1>1 DEF Written, AckWritten, Completed
<1>4. ASSUME NEW k \in Nodes PROVE SavesOK(k)' /\ EpochOK(k)' /\ LostOK(k)'
  <2>0. SavesOK(k) /\ EpochOK(k) /\ LostOK(k)
    BY DEF CkptInv
  <2>1. CASE k # n
    <3>1. /\ Written(k)' = Written(k) /\ AckWritten(k)' = AckWritten(k)
          /\ Written(Switch)' = Written(Switch) /\ Down(k)' = Down(k) /\ Up(k)' = Up(k)
          /\ isAbort'[Switch] = isAbort[Switch]
          /\ thread'[<<k, Switch>>] = "lost" => thread[<<k, Switch>>] = "lost"
      BY <2>1, <1>0, <1>1, <1>2
    <3> QED
      BY <2>0, <3>1, <1>0, <1>2, OtherCkpt
  <2>2. CASE k = n
    <3>0. Written(Switch)' = Written(Switch) /\ AcksIn(n) # {}
      BY <1>0, <1>1, <1>2
    <3>1. SavesOK(n)' /\ LostOK(n)'
      BY <2>0, <2>2, <3>0, <1>0, <1>1, <1>2, <1>3 DEF SavesOK, LostOK, Agree
    <3>2. Parts(Tail(Down(n)), Since(AckWritten(n)), Since(AckWritten(n)))
      <4>1. Down(n) \in Seq(Wire(<<Switch, n>>)) /\ Head(Down(n)).type = "ack"
        BY <1>1, StreamTypes DEF SyncInv, AcksIn
      <4>2. Parts(Down(n), Since(Written(n)), Since(AckWritten(n)))
        BY <2>0, <2>2 DEF EpochOK
      <4> QED
        BY <4>1, <4>2, <1>1, PartsTail
    <3>3. EpochOK(n)'
      BY <2>0, <2>2, <3>0, <3>2, <1>1, <1>3 DEF EpochOK, Since, Data
    <3> QED
      BY <2>2, <3>1, <3>3
  <2> QED
    BY <2>1, <2>2
<1> QED
  BY <1>4 DEF CkptInv

LEMMA AnswersCkpt ==
    ASSUME SyncInv, SyncInv', CkptInv, NEW m \in Ack,
           NEW S \in SUBSET {n \in Nodes : Live(n)}, Answers(m, S)
    PROVE  CkptInv'
<1>0. /\ Switch \in Processes
      /\ \A k \in Nodes : k \in Processes /\ k # Switch
  BY LinkEnds
<1>1. /\ UNCHANGED <<isAbort, thread, caller, saved>>
      /\ (\A q \in Processes \ {Switch} : Keeps(q))
      /\ pc[Switch] = "run" /\ ~isAbort[Switch] /\ Live(Switch) /\ ~Completed(Switch)
  BY DEF Answers, Others
<1>2. ASSUME NEW n \in Nodes
      PROVE  /\ Up(n) = <<>> /\ Up(n)' = <<>>
             /\ Down(n)' = IF n \in S THEN Append(Down(n), m) ELSE Down(n)
             /\ AcksIn(n)' = IF n \in S THEN {m} ELSE AcksIn(n)
             /\ Live(n) => Waiting(n) /\ AcksIn(n) = {} /\ caller[n] = caller[Switch]
  BY DEF Answers
<1>3. \A n \in Nodes : /\ Written(n)' = Written(n) /\ AckWritten(n)' = AckWritten(n)
                       /\ Live(n)' <=> Live(n)
  BY <1>0, <1>1, KeepsWritten
<1>4. CASE pc'[Switch] = "exited"
  <2>1. ~Live(Switch)' /\ UNCHANGED <<thread, isAbort>>
    BY <1>1, <1>4 DEF Live
  <2>2. \A n \in Nodes \ {Switch} : \/ Down(n)' = Down(n)
                                    \/ \E x \in Ack : Down(n)' = Append(Down(n), x)
    BY <1>2
  <2> QED
    BY <2>1, <2>2, <1>0, <1>1, EndsCkpt
<1>5. CASE pc'[Switch] = "return" /\ S = {n \in Nodes : Live(n)}
  <2>1. /\ Written(Switch) = saved[Switch]
        /\ Written(Switch)' = IF caller[Switch] = "drainComplete" THEN saved[Switch] + 1
                              ELSE saved[Switch]
        /\ Live(Switch)' /\ saved[Switch] \in Nat
    BY <1>0, <1>1, <1>5 DEF Written, Completed, Live, SyncInv, StateOK
  <2>2. ASSUME NEW n \in Nodes PROVE SavesOK(n)' /\ EpochOK(n)' /\ LostOK(n)'
    <3>0. SavesOK(n) /\ EpochOK(n) /\ LostOK(n) /\ saved[n] \in Nat
      BY <1>0 DEF CkptInv, SyncInv, StateOK
    <3>1. LostOK(n)'
      BY <3>0, <1>1, <1>3 DEF LostOK
    <3>2. SavesOK(n)'
      <4> SUFFICES ASSUME Live(n)'
                   PROVE  Agree(IF AcksIn(n) = {} THEN Written(n) ELSE AckWritten(n))'
        BY DEF SavesOK
      <4>1. Live(n) /\ n \in S /\ Waiting(n) /\ caller[n] = caller[Switch] /\ AcksIn(n) = {}
            /\ AcksIn(n)' # {}
        BY <1>2, <1>3, <1>5
      <4>2. Written(n) = saved[n]
        BY <4>1, <1>0 DEF Written, Waiting, Completed
      <4>3. saved[n] = saved[Switch]
        BY <4>1, <4>2, <3>0, <2>1, <1>1 DEF SavesOK, Agree
      <4>4. AckWritten(n)' = Written(Switch)'
        BY <4>1, <4>3, <2>1, <1>3 DEF AckWritten
      <4>5. Written(Switch)' \in Nat
        BY <2>1
      <4> QED
        BY <4>1, <4>4, <4>5 DEF Agree
    <3>3. Parts(Down(n)', Since(Written(n)), Since(AckWritten(n)))
      <4>1. Parts(Down(n), Since(Written(n)), Since(AckWritten(n)))
        BY <3>0 DEF EpochOK
      <4>2. CASE n \in S
        <5>1. /\ Down(n) \in Seq(Wire(<<Switch, n>>)) /\ m \in Wire(<<Switch, n>>)
              /\ m.type # "data"
          BY StreamTypes DEF SyncInv, Ack
        <5>2. Down(n)' = Append(Down(n), m)
          BY <4>2, <1>2
        <5>3. Parts(Append(Down(n), m), Since(Written(n)), Since(AckWritten(n)))
          BY <4>1, <5>1, PartsAppend
        <5> QED
          BY <5>2, <5>3
      <4>3. CASE n \notin S
        <5>1. Down(n)' = Down(n)
          BY <4>3, <1>2
        <5> QED
          BY <4>1, <5>1
      <4> QED
        BY <4>2, <4>3
    <3>4. /\ Up(n)' = <<>> /\ Written(n)' = Written(n) /\ AckWritten(n)' = AckWritten(n)
          /\ Parts(<<>>, Since(Written(Switch)'), {})
      BY <1>2, <1>3, PartsEmpty
    <3>5. EpochOK(n)'
      BY <3>3, <3>4 DEF EpochOK, Since, Data
    <3> QED
      BY <3>1, <3>2, <3>5
  <2> QED
    BY <2>2 DEF CkptInv
<1> QED
  BY <1>4, <1>5 DEF Answers

LEMMA SendsCkpt ==
    ASSUME SyncInv, SyncInv', CkptInv, NEW l \in Links, NEW m \in Data(Switch), Sends(l, m)
    PROVE  CkptInv'
<1>0. /\ Switch \in Processes /\ From(l) \in Processes
      /\ \A k \in Nodes : k \in Processes /\ k # Switch
  BY LinkEnds
<1>1. /\ UNCHANGED <<isAbort, thread>> /\ m.epoch = saved[From(l)] /\ Simulating(From(l))
      /\ \A k \in Links : chan'[k] = IF k = l /\ Live(To(l)) THEN Append(chan[k], m) ELSE chan[k]
      /\ \A q \in Processes : Keeps(q)
      /\ m.type = "data"
  BY DEF Sends, Nobody, Data
<1>2. \A q \in Processes : /\ Written(q)' = Written(q) /\ AckWritten(q)' = AckWritten(q)
                           /\ Live(q)' <=> Live(q)
  BY <1>1, KeepsWritten
<1>3. /\ Written(From(l)) = m.epoch /\ Live(From(l)) /\ Busy(From(l))
  BY <1>1 DEF Written, Completed, Simulating, Live, Busy, Waiting
<1>4. \A c \in Nat : c <= m.epoch => m \in Since(c)
  <2>1. m.epoch \in Nat
    BY DEF Data
  <2> QED
    BY <2>1 DEF Since
<1>5. \A q \in Processes : Written(q) \in Nat /\ AckWritten(q) \in Nat
  BY WrittenTypes
<1>6. ASSUME NEW n \in Nodes PROVE SavesOK(n)' /\ EpochOK(n)' /\ LostOK(n)'
  <2>0. /\ SavesOK(n) /\ EpochOK(n) /\ LostOK(n)
        /\ <<n, Switch>> \in Links /\ <<Switch, n>> \in Links
        /\ Up(n) \in Seq(Data(<<n, Switch>>) \cup Req)
        /\ Down(n) \in Seq(Data(<<Switch, n>>) \cup Ack)
        /\ Data(<<n, Switch>>) = Data(Switch) /\ Data(<<Switch, n>>) = Data(Switch)
    BY LinkEnds, StreamTypes DEF CkptInv, SyncInv, Data
  <2>1. LostOK(n)'
    BY <2>0, <1>0, <1>1, <1>2 DEF LostOK
  <2>2. CASE l = <<n, Switch>> /\ Live(Switch)
    <3>1. Up(n)' = Append(Up(n), m) /\ Down(n)' = Down(n) /\ From(l) = n /\ n \in Processes
      BY <2>0, <2>2, <1>1, LinkEnds DEF Up, Down
    <3>2. AcksIn(n)' = AcksIn(n) /\ AcksIn(n) = {}
      BY <3>1, <1>3, BusyNode DEF AcksIn
    <3>3. SavesOK(n)'
      BY <3>2, <2>0, <1>0, <1>1, <1>2 DEF SavesOK, Agree
    <3>4. ASSUME ~isAbort[Switch] PROVE Parts(Up(n)', Since(Written(Switch)), {})
      <4>1. Written(n) = Written(Switch)
        BY <3>1, <3>2, <3>4, <2>0, <2>2, <1>3 DEF SavesOK, Agree
      <4>2. m \in Since(Written(Switch))
        BY <4>1, <3>1, <1>0, <1>3, <1>4, <1>5
      <4>3. \A x \in Msgs(Up(n)) : x.type # "ack"
        <5>1. \A x \in Data(<<n, Switch>>) \cup Req : x.type # "ack"
          BY DEF Data, Req
        <5>2. \A x \in Msgs(Up(n)) : x \in Data(<<n, Switch>>) \cup Req
          BY <2>0 DEF Msgs
        <5> QED
          BY <5>1, <5>2
      <4>4. Parts(Up(n), Since(Written(Switch)), {})
        BY <2>0, <3>4 DEF EpochOK
      <4>5. m \in Data(<<n, Switch>>) \cup Req
        BY <2>0
      <4> QED
        BY <4>2, <4>3, <4>4, <4>5, <3>1, <2>0, PartsAppend
    <3>5. EpochOK(n)'
      BY ZenonT(40), <3>1, <3>4, <2>0, <1>0, <1>1, <1>2 DEF EpochOK, Since, Data
    <3> QED
      BY <3>3, <3>5, <2>1
  <2>3. CASE l = <<Switch, n>> /\ Live(n)
    <3>1. Up(n)' = Up(n) /\ Down(n)' = Append(Down(n), m) /\ From(l) = Switch
      BY <2>0, <2>3, <1>1, LinkEnds DEF Up, Down
    <3>2. m \in Data(<<Switch, n>>) \cup Ack
      BY <2>0
    <3>3. Msgs(Append(Down(n), m)) = Msgs(Down(n)) \cup {m}
      BY <3>2, <2>0, MsgsAppend
    <3>4. AcksIn(n)' = AcksIn(n)
      BY <3>1, <3>3, <1>1 DEF AcksIn
    <3>5. SavesOK(n)'
      BY <3>4, <2>0, <1>0, <1>1, <1>2 DEF SavesOK, Agree
    <3>6. Agree(IF AcksIn(n) = {} THEN Written(n) ELSE AckWritten(n))
      BY <2>0, <2>3, <3>1, <1>3 DEF SavesOK
    <3>7. IF \E x \in Msgs(Down(n)) : x.type = "ack" THEN m \in Since(AckWritten(n))
          ELSE m \in Since(Written(n))
      BY <3>1, <3>6, <1>0, <1>3, <1>4, <1>5 DEF Agree, AcksIn
    <3>8. Parts(Down(n)', Since(Written(n)), Since(AckWritten(n)))
      <4>1. Parts(Down(n), Since(Written(n)), Since(AckWritten(n)))
        BY <2>0 DEF EpochOK
      <4> QED
        BY <4>1, <3>1, <3>2, <3>7, <2>0, PartsAppend
    <3>9. /\ ~isAbort[Switch] => Parts(Up(n), Since(Written(Switch)), {})
          /\ Written(n)' = Written(n) /\ AckWritten(n)' = AckWritten(n)
          /\ Written(Switch)' = Written(Switch) /\ isAbort' = isAbort
      BY <2>0, <1>0, <1>1, <1>2 DEF EpochOK
    <3>10. EpochOK(n)'
      BY <3>1, <3>8, <3>9 DEF EpochOK, Since, Data
    <3> QED
      BY <3>5, <3>10, <2>1
  <2>4. CASE ~(l = <<n, Switch>> /\ Live(Switch)) /\ ~(l = <<Switch, n>> /\ Live(n))
    <3>1. Up(n)' = Up(n) /\ Down(n)' = Down(n)
      BY <2>0, <2>4, <1>1, LinkEnds DEF Up, Down
    <3> QED
      BY <3>1, <2>0, <1>0, <1>1, <1>2, OtherCkpt
  <2> QED
    BY <2>2, <2>3, <2>4
<1> QED
  BY <1>6 DEF CkptInv

LEMMA TakesCkpt ==
    ASSUME SyncInv, SyncInv', CkptInv, NEW l \in Links, Takes(l)
    PROVE  CkptInv'
<1>0. /\ Switch \in Processes
      /\ \A k \in Nodes : k \in Processes /\ k # Switch
  BY LinkEnds
<1>1. /\ UNCHANGED <<isAbort, thread>> /\ chan[l] # <<>> /\ Head(chan[l]).type = "data"
      /\ \A k \in Links : chan'[k] = IF k = l THEN Tail(chan[l]) ELSE chan[k]
      /\ \A q \in Processes : Keeps(q)
  BY DEF Takes, Nobody
<1>2. \A q \in Processes : /\ Written(q)' = Written(q) /\ AckWritten(q)' = AckWritten(q)
                           /\ Live(q)' <=> Live(q)
  BY <1>1, KeepsWritten
<1>3. ASSUME NEW n \in Nodes PROVE SavesOK(n)' /\ EpochOK(n)' /\ LostOK(n)'
  <2>0. /\ SavesOK(n) /\ EpochOK(n) /\ LostOK(n)
        /\ <<n, Switch>> \in Links /\ <<Switch, n>> \in Links
        /\ Up(n) \in Seq(Wire(<<n, Switch>>)) /\ Down(n) \in Seq(Wire(<<Switch, n>>))
    BY LinkEnds, StreamTypes DEF CkptInv, SyncInv
  <2>1. LostOK(n)'
    BY <2>0, <1>0, <1>1, <1>2 DEF LostOK
  <2>2. /\ Parts(Down(n), Since(Written(n)), Since(AckWritten(n)))
        /\ ~isAbort[Switch] => Parts(Up(n), Since(Written(Switch)), {})
    BY <2>0 DEF EpochOK
  <2>3. /\ Written(n)' = Written(n) /\ AckWritten(n)' = AckWritten(n)
        /\ Written(Switch)' = Written(Switch) /\ isAbort' = isAbort
        /\ (Live(n)' <=> Live(n)) /\ (Live(Switch)' <=> Live(Switch))
    BY <1>0, <1>1, <1>2
  <2>4. CASE l = <<n, Switch>>
    <3>1. /\ Up(n)' = Tail(Up(n)) /\ Down(n)' = Down(n) /\ Up(n) # <<>>
          /\ Head(Up(n)).type = "data"
      BY <2>0, <2>4, <1>1, LinkEnds DEF Up, Down
    <3>2. ~isAbort[Switch] => Parts(Tail(Up(n)), Since(Written(Switch)), {})
      BY <3>1, <2>0, <2>2, PartsTail
    <3>3. EpochOK(n)'
      BY <3>1, <3>2, <2>2, <2>3 DEF EpochOK, Since, Data
    <3>4. SavesOK(n)'
      BY <3>1, <2>0, <2>3 DEF SavesOK, Agree, AcksIn
    <3> QED
      BY <3>3, <3>4, <2>1
  <2>5. CASE l = <<Switch, n>>
    <3>1. /\ Down(n)' = Tail(Down(n)) /\ Up(n)' = Up(n) /\ Down(n) # <<>>
          /\ Head(Down(n)).type = "data"
      BY <2>0, <2>5, <1>1, LinkEnds DEF Up, Down
    <3>2. Parts(Tail(Down(n)), Since(Written(n)), Since(AckWritten(n)))
      BY <3>1, <2>0, <2>2, PartsTail
    <3>3. EpochOK(n)'
      BY <3>1, <3>2, <2>2, <2>3 DEF EpochOK, Since, Data
    <3>4. AcksIn(n)' = AcksIn(n)
      <4>1. /\ Msgs(Tail(Down(n))) \subseteq Msgs(Down(n))
            /\ \A m \in Msgs(Down(n)) : m = Head(Down(n)) \/ m \in Msgs(Tail(Down(n)))
        BY <3>1, <2>0, MsgsTail
      <4> QED
        BY <4>1, <3>1 DEF AcksIn
    <3>5. SavesOK(n)'
      BY <3>4, <2>0, <2>3 DEF SavesOK, Agree
    <3> QED
      BY <3>3, <3>5, <2>1
  <2>6. CASE l # <<n, Switch>> /\ l # <<Switch, n>>
    <3>1. Up(n)' = Up(n) /\ Down(n)' = Down(n)
      BY <2>0, <2>6, <1>1 DEF Up, Down
    <3> QED
      BY <3>1, <2>0, <1>0, <1>1, <1>2, OtherCkpt
  <2> QED
    BY <2>4, <2>5, <2>6
<1> QED
  BY <1>3 DEF CkptInv

LEMMA ConnectionLostCkpt ==
    ASSUME SyncInv, SyncInv', CkptInv, NEW l \in Links, ConnectionLost(l)
    PROVE  CkptInv'
<1>0. /\ Switch \in Processes
      /\ \A k \in Nodes : /\ k \in Processes /\ k # Switch /\ <<k, Switch>> \in Links
                          /\ From(<<k, Switch>>) = k
  BY LinkEnds
<1>1. /\ UNCHANGED <<tick, when, pc, caller, waitNum, isAbort, doing, chan, saved>>
      /\ ~Live(From(l)) /\ thread' = [thread EXCEPT ![l] = "lost"]
  BY DEF ConnectionLost, syncVars
<1>2. \A q \in Processes : Keeps(q)
  BY <1>1 DEF Keeps, Same
<1>3. \A q \in Processes : /\ Written(q)' = Written(q) /\ AckWritten(q)' = AckWritten(q)
                           /\ Live(q)' <=> Live(q)
  BY <1>2, KeepsWritten
<1>4. ASSUME NEW n \in Nodes PROVE SavesOK(n)' /\ EpochOK(n)' /\ LostOK(n)'
  <2>0. SavesOK(n) /\ EpochOK(n) /\ LostOK(n)
    BY DEF CkptInv
  <2>1. Down(n)' = Down(n) /\ Up(n)' = Up(n) /\ Written(Switch) \in Nat
    BY <1>0, <1>1, WrittenTypes DEF Up, Down
  <2>2. SavesOK(n)' /\ EpochOK(n)'
    <3>1. /\ (Live(n)' => Live(n)) /\ (Live(Switch)' => Live(Switch))
          /\ isAbort[Switch] => isAbort'[Switch]
          /\ Written(Switch)' = Written(Switch)
          /\ Written(n)' = Written(n) /\ AckWritten(n)' = AckWritten(n)
      BY <2>1, <1>0, <1>1, <1>3
    <3>2. Written(Switch) <= Written(Switch)'
      BY <3>1, <2>1
    <3> QED
      BY <2>0, <2>1, <3>1, <3>2, WrittenFrame
  <2>3. thread \in [Links -> {"recv", "lost", "done"}]
    BY DEF SyncInv, StateOK
  <2>4. thread'[<<n, Switch>>] = "lost" => thread[<<n, Switch>>] = "lost" \/ ~Live(n)
    BY <2>3, <1>0, <1>1
  <2>5. LostOK(n)'
    BY <2>0, <2>4, <1>0, <1>1, <1>3 DEF LostOK
  <2> QED
    BY <2>2, <2>5
<1> QED
  BY <1>4 DEF CkptInv

LEMMA AbortCkpt ==
    ASSUME SyncInv, SyncInv', CkptInv, NEW l \in Links, abort(l)
    PROVE  CkptInv'
<1>0. /\ Switch \in Processes /\ To(l) \in Processes
      /\ \A k \in Nodes : /\ k \in Processes /\ k # Switch /\ <<k, Switch>> \in Links
                          /\ From(<<k, Switch>>) = k
  BY LinkEnds
<1>1. /\ UNCHANGED <<pc, caller, chan, saved>> /\ thread[l] = "lost"
      /\ waitNum' = [waitNum EXCEPT ![To(l)] = 0]
      /\ isAbort' = [isAbort EXCEPT ![To(l)] = TRUE]
      /\ thread' = [thread EXCEPT ![l] = "done"]
  BY DEF abort, simVars
<1>2. StateOK
  BY DEF SyncInv
<1>3. /\ \A q \in Processes : AckWritten(q)' = AckWritten(q) /\ (Live(q)' <=> Live(q))
      /\ \A q \in Processes \ {To(l)} : Written(q)' = Written(q)
      /\ Written(Switch)' = Written(Switch) /\ Written(Switch) \in Nat
      /\ isAbort[Switch] => isAbort'[Switch]
  <2>1. \A q \in Processes \ {To(l)} : waitNum'[q] = waitNum[q] /\ isAbort'[q] = isAbort[q]
    BY <1>1, <1>2 DEF StateOK
  <2>2. Written(Switch)' = Written(Switch)
    BY <1>1, Consts DEF Written, Completed
  <2>3. \A q \in Processes \ {To(l)} : Written(q)' = Written(q)
    BY <2>1, <1>1 DEF Written, Completed
  <2>4. isAbort[Switch] => isAbort'[Switch]
    BY <1>0, <1>1, <1>2 DEF StateOK
  <2> QED
    BY <2>2, <2>3, <2>4, <1>0, <1>1, WrittenTypes DEF AckWritten, Live
<1>4. ASSUME NEW n \in Nodes PROVE SavesOK(n)' /\ EpochOK(n)' /\ LostOK(n)'
  <2>0. SavesOK(n) /\ EpochOK(n) /\ LostOK(n)
    BY DEF CkptInv
  <2>1. Down(n)' = Down(n) /\ Up(n)' = Up(n)
    BY <1>0, <1>1 DEF Up, Down
  <2>2. To(l) = n => ~Live(Switch) /\ Down(n) = <<>>
    <3>1. To(l) = n => l = <<Switch, n>>
      BY LinkTo
    <3>2. NodeOK(n)
      BY DEF SyncInv
    <3> QED
      BY <3>1, <3>2, <1>1 DEF NodeOK
  <2>3. Written(n)' = Written(n) \/ (~Live(Switch) /\ Down(n) = <<>>)
    BY <2>2, <1>0, <1>3
  <2>4. SavesOK(n)' /\ EpochOK(n)'
    <3>1. /\ (Live(n)' => Live(n)) /\ (Live(Switch)' => Live(Switch))
          /\ isAbort[Switch] => isAbort'[Switch]
          /\ Written(Switch)' = Written(Switch)
          /\ AckWritten(n)' = AckWritten(n)
      BY <1>0, <1>3
    <3>2. Written(Switch) <= Written(Switch)'
      BY <3>1, <1>3
    <3> QED
      BY <2>0, <2>1, <2>3, <3>1, <3>2, WrittenFrame
  <2>5. thread'[<<n, Switch>>] = "lost" => thread[<<n, Switch>>] = "lost"
    BY <1>0, <1>1, <1>2 DEF StateOK
  <2>6. isAbort'[Switch] => isAbort[Switch] \/ \E k \in Nodes : thread[<<k, Switch>>] = "lost"
    <3>1. To(l) = Switch => l = <<From(l), Switch>> /\ From(l) \in Nodes
      BY LinkTo
    <3>2. To(l) # Switch => isAbort'[Switch] = isAbort[Switch]
      BY <1>0, <1>1, <1>2 DEF StateOK
    <3> QED
      BY <3>1, <3>2, <1>1
  <2>7. isAbort[Switch] \/ (\E k \in Nodes : thread[<<k, Switch>>] = "lost")
            => \E k \in Nodes : ~Live(k)
    BY <2>0 DEF CkptInv, LostOK
  <2>8. LostOK(n)'
    BY <2>5, <2>6, <2>7, <1>0, <1>3 DEF LostOK
  <2> QED
    BY <2>4, <2>8
<1> QED
  BY <1>4 DEF CkptInv

LEMMA NextCkptInv ==
    ASSUME SyncInv, SyncInv', CkptInv, Next
    PROVE  CkptInv'
BY StepCases, LocalActCkpt, GoneCkpt, AsksCkpt, CountsCkpt, HearsCkpt, AnswersCkpt,
   SendsCkpt, TakesCkpt, ConnectionLostCkpt, AbortCkpt

LEMMA InitCkptInv == Init => CkptInv
<1> SUFFICES ASSUME Init PROVE CkptInv
  OBVIOUS
<1>1. ASSUME NEW n \in Nodes PROVE SavesOK(n) /\ EpochOK(n) /\ LostOK(n)
  <2>1. /\ n \in Processes /\ Switch \in Processes /\ n # Switch
        /\ <<n, Switch>> \in Links /\ <<Switch, n>> \in Links
    BY LinkEnds
  <2>2. /\ Down(n) = <<>> /\ Up(n) = <<>> /\ AcksIn(n) = {}
    BY <2>1, MsgsEmpty DEF Init, Up, Down, AcksIn
  <2>3. Written(n) = 0 /\ Written(Switch) = 0
    BY <2>1 DEF Init, Written, Completed
  <2>4. SavesOK(n)
    BY <2>2, <2>3 DEF SavesOK, Agree
  <2>5. EpochOK(n)
    BY <2>2, PartsEmpty DEF EpochOK
  <2>6. LostOK(n)
    BY <2>1 DEF Init, LostOK
  <2> QED
    BY <2>4, <2>5, <2>6
<1> QED
  BY <1>1 DEF CkptInv
-----------------------------------------------------------------------------
(* Exits: what is stopped stays stopped, and nobody is told to exit before  *)
(* the switch has told all.                                                 *)

LEMMA StoppedFrame ==
    ASSUME NEW q \in Processes, Stopped(q), Keeps(q),
           exiting[q] # "no" => exiting'[q] # "no",
           Live(Switch)' => Live(Switch),
           q \in Nodes => AcksIn(q)' = AcksIn(q),
           q \in Nodes /\ thread'[<<Switch, q>>] = "lost"
               => thread[<<Switch, q>>] = "lost" \/ exiting'[q] # "no"
    PROVE  Stopped(q)'
<1>1. (Live(q)' <=> Live(q)) /\ (Completed(q)' <=> Completed(q))
  BY SameView DEF Keeps
<1>2. /\ pc'[q] = pc[q] /\ caller'[q] = caller[q] /\ doing'[q] = doing[q]
      /\ isAbort'[q] = isAbort[q]
  BY DEF Keeps, Same
<1>3. q \in Nodes /\ StoppedNode(q) => StoppedNode(q)'
  BY <1>1, <1>2 DEF StoppedNode
<1> QED
  BY <1>1, <1>2, <1>3 DEF Stopped

LEMMA StoppedGone ==
    ASSUME NEW q \in Processes, ~Live(q)'
    PROVE  Stopped(q)'
BY DEF Stopped

LEMMA LocalStopped ==
    ASSUME SyncInv, AllStopped, NEW p \in Processes, LocalAct(p)
    PROVE  AllStopped'
<1>1. /\ Others(p) /\ UNCHANGED <<chan, thread, isAbort>> /\ UNCHANGED waitNum /\ Live(p)
      /\ Live(p)' /\ StateOK
  BY LocalFrame DEF Quiet, Busy, SyncInv
<1>2. \A q \in Processes \ {p} : Keeps(q) /\ exiting'[q] = exiting[q]
  BY <1>1 DEF Others
<1>3. \A q \in Processes : Live(q)' <=> Live(q)
  BY <1>1, <1>2, KeepsWritten
<1>4. Stopped(p) /\ Switch \in Processes /\ \A n \in Nodes : AcksIn(n)' = AcksIn(n)
  BY <1>1, LinkEnds DEF AllStopped, AcksIn, Down
<1>5. /\ pc[p] \in {"wait", "return", "unsynced"} /\ (pc[p] = "unsynced" => exiting[p] # "no")
      /\ pc[p] # "unsynced" => caller[p] = "process"
  BY <1>1, <1>4 DEF Stopped, StoppedNode
<1>6. ProcessReturns(p) \/ \E l \in Links : To(l) = p /\ rxDone(l)
  BY <1>5 DEF LocalAct, Advance, SyncProcess, ExitEvent, drainComplete, serialize, StartReturns,
              DrainReturns, Completed, Aborted, request, Simulating
<1>7. tick' = tick
  BY <1>6 DEF ProcessReturns, rxDone, simVars
<1>8. Stopped(p)'
  <2>1. CASE \E l \in Links : To(l) = p /\ rxDone(l)
    <3>1. UNCHANGED <<pc, exiting>> /\ pc[p] = "unsynced"
      BY <2>1, <1>5 DEF rxDone, simVars, Simulating
    <3> QED
      BY <3>1, <1>5 DEF Stopped
  <2>2. CASE ProcessReturns(p)
    <3>1. Completed(p) => doing[p]["exit"] /\ ~Aborted(p)
      BY <1>1, <1>4, <2>2 DEF Stopped, StoppedNode, Completed, Aborted, ProcessReturns
    <3>2. Aborted(p) => exiting[p] # "no"
      BY <1>1, <1>4 DEF Stopped, StoppedNode, Aborted
    <3>3. /\ pc' = [pc EXCEPT ![p] = "unsynced"]
          /\ \/ exiting' = [exiting EXCEPT ![p] = "request"]
             \/ exiting' = exiting /\ exiting[p] # "no"
      BY <3>1, <3>2, <2>2 DEF ProcessReturns
    <3>4. pc'[p] = "unsynced" /\ exiting'[p] # "no"
      BY <3>3, <1>1 DEF StateOK
    <3> QED
      BY <3>4 DEF Stopped
  <2> QED
    BY <1>6, <2>1, <2>2
<1>9. ASSUME NEW q \in Processes \ {p} PROVE Stopped(q)'
  BY <1>1, <1>2, <1>3, <1>4, StoppedFrame DEF AllStopped
<1> QED
  BY <1>7, <1>8, <1>9 DEF AllStopped

LEMMA OtherStopped ==
    ASSUME SyncInv, AllStopped, UNCHANGED tick,
           Live(Switch)' => Live(Switch),
           \A q \in Processes :
              \/ ~Live(q)'
              \/ /\ Keeps(q) /\ (exiting[q] # "no" => exiting'[q] # "no")
                 /\ q \in Nodes => AcksIn(q)' = AcksIn(q)
                 /\ q \in Nodes /\ thread'[<<Switch, q>>] = "lost"
                      => thread[<<Switch, q>>] = "lost" \/ exiting'[q] # "no"
    PROVE  AllStopped'
<1>1. ASSUME NEW q \in Processes PROVE Stopped(q)'
  BY StoppedFrame, StoppedGone DEF AllStopped
<1> QED
  BY <1>1 DEF AllStopped

LEMMA GoneStopped ==
    ASSUME SyncInv, AllStopped, NEW p \in Processes, Gone(p)
    PROVE  AllStopped'
<1>1. /\ ~Live(p)' /\ Live(p) /\ UNCHANGED <<thread, isAbort, exiting, tick>>
      /\ \A n \in Nodes : Down(n)' = IF p = n THEN <<>> ELSE Down(n)
      /\ \A q \in Processes \ {p} : Keeps(q)
  BY DEF Gone, Others
<1>2. Live(Switch)' => Live(Switch)
  BY <1>1, KeepsWritten, LinkEnds
<1>3. \A n \in Nodes \ {p} : AcksIn(n)' = AcksIn(n)
  BY <1>1 DEF AcksIn
<1> QED
  BY <1>1, <1>2, <1>3, OtherStopped

LEMMA HearsStopped ==
    ASSUME SyncInv, AllStopped, NEW n \in Nodes, NEW m \in Ack, Hears(n, m)
    PROVE  AllStopped'
<1>0. n \in Processes /\ n # Switch /\ Switch \in Processes /\ \A k \in Nodes : <<Switch, k>> \in Links
  BY LinkEnds
<1>1. /\ UNCHANGED <<isAbort, exiting, tick, pc, caller>>
      /\ \A q \in Processes \ {n} : Keeps(q)
      /\ \A k \in Links : thread'[k] = "lost" => thread[k] = "lost"
      /\ m \in AcksIn(n) /\ AcksIn(n)' = {} /\ Waiting(n) /\ ~isAbort[n] /\ Live(n)
      /\ waitNum'[n] = 0 /\ doing'[n] = m.do
      /\ \A k \in Nodes \ {n} : Down(k)' = Down(k)
  BY DEF Hears, Others
<1>2. \A k \in Nodes \ {n} : AcksIn(k)' = AcksIn(k)
  BY <1>1 DEF AcksIn
<1>3. \A q \in Processes : Live(q)' <=> Live(q)
  BY <1>1 DEF Live
<1>4. ASSUME NEW q \in Processes \ {n} PROVE Stopped(q)'
  <2>1. Stopped(q) /\ Keeps(q) /\ exiting' = exiting /\ (Live(Switch)' => Live(Switch))
    BY <1>0, <1>1, <1>3 DEF AllStopped
  <2>2. q \in Nodes => /\ AcksIn(q)' = AcksIn(q)
                       /\ thread'[<<Switch, q>>] = "lost" => thread[<<Switch, q>>] = "lost"
    BY <1>0, <1>1, <1>2
  <2> QED
    BY <2>1, <2>2, StoppedFrame
<1>5. Stopped(n)'
  <2>1. StoppedNode(n)
    BY <1>0, <1>1 DEF AllStopped, Stopped, Waiting
  <2>2. m.do["exit"] /\ pc[n] = "wait" /\ caller[n] = "process"
    BY <2>1, <1>1 DEF StoppedNode
  <2>3. /\ thread'[<<Switch, n>>] = "lost" => exiting[n] # "no"
        /\ ~isAbort'[n] /\ doing'[n]["exit"]
        /\ AcksIn(n)' = {} /\ pc'[n] = "wait" /\ caller'[n] = "process"
        /\ exiting' = exiting
    BY <2>1, <2>2, <1>0, <1>1 DEF StoppedNode
  <2>4. Completed(n)'
    BY <2>3, <1>1 DEF Completed
  <2>5. StoppedNode(n)'
    BY <2>3, <2>4 DEF StoppedNode
  <2> QED
    BY <2>5 DEF Stopped
<1> QED
  BY <1>1, <1>4, <1>5 DEF AllStopped

LEMMA CountsStopped ==
    ASSUME SyncInv, AllStopped, NEW n \in Nodes, Counts(n)
    PROVE  AllStopped'
<1>0. Switch \in Processes /\ Switch \notin Nodes /\ \A k \in Nodes : <<Switch, k>> \in Links
  BY LinkEnds, Consts
<1>1. /\ UNCHANGED <<isAbort, exiting, tick, pc, caller, doing>>
      /\ \A q \in Processes \ {Switch} : Keeps(q)
      /\ \A k \in Links : thread'[k] = "lost" => thread[k] = "lost"
      /\ \A k \in Nodes : Down(k)' = Down(k)
  BY DEF Counts, Others
<1>2. \A k \in Nodes : AcksIn(k)' = AcksIn(k)
  BY <1>1 DEF AcksIn
<1>3. ASSUME NEW q \in Processes \ {Switch} PROVE Stopped(q)'
  <2>1. Stopped(q) /\ Keeps(q) /\ exiting' = exiting /\ (Live(Switch)' => Live(Switch))
    BY <1>0, <1>1 DEF AllStopped, Live
  <2>2. q \in Nodes => /\ AcksIn(q)' = AcksIn(q)
                       /\ thread'[<<Switch, q>>] = "lost" => thread[<<Switch, q>>] = "lost"
    BY <1>0, <1>1, <1>2
  <2> QED
    BY <2>1, <2>2, StoppedFrame
<1>4. Stopped(Switch)'
  BY <1>0, <1>1 DEF AllStopped, Stopped, Live
<1> QED
  BY <1>1, <1>3, <1>4 DEF AllStopped

\* A packet put on a stream, or taken from it, leaves the acknowledgements.
LEMMA SendsAcks ==
    ASSUME SyncInv, NEW l \in Links, NEW m \in Data(Switch), Sends(l, m), NEW n \in Nodes
    PROVE  AcksIn(n)' = AcksIn(n)
<1>1. /\ <<Switch, n>> \in Links /\ m \in Wire(<<Switch, n>>) /\ m.type = "data"
      /\ Down(n) \in Seq(Wire(<<Switch, n>>))
  BY LinkEnds, StreamTypes DEF SyncInv, Data
<1>2. Down(n)' = Down(n) \/ Down(n)' = Append(Down(n), m)
  BY <1>1 DEF Sends, Down
<1>3. Msgs(Append(Down(n), m)) = Msgs(Down(n)) \cup {m}
  BY <1>1, MsgsAppend
<1> QED
  BY <1>1, <1>2, <1>3 DEF AcksIn

LEMMA TakesAcks ==
    ASSUME SyncInv, NEW l \in Links, Takes(l), NEW n \in Nodes
    PROVE  AcksIn(n)' = AcksIn(n)
<1>1. <<Switch, n>> \in Links /\ Down(n) \in Seq(Wire(<<Switch, n>>))
  BY LinkEnds, StreamTypes DEF SyncInv
<1>2. CASE l # <<Switch, n>>
  BY <1>1, <1>2 DEF Takes, Down, AcksIn
<1>3. CASE l = <<Switch, n>>
  <2>1. Down(n) # <<>> /\ Head(Down(n)).type = "data" /\ Down(n)' = Tail(Down(n))
    BY <1>1, <1>3 DEF Takes, Down
  <2>2. /\ Msgs(Tail(Down(n))) \subseteq Msgs(Down(n))
        /\ \A m \in Msgs(Down(n)) : m = Head(Down(n)) \/ m \in Msgs(Tail(Down(n)))
    BY <2>1, <1>1, MsgsTail
  <2> QED
    BY <2>1, <2>2 DEF AcksIn
<1> QED
  BY <1>2, <1>3

LEMMA WireStopped ==
    ASSUME SyncInv, AllStopped, NEW l \in Links,
           Takes(l) \/ \E m \in Data(Switch) : Sends(l, m)
    PROVE  AllStopped'
<1>1. Nobody /\ UNCHANGED <<thread, exiting, tick, pc>>
  BY DEF Takes, Sends
<1>2. \A n \in Nodes : AcksIn(n)' = AcksIn(n)
  BY SendsAcks, TakesAcks
<1>3. Live(Switch)' => Live(Switch)
  BY <1>1 DEF Live
<1> QED
  BY <1>1, <1>2, <1>3, OtherStopped DEF Nobody

LEMMA ConnectionLostStopped ==
    ASSUME SyncInv, AllStopped, NEW l \in Links, ConnectionLost(l)
    PROVE  AllStopped'
<1>1. /\ UNCHANGED <<tick, when, pc, caller, waitNum, isAbort, doing, chan, saved>>
      /\ thread' = [thread EXCEPT ![l] = "lost"]
      /\ exiting' = [exiting EXCEPT ![To(l)] = IF exiting[To(l)] = "no" THEN "lost"
                                               ELSE exiting[To(l)]]
  BY DEF ConnectionLost, syncVars
<1>2. /\ thread \in [Links -> {"recv", "lost", "done"}]
      /\ exiting \in [Processes -> {"no", "request", "lost"}]
      /\ To(l) \in Processes
      /\ \A n \in Nodes : <<Switch, n>> \in Links /\ To(<<Switch, n>>) = n /\ n \in Processes
  BY LinkEnds DEF SyncInv, StateOK
<1>3. \A q \in Processes : /\ exiting[q] # "no" => exiting'[q] # "no"
                           /\ q = To(l) => exiting'[q] # "no"
  BY <1>1, <1>2
<1>4. \A n \in Nodes : thread'[<<Switch, n>>] = "lost"
                          => thread[<<Switch, n>>] = "lost" \/ exiting'[n] # "no"
  BY <1>1, <1>2, <1>3
<1>5. /\ \A q \in Processes : Keeps(q)
      /\ \A n \in Nodes : AcksIn(n)' = AcksIn(n)
      /\ Live(Switch)' => Live(Switch)
  BY <1>1 DEF Keeps, Same, AcksIn, Down, Live
<1> QED
  BY <1>1, <1>3, <1>4, <1>5, OtherStopped

LEMMA AbortStopped ==
    ASSUME SyncInv, AllStopped, NEW l \in Links, abort(l)
    PROVE  AllStopped'
<1>1. /\ UNCHANGED <<tick, when, pc, caller, exiting, doing, chan, saved>>
      /\ thread[l] = "lost"
      /\ waitNum' = [waitNum EXCEPT ![To(l)] = 0]
      /\ isAbort' = [isAbort EXCEPT ![To(l)] = TRUE]
      /\ thread' = [thread EXCEPT ![l] = "done"]
  BY DEF abort, simVars
<1>2. /\ thread \in [Links -> {"recv", "lost", "done"}] /\ StateOK
      /\ To(l) \in Processes /\ Switch \in Processes /\ Switch \notin Nodes
      /\ \A n \in Nodes : <<Switch, n>> \in Links /\ n \in Processes
  BY LinkEnds, Consts DEF SyncInv, StateOK
<1>3. /\ \A q \in Processes \ {To(l)} : Keeps(q)
      /\ \A k \in Links : thread'[k] = "lost" => thread[k] = "lost"
  BY <1>1, <1>2 DEF Keeps, Same, StateOK
<1>4. /\ \A n \in Nodes : AcksIn(n)' = AcksIn(n)
      /\ \A q \in Processes : Live(q)' <=> Live(q)
  BY <1>1 DEF AcksIn, Down, Live
<1>5. ASSUME NEW q \in Processes \ {To(l)} PROVE Stopped(q)'
  <2>1. Stopped(q) /\ Keeps(q) /\ exiting' = exiting /\ (Live(Switch)' => Live(Switch))
    BY <1>1, <1>2, <1>3, <1>4 DEF AllStopped
  <2>2. q \in Nodes => /\ AcksIn(q)' = AcksIn(q)
                       /\ thread'[<<Switch, q>>] = "lost" => thread[<<Switch, q>>] = "lost"
    BY <1>2, <1>3, <1>4
  <2> QED
    BY <2>1, <2>2, StoppedFrame
<1>6. ASSUME To(l) = Switch PROVE Stopped(Switch)'
  <2>1. Stopped(Switch)
    BY <1>2 DEF AllStopped
  <2> QED
    BY <2>1, <1>1, <1>2, <1>4 DEF Stopped
<1>7. ASSUME NEW n \in Nodes, To(l) = n PROVE Stopped(n)'
  <2>1. l = <<Switch, n>> /\ NodeOK(n) /\ Stopped(n)
    BY <1>2, <1>7, LinkTo DEF SyncInv, AllStopped
  <2>2. ~Live(Switch) /\ ~Live(Switch)'
    BY <2>1, <1>1, <1>2, <1>4 DEF NodeOK
  <2>3. isAbort'[n] /\ ~Completed(n)'
    <3>1. pc[n] # "return" \/ ~Live(n)
      BY <1>2 DEF SyncInv, ProcessOK
    <3>2. isAbort'[n]
      BY <1>1, <1>2, <1>7 DEF StateOK
    <3>3. ~Completed(n)'
      BY <3>1, <3>2, <1>1, <1>2 DEF Completed, Live
    <3> QED
      BY <3>2, <3>3
  <2>4. CASE StoppedNode(n)
    <3>1. exiting'[n] # "no"
      BY <2>1, <2>4, <1>1 DEF StoppedNode
    <3>2. StoppedNode(n)'
      BY <2>2, <2>3, <2>4, <3>1, <1>1, <1>4 DEF StoppedNode
    <3> QED
      BY <3>2 DEF Stopped
  <2>5. CASE ~StoppedNode(n)
    BY <2>1, <2>5, <1>1, <1>2, <1>4 DEF Stopped
  <2> QED
    BY <2>4, <2>5
<1> QED
  BY <1>1, <1>2, <1>5, <1>6, <1>7 DEF AllStopped, Processes

LEMMA StoppedStays ==
    ASSUME SyncInv, AllStopped, Next
    PROVE  AllStopped'
<1>1. ASSUME NEW n \in Nodes PROVE ~Asks(n)
  BY LinkEnds DEF AllStopped, Stopped, StoppedNode, Asks, Live
<1>2. ASSUME NEW m \in Ack, NEW S \in SUBSET {n \in Nodes : Live(n)} PROVE ~Answers(m, S)
  BY LinkEnds, Consts DEF AllStopped, Stopped, StoppedNode, Answers
<1> QED
  BY <1>1, <1>2, StepCases, LocalStopped, GoneStopped, HearsStopped, CountsStopped,
     WireStopped, ConnectionLostStopped, AbortStopped

LEMMA LeavesFrame ==
    ASSUME NEW p \in Processes, Leaves(p)',
           exiting'[p] = "request" => exiting[p] = "request",
           caller'[p] = caller[p], Completed(p)' => Completed(p), doing'[p] = doing[p],
           p \in Nodes => AcksIn(p)' \subseteq AcksIn(p)
    PROVE  Leaves(p)
BY DEF Leaves

LEMMA KeepsLeaves ==
    ASSUME NEW p \in Processes, Leaves(p)', Keeps(p), exiting'[p] = exiting[p],
           p \in Nodes => AcksIn(p)' \subseteq AcksIn(p)
    PROVE  Leaves(p)
<1>1. Completed(p)' <=> Completed(p)
  BY SameView DEF Keeps
<1>2. caller'[p] = caller[p] /\ doing'[p] = doing[p]
  BY DEF Keeps, Same
<1> QED
  BY <1>1, <1>2, LeavesFrame

LEMMA LocalLeaves ==
    ASSUME SyncInv, NEW p \in Processes, LocalAct(p), NEW q \in Processes, Leaves(q)'
    PROVE  Leaves(q)
<1>1. /\ Others(p) /\ UNCHANGED <<chan, thread, isAbort>> /\ UNCHANGED waitNum /\ StateOK
      /\ p \in Nodes => AcksIn(p) = {}
  BY LocalFrame DEF Quiet, SyncInv
<1>2. \A n \in Nodes : AcksIn(n)' = AcksIn(n)
  BY <1>1 DEF AcksIn, Down
<1>3. CASE q # p
  BY <1>1, <1>2, <1>3, KeepsLeaves DEF Others
<1>4. CASE q = p
  <2>1. CASE ProcessReturns(p)
    <3>1. \E x \in {"unsynced", "drain", "simulate"} : pc' = [pc EXCEPT ![p] = x]
      BY <2>1 DEF ProcessReturns
    <3>2. pc'[p] \in {"unsynced", "drain", "simulate"}
      BY <3>1, <1>1 DEF StateOK
    <3>3. ~Completed(p)'
      BY <3>2 DEF Completed
    <3>4. exiting'[p] = "request"
      BY <3>3, <1>1, <1>2, <1>4 DEF Leaves
    <3> QED
      BY <2>1, <3>4, <1>1, <1>4 DEF ProcessReturns, Leaves, StateOK
  <2>2. CASE ~ProcessReturns(p)
    <3>1. /\ exiting'[p] = "request" => exiting[p] = "request"
          /\ ~Completed(p)'
      <4>1. CASE Advance(p) \/ (\E l \in Links : To(l) = p /\ rxDone(l))
                 \/ (p \in Nodes /\ \E op \in Ops, req \in ReqTypes : request(p, op, req))
        <5>1. UNCHANGED <<pc, exiting>> /\ pc[p] \in {"simulate", "unsynced", "drain"}
          BY <4>1 DEF Advance, rxDone, request, Simulating, simVars
        <5> QED
          BY <5>1 DEF Completed
      <4>2. CASE ExitEvent(p) /\ pc[p] = "drain"
        <5>1. pc'[p] = "drain" /\ exiting'[p] = "no"
          BY <4>2, <1>1 DEF ExitEvent, StateOK
        <5> QED
          BY <5>1 DEF Completed
      <4>3. CASE \/ SyncProcess(p) /\ pc[p] # "drain"
                 \/ drainComplete(p) \/ serialize(p) \/ DrainReturns(p)
                 \/ StartReturns(p) /\ ~Aborted(p)
        <5>1. pc'[p] \in {"run", "simulate", "save"} /\ UNCHANGED exiting
          BY <4>3, <1>1 DEF SyncProcess, drainComplete, serialize, DrainReturns, StartReturns,
                            StateOK
        <5> QED
          BY <5>1 DEF Completed
      <4> QED
        BY <2>2, <4>1, <4>2, <4>3 DEF LocalAct
    <3> QED
      BY <3>1, <1>1, <1>2, <1>4 DEF Leaves
  <2> QED
    BY <2>1, <2>2
<1> QED
  BY <1>3, <1>4

LEMMA EffectLeaves ==
    ASSUME SyncInv, NEW q \in Processes, Leaves(q)',
           \/ \E p \in Processes : Gone(p)
           \/ \E n \in Nodes : Asks(n) \/ Counts(n) \/ \E m \in Ack : Hears(n, m)
           \/ \E l \in Links : \/ Takes(l) \/ ConnectionLost(l) \/ abort(l)
                               \/ \E m \in Data(Switch) : Sends(l, m)
    PROVE  Leaves(q)
<1>0. StateOK /\ Switch \notin Nodes /\ Switch \in Processes
      /\ \A n \in Nodes : n \in Processes /\ n # Switch
  BY LinkEnds, Consts DEF SyncInv
<1>1. ASSUME NEW p \in Processes, Gone(p) PROVE Leaves(q)
  <2>1. /\ ~Live(p)' /\ exiting' = exiting
        /\ \A n \in Nodes : Down(n)' = IF p = n THEN <<>> ELSE Down(n)
        /\ \A k \in Processes \ {p} : Keeps(k)
    BY <1>1 DEF Gone, Others
  <2>2. \A n \in Nodes : AcksIn(n)' = IF p = n THEN {} ELSE AcksIn(n)
    BY <2>1, MsgsEmpty DEF AcksIn
  <2>3. CASE q = p
    <3>1. ~Completed(p)'
      BY <2>1 DEF Completed, Live
    <3> QED
      BY <2>1, <2>2, <2>3, <3>1 DEF Leaves
  <2>4. CASE q # p
    BY <2>1, <2>2, <2>4, KeepsLeaves
  <2> QED
    BY <2>3, <2>4
<1>2. ASSUME NEW n \in Nodes, Asks(n) PROVE Leaves(q)
  <2>1. /\ exiting' = exiting /\ caller' = caller /\ pc'[n] = "wait" /\ waitNum'[n] = 1
        /\ \A k \in Nodes : Down(k)' = Down(k)
        /\ \A k \in Processes \ {n} : Keeps(k)
    BY <1>2 DEF Asks, Others
  <2>2. \A k \in Nodes : AcksIn(k)' = AcksIn(k)
    BY <2>1 DEF AcksIn
  <2>3. CASE q = n
    <3>1. ~Completed(n)'
      BY <2>1 DEF Completed
    <3> QED
      BY <2>1, <2>2, <2>3, <3>1 DEF Leaves
  <2>4. CASE q # n
    BY <2>1, <2>2, <2>4, KeepsLeaves
  <2> QED
    BY <2>3, <2>4
<1>3. ASSUME NEW n \in Nodes, Counts(n) PROVE Leaves(q)
  <2>1. /\ UNCHANGED <<exiting, caller, pc, doing>>
        /\ \A k \in Nodes : Down(k)' = Down(k)
        /\ \A k \in Processes \ {Switch} : Keeps(k)
    BY <1>3 DEF Counts, Others
  <2>2. \A k \in Nodes : AcksIn(k)' = AcksIn(k)
    BY <2>1 DEF AcksIn
  <2>3. CASE q = Switch
    <3>1. Completed(Switch)' <=> Completed(Switch)
      BY <2>1, <1>0 DEF Completed
    <3> QED
      BY <2>1, <2>2, <2>3, <3>1, LeavesFrame
  <2>4. CASE q # Switch
    BY <2>1, <2>2, <2>4, KeepsLeaves
  <2> QED
    BY <2>3, <2>4
<1>4. ASSUME NEW n \in Nodes, NEW m \in Ack, Hears(n, m) PROVE Leaves(q)
  <2>1. /\ UNCHANGED <<exiting, caller, pc>> /\ m \in AcksIn(n) /\ doing'[n] = m.do
        /\ AcksIn(n)' = {}
        /\ \A k \in Nodes \ {n} : Down(k)' = Down(k)
        /\ \A k \in Processes \ {n} : Keeps(k)
    BY <1>4 DEF Hears, Others
  <2>2. \A k \in Nodes : AcksIn(k)' \subseteq AcksIn(k)
    BY <2>1 DEF AcksIn
  <2>3. CASE q = n
    BY <2>1, <2>3, <1>0 DEF Leaves
  <2>4. CASE q # n
    BY <2>1, <2>2, <2>4, KeepsLeaves
  <2> QED
    BY <2>3, <2>4
<1>5. ASSUME NEW l \in Links, Takes(l) \/ \E m \in Data(Switch) : Sends(l, m) PROVE Leaves(q)
  <2>1. Nobody
    BY <1>5 DEF Takes, Sends
  <2>2. \A n \in Nodes : AcksIn(n)' = AcksIn(n)
    BY <1>5, SendsAcks, TakesAcks
  <2> QED
    BY <2>1, <2>2, KeepsLeaves DEF Nobody
<1>6. ASSUME NEW l \in Links, ConnectionLost(l) PROVE Leaves(q)
  <2>1. /\ UNCHANGED <<pc, caller, waitNum, isAbort, doing, chan>>
        /\ exiting' = [exiting EXCEPT ![To(l)] = IF exiting[To(l)] = "no" THEN "lost"
                                                 ELSE exiting[To(l)]]
    BY <1>6 DEF ConnectionLost, syncVars
  <2>2. exiting'[q] = "request" => exiting[q] = "request"
    BY <2>1, <1>0 DEF StateOK
  <2>3. \A n \in Nodes : AcksIn(n)' = AcksIn(n)
    BY <2>1 DEF AcksIn, Down
  <2> QED
    BY <2>1, <2>2, <2>3, LeavesFrame DEF Completed
<1>7. ASSUME NEW l \in Links, abort(l) PROVE Leaves(q)
  <2>1. /\ UNCHANGED <<pc, caller, exiting, doing, chan>>
        /\ waitNum' = [waitNum EXCEPT ![To(l)] = 0]
        /\ isAbort' = [isAbort EXCEPT ![To(l)] = TRUE]
    BY <1>7 DEF abort, simVars
  <2>2. Completed(q)' => Completed(q)
    <3>1. isAbort'[q] \/ (waitNum'[q] = waitNum[q] /\ isAbort'[q] = isAbort[q])
      BY <2>1, <1>0 DEF StateOK
    <3> QED
      BY <3>1, <2>1 DEF Completed
  <2>3. \A n \in Nodes : AcksIn(n)' = AcksIn(n)
    BY <2>1 DEF AcksIn, Down
  <2> QED
    BY <2>1, <2>2, <2>3, LeavesFrame
<1> QED
  BY <1>1, <1>2, <1>3, <1>4, <1>5, <1>6, <1>7

LEMMA AnswersLeaves ==
    ASSUME SyncInv, NEW m \in Ack, NEW S \in SUBSET {n \in Nodes : Live(n)}, Answers(m, S),
           NEW q \in Processes, Leaves(q)', ~Leaves(q)
    PROVE  AllStopped'
<1>0. /\ Switch \notin Nodes /\ Switch \in Processes
      /\ \A n \in Nodes : n \in Processes /\ n # Switch
      /\ Processes = Nodes \cup {Switch}
  BY LinkEnds, Consts DEF Processes
<1>1. /\ UNCHANGED <<thread, isAbort, exiting, tick, caller>>
      /\ ~isAbort[Switch] /\ Live(Switch) /\ doing'[Switch] = m.do
      /\ \A k \in Processes \ {Switch} : Keeps(k)
      /\ \/ pc'[Switch] = "return" /\ S = {n \in Nodes : Live(n)}
         \/ pc'[Switch] = "exited"
      /\ caller[Switch] = "process" => \A n \in Nodes : tick[n] = tick[Switch]
  BY DEF Answers, Others
<1>2. \A n \in Nodes : /\ AcksIn(n)' = IF n \in S THEN {m} ELSE AcksIn(n)
                       /\ Live(n) => /\ Waiting(n) /\ AcksIn(n) = {} /\ ~isAbort[n]
                                     /\ caller[n] = caller[Switch]
  BY DEF Answers
<1>3. caller[Switch] = "process" /\ m.do["exit"]
  <2>1. CASE q = Switch
    BY <2>1, <1>0, <1>1 DEF Leaves
  <2>2. CASE q # Switch
    <3>1. q \in Nodes /\ Keeps(q) /\ exiting'[q] = exiting[q]
      BY <2>2, <1>0, <1>1
    <3>2. ~(AcksIn(q)' \subseteq AcksIn(q))
      BY <3>1, KeepsLeaves
    <3>3. q \in S /\ AcksIn(q)' = {m} /\ Live(q) /\ caller[q] = caller[Switch]
      BY <3>1, <3>2, <1>2
    <3>4. (Completed(q)' <=> Completed(q)) /\ doing'[q] = doing[q] /\ caller'[q] = caller[q]
      BY <3>1, SameView DEF Keeps, Same
    <3> QED
      BY <3>1, <3>3, <3>4 DEF Leaves
  <2> QED
    BY <2>1, <2>2
<1>4. Stopped(Switch)'
  BY <1>1, <1>3 DEF Stopped, Live
<1>5. ASSUME NEW n \in Nodes PROVE Stopped(n)'
  <2> SUFFICES ASSUME Live(n)' PROVE StoppedNode(n)'
    BY DEF Stopped
  <2>1. Keeps(n) /\ Live(n) /\ n \in Processes
    BY <1>0, <1>1, KeepsWritten
  <2>2. /\ Waiting(n) /\ AcksIn(n) = {} /\ ~isAbort[n] /\ caller[n] = "process"
        /\ NodeOK(n)
    BY <2>1, <1>2, <1>3 DEF SyncInv
  <2>3. /\ pc'[n] = "wait" /\ waitNum'[n] = 1 /\ caller'[n] = "process" /\ ~isAbort'[n]
    BY <2>1, <2>2 DEF Keeps, Same, Waiting
  <2>4. ~Completed(n)'
    BY <2>3 DEF Completed
  <2>5. \A x \in AcksIn(n)' : x.do["exit"]
    BY <2>2, <1>2, <1>3
  <2>6. AcksIn(n)' # {} \/ ~Live(Switch)'
    BY <2>1, <1>1, <1>2 DEF Live
  <2>7. thread'[<<Switch, n>>] # "lost"
    BY <2>2, <1>1 DEF NodeOK
  <2> QED
    BY <2>3, <2>4, <2>5, <2>6, <2>7 DEF StoppedNode
<1>6. \A p, r \in Processes : tick[p] = tick[r]
  BY <1>0, <1>1, <1>3
<1> QED
  BY <1>0, <1>1, <1>4, <1>5, <1>6 DEF AllStopped

LEMMA NextLeaveOK ==
    ASSUME SyncInv, LeaveOK, Next
    PROVE  LeaveOK'
<1>1. CASE AllStopped
  BY <1>1, StoppedStays DEF LeaveOK
<1>2. CASE ~AllStopped
  <2> SUFFICES ASSUME NEW q \in Processes, Leaves(q)' PROVE AllStopped'
    BY DEF LeaveOK
  <2>1. ~Leaves(q)
    BY <1>2 DEF LeaveOK
  <2> QED
    BY <2>1, StepCases, LocalLeaves, EffectLeaves, AnswersLeaves
<1> QED
  BY <1>1, <1>2
-----------------------------------------------------------------------------
(* The theorems. *)

LEMMA TogetherStutter ==
    ASSUME SyncInv, TogetherInv, UNCHANGED vars
    PROVE  TogetherInv'
<1>0. /\ UNCHANGED <<tick, when, pc, caller, exiting, waitNum, isAbort, doing, thread, chan, saved>>
  BY DEF vars, simVars, syncVars, linkVars
<1>1. \A p \in Processes : Keeps(p) /\ exiting'[p] = exiting[p]
  BY <1>0 DEF Keeps, Same
<1>2. \A n \in Nodes : /\ Down(n)' = Down(n) /\ Up(n)' = Up(n) /\ AcksIn(n)' = AcksIn(n)
                       /\ n \in Processes
  BY <1>0, LinkEnds DEF Up, Down, AcksIn
<1>3. \A p \in Processes : /\ Written(p)' = Written(p) /\ AckWritten(p)' = AckWritten(p)
                           /\ Live(p)' <=> Live(p)
  BY <1>1, KeepsWritten
<1>4. SyncInv' /\ Switch \in Processes
  BY StutterOK, LinkEnds
<1>5. ASSUME NEW n \in Nodes PROVE SavesOK(n)' /\ EpochOK(n)' /\ LostOK(n)'
  <2>1. SavesOK(n) /\ EpochOK(n) /\ LostOK(n)
    BY DEF TogetherInv
  <2>2. /\ (\A q \in Nodes : Live(q)' <=> Live(q)) /\ (Live(Switch)' <=> Live(Switch))
        /\ thread' = thread /\ isAbort' = isAbort
        /\ Written(Switch)' = Written(Switch)
        /\ Written(n)' = Written(n) /\ AckWritten(n)' = AckWritten(n)
        /\ Down(n)' = Down(n) /\ Up(n)' = Up(n)
    BY <1>0, <1>2, <1>3, <1>4
  <2> QED
    BY <2>1, <2>2, <1>4, OtherCkpt
<1>6. LeaveOK'
  <2> SUFFICES ASSUME NEW q \in Processes, Leaves(q)' PROVE AllStopped'
    BY DEF LeaveOK
  <2>1. Leaves(q)
    BY <1>1, <1>2, KeepsLeaves
  <2>2. AllStopped
    BY <2>1 DEF TogetherInv, LeaveOK
  <2> QED
    BY <2>2, <1>0, <1>1, <1>2, <1>3, <1>4, OtherStopped
<1> QED
  BY <1>5, <1>6 DEF TogetherInv

LEMMA SpecTogetherInv ==
    ASSUME CollectiveOnly
    PROVE  Spec => [](SyncInv /\ TogetherInv)
<1>1. Init => TogetherInv
  <2> SUFFICES ASSUME Init PROVE TogetherInv
    OBVIOUS
  <2>1. CkptInv
    BY InitCkptInv
  <2>2. \A p \in Processes : ~Leaves(p)
    BY DEF Init, Leaves
  <2> QED
    BY <2>1, <2>2 DEF TogetherInv, CkptInv, LeaveOK
<1>2. SyncInv /\ SyncInv' /\ TogetherInv /\ [Next]_vars => TogetherInv'
  BY NextCkptInv, NextLeaveOK, TogetherStutter DEF TogetherInv, CkptInv
<1> QED
  BY <1>1, <1>2, SpecSyncInv, PTL DEF Spec

\* While nobody has failed, every process is where the switch is, an
\* acknowledgement on the wire counted as read.
LEMMA OneBarrier ==
    ASSUME SyncInv, TogetherInv, \A r \in Processes : Live(r), NEW p \in Processes
    PROVE  \/ /\ Kind(p) = Kind(Switch) /\ Written(p) = Written(Switch)
              /\ p \in Nodes => AcksIn(p) = {}
           \/ /\ p \in Nodes /\ pc[p] = "wait" /\ ~Completed(p)
              /\ AckWritten(p) = Written(Switch)
              /\ \E m \in AcksIn(p) : After(caller[p], m.do) = Kind(Switch)
<1>1. Switch \in Processes /\ \A n \in Nodes : n \in Processes
  BY LinkEnds
<1>2. CASE p = Switch
  BY <1>2, Consts
<1>3. CASE p \in Nodes
  <2>1. ~isAbort[Switch]
    BY <1>1, <1>3 DEF TogetherInv, LostOK
  <2>2. AlignedOK(p) /\ SavesOK(p) /\ AckOK(p) /\ Live(p) /\ Live(Switch)
    BY <1>1, <1>3 DEF SyncInv, TogetherInv
  <2>3. Agree(IF AcksIn(p) = {} THEN Written(p) ELSE AckWritten(p))
    BY <2>2 DEF SavesOK
  <2>4. CASE AcksIn(p) = {}
    BY <2>1, <2>2, <2>3, <2>4 DEF AlignedOK, Agree
  <2>5. CASE AcksIn(p) # {}
    <3>1. PICK m \in AcksIn(p) : TRUE
      BY <2>5
    <3>2. Waiting(p) /\ After(caller[p], m.do) = Kind(Switch)
      BY <2>1, <2>2, <3>1 DEF AckOK, AlignedOK
    <3>3. pc[p] = "wait" /\ ~Completed(p)
      BY <3>2 DEF Waiting, Completed
    <3>4. AckWritten(p) = Written(Switch)
      BY <2>1, <2>3, <2>5 DEF Agree
    <3> QED
      BY <3>1, <3>2, <3>3, <3>4, <1>3
  <2> QED
    BY <2>4, <2>5
<1> QED
  BY <1>2, <1>3 DEF Processes

LEMMA InvGivesTogether ==
    ASSUME SyncInv, TogetherInv
    PROVE  AllActTogether
<1>1. ASSUME NEW p \in Processes, NEW q \in Processes, LeavesOnRequest(p)
      PROVE  tick[q] <= tick[p]
  <2>1. tick[q] = tick[p]
    BY <1>1 DEF LeavesOnRequest, Leaves, TogetherInv, LeaveOK, AllStopped
  <2>2. tick[p] \in 0..MaxTick
    BY DEF SyncInv, StateOK
  <2> QED
    BY <2>1, <2>2, Consts
<1>2. ASSUME NEW p \in Processes, NEW q \in Processes, InCheckpoint(p),
             \A r \in Processes : Live(r)
      PROVE  \/ InCheckpoint(q)
             \/ pc[q] \in {"wait", "return"} /\ caller[q] = "process"
             \/ saved[q] + (IF pc[q] = "save" THEN 1 ELSE 0) = saved[p] + 1
  <2>0. /\ saved[p] \in Nat /\ saved[q] \in Nat
        /\ pc[q] \in {"run", "wait", "return", "simulate", "unsynced", "drain", "save", "exited"}
        /\ caller[q] \in {"start", "process", "drainComplete"}
    BY DEF SyncInv, StateOK
  <2>1. \/ Kind(Switch) = "drainComplete"
        \/ Kind(Switch) = "process" /\ Written(Switch) = saved[p] + 1
    <3>1. CASE Kind(p) = Kind(Switch) /\ Written(p) = Written(Switch)
      BY <3>1, <1>2 DEF InCheckpoint, Kind, Written, After, InBarrier, Completed
    <3>2. CASE /\ pc[p] = "wait" /\ AckWritten(p) = Written(Switch)
               /\ \E m \in AcksIn(p) : After(caller[p], m.do) = Kind(Switch)
      BY <3>2, <1>2 DEF InCheckpoint, After, AckWritten
    <3> QED
      BY <3>1, <3>2, <1>2, OneBarrier
  <2>2. CASE Kind(q) = Kind(Switch) /\ Written(q) = Written(Switch)
    <3>1. CASE Kind(Switch) = "drainComplete"
      BY <2>2, <3>1 DEF InCheckpoint, Kind, After, InBarrier, Completed
    <3>2. CASE Kind(Switch) = "process" /\ Written(Switch) = saved[p] + 1
      <4>1. CASE Completed(q) /\ caller[q] = "drainComplete"
        BY <4>1 DEF Completed, InCheckpoint
      <4>2. CASE ~(Completed(q) /\ caller[q] = "drainComplete")
        <5>1. Written(q) = IF pc[q] = "save" THEN saved[q] + 1 ELSE saved[q]
          BY <4>2 DEF Written
        <5> QED
          BY <2>0, <2>2, <3>2, <5>1
      <4> QED
        BY <4>1, <4>2
    <3> QED
      BY <2>1, <3>1, <3>2
  <2>3. CASE /\ pc[q] = "wait" /\ AckWritten(q) = Written(Switch)
             /\ \E m \in AcksIn(q) : After(caller[q], m.do) = Kind(Switch)
    <3>1. CASE caller[q] = "start"
      <4>1. Kind(Switch) = "process" /\ AckWritten(q) = saved[q]
        BY <2>3, <3>1 DEF After, AckWritten
      <4>2. Written(Switch) = saved[p] + 1
        BY <2>1, <4>1
      <4>3. saved[q] = saved[p] + 1 /\ pc[q] # "save"
        BY <2>3, <4>1, <4>2
      <4> QED
        BY <2>0, <4>3
    <3>2. CASE caller[q] # "start"
      BY <2>0, <2>3, <3>2 DEF InCheckpoint
    <3> QED
      BY <3>1, <3>2
  <2> QED
    BY <2>2, <2>3, <1>2, OneBarrier
<1> QED
  BY <1>1, <1>2 DEF AllActTogether

LEMMA InvGivesDrained ==
    ASSUME SyncInv, TogetherInv
    PROVE  CheckpointDrainsNetwork
<1>1. ASSUME NEW l \in Links, pc[To(l)] = "save", ~isAbort[To(l)],
             NEW i \in 1..Len(chan[l]), chan[l][i].type = "data"
      PROVE  chan[l][i].epoch > saved[To(l)]
  <2>1. Written(To(l)) = saved[To(l)] + 1 /\ saved[To(l)] \in Nat
    BY <1>1, LinkEnds DEF Written, SyncInv, StateOK
  <2>2. chan[l] \in Seq(Wire(l))
    BY DEF SyncInv, ChanOK
  <2>3. ASSUME NEW B, Parts(chan[l], Since(Written(To(l))), B),
               \A x \in Msgs(chan[l]) : x.type # "ack"
        PROVE  chan[l][i].epoch > saved[To(l)]
    <3>1. chan[l][i] \in Since(Written(To(l)))
      BY <2>2, <2>3, <1>1, PartsHolds
    <3>2. chan[l][i].epoch \in Nat /\ chan[l][i].epoch >= saved[To(l)] + 1
      BY <3>1, <2>1 DEF Since, Data
    <3> QED
      BY <3>2, <2>1
  <2>4. CASE To(l) \in Nodes
    <3>1. l = <<Switch, To(l)>> /\ EpochOK(To(l)) /\ Busy(To(l))
      BY <2>4, <1>1, LinkTo DEF TogetherInv, Busy, Live, Waiting
    <3>2. AcksIn(To(l)) = {} /\ chan[l] = Down(To(l))
      BY <2>4, <3>1, BusyNode DEF Down
    <3>3. \A x \in Msgs(chan[l]) : x.type # "ack"
      BY <3>2 DEF AcksIn
    <3>4. Parts(chan[l], Since(Written(To(l))), Since(AckWritten(To(l))))
      BY <3>1, <3>2 DEF EpochOK
    <3> QED
      BY <2>3, <3>3, <3>4
  <2>5. CASE To(l) = Switch
    <3>1. /\ l = <<From(l), Switch>> /\ From(l) \in Nodes /\ EpochOK(From(l))
      BY <2>5, LinkTo DEF TogetherInv
    <3>2. chan[l] = Up(From(l))
      BY <3>1 DEF Up
    <3>3. \A x \in Msgs(chan[l]) : x.type # "ack"
      <4>1. \A x \in Wire(l) : x.type # "ack"
        BY <2>5 DEF Wire, Data, Req
      <4> QED
        BY <4>1, <2>2 DEF Msgs
    <3>4. Parts(chan[l], Since(Written(To(l))), {})
      BY <3>1, <3>2, <2>5, <1>1 DEF EpochOK
    <3> QED
      BY <2>3, <3>3, <3>4
  <2> QED
    BY <2>4, <2>5, LinkTo
<1> QED
  BY <1>1 DEF CheckpointDrainsNetwork

(* With collective requests only, what SyncSwitch::run decides is done by  *)
(* all: nobody simulates past the tick at which one process leaves on an   *)
(* exit, and while one takes a checkpoint and none has failed every other  *)
(* one takes the same checkpoint, has written it, or is still to leave the *)
(* barrier that decided it.  Processes may die and connections break at    *)
(* any moment.                                                             *)
THEOREM ActTogether ==
    ASSUME CollectiveOnly
    PROVE  Spec => []AllActTogether
<1>1. SyncInv /\ TogetherInv => AllActTogether
  BY InvGivesTogether
<1> QED
  BY <1>1, SpecTogetherInv, PTL

(* With collective requests only, the second barrier of a checkpoint       *)
(* (Sync::drainComplete) empties the streams: when a process writes its    *)
(* state, and that barrier was not aborted, no packet sent before the same *)
(* checkpoint is still on the wire to it.                                  *)
THEOREM CheckpointDrains ==
    ASSUME CollectiveOnly
    PROVE  Spec => []CheckpointDrainsNetwork
<1>1. SyncInv /\ TogetherInv => CheckpointDrainsNetwork
  BY InvGivesDrained
<1> QED
  BY <1>1, SpecTogetherInv, PTL
-----------------------------------------------------------------------------
(* Packets in time.  Failures and checkpoints do not mix here: a process    *)
(* that loses a peer while it drains goes on alone, because m5.drain drops  *)
(* the exit event, and so does one that drains into its next sync.          *)

FailuresApart == \A w \in Workloads :
                    "ckpt" \notin w.ops \/ (w.deaths = 0 /\ MaxDrain < Repeat)

LoadOK == /\ load \in [ops : SUBSET Ops, pkts : Nat, deaths : Nat]
          /\ "ckpt" \notin load.ops \/ (load.deaths = 0 /\ MaxDrain < Repeat)

\* Nobody has asked for a checkpoint.
Plain(m) == /\ m.type = "req" => m.need["ckpt"] = "none"
            /\ m.type = "ack" => ~m.do["ckpt"]
NoCkpt ==
    /\ \A p \in Processes : /\ ~doing[p]["ckpt"] /\ pc[p] \notin {"drain", "save"}
                            /\ caller[p] # "drainComplete"
    /\ \A n \in Nodes : need[n]["ckpt"] = "none"
    /\ \A l \in Links : \A m \in Msgs(chan[l]) : Plain(m)
    /\ numReq["ckpt"] = 0

\* Nobody has failed or is on the way out.
Undisturbed == \A p \in Processes : Live(p) /\ exiting[p] = "no"

\* No drain lasts until the next sync.
DrainShort == \A p \in Processes : pc[p] = "drain" => tick[p] + Repeat <= when[p] + MaxDrain

Calm == (AllStopped \/ Undisturbed) /\ DrainShort

\* A process that simulates on without a sync is about to exit.
Sober(p) == Live(p) =>
    /\ pc[p] = "unsynced" => exiting[p] # "no" /\ tick[p] = when[p]
    /\ isAbort[p] => exiting[p] # "no"
    /\ \A l \in Links : To(l) = p /\ thread[l] = "lost" => exiting[p] # "no"

ModeInv == /\ LoadOK
           /\ "ckpt" \notin load.ops => NoCkpt
           /\ "ckpt" \in load.ops => Calm
           /\ \A p \in Processes : Sober(p)

LEMMA LoadStep ==
    ASSUME LoadOK, Next
    PROVE  LoadOK' /\ load'.ops = load.ops
<1>1. CASE load' = load
  BY <1>1 DEF LoadOK
<1>2. ASSUME NEW l \in Links, transmit(l) PROVE LoadOK' /\ load'.ops = load.ops
  <2>1. load' = [load EXCEPT !.pkts = load.pkts - 1] /\ load.pkts > 0
    BY <1>2 DEF transmit
  <2>2. /\ load'.ops = load.ops /\ load'.deaths = load.deaths
        /\ load' \in [ops : SUBSET Ops, pkts : Nat, deaths : Nat]
    BY <2>1 DEF LoadOK
  <2> QED
    BY <2>2 DEF LoadOK
<1>3. ASSUME NEW p \in Processes, Die(p) PROVE LoadOK' /\ load'.ops = load.ops
  <2>1. load' = [load EXCEPT !.deaths = load.deaths - 1] /\ load.deaths > 0
    BY <1>3 DEF Die
  <2>2. /\ load'.ops = load.ops /\ load.deaths # 0
        /\ load' \in [ops : SUBSET Ops, pkts : Nat, deaths : Nat]
    BY <2>1 DEF LoadOK
  <2> QED
    BY <2>2 DEF LoadOK
<1>4. ASSUME NEW p \in Processes, SimThread(p) PROVE load' = load
  BY <1>4 DEF SimThread, Advance, SyncProcess, ExitEvent, drainComplete, serialize, NodeRun,
              SwitchRun, StartReturns, ProcessReturns, DrainReturns, rxDone
<1>5. ASSUME NEW l \in Links, RecvThread(l) \/ transmitFails(l) PROVE load' = load
  BY <1>5 DEF RecvThread, pushPacket, progress, ConnectionLost, abort, transmitFails
<1>6. ASSUME NEW n \in Nodes, NEW op \in Ops, NEW req \in ReqTypes, request(n, op, req)
      PROVE  load' = load
  BY <1>6 DEF request
<1> QED
  BY <1>1, <1>2, <1>3, <1>4, <1>5, <1>6 DEF Next

(* While nobody asks for a checkpoint, none is taken. *)

LEMMA PlainWire ==
    ASSUME ChanOK, NEW l \in Links, \A m \in Msgs(chan[l]) : Plain(m),
           \/ chan'[l] = chan[l] \/ chan'[l] = <<>>
           \/ chan[l] # <<>> /\ chan'[l] = Tail(chan[l])
           \/ \E m \in Wire(l) : Plain(m) /\ chan'[l] = Append(chan[l], m)
    PROVE  \A m \in Msgs(chan'[l]) : Plain(m)
<1>0. chan[l] \in Seq(Wire(l))
  BY DEF ChanOK
<1>1. CASE chan[l] # <<>> /\ chan'[l] = Tail(chan[l])
  <2>1. Msgs(Tail(chan[l])) \subseteq Msgs(chan[l])
    BY <1>0, <1>1, MsgsTail
  <2> QED
    BY <2>1, <1>1
<1>2. ASSUME NEW m \in Wire(l), Plain(m), chan'[l] = Append(chan[l], m)
      PROVE  \A x \in Msgs(chan'[l]) : Plain(x)
  <2>1. Msgs(Append(chan[l], m)) = Msgs(chan[l]) \cup {m}
    BY <1>0, MsgsAppend
  <2> QED
    BY <2>1, <1>2
<1>3. CASE chan'[l] = <<>>
  BY <1>3, MsgsEmpty
<1> QED
  BY <1>1, <1>2, <1>3

LEMMA NoCkptEnds ==
    ASSUME SyncInv, NoCkpt, NEW p \in Processes, Ends(p, chan),
           UNCHANGED <<doing, caller, numReq>>,
           \A n \in Nodes : need'[n]["ckpt"] = "none"
    PROVE  NoCkpt'
<1>0. StateOK /\ ChanOK
  BY DEF SyncInv
<1>1. /\ pc' = [pc EXCEPT ![p] = "exited"]
      /\ chan' = [l \in Links |-> IF To(l) = p THEN <<>> ELSE chan[l]]
  BY DEF Ends, Without
<1>2. ASSUME NEW l \in Links PROVE \A m \in Msgs(chan'[l]) : Plain(m)
  <2>1. chan'[l] = chan[l] \/ chan'[l] = <<>>
    BY <1>1
  <2> QED
    BY <2>1, <1>0, PlainWire DEF NoCkpt
<1>3. \A q \in Processes : pc'[q] = pc[q] \/ pc'[q] = "exited"
  BY <1>0, <1>1 DEF StateOK
<1> QED
  BY <1>2, <1>3 DEF NoCkpt

LEMMA NoCkptLocal ==
    ASSUME SyncInv, NoCkpt, NEW p \in Processes, LocalAct(p), "ckpt" \notin load.ops
    PROVE  NoCkpt'
<1>0. StateOK /\ pc[p] \notin {"drain", "save"} /\ caller[p] # "drainComplete" /\ ~doing[p]["ckpt"]
  BY DEF SyncInv, NoCkpt
<1>1. UNCHANGED chan
  BY LocalFrame DEF Quiet
<1>2. ASSUME NEW op \in Ops, NEW req \in ReqTypes, p \in Nodes, request(p, op, req)
      PROVE  NoCkpt'
  <2>1. op # "ckpt" /\ need' = [need EXCEPT ![p][op] = req]
    BY <1>2 DEF request
  <2>2. \A n \in Nodes : need'[n]["ckpt"] = need[n]["ckpt"]
    BY <2>1, <1>0 DEF StateOK, Ops
  <2>3. UNCHANGED <<doing, pc, caller, numReq>>
    BY <1>2 DEF request, simVars
  <2> QED
    BY <2>2, <2>3, <1>1 DEF NoCkpt
<1>3. CASE Advance(p) \/ \E l \in Links : To(l) = p /\ rxDone(l)
  <2>1. UNCHANGED <<doing, pc, caller, numReq, need>>
    BY <1>3 DEF Advance, rxDone, simVars, syncVars
  <2> QED
    BY <2>1, <1>1 DEF NoCkpt
<1>4. CASE \/ SyncProcess(p) /\ pc[p] # "drain"
           \/ StartReturns(p) /\ ~Aborted(p)
           \/ ProcessReturns(p)
  <2>1. \E x \in {"run", "simulate", "unsynced"}, y \in {"start", "process"} :
           pc' = [pc EXCEPT ![p] = x] /\ caller' = [caller EXCEPT ![p] = y]
    <3>1. caller = [caller EXCEPT ![p] = caller[p]] /\ caller[p] \in {"start", "process"}
      BY <1>0 DEF StateOK
    <3> QED
      BY <1>0, <1>4, <3>1 DEF SyncProcess, StartReturns, ProcessReturns
  <2>2. UNCHANGED <<doing, numReq, need>>
    BY <1>4 DEF SyncProcess, StartReturns, ProcessReturns, syncVars
  <2>3. \A q \in Processes : pc'[q] \notin {"drain", "save"} /\ caller'[q] # "drainComplete"
    BY <2>1, <1>0 DEF StateOK, NoCkpt
  <2> QED
    BY <2>2, <2>3, <1>1 DEF NoCkpt
<1> QED
  BY <1>0, <1>2, <1>3, <1>4 DEF LocalAct, drainComplete, serialize, DrainReturns
LEMMA NoCkptFrame ==
    ASSUME SyncInv, NoCkpt,
           \A p \in Processes : /\ ~doing'[p]["ckpt"] /\ pc'[p] \notin {"drain", "save"}
                                /\ caller'[p] # "drainComplete",
           \A n \in Nodes : need'[n]["ckpt"] = "none",
           numReq'["ckpt"] = 0,
           \A l \in Links : \/ chan'[l] = chan[l] \/ chan'[l] = <<>>
                            \/ chan[l] # <<>> /\ chan'[l] = Tail(chan[l])
                            \/ \E m \in Wire(l) : Plain(m) /\ chan'[l] = Append(chan[l], m)
    PROVE  NoCkpt'
<1>1. ASSUME NEW l \in Links PROVE \A m \in Msgs(chan'[l]) : Plain(m)
  <2>1. ChanOK /\ \A m \in Msgs(chan[l]) : Plain(m)
    BY DEF SyncInv, NoCkpt
  <2> QED
    BY <2>1, PlainWire
<1> QED
  BY <1>1 DEF NoCkpt

\* What a command to all peers puts on the wire, or only to some of them.
LEMMA CommandWire ==
    ASSUME NEW p \in Processes, NEW m, sendCmd(p, m) \/ SendFails(p, m)
    PROVE  /\ \A l \in Links : \/ chan'[l] = chan[l] \/ chan'[l] = <<>>
                               \/ From(l) = p /\ chan'[l] = Append(chan[l], m)
           /\ SendFails(p, m) => pc' = [pc EXCEPT ![p] = "exited"]
<1>1. CASE sendCmd(p, m) /\ ~SendFails(p, m)
  BY <1>1 DEF sendCmd
<1>2. CASE SendFails(p, m)
  <2>1. PICK S \in SUBSET {q \in Peers(p) : Live(q)} :
            Ends(p, [l \in Links |-> IF From(l) = p /\ To(l) \in S
                                     THEN Append(chan[l], m) ELSE chan[l]])
    BY <1>2 DEF SendFails
  <2>2. /\ pc' = [pc EXCEPT ![p] = "exited"]
        /\ chan' = [l \in Links |-> IF To(l) = p THEN <<>>
                                    ELSE IF From(l) = p /\ To(l) \in S
                                         THEN Append(chan[l], m) ELSE chan[l]]
    BY <2>1 DEF Ends, Without
  <2> QED
    BY <2>2
<1> QED
  BY <1>1, <1>2

LEMMA NoCkptNodeRun ==
    ASSUME SyncInv, NoCkpt, NEW n \in Processes, NodeRun(n)
    PROVE  NoCkpt'
<1> DEFINE m == [type |-> "req", tick |-> tick[n], need |-> need[n]]
<1>0. n \in Nodes /\ n # Switch /\ StateOK /\ UNCHANGED <<caller, doing, numReq>>
  BY LinkEnds DEF SyncInv, NodeRun
<1>1. CASE isAbort[n]
  <2>1. Ends(n, chan) /\ UNCHANGED need
    BY <1>1 DEF NodeRun
  <2>2. \A k \in Nodes : need'[k]["ckpt"] = "none"
    BY <2>1 DEF NoCkpt
  <2> QED
    BY <1>0, <2>1, <2>2, NoCkptEnds
<1>2. CASE ~isAbort[n]
  <2>1. /\ need' = [need EXCEPT ![n] =
                      [op \in Ops |-> IF need[n][op] = "none" THEN "none" ELSE "pending"]]
        /\ \/ sendCmd(n, m) /\ pc' = [pc EXCEPT ![n] = "wait"]
           \/ SendFails(n, m)
    BY <1>2 DEF NodeRun
  <2>2. m \in Req /\ Plain(m)
    <3>1. /\ tick[n] \in 0..MaxTick /\ need[n]["ckpt"] = "none"
          /\ need[n] \in [Ops -> {"none", "collective", "immediate", "pending"}]
      BY <1>0 DEF StateOK, NoCkpt
    <3> QED
      BY <3>1 DEF Req, Plain
  <2> HIDE DEF m
  <2>3. /\ \A l \in Links : \/ chan'[l] = chan[l] \/ chan'[l] = <<>>
                            \/ From(l) = n /\ chan'[l] = Append(chan[l], m)
        /\ \E x \in {"wait", "exited"} : pc' = [pc EXCEPT ![n] = x]
    BY <2>1, CommandWire
  <2>4. \A l \in Links : From(l) = n => m \in Wire(l)
    BY <2>2, <1>0, LinkTo DEF Wire
  <2>5. \A k \in Nodes : need'[k]["ckpt"] = "none"
    BY <2>1, <1>0 DEF StateOK, NoCkpt, Ops
  <2>6. \A p \in Processes : /\ ~doing'[p]["ckpt"] /\ pc'[p] \notin {"drain", "save"}
                             /\ caller'[p] # "drainComplete"
    BY <2>3, <1>0 DEF StateOK, NoCkpt
  <2>7. numReq'["ckpt"] = 0
    BY <1>0 DEF NoCkpt
  <2>8. \A l \in Links : \/ chan'[l] = chan[l] \/ chan'[l] = <<>>
                         \/ chan[l] # <<>> /\ chan'[l] = Tail(chan[l])
                         \/ \E x \in Wire(l) : Plain(x) /\ chan'[l] = Append(chan[l], x)
    BY <2>2, <2>3, <2>4
  <2> QED
    BY <2>5, <2>6, <2>7, <2>8, NoCkptFrame
<1> QED
  BY <1>1, <1>2

LEMMA NoCkptSwitchRun ==
    ASSUME SyncInv, NoCkpt, SwitchRun
    PROVE  NoCkpt'
<1> DEFINE m == [type |-> "ack", tick |-> nextAt[Switch], do |-> [op \in Ops |-> Decided(op)]]
<1>0. Switch \in Processes /\ StateOK /\ UNCHANGED <<caller, need>>
  BY LinkEnds DEF SyncInv, SwitchRun
<1>1. m \in Ack /\ m.type = "ack"
  <2>1. \A op \in Ops : Decided(op) \in BOOLEAN
    BY DEF Decided
  <2>2. [op \in Ops |-> Decided(op)] \in [Ops -> BOOLEAN] /\ nextAt[Switch] \in Nat
    BY <2>1, <1>0 DEF StateOK
  <2> QED
    BY <2>2 DEF Ack
<1>2. ~m.do["ckpt"]
  <2>1. ~doing[Switch]["ckpt"] /\ numReq["ckpt"] = 0 /\ Cardinality(Nodes) > 0
    BY <1>0, Consts DEF NoCkpt
  <2>2. ~Decided("ckpt")
    BY <2>1 DEF Decided
  <2> QED
    BY <2>2 DEF Ops
<1>3. /\ doing' = [doing EXCEPT ![Switch] = m.do]
      /\ numReq' = IF m.do["ckpt"] THEN [numReq EXCEPT !["ckpt"] = 0] ELSE numReq
      /\ \/ sendCmd(Switch, m) /\ pc' = [pc EXCEPT ![Switch] = "return"]
         \/ SendFails(Switch, m)
  BY DEF SwitchRun
<1> HIDE DEF m
<1>4. /\ \A l \in Links : \/ chan'[l] = chan[l] \/ chan'[l] = <<>>
                          \/ From(l) = Switch /\ chan'[l] = Append(chan[l], m)
      /\ \E x \in {"return", "exited"} : pc' = [pc EXCEPT ![Switch] = x]
  BY <1>0, <1>3, CommandWire
<1>5. \A l \in Links : From(l) = Switch => m \in Wire(l)
  BY <1>1, LinkTo, Consts DEF Wire
<1>6. \A p \in Processes : /\ ~doing'[p]["ckpt"] /\ pc'[p] \notin {"drain", "save"}
                           /\ caller'[p] # "drainComplete"
  BY <1>0, <1>2, <1>3, <1>4 DEF StateOK, NoCkpt
<1>7. numReq'["ckpt"] = 0 /\ \A n \in Nodes : need'[n]["ckpt"] = "none"
  BY <1>0, <1>2, <1>3 DEF NoCkpt
<1>8. \A l \in Links : \/ chan'[l] = chan[l] \/ chan'[l] = <<>>
                       \/ chan[l] # <<>> /\ chan'[l] = Tail(chan[l])
                       \/ \E x \in Wire(l) : Plain(x) /\ chan'[l] = Append(chan[l], x)
  BY <1>1, <1>2, <1>4, <1>5 DEF Plain
<1> QED
  BY <1>6, <1>7, <1>8, NoCkptFrame
LEMMA NoCkptProgress ==
    ASSUME SyncInv, NoCkpt, NEW l \in Links, progress(l)
    PROVE  NoCkpt'
<1> DEFINE m == Head(chan[l])
<1>0. /\ StateOK /\ ChanOK /\ To(l) \in Processes
      /\ chan[l] \in Seq(Wire(l)) /\ \A x \in Msgs(chan[l]) : Plain(x)
  BY LinkEnds DEF SyncInv, ChanOK, NoCkpt
<1>1. /\ chan[l] # <<>> /\ chan' = [chan EXCEPT ![l] = Tail(chan[l])]
      /\ m.type \in {"req", "ack"} /\ UNCHANGED <<pc, caller, need>>
  BY DEF progress, Receiving, simVars
<1>2. /\ \A k \in Links : chan'[k] = IF k = l THEN Tail(chan[l]) ELSE chan[k]
      /\ m \in Wire(l)
  BY <1>0, <1>1, TakeHead
<1>3. Plain(m)
  BY <1>0, <1>1, MsgsTail
<1>4. /\ To(l) = Switch => m.type = "req" /\ m.need["ckpt"] = "none"
      /\ To(l) # Switch => m.type = "ack" /\ m.do["ckpt"] = FALSE
  <2>1. m \in Data(l) \cup (IF To(l) = Switch THEN Req ELSE Ack)
    BY <1>2 DEF Wire
  <2>2. /\ To(l) = Switch => m \in Req
        /\ To(l) # Switch => m \in Ack
    BY <2>1, <1>1 DEF Data
  <2>3. To(l) # Switch => m.do \in [Ops -> BOOLEAN] /\ m.type = "ack"
    BY <2>2 DEF Ack
  <2>4. To(l) = Switch => m.type = "req"
    BY <2>2 DEF Req
  <2> QED
    BY <2>3, <2>4, <1>3 DEF Plain, Ops
<1>5. /\ \A p \in Processes : ~doing'[p]["ckpt"]
      /\ numReq'["ckpt"] = 0
  <2>0. (\A p \in Processes : ~doing[p]["ckpt"]) /\ numReq["ckpt"] = 0 /\ "ckpt" \in Ops
    BY DEF NoCkpt, Ops
  <2>1. CASE isAbort[To(l)]
    BY <2>0, <2>1 DEF progress
  <2>2. CASE ~isAbort[To(l)] /\ To(l) = Switch
    <3>1. SwitchProgress(m)
      BY <2>2 DEF progress
    <3> HIDE DEF m
    <3>2. /\ numReq' = [op \in Ops |-> IF m.need[op] = "collective" THEN numReq[op] + 1
                                       ELSE numReq[op]]
          /\ doing' = [doing EXCEPT ![Switch] =
                        [op \in Ops |-> doing[Switch][op] \/ m.need[op] = "immediate"]]
      BY <3>1 DEF SwitchProgress
    <3>3. numReq'["ckpt"] = 0
      BY <3>2, <2>0, <2>2, <1>4
    <3>4. \A p \in Processes : ~doing'[p]["ckpt"]
      BY <3>2, <2>0, <2>2, <1>0, <1>4 DEF StateOK
    <3> QED
      BY <3>3, <3>4
  <2>3. CASE ~isAbort[To(l)] /\ To(l) # Switch
    <3>1. NodeProgress(To(l), m)
      BY <2>3 DEF progress
    <3> HIDE DEF m
    <3>2. doing' = [doing EXCEPT ![To(l)] = m.do] /\ UNCHANGED numReq
      BY <3>1 DEF NodeProgress
    <3> QED
      BY <3>2, <2>0, <2>3, <1>0, <1>4 DEF StateOK
  <2> QED
    BY <2>1, <2>2, <2>3
<1>6. \A p \in Processes : /\ ~doing'[p]["ckpt"] /\ pc'[p] \notin {"drain", "save"}
                           /\ caller'[p] # "drainComplete"
  BY <1>1, <1>5 DEF NoCkpt
<1>7. \A n \in Nodes : need'[n]["ckpt"] = "none"
  BY <1>1 DEF NoCkpt
<1> QED
  BY <1>1, <1>2, <1>5, <1>6, <1>7, NoCkptFrame

LEMMA NoCkptStep ==
    ASSUME SyncInv, NoCkpt, "ckpt" \notin load.ops, Next
    PROVE  NoCkpt'
<1>0. ASSUME NEW p \in Processes, Ends(p, chan), UNCHANGED <<doing, caller, numReq, need>>
      PROVE  NoCkpt'
  <2>1. \A n \in Nodes : need'[n]["ckpt"] = "none"
    BY <1>0 DEF NoCkpt
  <2> QED
    BY <1>0, <2>1, NoCkptEnds
<1>1. ASSUME NEW p \in Processes, SimThread(p) PROVE NoCkpt'
  <2>1. CASE LocalAct(p)
    BY <2>1, NoCkptLocal
  <2>2. pc[p] # "drain"
    BY DEF NoCkpt
  <2>3. CASE ExitEvent(p)
    BY <2>2, <2>3, <1>0 DEF ExitEvent, syncVars
  <2>4. CASE StartReturns(p) /\ Aborted(p)
    <3>0. ~Completed(p)
      BY <2>4 DEF SyncInv, ProcessOK, Aborted, Completed, Live
    <3> QED
      BY <2>4, <3>0, <1>0 DEF StartReturns, syncVars
  <2> QED
    BY <1>1, <2>1, <2>2, <2>3, <2>4, NoCkptNodeRun, NoCkptSwitchRun DEF SimThread, LocalAct
<1>2. ASSUME NEW p \in Processes, Die(p) PROVE NoCkpt'
  BY <1>2, <1>0 DEF Die, syncVars
<1>3. ASSUME NEW l \in Links, transmitFails(l) PROVE NoCkpt'
  BY <1>3, <1>0, LinkEnds DEF transmitFails, syncVars
<1>4. ASSUME NEW l \in Links, ConnectionLost(l) \/ abort(l) PROVE NoCkpt'
  <2>1. UNCHANGED <<doing, pc, caller, need, numReq, chan>>
    BY <1>4 DEF ConnectionLost, abort, syncVars, simVars
  <2> QED
    BY <2>1 DEF NoCkpt
<1>5. ASSUME NEW l \in Links, pushPacket(l) \/ transmit(l) PROVE NoCkpt'
  <2>1. UNCHANGED <<doing, pc, caller, need, numReq>>
    BY <1>5 DEF pushPacket, transmit, syncVars, simVars
  <2>2. \A k \in Links : \/ chan'[k] = chan[k] \/ chan'[k] = <<>>
                         \/ chan[k] # <<>> /\ chan'[k] = Tail(chan[k])
                         \/ \E x \in Wire(k) : Plain(x) /\ chan'[k] = Append(chan[k], x)
    <3>1. CASE pushPacket(l)
      <4>1. Takes(l)
        BY <3>1, PushPacketEffect
      <4> QED
        BY <4>1 DEF Takes
    <3>2. CASE transmit(l)
      <4>1. PICK m \in Data(Switch) : Sends(l, m)
        BY <3>2, TransmitEffect
      <4>2. Plain(m) /\ m \in Wire(l)
        BY DEF Data, Plain, Wire
      <4> QED
        BY <4>1, <4>2 DEF Sends
    <3> QED
      BY <1>5, <3>1, <3>2
  <2>3. \A p \in Processes : /\ ~doing'[p]["ckpt"] /\ pc'[p] \notin {"drain", "save"}
                             /\ caller'[p] # "drainComplete"
    BY <2>1 DEF NoCkpt
  <2>4. numReq'["ckpt"] = 0 /\ \A n \in Nodes : need'[n]["ckpt"] = "none"
    BY <2>1 DEF NoCkpt
  <2> QED
    BY <2>2, <2>3, <2>4, NoCkptFrame
<1>6. ASSUME NEW n \in Nodes, NEW op \in Ops, NEW req \in ReqTypes, request(n, op, req)
      PROVE  NoCkpt'
  <2>1. n \in Processes /\ LocalAct(n)
    BY <1>6, LinkEnds DEF LocalAct
  <2> QED
    BY <2>1, NoCkptLocal
<1> QED
  BY <1>1, <1>2, <1>3, <1>4, <1>5, <1>6, NoCkptProgress DEF Next, RecvThread
(* While no process may die, all go on until they leave together. *)

\* The clocks stand still and nobody ends.
Steady == /\ UNCHANGED <<tick, when, exiting>>
          /\ \A p \in Processes : Live(p)' /\ (pc'[p] = "drain" => pc[p] = "drain")

LEMMA UndisturbedStep ==
    ASSUME SyncInv, TogetherInv, Undisturbed, DrainShort, load.deaths = 0, MaxDrain < Repeat, Next
    PROVE  Steady \/ \E p \in Processes : LocalAct(p)
<1> DEFINE Goal == Steady \/ \E p \in Processes : LocalAct(p)
<1>0. /\ StateOK /\ Switch \in Processes
      /\ \A p \in Processes : Live(p) /\ exiting[p] = "no"
      /\ \A n \in Nodes : NodeOK(n) /\ LostOK(n) /\ n \in Processes
  BY LinkEnds DEF SyncInv, TogetherInv, Undisturbed
<1>1. /\ \A p \in Processes : ~isAbort[p]
      /\ \A l \in Links : thread[l] # "lost"
  <2>1. \A n \in Nodes : /\ ~isAbort[n] /\ thread[<<Switch, n>>] # "lost"
                         /\ ~isAbort[Switch] /\ thread[<<n, Switch>>] # "lost"
    BY <1>0 DEF NodeOK, LostOK
  <2>2. ASSUME NEW l \in Links PROVE thread[l] # "lost"
    <3>1. PICK n \in Nodes : l = <<n, Switch>> \/ l = <<Switch, n>>
      BY LinkEnds
    <3> QED
      BY <2>1, <3>1
  <2>3. ~isAbort[Switch]
    BY <2>1, SyncAssumption DEF SyncAssumption
  <2> QED
    BY <2>1, <2>2, <2>3 DEF Processes
<1>2. ASSUME NEW p \in Processes, NEW m PROVE ~SendFails(p, m)
  <2>1. Peers(p) \subseteq Processes
    BY DEF Peers, Processes
  <2> QED
    BY <2>1, <1>0 DEF SendFails
<1>3. ASSUME UNCHANGED <<tick, when, exiting, pc>> PROVE Goal
  BY <1>0, <1>3 DEF Steady, Live
<1>4. ASSUME UNCHANGED <<tick, when, exiting>>, NEW p \in Processes,
             NEW x \in {"wait", "return"}, pc' = [pc EXCEPT ![p] = x]
      PROVE  Goal
  BY <1>0, <1>4 DEF Steady, Live, StateOK
<1>5. ASSUME NEW p \in Processes, SimThread(p) PROVE Goal
  <2>1. CASE SyncProcess(p) /\ pc[p] = "drain"
    <3>1. tick[p] = when[p] /\ tick[p] + Repeat <= when[p] + MaxDrain
      BY <2>1 DEF SyncProcess, DrainShort
    <3>2. tick[p] \in Nat /\ Repeat \in Nat /\ MaxDrain \in Nat
      BY <1>0, SyncAssumption DEF StateOK, SyncAssumption
    <3> QED
      BY <3>1, <3>2
  <2>2. CASE ExitEvent(p) \/ (StartReturns(p) /\ Aborted(p))
    BY <2>2, <1>0, <1>1 DEF ExitEvent, Aborted
  <2>3. CASE NodeRun(p)
    <3>1. UNCHANGED <<tick, when, exiting>> /\ pc' = [pc EXCEPT ![p] = "wait"]
      BY <2>3, <1>1, <1>2 DEF NodeRun
    <3> QED
      BY <3>1, <1>4
  <2>4. CASE SwitchRun
    <3>1. UNCHANGED <<tick, when, exiting>> /\ pc' = [pc EXCEPT ![Switch] = "return"]
      BY <2>4, <1>0, <1>2 DEF SwitchRun
    <3> QED
      BY <3>1, <1>0, <1>4
  <2>5. CASE LocalAct(p)
    BY <2>5
  <2> HIDE DEF Goal
  <2> QED
    BY <1>5, <2>1, <2>2, <2>3, <2>4, <2>5 DEF SimThread, LocalAct
<1>6. ASSUME NEW p \in Processes PROVE ~Die(p)
  BY DEF Die
<1>7. ASSUME NEW l \in Links PROVE ~transmitFails(l) /\ ~ConnectionLost(l) /\ ~abort(l)
  BY <1>0, <1>1, LinkEnds DEF transmitFails, ConnectionLost, abort
<1>8. ASSUME NEW l \in Links, transmit(l) \/ pushPacket(l) \/ progress(l) PROVE Goal
  <2>1. UNCHANGED <<tick, when, exiting, pc>>
    BY <1>8 DEF transmit, pushPacket, progress, simVars
  <2> QED
    BY <2>1, <1>3
<1>9. ASSUME NEW n \in Nodes, NEW op \in Ops, NEW req \in ReqTypes, request(n, op, req) PROVE Goal
  BY <1>9, <1>0 DEF LocalAct
<1> HIDE DEF Goal
<1>10. Goal
  BY <1>5, <1>6, <1>7, <1>8, <1>9 DEF Next, RecvThread
<1> QED
  BY <1>10 DEF Goal

LEMMA DrainShortLocal ==
    ASSUME SyncInv, DrainShort, NEW p \in Processes, LocalAct(p)
    PROVE  DrainShort'
<1>0. StateOK /\ Others(p) /\ tick[p] \in Nat /\ when[p] \in Nat
  BY SMTT(30), LocalFrame DEF SyncInv, StateOK
<1>1. Repeat \in Nat /\ MaxDrain \in Nat
  BY SyncAssumption DEF SyncAssumption
<1>2. \A q \in Processes \ {p} : pc'[q] = "drain" => tick'[q] + Repeat <= when'[q] + MaxDrain
  BY <1>0 DEF Others, Keeps, Same, DrainShort
<1>3. ASSUME pc'[p] = "drain" PROVE tick'[p] + Repeat <= when'[p] + MaxDrain
  <2>1. CASE Advance(p)
    <3>1. /\ tick' = [tick EXCEPT ![p] = tick[p] + 1] /\ UNCHANGED <<when, pc>>
          /\ pc[p] = "drain" => tick[p] + Repeat < when[p] + MaxDrain
      BY <2>1 DEF Advance
    <3>2. tick'[p] = tick[p] + 1 /\ when'[p] = when[p] /\ tick[p] + Repeat < when[p] + MaxDrain
      BY <3>1, <1>0, <1>3 DEF StateOK
    <3> QED
      BY <3>2, <1>0, <1>1
  <2>2. CASE ProcessReturns(p)
    <3>1. when' = [when EXCEPT ![p] = tick[p] + Repeat] /\ UNCHANGED tick
      BY <2>2, <1>0, <1>3 DEF ProcessReturns, StateOK
    <3>2. when'[p] = tick[p] + Repeat
      BY <3>1, <1>0 DEF StateOK
    <3> QED
      BY <3>1, <3>2, <1>0, <1>1
  <2>3. CASE ~Advance(p) /\ ~ProcessReturns(p)
    <3>1. UNCHANGED <<tick, when, pc>>
      <4>1. CASE SyncProcess(p) /\ pc[p] # "drain"
        BY <4>1, <1>0, <1>3 DEF SyncProcess, StateOK
      <4>2. CASE drainComplete(p) \/ serialize(p) \/ DrainReturns(p)
        BY <4>2, <1>0, <1>3 DEF drainComplete, serialize, DrainReturns, StateOK
      <4>3. CASE StartReturns(p) /\ ~Aborted(p)
        BY <4>3, <1>0, <1>3 DEF StartReturns, StateOK
      <4>4. CASE ExitEvent(p) /\ pc[p] = "drain"
        BY <4>4 DEF ExitEvent
      <4>5. CASE \E l \in Links : To(l) = p /\ rxDone(l)
        BY <4>5 DEF rxDone, simVars
      <4>6. CASE \E op \in Ops, req \in ReqTypes : request(p, op, req)
        BY <4>6 DEF request, simVars
      <4> QED
        BY <2>3, <4>1, <4>2, <4>3, <4>4, <4>5, <4>6 DEF LocalAct
    <3> QED
      BY <3>1, <1>3 DEF DrainShort
  <2> QED
    BY <2>1, <2>2, <2>3
<1> QED
  BY <1>2, <1>3 DEF DrainShort

LEMMA CalmStep ==
    ASSUME SyncInv, TogetherInv, Calm, load.deaths = 0, MaxDrain < Repeat, Next
    PROVE  Calm'
<1>1. CASE AllStopped
  <2>1. AllStopped'
    BY <1>1, StoppedStays
  <2>2. \A p \in Processes : pc'[p] # "drain"
    BY <2>1 DEF AllStopped, Stopped, StoppedNode, Live
  <2> QED
    BY <2>1, <2>2 DEF Calm, DrainShort
<1>2. CASE Undisturbed /\ ~AllStopped
  <2>0. StateOK /\ DrainShort
    BY DEF Calm, SyncInv, DrainShort
  <2>1. CASE Steady
    BY <1>2, <2>0, <2>1 DEF Steady, Undisturbed, DrainShort, Calm
  <2>2. ASSUME NEW p \in Processes, LocalAct(p) PROVE Calm'
    <3>1. DrainShort' /\ Others(p) /\ Live(p)'
      BY <2>0, <2>2, DrainShortLocal, LocalFrame
    <3>2. exiting'[p] = "no"
      <4>1. exiting[p] = "no" /\ Live(p)
        BY <1>2 DEF Undisturbed
      <4>2. CASE ProcessReturns(p)
        <5>1. ~(Completed(p) /\ doing[p]["exit"] /\ caller[p] = "process")
          BY <1>2 DEF TogetherInv, LeaveOK, Leaves
        <5> QED
          BY <4>1, <4>2, <5>1 DEF ProcessReturns
      <4>3. CASE ~ProcessReturns(p)
        <5>1. UNCHANGED exiting
          BY <2>2, <4>1, <4>3 DEF LocalAct, Advance, SyncProcess, ExitEvent, drainComplete, serialize,
                             StartReturns, DrainReturns, rxDone, request, simVars
        <5> QED
          BY <5>1, <4>1
      <4> QED
        BY <4>2, <4>3
    <3>3. \A q \in Processes : Live(q)' /\ exiting'[q] = "no"
      BY <1>2, <3>1, <3>2 DEF Undisturbed, Others, Keeps, Same, Live
    <3> QED
      BY <3>1, <3>3 DEF Calm, DrainShort, Undisturbed
  <2> QED
    BY <1>2, <2>0, <2>1, <2>2, UndisturbedStep
<1> QED
  BY <1>1, <1>2 DEF Calm
(* No exit event is lost, so that whoever is cut off ends where it is. *)

LEMMA NoSwallow ==
    ASSUME ModeInv, NEW p \in Processes, pc[p] = "drain"
    PROVE  exiting[p] = "no"
<1>1. ~AllStopped
  BY DEF AllStopped, Stopped, StoppedNode, Live
<1> QED
  BY <1>1 DEF ModeInv, NoCkpt, Calm, Undisturbed

LEMMA SoberFrame ==
    ASSUME NEW p \in Processes, Sober(p), Keeps(p),
           exiting[p] # "no" => exiting'[p] # "no",
           \A l \in Links : To(l) = p /\ thread'[l] = "lost"
                               => thread[l] = "lost" \/ exiting'[p] # "no"
    PROVE  Sober(p)'
BY DEF Sober, Keeps, Same, Live

LEMMA SoberLocal ==
    ASSUME SyncInv, ModeInv, NEW p \in Processes, LocalAct(p)
    PROVE  Sober(p)'
<1>0. /\ StateOK /\ Quiet /\ Live(p) /\ Sober(p) /\ ProcessOK(p)
      /\ pc[p] = "drain" => exiting[p] = "no"
  BY LocalFrame, NoSwallow DEF SyncInv, ModeInv, Busy
<1>1. exiting[p] # "no" => exiting'[p] # "no"
  <2>1. CASE ProcessReturns(p)
    BY <2>1, <1>0 DEF ProcessReturns, StateOK
  <2>2. CASE ~ProcessReturns(p)
    BY <2>2, <1>0 DEF LocalAct, Advance, SyncProcess, ExitEvent, drainComplete, serialize,
                             StartReturns, DrainReturns, rxDone, request, simVars
  <2> QED
    BY <2>1, <2>2
<1>2. ASSUME pc'[p] = "unsynced" PROVE exiting'[p] # "no" /\ tick'[p] = when'[p]
  <2>1. CASE ProcessReturns(p)
    <3>1. InBarrier(p) /\ caller[p] = "process" /\ tick[p] = when[p]
      BY <2>1, <1>0 DEF ProcessReturns, Completed, Aborted, InBarrier, ProcessOK
    <3>2. ~(Completed(p) /\ ~doing[p]["exit"] /\ pc' =
              [pc EXCEPT ![p] = IF doing[p]["ckpt"] THEN "drain" ELSE "simulate"])
      BY <1>0, <1>2 DEF StateOK
    <3>3. /\ UNCHANGED <<when, tick>>
          /\ exiting' = [exiting EXCEPT ![p] = "request"] \/ (exiting' = exiting /\ isAbort[p])
      BY <2>1, <3>2 DEF ProcessReturns, Aborted
    <3>4. exiting'[p] # "no"
      BY <3>3, <1>0 DEF Sober, StateOK
    <3> QED
      BY <3>1, <3>3, <3>4
  <2>2. CASE ~ProcessReturns(p)
    <3>1. UNCHANGED <<pc, exiting, tick, when>>
      <4>1. CASE \/ SyncProcess(p) /\ pc[p] # "drain"
                 \/ drainComplete(p) \/ serialize(p) \/ DrainReturns(p)
                 \/ StartReturns(p) /\ ~Aborted(p)
        BY <4>1, <1>0, <1>2 DEF SyncProcess, drainComplete, serialize, DrainReturns, StartReturns,
                                StateOK
      <4>2. CASE Advance(p) \/ (ExitEvent(p) /\ pc[p] = "drain")
        BY <4>2, <1>0, <1>2 DEF Advance, ExitEvent, Sober
      <4>3. CASE \/ \E l \in Links : To(l) = p /\ rxDone(l)
                 \/ \E op \in Ops, req \in ReqTypes : request(p, op, req)
        BY <4>3 DEF rxDone, request, simVars
      <4> QED
        BY <2>2, <4>1, <4>2, <4>3 DEF LocalAct
    <3> QED
      BY <3>1, <1>0, <1>2 DEF Sober
  <2> QED
    BY <2>1, <2>2
<1> QED
  BY <1>0, <1>1, <1>2 DEF Sober, Quiet

LEMMA SoberStep ==
    ASSUME SyncInv, ModeInv, Next, NEW q \in Processes
    PROVE  Sober(q)'
<1>0. Sober(q) /\ StateOK /\ Switch \in Processes /\ \A n \in Nodes : n \in Processes
  BY LinkEnds DEF ModeInv, SyncInv
<1>1. ASSUME ~Live(q)' PROVE Sober(q)'
  BY <1>1 DEF Sober
<1>2. ASSUME Keeps(q), exiting'[q] = exiting[q],
             \A l \in Links : thread'[l] = "lost" => thread[l] = "lost"
      PROVE  Sober(q)'
  BY <1>0, <1>2, SoberFrame
<1>3. ASSUME NEW p \in Processes, LocalAct(p) \/ Gone(p) PROVE Sober(q)'
  <2>1. Others(p) /\ (UNCHANGED thread) /\ (LocalAct(p) \/ ~Live(p)')
    BY <1>3, LocalFrame DEF Gone, Quiet
  <2> QED
    BY <2>1, <1>1, <1>2, SoberLocal DEF Others
<1>4. ASSUME NEW n \in Nodes, Asks(n) PROVE Sober(q)'
  <2>1. /\ Others(n) /\ UNCHANGED <<thread, isAbort, exiting>> /\ pc'[n] = "wait" /\ Live(n)
    BY <1>4 DEF Asks, Live
  <2>2. Sober(n)'
    BY <2>1, <1>0 DEF ModeInv, Sober
  <2> QED
    BY <2>1, <2>2, <1>2 DEF Others
<1>5. ASSUME NEW n \in Nodes, Counts(n) \/ \E m \in Ack : Hears(n, m) PROVE Sober(q)'
  <2>1. /\ UNCHANGED <<isAbort, exiting, tick, when, pc>>
        /\ \A l \in Links : thread'[l] = "lost" => thread[l] = "lost"
    BY <1>5 DEF Counts, Hears
  <2> QED
    BY <2>1, <1>0 DEF Sober, Live
<1>6. ASSUME NEW m \in Ack, NEW S \in SUBSET {n \in Nodes : Live(n)}, Answers(m, S) PROVE Sober(q)'
  <2>1. /\ Others(Switch) /\ UNCHANGED <<thread, isAbort, exiting>> /\ Live(Switch)
        /\ pc'[Switch] \in {"return", "exited"}
    BY <1>6 DEF Answers
  <2>2. Sober(Switch)'
    BY <2>1, <1>0 DEF ModeInv, Sober
  <2> QED
    BY <2>1, <2>2, <1>2 DEF Others
<1>7. ASSUME NEW l \in Links, Takes(l) \/ \E m \in Data(Switch) : Sends(l, m) PROVE Sober(q)'
  BY <1>2, <1>7 DEF Takes, Sends, Nobody
<1>8. ASSUME NEW l \in Links, ConnectionLost(l) PROVE Sober(q)'
  <2>1. /\ UNCHANGED <<tick, when, pc, caller, waitNum, isAbort, doing, saved>>
        /\ thread' = [thread EXCEPT ![l] = "lost"]
        /\ exiting' = [exiting EXCEPT ![To(l)] = IF exiting[To(l)] = "no" THEN "lost"
                                                 ELSE exiting[To(l)]]
    BY <1>8 DEF ConnectionLost, syncVars
  <2>2. exiting[q] # "no" => exiting'[q] # "no"
    BY <2>1, <1>0 DEF StateOK
  <2>3. \A k \in Links : To(k) = q /\ thread'[k] = "lost" => thread[k] = "lost" \/ exiting'[q] # "no"
    <3>1. To(l) = q => exiting'[q] # "no"
      BY <2>1, <1>0 DEF StateOK
    <3> QED
      BY <2>1, <3>1, <1>0 DEF StateOK
  <2>4. Keeps(q)
    BY <2>1 DEF Keeps, Same
  <2> QED
    BY <2>2, <2>3, <2>4, <1>0, SoberFrame
<1>9. ASSUME NEW l \in Links, abort(l) PROVE Sober(q)'
  <2>1. /\ UNCHANGED <<tick, when, pc, exiting>>
        /\ thread[l] = "lost" /\ thread' = [thread EXCEPT ![l] = "done"]
        /\ isAbort' = [isAbort EXCEPT ![To(l)] = TRUE]
    BY <1>9 DEF abort, simVars
  <2>2. isAbort'[q] /\ Live(q) => exiting[q] # "no"
    BY <2>1, <1>0 DEF Sober, StateOK
  <2>3. \A k \in Links : thread'[k] = "lost" => thread[k] = "lost"
    BY <2>1, <1>0 DEF StateOK
  <2> QED
    BY <2>1, <2>2, <2>3, <1>0 DEF Sober, Live
<1> QED
  BY <1>3, <1>4, <1>5, <1>6, <1>7, <1>8, <1>9, StepCases

LEMMA ModeStep ==
    ASSUME SyncInv, TogetherInv, ModeInv, Next
    PROVE  ModeInv'
<1>1. LoadOK' /\ load'.ops = load.ops
  BY LoadStep DEF ModeInv
<1>2. ASSUME "ckpt" \notin load.ops PROVE NoCkpt'
  BY <1>2, NoCkptStep DEF ModeInv
<1>3. ASSUME "ckpt" \in load.ops PROVE Calm'
  BY <1>3, CalmStep DEF ModeInv, LoadOK
<1> QED
  BY <1>1, <1>2, <1>3, SoberStep DEF ModeInv

LEMMA ModeInit ==
    ASSUME FailuresApart, Init
    PROVE  ModeInv
<1>1. LoadOK
  BY SyncAssumption DEF Init, FailuresApart, LoadOK, SyncAssumption
<1>2. /\ \A p \in Processes : /\ pc[p] = "run" /\ exiting[p] = "no" /\ ~isAbort[p]
                              /\ caller[p] = "start" /\ ~doing[p]["ckpt"]
      /\ \A l \in Links : chan[l] = <<>> /\ thread[l] = "recv"
      /\ \A n \in Nodes : need[n]["ckpt"] = "none"
      /\ numReq["ckpt"] = 0
  BY DEF Init, Ops
<1>3. NoCkpt
  BY <1>2, MsgsEmpty DEF NoCkpt
<1>4. Calm
  BY <1>2 DEF Calm, Undisturbed, DrainShort, Live
<1>5. \A p \in Processes : Sober(p)
  BY <1>2 DEF Sober
<1> QED
  BY <1>1, <1>3, <1>4, <1>5 DEF ModeInv
-----------------------------------------------------------------------------
(* The next sync of each process, and the packets that belong before it.    *)

\* The packets sent in the quantum that ends at tick w.
Window(w) == {d \in Data(Switch) : /\ d.tick > SyncStart /\ d.tick <= w
                                   /\ d.tick + Repeat > w}
Late(n) == {d \in Data(Switch) : \A m \in AcksIn(n) : d \in Window(AckSync(n, m))}

DownOK(n) == Parts(Down(n), Window(NextSync(n)), Late(n))
UpOK(n) == Parts(Up(n), Window(NextSync(Switch)), {})

WindowInv == \A n \in Nodes : DownOK(n) /\ UpOK(n)

\* The next sync moves when a process learns that the barrier is complete.
LEMMA LocalNextSync ==
    ASSUME SyncInv, NEW p \in Processes, LocalAct(p)
    PROVE  NextSync(p)' = NextSync(p)
<1>0. /\ StateOK /\ ProcessOK(p) /\ Live(p) /\ (p \in Nodes => NodeOK(p)) /\ SwitchOK
      /\ UNCHANGED <<waitNum, isAbort>>
  BY LocalFrame DEF SyncInv, Busy, Quiet
<1>1. CASE Advance(p) \/ (ExitEvent(p) /\ pc[p] = "drain") \/ serialize(p)
  <2>1. /\ pc[p] \in {"simulate", "unsynced", "drain", "save"}
        /\ pc'[p] \in {"simulate", "unsynced", "drain", "save"} /\ UNCHANGED when
    BY <1>0, <1>1 DEF Advance, ExitEvent, serialize, Simulating, StateOK
  <2> QED
    BY <2>1 DEF NextSync, InStart, InBarrier, Completed
<1>2. CASE \E l \in Links : To(l) = p /\ rxDone(l)
  BY <1>0, <1>2 DEF rxDone, simVars, syncVars, NextSync, InStart, InBarrier, Completed
<1>3. CASE \E op \in Ops, req \in ReqTypes : request(p, op, req)
  BY <1>0, <1>3 DEF request, simVars, NextSync, InStart, InBarrier, Completed
<1>4. CASE (SyncProcess(p) /\ pc[p] # "drain") \/ drainComplete(p)
  <2>1. /\ pc[p] \in {"simulate", "drain"} /\ pc'[p] = "run" /\ UNCHANGED when
        /\ caller'[p] \in {"process", "drainComplete"}
    BY <1>0, <1>4 DEF SyncProcess, drainComplete, StateOK
  <2> QED
    BY <2>1 DEF NextSync, InStart, InBarrier, Completed
<1>5. CASE StartReturns(p) /\ ~Aborted(p)
  <2>1. /\ when' = [when EXCEPT ![p] = nextAt[p]] /\ pc' = [pc EXCEPT ![p] = "simulate"]
        /\ Completed(p) /\ caller[p] = "start"
    BY <1>5 DEF StartReturns
  <2>2. InStart(p) /\ NextSync(p) = SyncStart
    BY <2>1 DEF InStart, InBarrier, NextSync, Completed
  <2>3. nextAt[p] = SyncStart
    <3>1. CASE p \in Nodes
      BY <3>1, <2>1, <1>0 DEF NodeOK
    <3>2. CASE p = Switch
      BY <3>2, <2>2, <1>0, Consts DEF SwitchOK, StateOK
    <3> QED
      BY <3>1, <3>2 DEF Processes
  <2>4. when'[p] = SyncStart /\ pc'[p] = "simulate"
    BY <2>1, <2>3, <1>0 DEF StateOK
  <2> QED
    BY <2>2, <2>4 DEF NextSync, InStart, InBarrier, Completed
<1>6. CASE ProcessReturns(p)
  <2>1. caller[p] = "process" /\ (Completed(p) \/ Aborted(p)) /\ (Aborted(p) => ~Completed(p))
    BY <1>0, <1>6 DEF ProcessReturns, Aborted, Completed, ProcessOK
  <2>2. NextSync(p) = IF Completed(p) /\ ~doing[p]["exit"] THEN tick[p] + Repeat ELSE when[p]
    BY <2>1 DEF NextSync, InStart
  <2>3. when'[p] = IF Completed(p) /\ ~doing[p]["exit"] THEN tick[p] + Repeat ELSE when[p]
    BY <2>1, <1>0, <1>6 DEF ProcessReturns, StateOK
  <2>4. pc'[p] \in {"unsynced", "drain", "simulate"}
    BY <1>0, <1>6 DEF ProcessReturns, StateOK
  <2>5. NextSync(p)' = when'[p]
    BY <2>4 DEF NextSync, InStart, InBarrier, Completed
  <2> QED
    BY <2>2, <2>3, <2>5
<1>7. CASE DrainReturns(p)
  <2>1. /\ caller[p] = "drainComplete" /\ UNCHANGED <<when, caller>> /\ pc'[p] = "save"
    BY <1>0, <1>7 DEF DrainReturns, StateOK
  <2> QED
    BY <2>1 DEF NextSync, InStart, InBarrier, Completed
<1> QED
  BY <1>1, <1>2, <1>3, <1>4, <1>5, <1>6, <1>7 DEF LocalAct

LEMMA KeepsNextSync ==
    ASSUME NEW p \in Processes, Keeps(p)
    PROVE  NextSync(p)' = NextSync(p) /\ \A m : AckSync(p, m)' = AckSync(p, m)
BY SameView DEF Keeps

LEMMA LateFrame ==
    ASSUME NEW n \in Nodes, AcksIn(n)' = AcksIn(n),
           \A m \in AcksIn(n) : AckSync(n, m)' = AckSync(n, m)
    PROVE  Late(n)' = Late(n)
BY DEF Late, Window, Data

LEMMA DownFrame ==
    ASSUME NEW n \in Nodes, DownOK(n), Down(n)' = Down(n),
           NextSync(n)' = NextSync(n),
           \A m \in AcksIn(n) : AckSync(n, m)' = AckSync(n, m)
    PROVE  DownOK(n)'
<1>1. AcksIn(n)' = AcksIn(n)
  BY DEF AcksIn
<1>2. Late(n)' = Late(n)
  BY <1>1, LateFrame
<1> QED
  BY <1>2 DEF DownOK, Window, Data

LEMMA UpFrame ==
    ASSUME NEW n \in Nodes, UpOK(n), Up(n)' = Up(n), NextSync(Switch)' = NextSync(Switch)
    PROVE  UpOK(n)'
BY DEF UpOK, Window, Data

\* A process lies before its next sync.
LEMMA BeforeSync ==
    ASSUME SyncInv, ModeInv, NEW p \in Processes, Live(p)
    PROVE  /\ tick[p] \in Nat /\ when[p] \in Nat /\ NextSync(p) \in Nat
           /\ tick[p] <= NextSync(p) /\ when[p] <= NextSync(p)
           /\ Simulating(p) => NextSync(p) = when[p]
<1>0. ProcessOK(p) /\ Sober(p) /\ tick[p] \in Nat /\ when[p] \in Nat
  BY DEF SyncInv, StateOK, ModeInv
<1>1. CASE InStart(p)
  BY <1>0, <1>1, Consts DEF ProcessOK, NextSync, InStart, InBarrier, Simulating
<1>2. CASE ~InStart(p) /\ Completed(p) /\ caller[p] = "process" /\ ~doing[p]["exit"]
  <2>1. NextSync(p) = tick[p] + Repeat /\ InBarrier(p)
    BY <1>2 DEF NextSync, Completed, InBarrier
  <2>2. tick[p] = when[p] /\ ~Simulating(p)
    BY <2>1, <1>0, <1>2 DEF ProcessOK, InBarrier, Simulating
  <2> QED
    BY <2>1, <2>2, <1>0, Consts
<1>3. CASE ~InStart(p) /\ ~(Completed(p) /\ caller[p] = "process" /\ ~doing[p]["exit"])
  <2>1. NextSync(p) = when[p]
    BY <1>3 DEF NextSync
  <2>2. tick[p] <= when[p]
    BY <1>0 DEF ProcessOK, Sober
  <2> QED
    BY <2>1, <2>2, <1>0
<1> QED
  BY <1>1, <1>2, <1>3

LEMMA WindowLocal ==
    ASSUME SyncInv, WindowInv, NEW p \in Processes, LocalAct(p)
    PROVE  WindowInv'
<1>1. /\ UNCHANGED chan /\ NextSync(p)' = NextSync(p) /\ (p \in Nodes => AcksIn(p) = {})
      /\ \A q \in Processes \ {p} : Keeps(q)
  BY LocalFrame, LocalNextSync DEF Quiet, Others
<1>2. \A q \in Processes : NextSync(q)' = NextSync(q)
  BY <1>1, KeepsNextSync
<1>3. ASSUME NEW n \in Nodes PROVE DownOK(n)' /\ UpOK(n)'
  <2>1. /\ n \in Processes /\ Switch \in Processes /\ DownOK(n) /\ UpOK(n)
        /\ Down(n)' = Down(n) /\ Up(n)' = Up(n)
    BY <1>1, LinkEnds DEF WindowInv, Up, Down
  <2>2. \A m \in AcksIn(n) : AckSync(n, m)' = AckSync(n, m)
    BY <2>1, <1>1, KeepsNextSync
  <2> QED
    BY <2>1, <2>2, <1>2, DownFrame, UpFrame
<1> QED
  BY <1>3 DEF WindowInv

LEMMA WindowGone ==
    ASSUME WindowInv, NEW p \in Processes, Gone(p)
    PROVE  WindowInv'
<1>1. /\ \A n \in Nodes : /\ Up(n)' = IF p = Switch THEN <<>> ELSE Up(n)
                          /\ Down(n)' = IF p = n THEN <<>> ELSE Down(n)
      /\ \A q \in Processes \ {p} : Keeps(q)
  BY DEF Gone, Others
<1>2. ASSUME NEW n \in Nodes PROVE DownOK(n)' /\ UpOK(n)'
  <2>0. n \in Processes /\ Switch \in Processes /\ DownOK(n) /\ UpOK(n)
    BY LinkEnds DEF WindowInv
  <2>1. DownOK(n)'
    <3>1. CASE p = n
      BY <3>1, <1>1, PartsEmpty DEF DownOK
    <3>2. CASE p # n
      BY <3>2, <2>0, <1>1, KeepsNextSync, DownFrame
    <3> QED
      BY <3>1, <3>2
  <2>2. UpOK(n)'
    <3>1. CASE p = Switch
      BY <3>1, <1>1, PartsEmpty DEF UpOK
    <3>2. CASE p # Switch
      BY <3>2, <2>0, <1>1, KeepsNextSync, UpFrame
    <3> QED
      BY <3>1, <3>2
  <2> QED
    BY <2>1, <2>2
<1> QED
  BY <1>2 DEF WindowInv

LEMMA WindowAsks ==
    ASSUME SyncInv, WindowInv, NEW n \in Nodes, Asks(n)
    PROVE  WindowInv'
<1>0. /\ n \in Processes /\ n # Switch /\ Switch \in Processes
      /\ \A k \in Nodes : k \in Processes
  BY LinkEnds
<1>1. /\ \A q \in Processes \ {n} : Keeps(q)
      /\ UNCHANGED <<isAbort, tick, when, caller, doing>>
      /\ pc[n] = "run" /\ pc'[n] = "wait" /\ waitNum'[n] = 1
      /\ \A k \in Nodes : Down(k)' = Down(k)
      /\ \A k \in Nodes \ {n} : Up(k)' = Up(k)
      /\ Up(n)' = Up(n) \/ \E m \in Req : Up(n)' = Append(Up(n), m)
  BY DEF Asks, Others
<1>2. NextSync(n)' = NextSync(n) /\ \A m : AckSync(n, m)' = AckSync(n, m)
  BY <1>0, <1>1 DEF NextSync, AckSync, InStart, InBarrier, Completed
<1>3. \A q \in Processes : NextSync(q)' = NextSync(q) /\ \A m : AckSync(q, m)' = AckSync(q, m)
  BY <1>1, <1>2, KeepsNextSync
<1>4. ASSUME NEW k \in Nodes PROVE DownOK(k)' /\ UpOK(k)'
  <2>0. DownOK(k) /\ UpOK(k)
    BY DEF WindowInv
  <2>1. DownOK(k)'
    BY <2>0, <1>0, <1>1, <1>3, DownFrame
  <2>2. CASE Up(k)' = Up(k)
    BY <2>0, <2>1, <2>2, <1>0, <1>3, UpFrame
  <2>3. ASSUME NEW m \in Req, Up(k)' = Append(Up(k), m) PROVE UpOK(k)'
    <3>1. /\ Up(k) \in Seq(Wire(<<k, Switch>>)) /\ m \in Wire(<<k, Switch>>)
          /\ m.type # "data"
      BY StreamTypes DEF SyncInv, Req
    <3>2. Parts(Append(Up(k), m), Window(NextSync(Switch)), {})
      BY <3>1, <2>0, PartsAppend DEF UpOK
    <3> QED
      BY <3>2, <2>3, <1>0, <1>3 DEF UpOK, Window, Data
  <2> QED
    BY <2>1, <2>2, <2>3, <1>1
<1> QED
  BY <1>4 DEF WindowInv

LEMMA WindowCounts ==
    ASSUME WindowInv, NEW n \in Nodes, Counts(n)
    PROVE  WindowInv'
<1>0. /\ Switch \in Processes /\ Switch \notin Nodes /\ \A k \in Nodes : k \in Processes
  BY LinkEnds, Consts
<1>1. /\ \A q \in Processes \ {Switch} : Keeps(q)
      /\ UNCHANGED <<isAbort, tick, when, pc, caller, doing>>
      /\ Up(n)' = <<>>
      /\ \A k \in Nodes : Down(k)' = Down(k)
      /\ \A k \in Nodes \ {n} : Up(k)' = Up(k)
  BY DEF Counts, Others
<1>2. NextSync(Switch)' = NextSync(Switch)
  BY <1>0, <1>1 DEF NextSync, InStart, InBarrier, Completed
<1>3. ASSUME NEW k \in Nodes PROVE DownOK(k)' /\ UpOK(k)'
  <2>0. DownOK(k) /\ UpOK(k) /\ Keeps(k) /\ k \in Processes
    BY <1>0, <1>1 DEF WindowInv
  <2>1. DownOK(k)'
    BY <2>0, <1>1, KeepsNextSync, DownFrame
  <2>2. CASE k = n
    BY <2>1, <2>2, <1>1, PartsEmpty DEF UpOK
  <2>3. CASE k # n
    BY <2>0, <2>1, <2>3, <1>1, <1>2, UpFrame
  <2> QED
    BY <2>2, <2>3
<1> QED
  BY <1>3 DEF WindowInv

\* The acknowledgement takes a node to the next sync it announced.
LEMMA HearsNextSync ==
    ASSUME SyncInv, NEW n \in Nodes, NEW m \in Ack, Hears(n, m)
    PROVE  /\ NextSync(n)' = AckSync(n, m) /\ \A x : AckSync(n, x)' = AckSync(n, x)
           /\ \A q \in Processes \ {n} : NextSync(q)' = NextSync(q)
<1>0. n \in Processes /\ n # Switch
  BY LinkEnds
<1>1. /\ UNCHANGED <<isAbort, tick, when, pc, caller>> /\ pc[n] = "wait" /\ ~isAbort[n]
      /\ waitNum'[n] = 0 /\ doing'[n] = m.do
      /\ \A q \in Processes \ {n} : Keeps(q)
  BY DEF Hears, Others, Waiting
<1>2. Completed(n)' /\ InBarrier(n)'
  BY <1>0, <1>1 DEF Completed, InBarrier
<1> QED
  BY <1>1, <1>2, KeepsNextSync DEF NextSync, AckSync, InStart

LEMMA WindowHears ==
    ASSUME SyncInv, WindowInv, NEW n \in Nodes, NEW m \in Ack, Hears(n, m)
    PROVE  WindowInv'
<1>0. /\ n \in Processes /\ n # Switch /\ Switch \in Processes
      /\ \A k \in Nodes : k \in Processes
  BY LinkEnds
<1>1. /\ Down(n) # <<>> /\ m = Head(Down(n)) /\ m \in AcksIn(n)
      /\ Down(n)' = Tail(Down(n)) /\ AcksIn(n)' = {}
      /\ \A k \in Nodes : Up(k)' = Up(k)
      /\ \A k \in Nodes \ {n} : Down(k)' = Down(k)
      /\ \A q \in Processes \ {n} : Keeps(q)
  BY DEF Hears, Others
<1>2. /\ NextSync(n)' = AckSync(n, m)
      /\ \A q \in Processes \ {n} : NextSync(q)' = NextSync(q)
  BY HearsNextSync
<1>3. ASSUME NEW k \in Nodes PROVE DownOK(k)' /\ UpOK(k)'
  <2>0. DownOK(k) /\ UpOK(k) /\ k \in Processes
    BY <1>0 DEF WindowInv
  <2>1. UpOK(k)'
    BY <2>0, <1>0, <1>1, <1>2, UpFrame
  <2>2. CASE k # n
    BY <2>0, <2>1, <2>2, <1>1, KeepsNextSync, DownFrame
  <2>3. CASE k = n
    <3>1. Down(n) \in Seq(Wire(<<Switch, n>>)) /\ Head(Down(n)).type = "ack"
      BY <1>1, StreamTypes DEF SyncInv, AcksIn
    <3>2. Parts(Tail(Down(n)), Late(n), Late(n)) /\ Tail(Down(n)) \in Seq(Wire(<<Switch, n>>))
      BY <2>0, <2>3, <3>1, <1>1, PartsTail, MsgsTail DEF DownOK
    <3>3. Late(n) \subseteq Window(AckSync(n, m)) /\ Late(n) \subseteq Data(Switch)
      BY <1>1 DEF Late
    <3>4. Parts(Tail(Down(n)), Window(AckSync(n, m)), Data(Switch))
      BY <3>2, <3>3, PartsWider
    <3>5. Late(n)' = Data(Switch) /\ Window(NextSync(n))' = Window(AckSync(n, m))
      BY <1>1, <1>2 DEF Late, Window, Data
    <3>6. DownOK(n)'
      BY <3>4, <3>5, <1>1 DEF DownOK
    <3> QED
      BY <2>1, <2>3, <3>6
  <2> QED
    BY <2>2, <2>3
<1> QED
  BY <1>3 DEF WindowInv

LEMMA WindowAnswers ==
    ASSUME SyncInv, WindowInv, NEW m \in Ack,
           NEW S \in SUBSET {n \in Nodes : Live(n)}, Answers(m, S)
    PROVE  WindowInv'
<1>1. ASSUME NEW n \in Nodes PROVE DownOK(n)' /\ UpOK(n)'
  <2>0. /\ DownOK(n) /\ UpOK(n) /\ n \in Processes /\ n # Switch
        /\ Down(n) \in Seq(Wire(<<Switch, n>>)) /\ m \in Wire(<<Switch, n>>) /\ m.type # "data"
    BY LinkEnds, StreamTypes DEF WindowInv, SyncInv, Ack
  <2>1. /\ Up(n)' = <<>> /\ Keeps(n)
        /\ Down(n)' = IF n \in S THEN Append(Down(n), m) ELSE Down(n)
        /\ n \in S => AcksIn(n) = {}
    BY <2>0 DEF Answers, Others
  <2>2. UpOK(n)'
    BY <2>1, PartsEmpty DEF UpOK
  <2>3. /\ NextSync(n)' = NextSync(n)
        /\ \A x : AckSync(n, x)' = AckSync(n, x)
    BY <2>0, <2>1, KeepsNextSync
  <2>4. CASE n \notin S
    BY <2>0, <2>1, <2>2, <2>3, <2>4, DownFrame
  <2>5. CASE n \in S
    <3>1. Parts(Down(n), Window(NextSync(n)), Late(n)')
      <4>1. \A x \in Msgs(Down(n)) : x.type # "ack"
        BY <2>1, <2>5 DEF AcksIn
      <4> QED
        BY <4>1, <2>0, PartsWider DEF DownOK
    <3>2. Parts(Append(Down(n), m), Window(NextSync(n)), Late(n)')
      BY <3>1, <2>0, PartsAppend
    <3>3. Window(NextSync(n))' = Window(NextSync(n))
      BY <2>3 DEF Window, Data
    <3>4. DownOK(n)'
      BY <3>2, <3>3, <2>1, <2>5 DEF DownOK
    <3> QED
      BY <2>2, <3>4
  <2> QED
    BY <2>4, <2>5
<1> QED
  BY <1>1 DEF WindowInv
LEMMA WindowSends ==
    ASSUME SyncInv, ModeInv, WindowInv, NEW l \in Links, NEW m \in Data(Switch), Sends(l, m)
    PROVE  WindowInv'
<1>0. /\ Switch \in Processes /\ From(l) \in Processes
      /\ \A k \in Nodes : k \in Processes /\ k # Switch
  BY LinkEnds
<1>1. /\ Simulating(From(l)) /\ InQuantum(From(l)) /\ tick[From(l)] > SyncStart
      /\ m.tick = tick[From(l)] /\ m.type = "data"
      /\ \A k \in Links : chan'[k] = IF k = l /\ Live(To(l)) THEN Append(chan[k], m) ELSE chan[k]
      /\ \A q \in Processes : Keeps(q)
  BY DEF Sends, Nobody, Data
<1>2. \A q \in Processes : NextSync(q)' = NextSync(q) /\ \A x : AckSync(q, x)' = AckSync(q, x)
  BY <1>1, KeepsNextSync
<1>3. Live(From(l)) /\ Busy(From(l))
  BY <1>1 DEF Simulating, Live, Busy, Waiting
<1>4. m \in Window(NextSync(From(l)))
  <2>1. /\ tick[From(l)] <= NextSync(From(l)) /\ NextSync(From(l)) = when[From(l)]
    BY <1>0, <1>1, <1>3, BeforeSync
  <2> QED
    BY <2>1, <1>1 DEF Window, InQuantum
<1>5. ASSUME NEW n \in Nodes PROVE DownOK(n)' /\ UpOK(n)'
  <2>0. /\ DownOK(n) /\ UpOK(n) /\ AlignedOK(n) /\ n \in Processes
        /\ <<n, Switch>> \in Links /\ <<Switch, n>> \in Links
        /\ Up(n) \in Seq(Wire(<<n, Switch>>)) /\ m \in Wire(<<n, Switch>>)
        /\ Down(n) \in Seq(Wire(<<Switch, n>>)) /\ m \in Wire(<<Switch, n>>)
    BY LinkEnds, StreamTypes DEF WindowInv, SyncInv, Data
  <2>1. CASE l = <<n, Switch>> /\ Live(Switch)
    <3>1. Up(n)' = Append(Up(n), m) /\ Down(n)' = Down(n) /\ From(l) = n
      BY <2>0, <2>1, <1>1, LinkEnds DEF Up, Down
    <3>2. NextSync(n) = NextSync(Switch)
      BY <3>1, <2>0, <2>1, <1>3, BusyNode DEF AlignedOK
    <3>3. \A x \in Msgs(Up(n)) : x.type # "ack"
      <4>1. \A x \in Data(<<n, Switch>>) \cup Req : x.type # "ack"
        BY DEF Data, Req
      <4>2. Up(n) \in Seq(Data(<<n, Switch>>) \cup Req)
        BY <2>0, StreamTypes DEF SyncInv
      <4>3. \A x \in Msgs(Up(n)) : x \in Data(<<n, Switch>>) \cup Req
        BY <4>2 DEF Msgs
      <4> QED
        BY <4>1, <4>3
    <3>4. Parts(Append(Up(n), m), Window(NextSync(Switch)), {})
      <4>1. m \in Window(NextSync(Switch))
        BY <3>1, <3>2, <1>4
      <4> QED
        BY <4>1, <3>3, <2>0, PartsAppend DEF UpOK
    <3>5. UpOK(n)'
      BY <3>1, <3>4, <1>0, <1>2 DEF UpOK, Window, Data
    <3> QED
      BY <3>1, <3>5, <2>0, <1>2, DownFrame
  <2>2. CASE l = <<Switch, n>> /\ Live(n)
    <3>1. Up(n)' = Up(n) /\ Down(n)' = Append(Down(n), m) /\ From(l) = Switch
      BY <2>0, <2>2, <1>1, LinkEnds DEF Up, Down
    <3>2. AcksIn(n)' = AcksIn(n)
      BY SendsAcks
    <3>3. Late(n)' = Late(n)
      BY <3>2, <2>0, <1>2, LateFrame
    <3>4. IF \E x \in Msgs(Down(n)) : x.type = "ack" THEN m \in Late(n)
          ELSE m \in Window(NextSync(n))
      <4>1. /\ AcksIn(n) = {} => NextSync(n) = NextSync(Switch)
            /\ \A x \in AcksIn(n) : AckSync(n, x) = NextSync(Switch)
        BY <3>1, <2>0, <2>2, <1>3 DEF AlignedOK
      <4> QED
        BY <4>1, <3>1, <1>4 DEF Late, AcksIn
    <3>5. Parts(Append(Down(n), m), Window(NextSync(n)), Late(n))
      BY <3>4, <2>0, PartsAppend DEF DownOK
    <3>6. Window(NextSync(n))' = Window(NextSync(n))
      BY <2>0, <1>2 DEF Window, Data
    <3>7. DownOK(n)'
      BY <3>1, <3>3, <3>5, <3>6 DEF DownOK
    <3> QED
      BY <3>1, <3>7, <2>0, <1>0, <1>2, UpFrame
  <2>3. CASE ~(l = <<n, Switch>> /\ Live(Switch)) /\ ~(l = <<Switch, n>> /\ Live(n))
    <3>1. Up(n)' = Up(n) /\ Down(n)' = Down(n)
      BY <2>0, <2>3, <1>1, LinkEnds DEF Up, Down
    <3> QED
      BY <3>1, <2>0, <1>0, <1>2, UpFrame, DownFrame
  <2> QED
    BY <2>1, <2>2, <2>3
<1> QED
  BY <1>5 DEF WindowInv

LEMMA WindowTakes ==
    ASSUME SyncInv, WindowInv, NEW l \in Links, Takes(l)
    PROVE  WindowInv'
<1>0. Switch \in Processes /\ \A k \in Nodes : k \in Processes
  BY LinkEnds
<1>1. /\ chan[l] # <<>> /\ Head(chan[l]).type = "data"
      /\ \A k \in Links : chan'[k] = IF k = l THEN Tail(chan[l]) ELSE chan[k]
      /\ \A q \in Processes : Keeps(q)
  BY DEF Takes, Nobody
<1>2. \A q \in Processes : NextSync(q)' = NextSync(q) /\ \A x : AckSync(q, x)' = AckSync(q, x)
  BY <1>1, KeepsNextSync
<1>3. ASSUME NEW n \in Nodes PROVE DownOK(n)' /\ UpOK(n)'
  <2>0. /\ DownOK(n) /\ UpOK(n) /\ n \in Processes
        /\ <<n, Switch>> \in Links /\ <<Switch, n>> \in Links
        /\ Up(n) \in Seq(Wire(<<n, Switch>>)) /\ Down(n) \in Seq(Wire(<<Switch, n>>))
    BY LinkEnds, StreamTypes DEF WindowInv, SyncInv
  <2>1. UpOK(n)'
    <3>1. CASE l = <<n, Switch>>
      <4>1. Up(n)' = Tail(Up(n)) /\ Up(n) # <<>> /\ Head(Up(n)).type = "data"
        BY <2>0, <3>1, <1>1 DEF Up
      <4>2. Parts(Tail(Up(n)), Window(NextSync(Switch)), {})
        BY <4>1, <2>0, PartsTail DEF UpOK
      <4> QED
        BY <4>1, <4>2, <1>0, <1>2 DEF UpOK, Window, Data
    <3>2. CASE l # <<n, Switch>>
      <4>1. Up(n)' = Up(n)
        BY <2>0, <3>2, <1>1 DEF Up
      <4> QED
        BY <4>1, <2>0, <1>0, <1>2, UpFrame
    <3> QED
      BY <3>1, <3>2
  <2>2. DownOK(n)'
    <3>1. CASE l = <<Switch, n>>
      <4>1. Down(n)' = Tail(Down(n)) /\ Down(n) # <<>> /\ Head(Down(n)).type = "data"
        BY <2>0, <3>1, <1>1 DEF Down
      <4>2. Parts(Tail(Down(n)), Window(NextSync(n)), Late(n))
        BY <4>1, <2>0, PartsTail DEF DownOK
      <4>3. AcksIn(n)' = AcksIn(n)
        BY TakesAcks
      <4>4. Late(n)' = Late(n)
        BY <4>3, <2>0, <1>2, LateFrame
      <4> QED
        BY <4>1, <4>2, <4>4, <2>0, <1>2 DEF DownOK, Window, Data
    <3>2. CASE l # <<Switch, n>>
      <4>1. Down(n)' = Down(n)
        BY <2>0, <3>2, <1>1 DEF Down
      <4> QED
        BY <4>1, <2>0, <1>2, DownFrame
    <3> QED
      BY <3>1, <3>2
  <2> QED
    BY <2>1, <2>2
<1> QED
  BY <1>3 DEF WindowInv

\* An abort takes the barrier a node has completed away from it again.
LEMMA AbortNextSync ==
    ASSUME SyncInv, NEW l \in Links, abort(l)
    PROVE  /\ \A q \in Processes \ {To(l)} : NextSync(q)' = NextSync(q)
           /\ NextSync(Switch)' = NextSync(Switch)
           /\ \A n \in Nodes : \A m : AckSync(n, m)' = AckSync(n, m)
           /\ To(l) \in Nodes => Down(To(l)) = <<>>
           /\ \A q \in Processes : NextSync(q)' = NextSync(q) \/ (NextSync(q)' = when[q] /\ ~InStart(q))
<1>0. StateOK /\ To(l) \in Processes /\ Switch \notin Nodes /\ Switch \in Processes
  BY LinkEnds, Consts DEF SyncInv
<1>1. /\ UNCHANGED <<tick, when, pc, caller, doing>> /\ thread[l] = "lost"
      /\ waitNum' = [waitNum EXCEPT ![To(l)] = 0]
      /\ isAbort' = [isAbort EXCEPT ![To(l)] = TRUE]
  BY DEF abort, simVars
<1>2. \A q \in Processes \ {To(l)} : waitNum'[q] = waitNum[q] /\ isAbort'[q] = isAbort[q]
  BY <1>0, <1>1 DEF StateOK
<1>3. \A q \in Processes \ {To(l)} : NextSync(q)' = NextSync(q)
  BY <1>1, <1>2 DEF NextSync, InStart, InBarrier, Completed
<1>4. NextSync(Switch)' = NextSync(Switch)
  BY <1>0, <1>1 DEF NextSync, InStart, InBarrier, Completed
<1>5. \A n \in Nodes : \A m : AckSync(n, m)' = AckSync(n, m)
  BY <1>1 DEF AckSync
<1>6. ASSUME NEW n \in Nodes, To(l) = n
      PROVE  Down(n) = <<>> /\ (NextSync(n)' = NextSync(n) \/ (NextSync(n)' = when[n] /\ ~InStart(n)))
  <2>1. l = <<Switch, n>> /\ NodeOK(n) /\ isAbort'[n] /\ n # Switch /\ n \in Processes
    BY <1>0, <1>1, <1>6, LinkTo, LinkEnds DEF SyncInv, StateOK
  <2>2. Down(n) = <<>>
    BY <2>1, <1>1 DEF NodeOK
  <2>3. CASE InStart(n)
    BY <2>2, <2>3, <1>1 DEF NextSync, InStart, InBarrier
  <2>4. CASE ~InStart(n)
    <3>1. pc[n] = "return" => Completed(n) /\ Completed(n)'
      BY <1>1 DEF Completed
    <3>2. pc[n] # "return" => ~Completed(n)'
      BY <2>1, <1>1 DEF Completed
    <3>3. ~InStart(n)'
      BY <2>4, <1>1 DEF InStart, InBarrier
    <3> QED
      BY <2>2, <2>4, <3>1, <3>2, <3>3, <1>1 DEF NextSync
  <2> QED
    BY <2>3, <2>4
<1> QED
  BY <1>3, <1>4, <1>5, <1>6 DEF Processes

LEMMA WindowAbort ==
    ASSUME SyncInv, WindowInv, NEW l \in Links, abort(l)
    PROVE  WindowInv'
<1>0. /\ UNCHANGED chan
      /\ \A q \in Processes \ {To(l)} : NextSync(q)' = NextSync(q)
      /\ NextSync(Switch)' = NextSync(Switch)
      /\ \A n \in Nodes : \A m : AckSync(n, m)' = AckSync(n, m)
      /\ To(l) \in Nodes => Down(To(l)) = <<>>
  BY AbortNextSync DEF abort
<1>1. ASSUME NEW n \in Nodes PROVE DownOK(n)' /\ UpOK(n)'
  <2>0. DownOK(n) /\ UpOK(n) /\ n \in Processes /\ Down(n)' = Down(n) /\ Up(n)' = Up(n)
    BY <1>0, LinkEnds DEF WindowInv, Up, Down
  <2>1. UpOK(n)'
    BY <2>0, <1>0, UpFrame
  <2>2. CASE To(l) = n
    BY <2>0, <2>1, <2>2, <1>0, PartsEmpty DEF DownOK
  <2>3. CASE To(l) # n
    BY <2>0, <2>1, <2>3, <1>0, DownFrame
  <2> QED
    BY <2>2, <2>3
<1> QED
  BY <1>1 DEF WindowInv

LEMMA LostKeeps ==
    ASSUME NEW l \in Links, ConnectionLost(l)
    PROVE  UNCHANGED <<chan, tick, when, pc>> /\ \A q \in Processes : Keeps(q)
BY DEF ConnectionLost, syncVars, Keeps, Same

LEMMA WindowLost ==
    ASSUME WindowInv, NEW l \in Links, ConnectionLost(l)
    PROVE  WindowInv'
<1>1. UNCHANGED chan /\ \A q \in Processes : Keeps(q)
  BY LostKeeps
<1>2. ASSUME NEW n \in Nodes PROVE DownOK(n)' /\ UpOK(n)'
  <2>0. /\ DownOK(n) /\ UpOK(n) /\ n \in Processes /\ Switch \in Processes
        /\ Down(n)' = Down(n) /\ Up(n)' = Up(n)
    BY <1>1, LinkEnds DEF WindowInv, Up, Down
  <2> QED
    BY <2>0, <1>1, KeepsNextSync, DownFrame, UpFrame
<1> QED
  BY <1>2 DEF WindowInv

LEMMA WindowStep ==
    ASSUME SyncInv, ModeInv, WindowInv, Next
    PROVE  WindowInv'
BY StepCases, WindowLocal, WindowGone, WindowAsks, WindowCounts, WindowHears, WindowAnswers,
   WindowSends, WindowTakes, WindowLost, WindowAbort
-----------------------------------------------------------------------------
(* A packet is taken from its stream in the quantum in which it was sent.   *)

\* How the next sync of a process moves.
LEMMA SyncMoves ==
    ASSUME SyncInv, Next, NEW p \in Processes, Live(p)'
    PROVE  \/ NextSync(p)' = NextSync(p)
           \/ p \in Nodes /\ Live(p) /\ \E m \in AcksIn(p) : NextSync(p)' = AckSync(p, m)
           \/ p = Switch /\ \E m \in Ack, S \in SUBSET {n \in Nodes : Live(n)} :
                                Answers(m, S) /\ NextSync(p)' = AckSync(p, m)
           \/ /\ p \in Nodes /\ NextSync(p)' = when[p] /\ ~InStart(p) /\ Live(p)
              /\ \E l \in Links : To(l) = p /\ abort(l)
<1>0. Switch \in Processes /\ Switch \notin Nodes /\ \A n \in Nodes : n \in Processes
  BY LinkEnds, Consts
<1>1. ASSUME Keeps(p) PROVE NextSync(p)' = NextSync(p)
  BY <1>1, KeepsNextSync
<1>2. ASSUME NEW q \in Processes, LocalAct(q) \/ Gone(q) PROVE NextSync(p)' = NextSync(p)
  <2>1. Others(q) /\ (LocalAct(q) \/ ~Live(q)')
    BY <1>2, LocalFrame DEF Gone
  <2> QED
    BY <2>1, <1>1, LocalNextSync DEF Others
<1>3. ASSUME NEW n \in Nodes, Asks(n) PROVE NextSync(p)' = NextSync(p)
  <2>1. /\ Others(n) /\ UNCHANGED <<tick, when, caller, doing>>
        /\ pc[n] = "run" /\ pc'[n] = "wait" /\ waitNum'[n] = 1
    BY <1>3 DEF Asks
  <2>2. NextSync(n)' = NextSync(n)
    BY <2>1, <1>0 DEF NextSync, InStart, InBarrier, Completed
  <2> QED
    BY <2>1, <2>2, <1>1 DEF Others
<1>4. ASSUME NEW n \in Nodes, Counts(n) PROVE NextSync(p)' = NextSync(p)
  <2>1. Others(Switch) /\ UNCHANGED <<tick, when, pc, caller, doing>>
    BY <1>4 DEF Counts
  <2>2. NextSync(Switch)' = NextSync(Switch)
    BY <2>1, <1>0 DEF NextSync, InStart, InBarrier, Completed
  <2> QED
    BY <2>1, <2>2, <1>1 DEF Others
<1>5. ASSUME NEW n \in Nodes, NEW m \in Ack, Hears(n, m)
      PROVE  \/ NextSync(p)' = NextSync(p)
             \/ p \in Nodes /\ Live(p) /\ \E x \in AcksIn(p) : NextSync(p)' = AckSync(p, x)
  <2>1. m \in AcksIn(n) /\ Live(n)
    BY <1>5 DEF Hears
  <2> QED
    BY <2>1, <1>5, HearsNextSync
<1>6. ASSUME NEW m \in Ack, NEW S \in SUBSET {n \in Nodes : Live(n)}, Answers(m, S)
      PROVE  NextSync(p)' = NextSync(p) \/ (p = Switch /\ NextSync(p)' = AckSync(p, m))
  <2>1. /\ Others(Switch) /\ UNCHANGED <<tick, when, caller>> /\ doing'[Switch] = m.do
        /\ pc'[Switch] \in {"return", "exited"}
    BY <1>6 DEF Answers
  <2>2. CASE p = Switch
    <3>1. pc'[Switch] = "return"
      BY <2>1, <2>2 DEF Live
    <3>2. Completed(Switch)' /\ InBarrier(Switch)'
      BY <3>1 DEF Completed, InBarrier
    <3> QED
      BY <2>1, <2>2, <3>2 DEF NextSync, AckSync, InStart
  <2>3. CASE p # Switch
    BY <2>1, <2>3, <1>1 DEF Others
  <2> QED
    BY <2>2, <2>3
<1>7. ASSUME NEW l \in Links, Takes(l) \/ \E m \in Data(Switch) : Sends(l, m)
      PROVE  NextSync(p)' = NextSync(p)
  BY <1>1, <1>7 DEF Takes, Sends, Nobody
<1>8. ASSUME NEW l \in Links, ConnectionLost(l) PROVE NextSync(p)' = NextSync(p)
  BY <1>1, <1>8, LostKeeps
<1>9. ASSUME NEW l \in Links, abort(l)
      PROVE  \/ NextSync(p)' = NextSync(p)
             \/ /\ p \in Nodes /\ NextSync(p)' = when[p] /\ ~InStart(p) /\ Live(p)
                /\ To(l) = p
  <2>1. UNCHANGED pc
    BY <1>9 DEF abort, simVars
  <2>2. Live(p)
    BY <2>1 DEF Live
  <2> QED
    BY <2>2, <1>9, AbortNextSync DEF Processes
<1> QED
  BY <1>2, <1>3, <1>4, <1>5, <1>6, <1>7, <1>8, <1>9, StepCases

\* A completed barrier takes nobody back.
LEMMA AckLater ==
    ASSUME SyncInv, NEW p \in Processes, Live(p), InBarrier(p), ~Completed(p), NEW m
    PROVE  NextSync(p) \in Nat /\ AckSync(p, m) \in Nat /\ NextSync(p) <= AckSync(p, m)
<1>0. ProcessOK(p) /\ tick[p] \in Nat /\ when[p] \in Nat
  BY DEF SyncInv, StateOK
<1>1. CASE caller[p] = "start"
  BY <1>1, Consts DEF NextSync, AckSync, InStart
<1>2. CASE caller[p] = "process"
  <2>1. tick[p] = when[p] /\ NextSync(p) = when[p]
    BY <1>0, <1>2 DEF ProcessOK, NextSync, InStart
  <2>2. AckSync(p, m) = tick[p] + Repeat \/ AckSync(p, m) = when[p]
    BY <1>2 DEF AckSync
  <2> QED
    BY <2>1, <2>2, <1>0, Consts
<1>3. CASE caller[p] # "start" /\ caller[p] # "process"
  BY <1>0, <1>3 DEF NextSync, AckSync, InStart
<1> QED
  BY <1>1, <1>2, <1>3

LEMMA SyncGrows ==
    ASSUME SyncInv, Next, NEW l \in Links, Live(To(l))', thread'[l] = "recv"
    PROVE  NextSync(To(l))' = NextSync(To(l)) \/
             (/\ NextSync(To(l)) \in Nat /\ NextSync(To(l))' \in Nat
              /\ NextSync(To(l)) <= NextSync(To(l))')
<1> DEFINE p == To(l)
<1>0. p \in Processes /\ Switch \in Processes /\ Switch \notin Nodes
  BY LinkEnds, Consts
<1>1. ASSUME p \in Nodes, Live(p), NEW m \in AcksIn(p), NextSync(p)' = AckSync(p, m)
      PROVE  NextSync(p) \in Nat /\ NextSync(p)' \in Nat /\ NextSync(p) <= NextSync(p)'
  <2>1. Waiting(p) /\ InBarrier(p) /\ ~Completed(p)
    BY <1>0, <1>1 DEF SyncInv, AckOK, Waiting, InBarrier, Completed
  <2> QED
    BY <2>1, <1>0, <1>1, AckLater
<1>2. ASSUME p = Switch, NEW m \in Ack, NEW S \in SUBSET {n \in Nodes : Live(n)},
             Answers(m, S), NextSync(p)' = AckSync(p, m)
      PROVE  NextSync(p) \in Nat /\ NextSync(p)' \in Nat /\ NextSync(p) <= NextSync(p)'
  <2>1. Live(p) /\ InBarrier(p) /\ ~Completed(p)
    BY <1>2 DEF Answers, InBarrier
  <2> QED
    BY <2>1, <1>0, <1>2, AckLater
<1>3. ASSUME p \in Nodes, NEW k \in Links, To(k) = p, abort(k) PROVE FALSE
  <2>1. k = l
    BY <1>3, LinkTo
  <2>2. thread' = [thread EXCEPT ![l] = "done"] /\ thread \in [Links -> {"recv", "lost", "done"}]
    BY <2>1, <1>3 DEF abort, SyncInv, StateOK
  <2> QED
    BY <2>2
<1> QED
  BY <1>0, <1>1, <1>2, <1>3, SyncMoves
\* Clocks never go back, nobody comes back, and a thread that ended stays so.
LEMMA Onward ==
    ASSUME SyncInv, Next
    PROVE  /\ \A p \in Processes : /\ tick[p] \in Nat /\ tick'[p] \in Nat /\ tick[p] <= tick'[p]
                                   /\ Live(p)' => Live(p)
           /\ \A l \in Links : thread'[l] = "recv" => thread[l] = "recv"
<1>0. StateOK /\ \A p \in Processes : tick[p] \in Nat
  BY DEF SyncInv, StateOK
<1>1. \A p \in Processes : tick'[p] \in Nat /\ tick[p] <= tick'[p]
  <2>1. tick' = tick \/ \E p \in Processes : Advance(p)
    BY DEF Next, SimThread, SyncProcess, ExitEvent, drainComplete, serialize, NodeRun,
           SwitchRun, StartReturns, ProcessReturns, DrainReturns, rxDone, Die, RecvThread,
           pushPacket, progress, ConnectionLost, abort, transmit, transmitFails, request, simVars
  <2>2. ASSUME NEW p \in Processes, Advance(p) PROVE \A q \in Processes : tick'[q] \in Nat /\ tick[q] <= tick'[q]
    <3>1. tick' = [tick EXCEPT ![p] = tick[p] + 1]
      BY <2>2 DEF Advance
    <3> QED
      BY <3>1, <1>0 DEF StateOK
  <2> QED
    BY <2>1, <2>2, <1>0
<1>2. ASSUME NEW l \in Links, thread'[l] = "recv" PROVE thread[l] = "recv"
  <2>1. \/ thread' = thread
        \/ \E k \in Links, x \in {"done", "lost"} : thread' = [thread EXCEPT ![k] = x]
    BY DEF Next, SimThread, Advance, SyncProcess, ExitEvent, drainComplete, serialize, NodeRun,
           SwitchRun, StartReturns, ProcessReturns, DrainReturns, rxDone, Die, RecvThread,
           pushPacket, progress, ConnectionLost, abort, transmit, transmitFails, request, linkVars
  <2> QED
    BY <2>1, <1>0, <1>2 DEF StateOK
<1>3. ASSUME NEW p \in Processes, Live(p)' PROVE Live(p)
  <2>1. \A q \in Processes : Keeps(q) => (Live(q)' <=> Live(q))
    BY DEF Keeps, Same, Live
  <2>2. ASSUME NEW q \in Processes, LocalAct(q) \/ Gone(q) PROVE Live(p)
    <3>1. Others(q) /\ Live(q)
      BY <2>2, LocalFrame DEF Gone, Busy
    <3> QED
      BY <3>1, <2>1, <1>3 DEF Others
  <2>3. ASSUME NEW n \in Nodes, Asks(n) PROVE Live(p)
    <3>1. Others(n) /\ Live(n)
      BY <2>3 DEF Asks, Live
    <3> QED
      BY <3>1, <2>1, <1>3 DEF Others
  <2>4. ASSUME NEW n \in Nodes, Counts(n) \/ \E m \in Ack : Hears(n, m) PROVE Live(p)
    BY <2>4, <1>3 DEF Counts, Hears, Live
  <2>5. ASSUME NEW m \in Ack, NEW S \in SUBSET {n \in Nodes : Live(n)}, Answers(m, S) PROVE Live(p)
    <3>1. Others(Switch) /\ Live(Switch)
      BY <2>5 DEF Answers
    <3> QED
      BY <3>1, <2>1, <1>3 DEF Others
  <2>6. ASSUME NEW l \in Links, \/ Takes(l) \/ ConnectionLost(l) \/ abort(l)
                                \/ \E m \in Data(Switch) : Sends(l, m)
        PROVE  Live(p)
    BY <2>6, <1>3 DEF Takes, Sends, ConnectionLost, abort, simVars, Live
  <2> QED
    BY <2>2, <2>3, <2>4, <2>5, <2>6, StepCases
<1> QED
  BY <1>0, <1>1, <1>2, <1>3

LEMMA SeqElement ==
    ASSUME NEW S, NEW s \in Seq(S), NEW i \in 1..Len(s)
    PROVE  s[i] \in S
OBVIOUS

QueueOK(l) ==
    /\ Live(To(l)) /\ thread[l] = "recv"
          => \A i \in 1..Len(descQueue[l]) : descQueue[l][i] <= NextSync(To(l))
    /\ prevRecvTick[l] <= tick[To(l)]

\* The first packet of a stream belongs to the quantum of its receiver.
LEMMA HeadInWindow ==
    ASSUME SyncInv, WindowInv, NEW l \in Links, Receiving(l, {"data"})
    PROVE  Head(chan[l]) \in Window(NextSync(To(l)))
<1>1. chan[l] # <<>> /\ Head(chan[l]).type = "data" /\ chan[l] \in Seq(Wire(l))
  BY DEF Receiving, SyncInv, ChanOK
<1>2. PICK n \in Nodes : l = <<n, Switch>> \/ l = <<Switch, n>>
  BY LinkEnds
<1>3. DownOK(n) /\ UpOK(n)
  BY DEF WindowInv
<1>4. CASE l = <<n, Switch>>
  <2>1. To(l) = Switch /\ Parts(chan[l], Window(NextSync(Switch)), {})
    BY <1>3, <1>4, LinkEnds DEF UpOK, Up
  <2> QED
    BY <2>1, <1>1, PartsTail
<1>5. CASE l = <<Switch, n>>
  <2>1. To(l) = n /\ Parts(chan[l], Window(NextSync(n)), Late(n))
    BY <1>3, <1>5, LinkEnds DEF DownOK, Down
  <2> QED
    BY <2>1, <1>1, PartsTail
<1> QED
  BY <1>2, <1>4, <1>5

LEMMA QueueStep ==
    ASSUME SyncInv, ModeInv, WindowInv, NEW l \in Links, QueueOK(l), Next
    PROVE  QueueOK(l)'
<1> DEFINE p == To(l)
           q == descQueue[l]
           r == descQueue'[l]
<1>0. /\ p \in Processes /\ StateOK
      /\ descQueue \in [Links -> Seq(0..MaxTick)] /\ prevRecvTick \in [Links -> 0..MaxTick]
  BY LinkEnds DEF SyncInv, StateOK
<1>01. q \in Seq(0..MaxTick) /\ prevRecvTick[l] \in Nat
  BY <1>0
<1>1. /\ tick[p] \in Nat /\ tick'[p] \in Nat /\ tick[p] <= tick'[p]
      /\ Live(p)' => Live(p)
      /\ thread'[l] = "recv" => thread[l] = "recv"
  BY <1>0, Onward
<1>2. \/ descQueue' = descQueue /\ prevRecvTick' = prevRecvTick
      \/ \E k \in Links : rxDone(k) \/ pushPacket(k)
  BY ZenonT(40) DEF Next, SimThread, Advance, SyncProcess, ExitEvent, drainComplete, serialize, NodeRun,
         SwitchRun, StartReturns, ProcessReturns, DrainReturns, Die, RecvThread,
         progress, ConnectionLost, abort, transmit, transmitFails, request, linkVars
<1>3. prevRecvTick'[l] <= tick'[p]
  <2>1. prevRecvTick'[l] = prevRecvTick[l] \/ prevRecvTick'[l] = tick[p]
    BY <1>0, <1>2 DEF rxDone, pushPacket
  <2> QED
    BY <2>1, <1>01, <1>1 DEF QueueOK
<1>4. ASSUME Live(p)', thread'[l] = "recv", NEW i \in 1..Len(r)
      PROVE  r[i] <= NextSync(p)'
  <2>0. /\ Live(p) /\ thread[l] = "recv"
        /\ \A j \in 1..Len(q) : q[j] <= NextSync(p)
    BY <1>1, <1>4 DEF QueueOK
  <2>01. \A j \in 1..Len(q) : q[j] \in Nat
    <3>1. \A j \in 1..Len(q) : q[j] \in 0..MaxTick
      BY <1>01, SeqElement
    <3> QED
      BY <3>1
  <2>1. NextSync(p) \in Nat
    BY <1>0, <2>0, BeforeSync
  <2>2. NextSync(p)' \in Nat /\ NextSync(p) <= NextSync(p)'
    BY <2>1, <1>4, SyncGrows
  <2>3. r[i] \in Nat /\ r[i] <= NextSync(p)
    <3>1. CASE r = q
      BY <2>0, <2>01, <3>1
    <3>2. CASE q # <<>> /\ r = Tail(q)
      <4>1. i + 1 \in 1..Len(q) /\ r[i] = q[i + 1]
        BY <3>2, <1>01
      <4> QED
        BY <4>1, <2>0, <2>01
    <3>3. CASE Receiving(l, {"data"}) /\ r = Append(q, Head(chan[l]).tick)
      <4>1. Head(chan[l]) \in Window(NextSync(p))
        BY <3>3, HeadInWindow
      <4>2. Head(chan[l]).tick <= NextSync(p) /\ Head(chan[l]).tick \in Nat
        BY <4>1 DEF Window, Data
      <4>3. Len(r) = Len(q) + 1 /\ r[Len(q) + 1] = Head(chan[l]).tick
            /\ \A j \in 1..Len(q) : r[j] = q[j]
        BY <3>3, <1>01
      <4>4. i \in 1..Len(q) \/ i = Len(q) + 1
        BY <4>3, <1>01
      <4> QED
        BY <4>2, <4>3, <4>4, <2>0, <2>01
    <3> QED
      BY <3>1, <3>2, <3>3, <1>0, <1>2 DEF rxDone, RxDue, pushPacket
  <2> QED
    BY <2>1, <2>2, <2>3
<1> QED
  BY <1>3, <1>4 DEF QueueOK

LEMMA InvGivesInTime ==
    ASSUME SyncInv, ModeInv, WindowInv, \A l \in Links : QueueOK(l)
    PROVE  PacketsArriveInTime
<1> SUFFICES ASSUME NEW l \in Links, Receiving(l, {"data"})
             PROVE  CanPush(l, Head(chan[l]).tick)
  BY DEF PacketsArriveInTime
<1> DEFINE p == To(l)
           t == Head(chan[l]).tick
           w == NextSync(p)
<1>0. /\ p \in Processes /\ ProcessOK(p) /\ Live(p) /\ QueueOK(l) /\ thread[l] = "recv"
      /\ prevRecvTick[l] \in Nat /\ descQueue[l] \in Seq(0..MaxTick)
  BY LinkEnds DEF SyncInv, StateOK, Receiving
<1>1. Head(chan[l]) \in Window(w)
  BY HeadInWindow
<1>2. t \in Nat /\ t > SyncStart /\ t <= w /\ t + Repeat > w
  BY <1>1 DEF Window, Data
<1>3. /\ tick[p] \in Nat /\ when[p] \in Nat /\ w \in Nat /\ tick[p] <= w /\ when[p] <= w
  BY <1>0, BeforeSync
<1>4. when[p] >= SyncStart
  <2>1. ~InStart(p)
    BY <1>2, Consts DEF NextSync
  <2> QED
    BY <2>1, <1>0 DEF ProcessOK
<1>5. prevRecvTick[l] <= tick[p]
  BY <1>0 DEF QueueOK
<1>6. descQueue[l] # <<>> => Head(descQueue[l]) \in Nat /\ Head(descQueue[l]) <= w
  <2>1. descQueue[l] # <<>> => /\ 1 \in 1..Len(descQueue[l])
                               /\ Head(descQueue[l]) = descQueue[l][1]
    BY <1>0
  <2>2. descQueue[l] # <<>> => descQueue[l][1] \in 0..MaxTick
    BY <2>1, <1>0, SeqElement
  <2> QED
    BY <2>1, <2>2, <1>0 DEF QueueOK
<1>7. /\ Repeat \in Nat /\ LinkDelay \in Nat /\ Repeat <= LinkDelay /\ Repeat <= SyncStart
      /\ SyncStart \in Nat
  BY SyncAssumption DEF SyncAssumption
<1> HIDE DEF p, t, w
<1>8. /\ ReceiveTick(t) >= prevRecvTick[l] + SendDelay /\ ReceiveTick(t) > tick[p]
      /\ when[p] >= Repeat /\ t > when[p] - Repeat /\ ReceiveTick(t) > when[p]
  BY SMTT(30), <1>0, <1>2, <1>3, <1>4, <1>5, <1>7 DEF ReceiveTick, SendDelay
<1>9. descQueue[l] # <<>> => Head(descQueue[l]) + SendDelay <= ReceiveTick(t)
  BY <1>2, <1>3, <1>6, <1>7 DEF ReceiveTick, SendDelay
<1> QED
  BY <1>8, <1>9 DEF CanPush, p, t
-----------------------------------------------------------------------------
(* The clocks: a process goes to the next sync only when all have reached   *)
(* the one before.                                                          *)

Boundaries == {SyncStart + k * Repeat : k \in Nat}

\* w is a sync tick, and with clocks clk everybody has reached the one before.
Reached(w, clk) == /\ w \in Boundaries
                   /\ w # SyncStart => \A q \in Processes : clk[q] + Repeat >= w

ClockInv ==
    /\ \A p \in Processes : Live(p) => /\ Reached(NextSync(p), tick)
                                       /\ ~InStart(p) => Reached(when[p], tick)
    /\ \A n \in Nodes : \A m \in AcksIn(n) : Reached(AckSync(n, m), tick)

LEMMA TimesNat == \A j, k \in Nat : j * k \in Nat
OBVIOUS

LEMMA TimesNext == \A j, k \in Nat : (j + 1) * k = j * k + k
OBVIOUS

LEMMA TimesMono ==
    ASSUME NEW i \in Nat, NEW j \in Nat, NEW k \in Nat, i <= j
    PROVE  i * k <= j * k
<1>1. PICK d \in Nat : j = i + d
  <2>1. j - i \in Nat /\ j = i + (j - i)
    OBVIOUS
  <2> QED
    BY <2>1
<1>2. (i + d) * k = i * k + d * k
  OBVIOUS
<1>3. i * k \in Nat /\ d * k \in Nat
  BY TimesNat
<1> QED
  BY <1>1, <1>2, <1>3

LEMMA BoundaryFacts ==
    /\ SyncStart \in Boundaries
    /\ \A w \in Boundaries : w \in Nat /\ w + Repeat \in Boundaries
<1>0. Repeat \in Nat /\ SyncStart \in Nat
  BY Consts
<1>1. SyncStart = SyncStart + 0 * Repeat
  BY <1>0
<1>2. ASSUME NEW k \in Nat
      PROVE  /\ SyncStart + k * Repeat \in Nat
             /\ k + 1 \in Nat /\ (SyncStart + k * Repeat) + Repeat = SyncStart + (k + 1) * Repeat
  <2>1. k * Repeat \in Nat /\ (k + 1) * Repeat = k * Repeat + Repeat
    BY <1>0, TimesNat, TimesNext
  <2> QED
    BY <2>1, <1>0
<1> QED
  BY <1>1, <1>2 DEF Boundaries

LEMMA Quotient ==
    ASSUME NEW a \in Nat, NEW r \in Nat, r > 0
    PROVE  a \div r \in Nat /\ (a \div r) * r <= a
<1>1. a \div r \in Nat
  OBVIOUS
<1>2. (a \div r) * r <= a
  OBVIOUS
<1> QED
  BY <1>1, <1>2

\* The boundary below a tick in the quantum that ends at w.
LEMMA BoundaryBelow ==
    ASSUME NEW w \in Boundaries, NEW t \in Nat, SyncStart <= t, t < w
    PROVE  /\ w # SyncStart /\ SyncStart + ((t - SyncStart) \div Repeat) * Repeat \in Nat
           /\ SyncStart + ((t - SyncStart) \div Repeat) * Repeat + Repeat <= w
<1>0. Repeat \in Nat /\ Repeat > 0 /\ SyncStart \in Nat
  BY Consts
<1>1. PICK k \in Nat : w = SyncStart + k * Repeat
  BY DEF Boundaries
<1> DEFINE a == t - SyncStart
           d == a \div Repeat
<1>2. a \in Nat
  BY <1>0
<1>3. d \in Nat /\ d * Repeat <= a
  BY <1>0, <1>2, Quotient
<1>4. k * Repeat \in Nat /\ d * Repeat \in Nat
  BY <1>0, <1>3, TimesNat
<1> HIDE DEF d
<1>5. d * Repeat < k * Repeat
  BY <1>0, <1>1, <1>3, <1>4
<1>6. ~(k <= d)
  BY <1>0, <1>3, <1>4, <1>5, TimesMono
<1>7. d + 1 <= k
  BY <1>3, <1>6
<1>8. (d + 1) * Repeat <= k * Repeat
  BY <1>0, <1>3, <1>7, TimesMono
<1>9. (d + 1) * Repeat = d * Repeat + Repeat
  BY <1>0, <1>3, TimesNext
<1> QED
  BY <1>0, <1>1, <1>4, <1>8, <1>9 DEF d

LEMMA ReachedStays ==
    ASSUME SyncInv, Next
    PROVE  \A w : Reached(w, tick) => Reached(w, tick')
<1>1. \A q \in Processes : tick[q] \in Nat /\ tick'[q] \in Nat /\ tick[q] <= tick'[q]
  BY Onward
<1>2. ASSUME NEW w \in Boundaries, NEW q \in Processes, tick[q] + Repeat >= w
      PROVE  tick'[q] + Repeat >= w
  <2>1. w \in Nat /\ Repeat \in Nat
    BY BoundaryFacts, Consts
  <2> QED
    BY <2>1, <1>1, <1>2
<1> QED
  BY <1>2 DEF Reached

\* Where a completed barrier takes a process, all have reached the barrier.
LEMMA AnswerReached ==
    ASSUME SyncInv, ClockInv, NEW m \in Ack, NEW S \in SUBSET {n \in Nodes : Live(n)},
           Answers(m, S), NEW p \in Processes, Live(p), InBarrier(p), caller[p] = caller[Switch]
    PROVE  Reached(AckSync(p, m), tick)
<1>0. ProcessOK(p) /\ StateOK /\ Repeat \in Nat
  BY Consts DEF SyncInv
<1>1. CASE caller[p] = "start"
  BY <1>1, BoundaryFacts DEF AckSync, Reached
<1>2. CASE caller[p] # "start" /\ ~(caller[p] = "process" /\ ~m.do["exit"])
  <2>1. AckSync(p, m) = when[p] /\ ~InStart(p)
    BY <1>2 DEF AckSync, InStart
  <2> QED
    BY <2>1 DEF ClockInv
<1>3. CASE caller[p] = "process" /\ ~m.do["exit"]
  <2>1. AckSync(p, m) = tick[p] + Repeat /\ ~InStart(p) /\ tick[p] = when[p]
    BY <1>0, <1>3 DEF AckSync, InStart, ProcessOK
  <2>2. tick[p] + Repeat \in Boundaries
    BY <2>1, BoundaryFacts DEF ClockInv, Reached
  <2>3. \A q \in Processes : tick[q] = tick[Switch]
    BY <1>3 DEF Answers, Processes
  <2>4. \A q \in Processes : tick[q] + Repeat >= tick[p] + Repeat
    <3>1. tick[p] \in Nat /\ \A q \in Processes : tick[q] = tick[p]
      BY <2>3, <1>0 DEF StateOK
    <3> QED
      BY <3>1, <1>0
  <2> QED
    BY <2>1, <2>2, <2>4 DEF Reached
<1> QED
  BY <1>1, <1>2, <1>3

\* The sync event is moved to the next sync of its process.
LEMMA WhenMoves ==
    ASSUME SyncInv, Next, NEW p \in Processes, Live(p)', ~InStart(p)'
    PROVE  (when'[p] = when[p] /\ ~InStart(p)) \/ when'[p] = NextSync(p)'
<1>0. CASE ~InBarrier(p)'
  <2>1. ~Completed(p)' \/ pc'[p] = "exited"
    BY <1>0 DEF Completed, InBarrier
  <2> QED
    BY <2>1, <1>0 DEF NextSync, InStart, Live
<1>1. CASE InBarrier(p)'
  <2>0. caller'[p] # "start" /\ StateOK
    BY <1>1 DEF InStart, SyncInv
  <2>1. ASSUME when'[p] = when[p], caller'[p] = caller[p]
        PROVE  when'[p] = when[p] /\ ~InStart(p)
    BY <2>0, <2>1 DEF InStart
  <2>2. ASSUME NEW q \in Processes, LocalAct(q) PROVE when'[p] = when[p] /\ ~InStart(p)
    <3>1. CASE q # p
      <4>1. Others(q)
        BY <2>2, LocalFrame
      <4> QED
        BY <4>1, <3>1, <2>1 DEF Others, Keeps, Same
    <3>2. CASE q = p
      <4>1. CASE (SyncProcess(p) /\ pc[p] # "drain") \/ drainComplete(p)
        BY <4>1 DEF SyncProcess, drainComplete, InStart, InBarrier
      <4>2. CASE \/ StartReturns(p) /\ ~Aborted(p)
                 \/ ProcessReturns(p) \/ DrainReturns(p) \/ serialize(p)
        <5>1. pc'[p] \in {"simulate", "unsynced", "drain", "save"}
          BY <4>2, <2>0 DEF StartReturns, ProcessReturns, DrainReturns, serialize, StateOK
        <5> QED
          BY <5>1, <1>1 DEF InBarrier
      <4>3. CASE \/ Advance(p)
                 \/ ExitEvent(p) /\ pc[p] = "drain"
                 \/ \E l \in Links : To(l) = p /\ rxDone(l)
                 \/ \E op \in Ops, req \in ReqTypes : request(p, op, req)
        <5>1. UNCHANGED <<when, caller>>
          BY <4>3 DEF Advance, ExitEvent, rxDone, request, simVars
        <5> QED
          BY <5>1, <2>1
      <4> QED
        BY <2>2, <3>2, <4>1, <4>2, <4>3 DEF LocalAct
    <3> QED
      BY <3>1, <3>2
  <2>3. ASSUME NEW q \in Processes, Gone(q) PROVE when'[p] = when[p] /\ ~InStart(p)
    BY <2>1, <2>3 DEF Gone, Others, Keeps, Same
  <2>4. ASSUME \/ \E n \in Nodes : Asks(n) \/ Counts(n) \/ \E m \in Ack : Hears(n, m)
               \/ \E m \in Ack, S \in SUBSET {n \in Nodes : Live(n)} : Answers(m, S)
        PROVE  when'[p] = when[p] /\ ~InStart(p)
    BY <2>1, <2>4 DEF Asks, Counts, Hears, Answers
  <2>5. ASSUME NEW l \in Links, \/ Takes(l) \/ ConnectionLost(l) \/ abort(l)
                                \/ \E m \in Data(Switch) : Sends(l, m)
        PROVE  when'[p] = when[p] /\ ~InStart(p)
    BY <2>1, <2>5 DEF Takes, Sends, ConnectionLost, abort, simVars
  <2> QED
    BY <2>2, <2>3, <2>4, <2>5, StepCases
<1> QED
  BY <1>0, <1>1

LEMMA ClockAcks ==
    ASSUME SyncInv, ClockInv, Next, NEW n \in Nodes
    PROVE  (\A m \in AcksIn(n) : Reached(AckSync(n, m), tick))'
<1>0. /\ n \in Processes /\ n # Switch /\ Switch \in Processes
      /\ \A m \in AcksIn(n) : Reached(AckSync(n, m), tick)
  BY LinkEnds DEF ClockInv
<1>1. \A w : Reached(w, tick) => Reached(w, tick')
  BY ReachedStays
<1>2. ASSUME \A m \in AcksIn(n)' : m \in AcksIn(n) /\ AckSync(n, m)' = AckSync(n, m)
      PROVE  (\A m \in AcksIn(n) : Reached(AckSync(n, m), tick))'
  <2>1. \A m \in AcksIn(n)' : Reached(AckSync(n, m)', tick')
    BY <1>0, <1>1, <1>2
  <2> QED
    BY <2>1 DEF Reached
<1>3. ASSUME NEW p \in Processes, LocalAct(p)
      PROVE  \A m \in AcksIn(n)' : m \in AcksIn(n) /\ AckSync(n, m)' = AckSync(n, m)
  <2>1. UNCHANGED chan /\ Others(p) /\ (p \in Nodes => AcksIn(p) = {})
    BY <1>3, LocalFrame DEF Quiet
  <2>2. AcksIn(n)' = AcksIn(n)
    BY <2>1 DEF AcksIn, Down
  <2> QED
    BY <2>1, <2>2, <1>0, KeepsNextSync DEF Others
<1>4. ASSUME NEW p \in Processes, Gone(p)
      PROVE  \A m \in AcksIn(n)' : m \in AcksIn(n) /\ AckSync(n, m)' = AckSync(n, m)
  <2>1. /\ Down(n)' = IF p = n THEN <<>> ELSE Down(n)
        /\ p # n => Keeps(n)
    BY <1>0, <1>4 DEF Gone, Others
  <2>2. CASE p = n
    BY <2>1, <2>2, MsgsEmpty DEF AcksIn
  <2>3. CASE p # n
    BY <2>1, <2>3, <1>0, KeepsNextSync DEF AcksIn
  <2> QED
    BY <2>2, <2>3
<1>5. ASSUME NEW k \in Nodes, Asks(k) \/ Counts(k)
      PROVE  \A m \in AcksIn(n)' : m \in AcksIn(n) /\ AckSync(n, m)' = AckSync(n, m)
  <2>1. Down(n)' = Down(n) /\ UNCHANGED <<caller, tick, when>>
    BY <1>5 DEF Asks, Counts
  <2> QED
    BY <2>1 DEF AcksIn, AckSync
<1>6. ASSUME NEW k \in Nodes, NEW x \in Ack, Hears(k, x)
      PROVE  \A m \in AcksIn(n)' : m \in AcksIn(n) /\ AckSync(n, m)' = AckSync(n, m)
  <2>1. /\ UNCHANGED <<caller, tick, when>> /\ AcksIn(k)' = {}
        /\ k # n => Down(n)' = Down(n)
    BY <1>6 DEF Hears
  <2> QED
    BY <2>1 DEF AcksIn, AckSync
<1>7. ASSUME NEW l \in Links, Takes(l) \/ \E m \in Data(Switch) : Sends(l, m)
      PROVE  \A m \in AcksIn(n)' : m \in AcksIn(n) /\ AckSync(n, m)' = AckSync(n, m)
  <2>1. AcksIn(n)' = AcksIn(n)
    BY <1>7, SendsAcks, TakesAcks
  <2>2. UNCHANGED <<caller, tick, when>>
    BY <1>7 DEF Takes, Sends
  <2> QED
    BY <2>1, <2>2 DEF AckSync
<1>8. ASSUME NEW l \in Links, ConnectionLost(l) \/ abort(l)
      PROVE  \A m \in AcksIn(n)' : m \in AcksIn(n) /\ AckSync(n, m)' = AckSync(n, m)
  <2>1. UNCHANGED <<chan, caller, tick, when>>
    BY <1>8 DEF ConnectionLost, abort, simVars
  <2> QED
    BY <2>1 DEF AcksIn, Down, AckSync
<1>9. ASSUME NEW x \in Ack, NEW S \in SUBSET {k \in Nodes : Live(k)}, Answers(x, S)
      PROVE  (\A m \in AcksIn(n) : Reached(AckSync(n, m), tick))'
  <2>1. /\ AcksIn(n)' = IF n \in S THEN {x} ELSE AcksIn(n)
        /\ UNCHANGED <<caller, tick, when>>
        /\ Live(n) => Waiting(n) /\ caller[n] = caller[Switch]
    BY <1>9 DEF Answers
  <2>2. \A m : AckSync(n, m)' = AckSync(n, m)
    BY <2>1 DEF AckSync
  <2>3. n \in S => Reached(AckSync(n, x), tick)
    BY <2>1, <1>0, <1>9, AnswerReached DEF Waiting, InBarrier
  <2>4. \A m \in AcksIn(n)' : Reached(AckSync(n, m)', tick')
    BY <2>1, <2>2, <2>3, <1>0
  <2> QED
    BY <2>4 DEF Reached
<1> QED
  BY <1>2, <1>3, <1>4, <1>5, <1>6, <1>7, <1>8, <1>9, StepCases

LEMMA ClockStep ==
    ASSUME SyncInv, ClockInv, Next
    PROVE  ClockInv'
<1>1. \A w : Reached(w, tick) => Reached(w, tick')
  BY ReachedStays
<1>2. ASSUME NEW p \in Processes, Live(p)'
      PROVE  Reached(NextSync(p)', tick') /\ (~InStart(p)' => Reached(when'[p], tick'))
  <2>0. /\ Live(p) /\ Reached(NextSync(p), tick) /\ (~InStart(p) => Reached(when[p], tick))
        /\ Switch \in Processes
    BY <1>2, Onward, LinkEnds DEF ClockInv
  <2>1. Reached(NextSync(p)', tick')
    <3>1. ASSUME NEW m \in Ack, NEW S \in SUBSET {n \in Nodes : Live(n)}, Answers(m, S),
                 p = Switch
          PROVE  Reached(AckSync(p, m), tick)
      <4>1. InBarrier(p)
        BY <3>1 DEF Answers, InBarrier
      <4> QED
        BY <4>1, <3>1, <2>0, AnswerReached
    <3>2. p \in Nodes => \A m \in AcksIn(p) : Reached(AckSync(p, m), tick)
      BY DEF ClockInv
    <3> QED
      BY <3>1, <3>2, <2>0, <1>1, <1>2, SyncMoves
  <2> QED
    BY <2>0, <2>1, <1>1, <1>2, WhenMoves
<1>3. \A p \in Processes : Live(p)' => /\ Reached(NextSync(p), tick)'
                                       /\ ~InStart(p)' => Reached(when[p], tick)'
  BY <1>2 DEF Reached
<1> QED
  BY <1>3, ClockAcks DEF ClockInv
-----------------------------------------------------------------------------
(* The theorems on time. *)

TimeInv == WindowInv /\ (\A l \in Links : QueueOK(l)) /\ ClockInv

LEMMA TimeInit ==
    ASSUME Init
    PROVE  TimeInv
<1>0. /\ \A p \in Processes : InStart(p) /\ NextSync(p) = SyncStart /\ tick[p] = 0
      /\ \A l \in Links : /\ chan[l] = <<>> /\ descQueue[l] = <<>> /\ prevRecvTick[l] = 0
                          /\ To(l) \in Processes
  BY LinkEnds DEF Init, NextSync, InStart, InBarrier
<1>1. \A n \in Nodes : Up(n) = <<>> /\ Down(n) = <<>> /\ AcksIn(n) = {}
  BY <1>0, LinkEnds, MsgsEmpty DEF Up, Down, AcksIn
<1>2. WindowInv
  BY <1>1, PartsEmpty DEF WindowInv, DownOK, UpOK
<1>3. \A l \in Links : QueueOK(l)
  BY <1>0 DEF QueueOK
<1>4. Reached(SyncStart, tick)
  BY BoundaryFacts DEF Reached
<1>5. ClockInv
  BY <1>0, <1>1, <1>4 DEF ClockInv
<1> QED
  BY <1>2, <1>3, <1>5 DEF TimeInv

LEMMA TimeStep ==
    ASSUME SyncInv, TogetherInv, ModeInv, TimeInv, Next
    PROVE  ModeInv' /\ TimeInv'
<1>1. ModeInv' /\ WindowInv' /\ ClockInv'
  BY ModeStep, WindowStep, ClockStep DEF TimeInv
<1>2. \A l \in Links : QueueOK(l)'
  BY QueueStep DEF TimeInv
<1> QED
  BY <1>1, <1>2 DEF TimeInv

LEMMA TimeStutter ==
    ASSUME SyncInv, ModeInv, TimeInv, UNCHANGED vars
    PROVE  ModeInv' /\ TimeInv'
<1>0. /\ UNCHANGED <<tick, when, pc, caller, exiting, waitNum, isAbort, doing, need, numReq>>
      /\ UNCHANGED <<thread, chan, saved, load, descQueue, prevRecvTick>>
  BY DEF vars, simVars, syncVars, linkVars
<1>1. \A p \in Processes : /\ Keeps(p) /\ NextSync(p)' = NextSync(p)
                           /\ \A m : AckSync(p, m)' = AckSync(p, m)
  <2>1. \A p \in Processes : Keeps(p)
    BY <1>0 DEF Keeps, Same
  <2> QED
    BY <2>1, KeepsNextSync
<1>2. \A n \in Nodes : /\ Down(n)' = Down(n) /\ Up(n)' = Up(n) /\ AcksIn(n)' = AcksIn(n)
                       /\ n \in Processes
  BY <1>0, LinkEnds DEF Up, Down, AcksIn
<1>3. LoadOK' /\ load'.ops = load.ops
  BY <1>0 DEF ModeInv, LoadOK
<1>4. NoCkpt => NoCkpt'
  BY <1>0 DEF NoCkpt, Plain, Msgs
<1>5. Calm => Calm'
  <2>1. AllStopped => AllStopped'
    BY <1>0 DEF AllStopped, Stopped, StoppedNode, Live, Completed, AcksIn, Down, Msgs
  <2>2. (Undisturbed => Undisturbed') /\ (DrainShort => DrainShort')
    BY <1>0 DEF Undisturbed, DrainShort, Live
  <2> QED
    BY <2>1, <2>2 DEF Calm
<1>6. \A p \in Processes : Sober(p)'
  BY <1>0 DEF ModeInv, Sober, Live
<1>7. WindowInv'
  <2>1. \A n \in Nodes : Late(n)' = Late(n)
    BY <1>1, <1>2, LateFrame
  <2>2. \A n \in Nodes : Window(NextSync(n))' = Window(NextSync(n))
    BY <1>1, <1>2 DEF Window, Data
  <2>3. Window(NextSync(Switch))' = Window(NextSync(Switch))
    BY <1>1, LinkEnds DEF Window, Data
  <2> QED
    BY <2>1, <2>2, <2>3, <1>2 DEF TimeInv, WindowInv, DownOK, UpOK, Parts
<1>8. \A l \in Links : QueueOK(l)'
  BY <1>0, <1>1, LinkEnds DEF TimeInv, QueueOK, Live
<1>9. ClockInv'
  <2>1. \A p \in Processes : (Live(p)' <=> Live(p)) /\ (InStart(p)' <=> InStart(p))
    BY <1>0 DEF Live, InStart, InBarrier
  <2> QED
    BY <2>1, <1>0, <1>1, <1>2 DEF TimeInv, ClockInv, Reached
<1> QED
  BY <1>3, <1>4, <1>5, <1>6, <1>7, <1>8, <1>9 DEF ModeInv, TimeInv

LEMMA SpecTimeInv ==
    ASSUME CollectiveOnly, FailuresApart
    PROVE  Spec => [](SyncInv /\ ModeInv /\ TimeInv)
<1>1. Init => ModeInv /\ TimeInv
  BY ModeInit, TimeInit
<1>2. SyncInv /\ TogetherInv /\ ModeInv /\ TimeInv /\ [Next]_vars => ModeInv' /\ TimeInv'
  BY TimeStep, TimeStutter
<1> QED
  BY <1>1, <1>2, SpecTogetherInv, PTL DEF Spec

\* Packets arrive in time: whenever a receiver thread takes a packet from its
\* stream, every assertion and panic of calcReceiveTick and pushPacket holds, for
\* any number of nodes, any quantum not above the link delay, and any speed of
\* the processes; processes may die in a run that takes no checkpoint.
THEOREM PacketsInTime ==
    ASSUME CollectiveOnly, FailuresApart
    PROVE  Spec => []PacketsArriveInTime
<1>1. SyncInv /\ ModeInv /\ TimeInv => PacketsArriveInTime
  BY InvGivesInTime DEF TimeInv
<1> QED
  BY <1>1, SpecTimeInv, PTL

\* A clock that moves has not reached its next sync, and everybody has reached
\* the sync before.
LEMMA ClockMoves ==
    ASSUME SyncInv, ModeInv, TimeInv, NEW p \in Processes, Advance(p)
    PROVE  Clock!Advance(p)
<1>0. /\ StateOK /\ Sober(p) /\ \A q \in Processes : tick[q] \in Nat
  BY DEF SyncInv, StateOK, ModeInv
<1>1. /\ Simulating(p) /\ exiting[p] = "no" /\ tick' = [tick EXCEPT ![p] = @ + 1]
      /\ tick[p] < when[p] \/ pc[p] = "unsynced"
  BY DEF Advance
<1>2. Live(p) /\ ~InStart(p) /\ tick[p] < when[p]
  BY <1>0, <1>1 DEF Simulating, Live, InStart, InBarrier, Sober
<1>3. Reached(when[p], tick)
  BY <1>2 DEF TimeInv, ClockInv
<1>4. when[p] \in Boundaries /\ when[p] \in Nat /\ SyncStart \in Nat /\ Repeat \in Nat
  BY <1>3, BoundaryFacts, Consts DEF Reached
<1>5. ASSUME NEW q \in Processes PROVE tick[q] >= Clock!Boundary(tick[p])
  <2>1. CASE tick[p] < SyncStart
    BY <2>1, <1>0 DEF Clock!Boundary
  <2>2. CASE ~(tick[p] < SyncStart)
    <3> DEFINE b == SyncStart + ((tick[p] - SyncStart) \div Repeat) * Repeat
    <3>1. SyncStart <= tick[p]
      BY <2>2, <1>0, <1>4
    <3>2. when[p] # SyncStart /\ b \in Nat /\ b + Repeat <= when[p]
      BY <3>1, <1>0, <1>2, <1>4, BoundaryBelow
    <3>3. tick[q] + Repeat >= when[p]
      BY <3>2, <1>3 DEF Reached
    <3>4. Clock!Boundary(tick[p]) = b
      BY <2>2 DEF Clock!Boundary
    <3> HIDE DEF b
    <3> QED
      BY <3>2, <3>3, <3>4, <1>0, <1>4
  <2> QED
    BY <2>1, <2>2
<1> QED
  BY <1>1, <1>5 DEF Clock!Advance

\* The distributed run implements the clock of QuantumClock: no process simulates
\* past a sync tick before every process, those that have died included, has
\* reached it.
THEOREM ClockRefined ==
    ASSUME CollectiveOnly, FailuresApart
    PROVE  Spec => ClockSpec
<1>1. Init => Clock!Init
  BY DEF Init, Clock!Init
<1>2. SyncInv /\ ModeInv /\ TimeInv /\ [Next]_vars => [Clock!Next]_tick
  <2> SUFFICES ASSUME SyncInv, ModeInv, TimeInv, [Next]_vars, tick' # tick
               PROVE  Clock!Next
    OBVIOUS
  <2>1. Next
    BY DEF vars, simVars
  <2>2. PICK p \in Processes : Advance(p)
    BY <2>1 DEF Next, SimThread, SyncProcess, ExitEvent, drainComplete, serialize, NodeRun,
           SwitchRun, StartReturns, ProcessReturns, DrainReturns, rxDone, Die, RecvThread,
           pushPacket, progress, ConnectionLost, abort, transmit, transmitFails, request,
           simVars
  <2> QED
    BY <2>2, ClockMoves DEF Clock!Next
<1> QED
  BY <1>1, <1>2, SpecTimeInv, PTL DEF Spec, ClockSpec, Clock!Spec

=============================================================================
