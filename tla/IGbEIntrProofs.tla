--------------------------- MODULE IGbEIntrProofs ---------------------------
(***************************************************************************)
(* No order of causes, mask writes, reads that clear, packets and timers   *)
(* leaves the interrupt line and the registers in disagreement, for every  *)
(* set of causes, automatic mask, ITR interval and receive delay.          *)
(*                                                                         *)
(* The handlers pass one record on (Now), so the lemmas say what each of   *)
(* them makes of a record: Settled is what holds between two handlers,     *)
(* Unsettled what is left of it where a handler has changed the causes or  *)
(* the mask and has not looked at the line yet.                            *)
(***************************************************************************)
EXTENDS IGbEIntr, TLAPS

Registers == [icr : SUBSET Causes, asserted : BOOLEAN, line : BOOLEAN,
              imr : SUBSET Causes, since : 0..itr, inter : Off..itr,
              rdtr : Off..delay.rdtr, radv : Off..delay.radv]

Unsettled(r) ==
    /\ r \in Registers
    /\ r.line = r.asserted
    /\ r.inter # Off => r.since + r.inter >= itr

NoFalseLine(r) == r.line => Unmasked(r)

Settled(r) ==
    /\ Unsettled(r) /\ NoFalseLine(r)
    /\ Unmasked(r) => r.line \/ r.inter # Off

Configured ==
    /\ auto \in SUBSET Causes
    /\ itr \in Nat /\ delay \in RxDelays /\ delay.rdtr \in Nat /\ delay.radv \in Nat

IntrInv == auto \in AutoMasks /\ itr \in Intervals /\ delay \in RxDelays /\ Settled(Now)

-----------------------------------------------------------------------------
LEMMA ConfiguredFollows ==
    ASSUME auto \in AutoMasks, itr \in Intervals, delay \in RxDelays
    PROVE  Configured
BY IntrAssumption DEF Configured

LEMMA NowFields ==
    /\ Now.icr = icr /\ Now.asserted = asserted /\ Now.line = line /\ Now.imr = imr
    /\ Now.since = since /\ Now.inter = inter /\ Now.rdtr = rdtr /\ Now.radv = radv
BY DEF Now

(* Settled states it for the record, the three invariants for the variables. *)
LEMMA SettledIsInvariants ==
    IntrInv <=> IntrTypeOK /\ LineFollowsCauses /\ IntervalKept
<1>1. Now \in Registers <=>
        /\ icr \in SUBSET Causes /\ asserted \in BOOLEAN /\ line \in BOOLEAN
        /\ imr \in SUBSET Causes /\ since \in 0..itr /\ inter \in Off..itr
        /\ rdtr \in Off..delay.rdtr /\ radv \in Off..delay.radv
  BY DEF Now, Registers
<1> QED
  BY <1>1, NowFields DEF IntrInv, Settled, Unsettled, NoFalseLine, Unmasked,
     IntrTypeOK, LineFollowsCauses, IntervalKept

-----------------------------------------------------------------------------
(* What the handlers make of the registers. *)

(* cpuPostInt settles the line wherever the line was not up for nothing. *)
LEMMA cpuPostIntSettles ==
    ASSUME Configured, NEW r, Unsettled(r), NoFalseLine(r)
    PROVE  Settled(cpuPostInt(r))
<1>1. CASE ~Unmasked(r)
  BY <1>1 DEF cpuPostInt, Settled
<1>2. CASE Unmasked(r)
  <2> DEFINE s == cpuPostInt(r)
  <2>1. /\ s.line = TRUE /\ s.asserted = TRUE /\ s.since = 0 /\ s.inter = Off
        /\ s.rdtr = Off /\ s.radv = Off /\ s.imr = r.imr
        /\ s.icr \in {r.icr, r.icr \cup {"RXT"}}
    BY <1>2 DEF cpuPostInt, Unsettled, Registers
  <2>2. s \in Registers
    <3>1. s = [icr |-> s.icr, asserted |-> TRUE, line |-> TRUE, imr |-> r.imr,
               since |-> 0, inter |-> Off, rdtr |-> Off, radv |-> Off]
      BY <1>2 DEF cpuPostInt, Unsettled, Registers
    <3>2. s.icr \in SUBSET Causes /\ r.imr \in SUBSET Causes
      BY <2>1, IntrAssumption DEF Unsettled, Registers
    <3>3. 0 \in 0..itr /\ Off \in Off..itr /\ Off \in Off..delay.rdtr /\ Off \in Off..delay.radv
      BY DEF Configured, Off
    <3>4. ASSUME NEW c \in SUBSET Causes, NEW m \in SUBSET Causes
          PROVE  [icr |-> c, asserted |-> TRUE, line |-> TRUE, imr |-> m,
                  since |-> 0, inter |-> Off, rdtr |-> Off, radv |-> Off] \in Registers
      BY <3>3 DEF Registers
    <3> HIDE DEF s
    <3> QED
      BY <3>1, <3>2, <3>4
  <2>3. Unmasked(s)
    BY <1>2, <2>1 DEF Unmasked
  <2> HIDE DEF s
  <2>4. Settled(s)
    BY <2>1, <2>2, <2>3 DEF Settled, Unsettled, NoFalseLine
  <2> QED
    BY <2>4 DEF s
<1> QED
  BY <1>1, <1>2

LEMMA InterOffUnsettled ==
    ASSUME Configured, NEW r, Unsettled(r)
    PROVE  /\ Unsettled([r EXCEPT !.inter = Off])
           /\ NoFalseLine(r) => NoFalseLine([r EXCEPT !.inter = Off])
           /\ Unmasked([r EXCEPT !.inter = Off]) = Unmasked(r)
BY DEF Unsettled, Registers, Configured, Off, NoFalseLine, Unmasked

(* chkInterrupt settles the line after any change of the causes or of the mask. *)
LEMMA chkInterruptSettles ==
    ASSUME Configured, NEW r, Unsettled(r)
    PROVE  Settled(chkInterrupt(r))
<1>1. CASE ~Unmasked(r)
  <2> DEFINE q == [r EXCEPT !.inter = Off]
  <2>1. Unsettled(q) /\ ~Unmasked(q)
    BY <1>1, InterOffUnsettled
  <2> HIDE DEF q
  <2>2. Settled(cpuClearInt(q))
    BY <2>1 DEF cpuClearInt, Settled, Unsettled, NoFalseLine, Unmasked, Registers
  <2> QED
    BY <1>1, <2>2 DEF chkInterrupt, q
<1>2. CASE Unmasked(r) /\ itr = 0
  BY <1>2, cpuPostIntSettles DEF chkInterrupt, NoFalseLine
<1>3. CASE Unmasked(r) /\ itr # 0 /\ r.inter = Off
  <2> DEFINE s == [r EXCEPT !.inter = itr]
  <2>1. chkInterrupt(r) = s
    BY <1>3 DEF chkInterrupt
  <2>2. /\ s \in Registers /\ s.inter = itr /\ s.since = r.since /\ s.line = r.line
        /\ s.asserted = r.asserted /\ s.icr = r.icr /\ s.imr = r.imr /\ r.since \in 0..itr
    BY DEF Unsettled, Registers, Configured, Off
  <2> HIDE DEF s
  <2>3. Settled(s)
    BY <1>3, <2>2 DEF Settled, Unsettled, NoFalseLine, Unmasked, Configured, Off
  <2> QED
    BY <2>1, <2>3
<1>4. CASE Unmasked(r) /\ itr # 0 /\ r.inter # Off
  BY <1>4 DEF chkInterrupt, Settled, NoFalseLine
<1> QED
  BY <1>1, <1>2, <1>3, <1>4

(* postInterrupt takes a settled record to a settled one. *)
LEMMA postInterruptSettles ==
    ASSUME Configured, NEW r, Settled(r), NEW t \in SUBSET Causes, NEW now \in BOOLEAN
    PROVE  Settled(postInterrupt(r, t, now))
<1> DEFINE with == [r EXCEPT !.icr = @ \cup t]
<1>1. /\ with \in Registers /\ with.icr = r.icr \cup t /\ with.imr = r.imr
      /\ with.line = r.line /\ with.asserted = r.asserted
      /\ with.since = r.since /\ with.inter = r.inter /\ r.since \in 0..itr
  BY DEF Settled, Unsettled, Registers
<1> HIDE DEF with
<1>2. Unsettled(with) /\ NoFalseLine(with)
  BY <1>1 DEF Settled, Unsettled, NoFalseLine, Unmasked
<1>3. CASE t \cap r.icr # {} /\ ~now
  BY <1>3 DEF postInterrupt
<1>4. CASE ~(t \cap r.icr # {} /\ ~now) /\ (itr = 0 \/ now \/ r.since >= itr)
  <2>1. Settled(cpuPostInt([with EXCEPT !.inter = Off]))
    BY <1>2, InterOffUnsettled, cpuPostIntSettles
  <2> QED
    BY <1>4, <2>1 DEF postInterrupt, with
<1>5. CASE /\ ~(t \cap r.icr # {} /\ ~now) /\ ~(itr = 0 \/ now \/ r.since >= itr)
           /\ r.inter = Off
  <2> DEFINE s == [with EXCEPT !.inter = itr - r.since]
  <2>1. postInterrupt(r, t, now) = s
    BY <1>5 DEF postInterrupt, with
  <2>2. /\ s \in Registers /\ s.inter = itr - r.since /\ s.since = r.since
        /\ s.line = r.line /\ s.asserted = r.asserted
        /\ s.icr = with.icr /\ s.imr = with.imr
    BY <1>1, <1>5 DEF Registers, Configured, Off
  <2> HIDE DEF s
  <2>3. Settled(s)
    BY <1>1, <1>2, <1>5, <2>2 DEF Settled, Unsettled, NoFalseLine, Unmasked, Configured, Off
  <2> QED
    BY <2>1, <2>3
<1>6. CASE /\ ~(t \cap r.icr # {} /\ ~now) /\ ~(itr = 0 \/ now \/ r.since >= itr)
           /\ r.inter # Off
  <2>1. postInterrupt(r, t, now) = with
    BY <1>6 DEF postInterrupt, with
  <2> QED
    BY <1>1, <1>2, <1>6, <2>1 DEF Settled
<1> QED
  BY <1>3, <1>4, <1>5, <1>6

(* The receive timers can be set or stopped without touching the rest. *)
LEMMA TimersSettled ==
    ASSUME Configured, NEW r, Settled(r),
           NEW x \in Off..delay.rdtr, NEW y \in Off..delay.radv
    PROVE  /\ Settled([r EXCEPT !.rdtr = x, !.radv = y])
           /\ Settled([r EXCEPT !.rdtr = x]) /\ Settled([r EXCEPT !.radv = y])
BY DEF Settled, Unsettled, NoFalseLine, Unmasked, Registers

LEMMA CausesUnsettled ==
    ASSUME Configured, NEW r, Settled(r), NEW c \in SUBSET Causes, NEW m \in SUBSET Causes
    PROVE  /\ Unsettled([r EXCEPT !.icr = c, !.imr = m])
           /\ Unsettled([r EXCEPT !.imr = m, !.icr = c])
           /\ Unsettled([r EXCEPT !.imr = m])
BY DEF Settled, Unsettled, Registers

-----------------------------------------------------------------------------
(* A handler that ends in a settled record keeps the invariant. *)
LEMMA BecomeKeeps ==
    ASSUME IntrInv, NEW r, Settled(r), Become(r)
    PROVE  IntrInv'
<1>1. auto' = auto /\ itr' = itr /\ delay' = delay
  BY DEF Become, config
<1>2. r = [icr |-> r.icr, asserted |-> r.asserted, line |-> r.line, imr |-> r.imr,
           since |-> r.since, inter |-> r.inter, rdtr |-> r.rdtr, radv |-> r.radv]
  BY DEF Settled, Unsettled, Registers
<1>3. Now' = r
  BY <1>2 DEF Now, Become
<1>4. Settled(Now)'
  BY <1>1, <1>3 DEF Settled, Unsettled, NoFalseLine, Unmasked, Registers
<1> QED
  BY <1>1, <1>4 DEF IntrInv

LEMMA InitIntrInv == Init => IntrInv
<1> SUFFICES ASSUME Init PROVE IntrInv
  OBVIOUS
<1>1. Configured
  BY ConfiguredFollows DEF Init
<1>2. IntrTypeOK /\ LineFollowsCauses /\ IntervalKept
  <2>1. LineFollowsCauses /\ IntervalKept
    BY DEF Init, LineFollowsCauses, IntervalKept
  <2>2. itr \in 0..itr /\ Off \in Off..itr /\ Off \in Off..delay.rdtr /\ Off \in Off..delay.radv
    BY <1>1 DEF Configured, Off
  <2>3. IntrTypeOK
    BY <2>2 DEF Init, IntrTypeOK
  <2> QED
    BY <2>1, <2>3
<1> QED
  BY <1>2, SettledIsInvariants

LEMMA PacketReceivedKeeps ==
    ASSUME IntrInv, NEW small \in BOOLEAN, PacketReceived(small)
    PROVE  IntrInv'
<1>0. Configured /\ Settled(Now)
  BY ConfiguredFollows DEF IntrInv
<1> DEFINE x == IF delay.rdtr > 0 THEN delay.rdtr ELSE rdtr
           y == IF delay.radv > 0 /\ radv = Off THEN delay.radv ELSE radv
           delayed == [Now EXCEPT !.rdtr = x, !.radv = y]
           timed == IF delay.rdtr = 0 /\ delay.radv = 0
                    THEN postInterrupt(delayed, {"RXT"}, FALSE) ELSE delayed
<1>1. x \in Off..delay.rdtr /\ y \in Off..delay.radv
  <2>1. rdtr \in Off..delay.rdtr /\ radv \in Off..delay.radv
    BY <1>0, NowFields DEF Settled, Unsettled, Registers
  <2> QED
    BY <1>0, <2>1 DEF Configured, Off
<1>2. {"RXT"} \in SUBSET Causes /\ {"SRPD"} \in SUBSET Causes
  BY IntrAssumption
<1>3. Become(IF small THEN postInterrupt(timed, {"SRPD"}, FALSE) ELSE timed)
  BY NowFields DEF PacketReceived
<1> HIDE DEF x, y
<1>4. Settled(delayed)
  BY <1>0, <1>1, TimersSettled
<1> HIDE DEF delayed
<1>5. Settled(timed)
  BY <1>0, <1>2, <1>4, postInterruptSettles
<1> HIDE DEF timed
<1>6. Settled(IF small THEN postInterrupt(timed, {"SRPD"}, FALSE) ELSE timed)
  BY <1>0, <1>2, <1>5, postInterruptSettles
<1> QED
  BY <1>3, <1>6, BecomeKeeps

LEMMA EventsKeep ==
    ASSUME IntrInv, Events
    PROVE  IntrInv'
<1>0. Configured /\ Settled(Now)
  BY ConfiguredFollows DEF IntrInv
<1>1. {"RXT"} \in SUBSET Causes
  BY IntrAssumption
<1>2. rdtr \in Off..delay.rdtr /\ radv \in Off..delay.radv /\ Now \in Registers
  BY <1>0, NowFields DEF Settled, Unsettled, Registers
<1>3. Off \in Off..delay.rdtr /\ Off \in Off..delay.radv
  BY <1>0 DEF Configured, Off
<1>4. CASE rdtrProcess
  <2>2. Settled([Now EXCEPT !.rdtr = Off])
    BY <1>0, <1>3, TimersSettled
  <2> QED
    BY <1>0, <1>1, <1>4, <2>2, postInterruptSettles, BecomeKeeps DEF rdtrProcess
<1>5. CASE radvProcess
  <2>2. Settled([Now EXCEPT !.radv = Off])
    BY <1>0, <1>3, TimersSettled
  <2> QED
    BY <1>0, <1>1, <1>5, <2>2, postInterruptSettles, BecomeKeeps DEF radvProcess
<1>6. CASE delayIntEvent
  <2>1. Settled(cpuPostInt([Now EXCEPT !.inter = Off]))
    BY <1>0, InterOffUnsettled, cpuPostIntSettles DEF Settled
  <2> QED
    BY <1>6, <2>1, BecomeKeeps DEF delayIntEvent
<1> QED
  BY <1>4, <1>5, <1>6 DEF Events

(* Time takes from the moderation timer what it adds to the time since the *)
(* last interrupt, until that has reached the interval.                    *)
LEMMA TickKeeps ==
    ASSUME IntrInv, TickPasses
    PROVE  IntrInv'
<1>1. Configured /\ IntrTypeOK /\ LineFollowsCauses /\ IntervalKept
  BY ConfiguredFollows, SettledIsInvariants DEF IntrInv
<1>2. IntrTypeOK' /\ LineFollowsCauses' /\ IntervalKept'
  BY <1>1 DEF TickPasses, Left, config, Configured, Off, IntrTypeOK, LineFollowsCauses,
     IntervalKept
<1> QED
  BY <1>2, SettledIsInvariants, PTL

LEMMA DriverKeeps ==
    ASSUME IntrInv, Driver
    PROVE  IntrInv'
<1>0. Configured /\ Settled(Now) /\ icr \in SUBSET Causes /\ imr \in SUBSET Causes
  BY ConfiguredFollows, NowFields DEF IntrInv, Settled, Unsettled, Registers
<1>1. CASE ReadICR
  <2> DEFINE c == IF asserted \/ imr = {} THEN {} ELSE icr
             m == IF asserted THEN imr \ auto ELSE imr
  <2>1. c \in SUBSET Causes /\ m \in SUBSET Causes
    BY <1>0
  <2>2. Become(chkInterrupt([Now EXCEPT !.icr = c, !.imr = m]))
    BY <1>1, NowFields DEF ReadICR
  <2> HIDE DEF c, m
  <2> QED
    BY <1>0, <2>1, <2>2, CausesUnsettled, chkInterruptSettles, BecomeKeeps
<1>2. ASSUME NEW v \in SUBSET Causes \ {{}}, WriteICR(v)
      PROVE  IntrInv'
  <2>1. [Now EXCEPT !.imr = @ \ auto, !.icr = @ \ v]
            = [Now EXCEPT !.imr = imr \ auto, !.icr = icr \ v]
    BY NowFields
  <2>2. Settled(chkInterrupt([Now EXCEPT !.imr = @ \ auto, !.icr = @ \ v]))
    BY <1>0, <2>1, CausesUnsettled, chkInterruptSettles
  <2> QED
    BY <1>2, <2>2, BecomeKeeps DEF WriteICR
<1>3. ASSUME NEW v \in SUBSET Causes \ {{}}, WriteICS(v)
      PROVE  IntrInv'
  BY <1>0, <1>3, postInterruptSettles, BecomeKeeps DEF WriteICS
<1>4. ASSUME NEW v \in SUBSET Causes \ {{}}, WriteIMS(v)
      PROVE  IntrInv'
  <2>1. [Now EXCEPT !.imr = @ \cup v] = [Now EXCEPT !.imr = imr \cup v]
    BY NowFields
  <2>2. Settled(chkInterrupt([Now EXCEPT !.imr = @ \cup v]))
    BY <1>0, <2>1, CausesUnsettled, chkInterruptSettles
  <2> QED
    BY <1>4, <2>2, BecomeKeeps DEF WriteIMS
<1>5. ASSUME NEW v \in SUBSET Causes \ {{}}, WriteIMC(v)
      PROVE  IntrInv'
  <2>1. [Now EXCEPT !.imr = @ \ v] = [Now EXCEPT !.imr = imr \ v]
    BY NowFields
  <2>2. Settled(chkInterrupt([Now EXCEPT !.imr = @ \ v]))
    BY <1>0, <2>1, CausesUnsettled, chkInterruptSettles
  <2> QED
    BY <1>5, <2>2, BecomeKeeps DEF WriteIMC
<1> QED
  BY <1>1, <1>2, <1>3, <1>4, <1>5 DEF Driver

LEMMA NextIntrInv == IntrInv /\ [Next]_vars => IntrInv'
<1> SUFFICES ASSUME IntrInv, [Next]_vars PROVE IntrInv'
  OBVIOUS
<1>0. Configured /\ Settled(Now)
  BY ConfiguredFollows DEF IntrInv
<1>1. CASE PacketDropped
  <2>1. {"RXO"} \in SUBSET Causes
    BY IntrAssumption
  <2> QED
    BY <1>0, <1>1, <2>1, postInterruptSettles, BecomeKeeps DEF PacketDropped
<1>2. CASE OtherCause
  <2>1. PICK c \in Causes : Become(postInterrupt(Now, {c}, FALSE))
    BY <1>2 DEF OtherCause
  <2>2. Settled(postInterrupt(Now, {c}, FALSE))
    BY <1>0, postInterruptSettles
  <2> QED
    BY <2>1, <2>2, BecomeKeeps
<1>3. CASE UNCHANGED vars
  BY <1>3 DEF vars, IntrInv, Now, Settled, Unsettled, NoFalseLine, Unmasked, Registers
<1> QED
  BY <1>1, <1>2, <1>3, EventsKeep, TickKeeps, PacketReceivedKeeps, DriverKeeps DEF Next

-----------------------------------------------------------------------------
LEMMA IntrInvariant == Spec => []IntrInv
BY InitIntrInv, NextIntrInv, PTL DEF Spec

(* The registers hold known causes, and no timer ever runs for longer than *)
(* the interval or delay the driver set up: cpuPostInt, chkInterrupt and   *)
(* postInterrupt set interEvent within ITR, also after a partial interval. *)
THEOREM IntrTypeCorrect == Spec => []IntrTypeOK
<1>1. IntrInv => IntrTypeOK
  BY SettledIsInvariants
<1> QED
  BY <1>1, IntrInvariant, PTL

(* The line to the processor is up only for an enabled cause, and an        *)
(* enabled cause has the line up or interEvent scheduled, whatever the      *)
(* order of mask writes, reads of ICR that clear and mask, causes and       *)
(* timers: no interrupt of the card is lost, for every set of causes.       *)
THEOREM IntrLineFollowsCauses == Spec => []LineFollowsCauses
<1>1. IntrInv => LineFollowsCauses
  BY SettledIsInvariants
<1> QED
  BY <1>1, IntrInvariant, PTL

(* interEvent never goes off before ITR.interval has passed since           *)
(* lastInterrupt, whichever of postInterrupt and chkInterrupt scheduled it. *)
THEOREM IntrIntervalKept == Spec => []IntervalKept
<1>1. IntrInv => IntervalKept
  BY SettledIsInvariants
<1> QED
  BY <1>1, IntrInvariant, PTL
=============================================================================
