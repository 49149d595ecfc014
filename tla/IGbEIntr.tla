-------------------------------- MODULE IGbEIntr --------------------------------
(***************************************************************************)
(* The interrupts of the network card (IGbE): causes collected in ICR,     *)
(* masked by IMR, moderated by the ITR timer (interEvent), and the two     *)
(* receive timers RDTR and RADV that cpuPostInt folds into an interrupt.   *)
(* The driver is the most general one: it reads and writes the interrupt   *)
(* registers at any moment.  INTx is not disabled in the PCI command       *)
(* register.                                                               *)
(*                                                                         *)
(* Time is relative: a timer holds the ticks left until its event, or Off. *)
(* An event that is due runs before time passes.                           *)
(***************************************************************************)
EXTENDS Integers

CONSTANTS Causes,      \* interrupt causes, "RXT", "RXO" and "SRPD" among them
          AutoMasks,   \* what IAM may be where CTRL_EXT.IAME is set, or {}
          Intervals,   \* ITR intervals a driver may set up, in ticks (0: off)
          RxDelays     \* [rdtr, radv] delays it may set up, in ticks (0: off)

ASSUME IntrAssumption ==
    /\ {"RXT", "RXO", "SRPD"} \subseteq Causes /\ AutoMasks \subseteq SUBSET Causes
    /\ Intervals \subseteq Nat /\ RxDelays \subseteq [rdtr : Nat, radv : Nat]

Off == -1

VARIABLES
    icr,     \* causes set in ICR
    asserted,\* ICR.int_assert
    line,    \* the interrupt line to the processor
    imr,     \* causes enabled
    auto,    \* IAM where CTRL_EXT.IAME is set, else nothing
    itr,     \* ITR.interval
    delay,   \* RDTR.delay and RADV.idv
    since,   \* ticks since lastInterrupt, up to itr
    inter,   \* interEvent
    rdtr, radv   \* _rdtrEvent, _radvEvent of queue 0

vars == <<icr, asserted, line, imr, auto, itr, delay, since, inter, rdtr, radv>>
config == <<auto, itr, delay>>

---------------------------------------------------------------------------
\* The interrupt registers and events as one record, which the handlers pass on.

Now == [icr |-> icr, asserted |-> asserted, line |-> line, imr |-> imr,
        since |-> since, inter |-> inter, rdtr |-> rdtr, radv |-> radv]

Become(r) == /\ icr' = r.icr /\ asserted' = r.asserted /\ line' = r.line
             /\ imr' = r.imr /\ since' = r.since /\ inter' = r.inter
             /\ rdtr' = r.rdtr /\ radv' = r.radv
             /\ UNCHANGED config

Unmasked(r) == r.icr \cap r.imr # {}

\* Variant: the receive timers are cancelled and their cause is forgotten.
cpuPostIntForgets(r) ==
    IF ~Unmasked(r) THEN r
    ELSE [r EXCEPT !.asserted = TRUE, !.line = TRUE, !.since = 0,
                   !.inter = Off, !.rdtr = Off, !.radv = Off]

\* An unmasked cause raises the line and takes the receive timers with it.
cpuPostInt(r) ==
    IF ~Unmasked(r) THEN r
    ELSE [r EXCEPT !.asserted = TRUE, !.line = TRUE, !.since = 0, !.inter = Off,
                   !.icr = IF r.rdtr # Off \/ r.radv # Off THEN @ \cup {"RXT"} ELSE @,
                   !.rdtr = Off, !.radv = Off]

cpuClearInt(r) == IF r.asserted THEN [r EXCEPT !.asserted = FALSE, !.line = FALSE] ELSE r

\* Variant: the line is left up when the last enabled cause goes.
chkInterruptKeepsLine(r) ==
    IF ~Unmasked(r) THEN [r EXCEPT !.inter = Off]
    ELSE IF itr = 0 THEN cpuPostInt(r)
    ELSE IF r.inter = Off THEN [r EXCEPT !.inter = itr] ELSE r

\* Variant: a mask write leaves a moderated cause to the next one.
chkInterruptNoTimer(r) ==
    IF ~Unmasked(r) THEN cpuClearInt([r EXCEPT !.inter = Off])
    ELSE IF itr = 0 THEN cpuPostInt(r) ELSE r

\* Variant: a mask write lets a pending cause through at once.
chkInterruptAtOnce(r) ==
    IF ~Unmasked(r) THEN cpuClearInt([r EXCEPT !.inter = Off])
    ELSE IF itr = 0 THEN cpuPostInt(r)
    ELSE IF r.inter = Off THEN [r EXCEPT !.inter = 0] ELSE r

\* After every change of ICR or IMR by the driver.
chkInterrupt(r) ==
    IF ~Unmasked(r) THEN cpuClearInt([r EXCEPT !.inter = Off])
    ELSE IF itr = 0 THEN cpuPostInt(r)
    ELSE IF r.inter = Off THEN [r EXCEPT !.inter = itr] ELSE r

\* Variant: the timer counts from the tick after the interval.
postInterruptLate(r, t, now) ==
    LET with == [r EXCEPT !.icr = @ \cup t]
    IN IF t \cap r.icr # {} /\ ~now THEN r
       ELSE IF itr = 0 \/ now \/ r.since >= itr
       THEN cpuPostInt([with EXCEPT !.inter = Off])
       ELSE IF r.inter = Off THEN [with EXCEPT !.inter = itr - r.since + 1] ELSE with

\* The card has causes t to report, at once if now.
postInterrupt(r, t, now) ==
    LET with == [r EXCEPT !.icr = @ \cup t]
    IN IF t \cap r.icr # {} /\ ~now THEN r
       ELSE IF itr = 0 \/ now \/ r.since >= itr
       THEN cpuPostInt([with EXCEPT !.inter = Off])
       ELSE IF r.inter = Off THEN [with EXCEPT !.inter = itr - r.since] ELSE with

---------------------------------------------------------------------------
\* The card

\* The end of RxDescCacheGlobal::onDMAComplete: a packet is in memory.
PacketReceived(small) ==
    LET delayed == [Now EXCEPT
            !.rdtr = IF delay.rdtr > 0 THEN delay.rdtr ELSE @,
            !.radv = IF delay.radv > 0 /\ @ = Off THEN delay.radv ELSE @]
        timed == IF delay.rdtr = 0 /\ delay.radv = 0
                 THEN postInterrupt(delayed, {"RXT"}, FALSE) ELSE delayed
    IN Become(IF small THEN postInterrupt(timed, {"SRPD"}, FALSE) ELSE timed)

\* ethRxPkt: the receive FIFO is full.
PacketDropped == Become(postInterrupt(Now, {"RXO"}, TRUE))

\* Every cause of the transmit path: TXDW, TXQE, TXDLOW.
OtherCause == \E c \in Causes \ {"RXT", "RXO", "SRPD"} : Become(postInterrupt(Now, {c}, FALSE))

rdtrProcess == rdtr = 0 /\ Become(postInterrupt([Now EXCEPT !.rdtr = Off], {"RXT"}, FALSE))

radvProcess == radv = 0 /\ Become(postInterrupt([Now EXCEPT !.radv = Off], {"RXT"}, FALSE))

delayIntEvent == inter = 0 /\ Become(cpuPostInt([Now EXCEPT !.inter = Off]))

---------------------------------------------------------------------------
\* The driver

ReadICR ==
    LET read == [Now EXCEPT !.icr = IF asserted \/ imr = {} THEN {} ELSE @,
                            !.imr = IF asserted THEN @ \ auto ELSE @]
    IN Become(chkInterrupt(read))

WriteICR(v) == Become(chkInterrupt([Now EXCEPT !.imr = @ \ auto, !.icr = @ \ v]))

WriteICS(v) == Become(postInterrupt(Now, v, FALSE))

WriteIMS(v) == Become(chkInterrupt([Now EXCEPT !.imr = @ \cup v]))

WriteIMC(v) == Become(chkInterrupt([Now EXCEPT !.imr = @ \ v]))

---------------------------------------------------------------------------
\* A tick passes when no event is due.
Left(t) == IF t = Off THEN Off ELSE t - 1

TickPasses ==
    /\ inter # 0 /\ rdtr # 0 /\ radv # 0
    /\ since' = IF since < itr THEN since + 1 ELSE since
    /\ inter' = Left(inter) /\ rdtr' = Left(rdtr) /\ radv' = Left(radv)
    /\ UNCHANGED <<icr, asserted, line, imr, config>>

Init == /\ icr = {} /\ asserted = FALSE /\ line = FALSE /\ imr = {}
        /\ auto \in AutoMasks
        /\ itr \in Intervals /\ delay \in RxDelays
        /\ since = itr
        /\ inter = Off /\ rdtr = Off /\ radv = Off

Events == rdtrProcess \/ radvProcess \/ delayIntEvent

Driver == \/ ReadICR
          \/ \E v \in SUBSET Causes \ {{}} :
                WriteICR(v) \/ WriteICS(v) \/ WriteIMS(v) \/ WriteIMC(v)

Next == \/ Events \/ TickPasses
        \/ \E small \in BOOLEAN : PacketReceived(small)
        \/ PacketDropped \/ OtherCause \/ Driver

\* The event queue runs every event that is due and time goes on.
Spec == Init /\ [][Next]_vars /\ WF_vars(Events) /\ WF_vars(TickPasses)

---------------------------------------------------------------------------
\* Properties

\* The registers and timers stay within what the driver set up: no timer runs
\* for longer than its interval.
IntrTypeOK ==
    /\ icr \subseteq Causes /\ imr \subseteq Causes /\ auto \in AutoMasks
    /\ asserted \in BOOLEAN /\ line \in BOOLEAN
    /\ itr \in Intervals /\ delay \in RxDelays
    /\ since \in 0..itr /\ inter \in Off..itr
    /\ rdtr \in Off..delay.rdtr /\ radv \in Off..delay.radv

\* The line to the processor agrees with the registers whatever the order of
\* mask writes, reads that clear, causes and timers: it is up only for an
\* enabled cause, and an enabled cause has the line up or the moderation timer
\* running, so that no interrupt is lost.
LineFollowsCauses ==
    /\ line = asserted
    /\ line => icr \cap imr # {}
    /\ icr \cap imr # {} => line \/ inter # Off

\* The moderation timer never goes off sooner than ITR allows after the last
\* interrupt, whichever of postInterrupt and chkInterrupt set it and whatever
\* happened since.
IntervalKept == inter # Off => since + inter >= itr

\* A cause that stays pending and enabled gets to the processor: mask writes
\* and other causes cannot put the moderation timer off for ever.
EnabledCauseInterrupts ==
    \A c \in Causes : c \in icr \cap imr ~> (line \/ c \notin icr \cap imr)

\* A packet whose interrupt is delayed is reported in ICR, also when another
\* interrupt cancels the timers, and when packets keep coming, each of which
\* starts RDTR again: the absolute timer RADV is not put off.
DelayedPacketReported == rdtr # Off \/ radv # Off ~> "RXT" \in icr
=============================================================================
