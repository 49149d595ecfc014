----------------------------- MODULE TxChannel ------------------------------
(***************************************************************************)
(* What the transmit path of the network card and its driver promise: each *)
(* packet the driver queued leaves on the wire once.  The packets of one   *)
(* queue may overtake one another, but no packet is overtaken by more than *)
(* Window others.                                                          *)
(***************************************************************************)
EXTENDS Naturals, Sequences, FiniteSets

CONSTANT Window

VARIABLES submitted,   \* how many packets were queued
          sent         \* the packets that left, in the order they did

chan == <<submitted, sent>>

Sent == {sent[i] : i \in 1 .. Len(sent)}

Init == submitted = 0 /\ sent = <<>>

Submit ==
    /\ submitted' = submitted + 1
    /\ UNCHANGED sent

Send(p) ==
    /\ p \in (1 .. submitted) \ Sent
    /\ \A q \in (1 .. p - 1) \ Sent :
          Cardinality({r \in Sent \cup {p} : r > q}) <= Window
    /\ sent' = Append(sent, p)
    /\ UNCHANGED submitted

Leave == \E p \in 1 .. submitted : Send(p)

Safety == Init /\ [][Submit \/ Leave]_chan

Spec == Safety /\ WF_chan(Leave)

=============================================================================
