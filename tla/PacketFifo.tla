----------------------------- MODULE PacketFifo -----------------------------
(***************************************************************************)
(* The card's packet FIFO (src/gem5/src/dev/net/pktfifo.hh), with room     *)
(* counted in bytes and space that may be reserved before a packet is      *)
(* pushed.  A FIFO is a record f:                                          *)
(*   fifo      the packets, oldest first; a packet has a field len         *)
(*   size      _size: the bytes of the packets                             *)
(*   reserved  _reserved: the bytes promised to packets still to come      *)
(***************************************************************************)
EXTENDS Integers, Sequences, FiniteSets

CONSTANT FifoMax    \* _maxsize

ASSUME FifoMaxAssumption == FifoMax \in Nat \ {0}

FifoType(P) == [fifo : Seq(P), size : Nat, reserved : Nat]

EmptyFifo == [fifo |-> <<>>, size |-> 0, reserved |-> 0]

avail(f) == FifoMax - f.size - f.reserved

(* avail() > n in the state machine compares an int with an unsigned, so   *)
(* that a negative room would count as a very large one.                   *)
availExceeds(f, n) == avail(f) < 0 \/ avail(f) > n

reserve(f, n) == [f EXCEPT !.reserved = @ + n]

Monus(a, b) == IF a > b THEN a - b ELSE 0

(* A packet needs room only for what the reservations do not cover. *)
pushSucceeds(f, p) ==
    /\ avail(f) >= Monus(p.len, f.reserved)
    /\ f.size + p.len <= FifoMax

(* The sum of the lengths f[i], counted byte by byte: none is longer than  *)
(* the FIFO.                                                               *)
Bytes(f) == Cardinality({p \in (DOMAIN f) \X (1 .. FifoMax) : p[2] <= f[p[1]]})

(* Wrong: a push drops every reservation, as it did when only one packet   *)
(* was under way; it gives none back.                                      *)
pushDropsReserved(f, p) ==
    IF ~ pushSucceeds(f, p) THEN f
    ELSE [fifo |-> Append(f.fifo, p), size |-> f.size + p.len, reserved |-> 0]

pushKeepsReserved(f, p) ==
    IF ~ pushSucceeds(f, p) THEN f
    ELSE [f EXCEPT !.fifo = Append(@, p), !.size = @ + p.len]

push(f, p) ==
    IF ~ pushSucceeds(f, p) THEN f
    ELSE [fifo |-> Append(f.fifo, p), size |-> f.size + p.len,
          reserved |-> Monus(f.reserved, p.len)]

pop(f) ==
    IF f.size <= 0 THEN f
    ELSE [f EXCEPT !.fifo = Tail(@), !.size = @ - Head(f.fifo).len]

=============================================================================
