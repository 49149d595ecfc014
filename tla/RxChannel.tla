----------------------------- MODULE RxChannel -----------------------------
(***************************************************************************)
(* What the receive path of the network card and its driver promise: the   *)
(* application gets every packet the card accepted, once, in the order of  *)
(* acceptance, and no more than Capacity packets are ever under way.       *)
(***************************************************************************)
EXTENDS Naturals, Sequences

CONSTANT Capacity

VARIABLES accepted,   \* how many packets were accepted
          delivered   \* the packets the application got

chan == <<accepted, delivered>>

Init == accepted = 0 /\ delivered = <<>>

Accept ==
    /\ accepted - Len(delivered) < Capacity
    /\ accepted' = accepted + 1
    /\ UNCHANGED delivered

Deliver ==
    /\ Len(delivered) < accepted
    /\ delivered' = Append(delivered, Len(delivered) + 1)
    /\ UNCHANGED accepted

Safety == Init /\ [][Accept \/ Deliver]_chan

Spec == Safety /\ WF_chan(Deliver)

=============================================================================
