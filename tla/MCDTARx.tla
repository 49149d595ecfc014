------------------------------ MODULE MCDTARx ------------------------------
(* Instances of the DTA for TLC; the .cfg files give the values. *)
EXTENDS DTARx, TLC

\* Packets of one flit and of two, which they fill.
MixedPackets == {<<3, 7, 3>>}

\* The long packet finds a worker, or waits for one, or a packet of 64 bytes
\* does not fill its second flit.
AnyPackets == {<<3, 3, 7, 3>>, <<4, 3, 3, 3>>}

=============================================================================
