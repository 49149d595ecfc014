----------------------------- MODULE MCIGbETx ------------------------------
(* Instances of the transmit path for TLC; the .cfg files give the values. *)
EXTENDS IGbETx, TLC
=============================================================================
