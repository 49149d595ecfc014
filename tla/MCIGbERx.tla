----------------------------- MODULE MCIGbERx ------------------------------
(* Instances of the receive path for TLC; the .cfg files give the values.  *)
EXTENDS IGbERx, TLC
=============================================================================
