------------------------------ MODULE QuantumClock ------------------------------
(***************************************************************************)
(* What the distributed synchronisation of dist_iface.hh promises: "no     *)
(* gem5 process can go ahead further than the simulated link transmission  *)
(* delay".  Simulated time is cut into quanta, and no clock moves past the *)
(* end of a quantum before every clock has reached it.                     *)
(***************************************************************************)
EXTENDS Integers

CONSTANTS Processes,    \* the gem5 processes of one run
          SyncStart,    \* tick of the first synchronisation
          Repeat        \* length of a quantum in ticks

VARIABLE clock          \* clock[p]: the tick process p has simulated up to

\* The last synchronisation tick that is not after t (0: there is none yet).
Boundary(t) == IF t < SyncStart THEN 0
               ELSE SyncStart + ((t - SyncStart) \div Repeat) * Repeat

Init == clock = [p \in Processes |-> 0]

Advance(p) == /\ \A q \in Processes : clock[q] >= Boundary(clock[p])
              /\ clock' = [clock EXCEPT ![p] = @ + 1]

Next == \E p \in Processes : Advance(p)

Spec == Init /\ [][Next]_clock
=============================================================================
