------------------------------- MODULE MCIGbEIntr -------------------------------
EXTENDS IGbEIntr

\* No receive delay, and both delays with a longer absolute one.
NoneOrBoth == {[rdtr |-> 0, radv |-> 0], [rdtr |-> 2, radv |-> 3]}

\* A read of ICR leaves the mask alone, or masks the receive causes.
NoneOrReceive == {{}, {"RXT", "SRPD"}}
=============================================================================
