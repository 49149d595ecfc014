------------------------------- MODULE MCDistSync -------------------------------
EXTENDS DistSync

\* Guests that exit while a process may fail, and guests that take a checkpoint
\* with a packet under way.
ExitOrCheckpoint == {[ops |-> {"exit"}, pkts |-> 0, deaths |-> 1],
                     [ops |-> {"ckpt"}, pkts |-> 1, deaths |-> 0]}

\* Guests that only exit.
ExitOnly == {[ops |-> {"exit"}, pkts |-> 0, deaths |-> 0]}
=============================================================================
