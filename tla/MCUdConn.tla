------------------------------ MODULE MCUdConn ------------------------------
\* Instances of UdConn for TLC.
EXTENDS UdConn

\* Two endpoints without messages, or one with a message each way.
TwoOrBusy == {[conn |-> 2, data |-> [i \in {A, B} |-> 0]],
              [conn |-> 1, data |-> [i \in {A, B} |-> 1]]}
=============================================================================
