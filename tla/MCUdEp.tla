------------------------------- MODULE MCUdEp -------------------------------
(* Instances of the UD reliability protocol for TLC. *)
EXTENDS UdEp, TLC

CONSTANTS a, b

TwoEps == {a, b}
Msg20 == (a :> 2 @@ b :> 0)
None == (a :> 0 @@ b :> 0)
One0 == (a :> 1 @@ b :> 0)
SmallBig == {[comp |-> FALSE, big |-> FALSE], [comp |-> FALSE, big |-> TRUE]}
WithComp == {[comp |-> TRUE, big |-> FALSE]}
Sync == {FALSE}
Both == BOOLEAN
=============================================================================
