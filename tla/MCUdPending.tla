---------------------------- MODULE MCUdPending ----------------------------
\* Instances of UdPending for TLC.
EXTENDS UdPending, TLC

CONSTANTS a, b

TwoEps == {a, b}
AddToOther == (a :> {b}) @@ (b :> {a})
OnlyA == {a}

Plain == [async |-> FALSE, more |-> FALSE]
Async == [async |-> TRUE, more |-> FALSE]
TwoParts == [async |-> FALSE, more |-> TRUE]

\* Two messages on a and one on b, with a control event if all requests are
\* plain; one each with a control event for the other kinds; one on a with two
\* control events.
MixedLoads ==
    {[msg |-> (a :> 2) @@ (b :> 1), kinds |-> {Plain}, ctl |-> 1],
     [msg |-> (a :> 2) @@ (b :> 1), kinds |-> {Async, TwoParts}, ctl |-> 0],
     [msg |-> (a :> 1) @@ (b :> 1), kinds |-> {Async, TwoParts}, ctl |-> 1],
     [msg |-> (a :> 1) @@ (b :> 0), kinds |-> {Plain}, ctl |-> 2]}
=============================================================================
