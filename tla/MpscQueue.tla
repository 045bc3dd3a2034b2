----------------------------- MODULE MpscQueue ------------------------------
(***************************************************************************)
(* What the receive FIFO of the shared memory transport promises: a        *)
(* bounded queue.  Taking a place in the queue is one atomic step; what is *)
(* read at a place is the message of whoever took it, or nothing at all    *)
(* (Lost).                                                                 *)
(***************************************************************************)
EXTENDS Naturals, Sequences

CONSTANTS Values, Capacity, Lost

VARIABLES log,  \* the messages, in the order in which they took their places
          got   \* what was read at each place so far

Init == log = <<>> /\ got = <<>>

Take ==
    /\ Len(log) < Len(got) + Capacity
    /\ \E m \in Values : log' = Append(log, m)
    /\ UNCHANGED got

Read ==
    /\ Len(got) < Len(log)
    /\ \E r \in {log[Len(got) + 1], Lost} : got' = Append(got, r)
    /\ UNCHANGED log

Next == Take \/ Read

Spec == Init /\ [][Next]_<<log, got>>
=============================================================================
