---------------------------- MODULE MCUcpFailover ---------------------------
EXTENDS UcpFailover

(* a's lanes 0, 1, 2 are b's lanes 0, 2, 1: they choose different lanes. *)
MCLinkOf == A :> (0 :> 0 @@ 1 :> 1 @@ 2 :> 2) @@ B :> (0 :> 0 @@ 1 :> 2 @@ 2 :> 1)
MCGuid == A :> (0 :> 10 @@ 1 :> 21 @@ 2 :> 12) @@ B :> (0 :> 20 @@ 1 :> 11 @@ 2 :> 22)

Data(i) == Am([t |-> "DATA", id |-> i])
Put(i) == [kind |-> "put", id |-> i, key |-> <<>>]
Get(i) == [kind |-> "get", id |-> i, key |-> <<>>]
Fault(s, l) == [side |-> s, lane |-> l]
Load(a, b, faults, together) ==
    [script |-> A :> a @@ B :> b, faults |-> faults, down |-> {}, together |-> together,
     slow |-> {LinkOf[f.side][f.lane] : f \in faults},
     issued |-> [s \in Side |-> {}]]

(* One device fails, at either end, with messages and one-sided operations  *)
(* on the lane; both ends fail; two devices fail one after the other, of    *)
(* the same side or of both.                                                *)
EitherEnd(a) == {Load(a, <<>>, {f}, TRUE) : f \in {Fault(A, 0), Fault(B, 0)}}
OneFault == EitherEnd(<<Data(1), Put(1), Data(2)>>) \cup EitherEnd(<<Data(1), Get(1)>>)
                \cup EitherEnd(<<Data(1), Put(1), FlushOp>>)
BothEnds == {Load(<<Data(1)>>, <<Data(1)>>, {Fault(A, 0), Fault(B, 0)}, TRUE)}
TwoFaults == {Load(<<>>, <<>>, {Fault(A, 0), Fault(A, 1)}, TRUE),
              Load(<<Data(1)>>, <<>>, {Fault(A, 0), Fault(A, 1)}, FALSE),
              Load(<<Data(1)>>, <<>>, {Fault(A, 0), Fault(B, 2)}, FALSE)}
FailoverLoads == OneFault \cup BothEnds \cup TwoFaults

(* The peer's device fails under two messages. *)
PeerFault == {Load(<<Data(1), Data(2)>>, <<>>, {Fault(B, 0)}, TRUE)}
=============================================================================
