-------------------------------- MODULE UdEp --------------------------------
(***************************************************************************)
(* The reliability protocol of the UD transport (uct/ib/ud/base/ud_ep.c):  *)
(* a pair of connected endpoints turns an unreliable datagram service into *)
(* a reliable ordered stream of active messages.  A sender keeps every     *)
(* packet in its window until it is acknowledged, a congestion window      *)
(* bounds the packets in flight, a timer asks for acknowledgements and     *)
(* then resends, a resent packet stays in the window until the send        *)
(* completion of its last copy, and user completions are called from the   *)
(* main thread only, whichever thread released the packet.                 *)
(*                                                                         *)
(* Sequence numbers are kept unwrapped and compared as the code compares   *)
(* its 16 bit numbers.  A message is named by its unwrapped number.        *)
(***************************************************************************)
EXTENDS Circular, Sequences, FiniteSets

CONSTANTS
    Ep,             \* the two endpoints
    FirstPsn,       \* number of the first message (UCT_UD_INITIAL_PSN)
    MinWindow,      \* UCT_UD_CA_MIN_WINDOW
    MaxWindow,      \* config.max_window
    MaxMsg,         \* bound: messages sent by each endpoint
    TxLen,          \* control packets the send queue holds until completed
    MaxFlush,       \* bound: flushes with a completion, per endpoint
    SendKinds,      \* the kinds of send used, [comp : BOOLEAN, big : BOOLEAN]
    Modes,          \* contexts that poll: FALSE main thread, TRUE async thread
    CloseKinds,     \* ways to give an endpoint up: "cancel", "disconnect", "timeout"
    Lossy,          \* TRUE: packets leave the network, FALSE: they stay in it
    MaxNet          \* bound: packets in the network, per destination

ASSUME UdEpAssumption ==
    /\ FirstPsn \in Nat /\ MinWindow \in Nat /\ MaxWindow \in Nat
    /\ TxLen \in Nat \ {0} /\ MaxNet \in Nat
    /\ 2 <= MinWindow /\ MinWindow <= MaxWindow /\ MaxWindow < SnMod \div 2
    /\ MaxMsg \in [Ep -> Nat] /\ MaxFlush \in [Ep -> Nat]
    /\ SendKinds \subseteq [comp : BOOLEAN, big : BOOLEAN]
    /\ Modes \subseteq BOOLEAN /\ Lossy \in BOOLEAN
    /\ CloseKinds \subseteq {"cancel", "disconnect", "timeout"}
    /\ \E x, y \in Ep : x # y /\ Ep = {x, y}
    /\ SnMod % 4 = 0

VARIABLES
    ep,         \* the state of each endpoint and of its interface
    net         \* the packets the network may deliver

vars == <<ep, net>>

Peer(e) == CHOOSE f \in Ep : f # e

-----------------------------------------------------------------------------
(* State *)

CtlOps == {"ACK", "ACK_REQ", "NACK", "RESEND"}

\* A packet kept in the window.  A flush completion waits in the window as a
\* packet that is never sent.
Skb == [psn : Int, comp : BOOLEAN, big : BOOLEAN, flush : BOOLEAN,
        ack_req : BOOLEAN, resending : BOOLEAN]

Packet == [dst : Ep, psn : Int, ack : Int, am : BOOLEAN,
           ack_req : BOOLEAN, nack : BOOLEAN]

(***************************************************************************)
(* resend_pos is a queue iterator, the address of a next pointer: 0 is the *)
(* one in the queue head, n > 0 the one in the n-th packet that was ever   *)
(* put in the window.  The first `gone' of those were released.            *)
(* outstanding holds the control packets without send completion: n > 0    *)
(* resends the n-th packet, 0 requests an acknowledgement.                 *)
(* got and done record what the user was given: the messages delivered and *)
(* the completions called.                                                 *)
(***************************************************************************)
ResetEp ==
    [psn |-> FirstPsn, acked |-> FirstPsn - 1, max_psn |-> FirstPsn + MinWindow,
     cwnd |-> MinWindow, window |-> <<>>, gone |-> 0, ops |-> {},
     resend_pos |-> 0, resend_psn |-> FirstPsn, resend_max |-> FirstPsn - 1,
     resend_count |-> 0, nacked |-> FALSE, outstanding |-> <<>>,
     head_sn |-> FirstPsn - 1, rx_acked |-> FirstPsn - 1,
     async_comps |-> <<>>, pending_rx |-> <<>>,
     got |-> <<>>, done |-> <<>>, flushes |-> 0, timed_out |-> FALSE,
     state |-> "open"]

Init == /\ ep = [e \in Ep |-> ResetEp]
        /\ net = {}

Update(e, r) == ep' = [ep EXCEPT ![e] = r]

Transmit(packets) ==
    /\ net' = net \cup packets
    /\ \A e \in Ep : Cardinality({p \in net' : p.dst = e}) <= MaxNet

-----------------------------------------------------------------------------
(* Releasing packets from the window *)

\* Mutants: the acknowledgement is off by one; a packet being resent counts as
\* completed.
IsCompletedEarly(skb, ack) == SnLe(skb.psn, ack + 1) /\ ~skb.resending
IsCompletedWhileResending(skb, ack) == SnLe(skb.psn, ack)

IsCompleted(skb, ack) == SnLe(skb.psn, ack) /\ ~skb.resending

\* The number of packets at the front of the window that are completed.
CompletedPrefix(w, ack) ==
    CHOOSE n \in 0 .. Len(w) :
        /\ \A i \in 1 .. n : IsCompleted(w[i], ack)
        /\ n < Len(w) => ~IsCompleted(w[n + 1], ack)

CompletionsOf(skbs, ok) ==
    LET withComp == SelectSeq(skbs, LAMBDA skb : skb.comp)
    IN  [i \in DOMAIN withComp |->
            [psn |-> withComp[i].psn, flush |-> withComp[i].flush, ok |-> ok]]

WindowRelease(r, ack, ok, async, invalidate) ==
    LET n     == CompletedPrefix(r.window, ack)
        comps == CompletionsOf(SubSeq(r.window, 1, n), ok)
        atPos == invalidate /\ r.resend_pos \in r.gone + 1 .. r.gone + n
    IN  [r EXCEPT !.window      = SubSeq(@, n + 1, Len(@)),
                  !.gone        = @ + n,
                  !.resend_pos  = IF atPos THEN 0 ELSE @,
                  !.resend_psn  = IF atPos THEN r.acked + 1 ELSE @,
                  !.async_comps = IF async THEN @ \o comps ELSE @,
                  !.done        = IF async THEN @ ELSE @ \o comps]

WindowReleaseCompleted(r, async) == WindowRelease(r, r.acked, TRUE, async, TRUE)

-----------------------------------------------------------------------------
(* Congestion window and resend position *)

\* The packets that have a control packet without send completion.
Resends(r) == {r.outstanding[k] : k \in DOMAIN r.outstanding} \ {0}

NoWindow(r) == SnLe(r.max_psn, r.psn)

\* The send queue has room: tx.available > 0.
CanTx(r) == Len(r.outstanding) < TxLen

IsLastAckReceived(r) == SnEq(r.acked, r.psn - 1)

ResetMaxPsn(r) == [r EXCEPT !.max_psn = r.psn + r.cwnd]

CaAck(r) ==
    LET cwnd == IF r.cwnd < MaxWindow THEN r.cwnd + 1 ELSE r.cwnd
    IN  [r EXCEPT !.cwnd = cwnd, !.max_psn = r.acked + cwnd]

CaDrop(r) ==
    LET half    == r.cwnd \div 2
        cwnd    == IF half < MinWindow THEN MinWindow ELSE half
        max_psn == r.acked + cwnd
    IN  [r EXCEPT !.cwnd    = cwnd,
                  !.max_psn = IF SnLt(r.psn, max_psn) THEN r.psn ELSE max_psn]

ResendStart(r) ==
    [r EXCEPT !.resend_max = r.psn - 1, !.resend_psn = r.acked + 1,
              !.resend_pos = 0, !.ops = @ \cup {"RESEND"}]

ResendEnd(r) == [r EXCEPT !.ops = @ \ {"RESEND"}, !.nacked = FALSE]

ResendAck(r) ==
    LET restart == SnLe(r.resend_psn, r.acked)
    IN  CASE SnLt(r.resend_max, r.resend_psn) -> r
          [] SnLe(r.resend_psn, r.resend_max) /\ SnLt(r.acked, r.resend_max) ->
                [r EXCEPT !.resend_pos = IF restart THEN 0 ELSE @,
                          !.resend_psn = IF restart THEN r.acked + 1 ELSE @,
                          !.ops = @ \cup {"RESEND"}]
          [] OTHER -> ResendEnd([r EXCEPT !.resend_psn = r.resend_max + 1])

ProcessAck(r, ack, async) ==
    IF SnLe(ack, r.acked)
    THEN r
    ELSE LET acked == [r EXCEPT !.acked = ack]
         IN  ResendAck(CaAck(WindowRelease(acked, ack, TRUE, async, FALSE)))

-----------------------------------------------------------------------------
(* Sending *)

Data(e, skb, ack, ack_req) ==
    [dst |-> Peer(e), psn |-> skb.psn, ack |-> ack, am |-> TRUE,
     ack_req |-> ack_req, nack |-> FALSE]

\* A quarter of the window was sent, or its last packet is, or an
\* acknowledgement is to be requested anyway.
ReqAck(r) ==
    \/ SnEq(r.psn, (Wrap(r.acked) * 3 + Wrap(r.max_psn)) \div 4)
    \/ SnEq(r.psn + 1, r.max_psn)
    \/ "ACK_REQ" \in r.ops

CompleteTxSkb(r, skb) == [r EXCEPT !.psn = @ + 1, !.window = Append(@, skb)]

\* am_short and am_bcopy (no completion), am_zcopy (completion).
Send(e, kind) ==
    LET r   == ep[e]
        skb == [psn |-> r.psn, comp |-> kind.comp, big |-> kind.big,
                flush |-> FALSE, ack_req |-> FALSE, resending |-> FALSE]
    IN  /\ r.state = "open"
        /\ ~NoWindow(r) /\ CanTx(r)
        /\ r.psn < FirstPsn + MaxMsg[e]
        /\ Update(e, [CompleteTxSkb(r, skb) EXCEPT !.rx_acked = r.head_sn,
                                                  !.ops = @ \ {"ACK", "ACK_REQ"}])
        /\ Transmit({Data(e, skb, r.head_sn, ReqAck(r) \/ kind.comp)})

\* Mutant: the next expected message is acknowledged.
AckNextExpected(e, r) ==
    [dst |-> Peer(e), psn |-> r.psn, ack |-> r.head_sn + 1, am |-> FALSE,
     ack_req |-> "ACK_REQ" \in r.ops, nack |-> "NACK" \in r.ops]

\* A packet without payload, and what is left of the endpoint once it is
\* sent.  One that requests an acknowledgement is a signaled send.
AckPacket(e, r) ==
    [dst |-> Peer(e), psn |-> r.psn, ack |-> r.head_sn, am |-> FALSE,
     ack_req |-> "ACK_REQ" \in r.ops, nack |-> "NACK" \in r.ops]

SendAck(r) ==
    [r EXCEPT !.rx_acked = r.head_sn, !.ops = @ \ {"ACK", "ACK_REQ", "NACK"},
              !.outstanding = IF "ACK_REQ" \in r.ops THEN Append(@, 0) ELSE @]

-----------------------------------------------------------------------------
(* Resending *)

\* The place in the window that the resend position refers to.
ResendIndex(r) == IF r.resend_pos = 0 THEN 1 ELSE r.resend_pos - r.gone + 1

\* Nothing is left to resend, or the next packet is outside the congestion
\* window, or it is large and the peer did not ask for it.
ResendStops(r) ==
    IF SnLe(r.resend_max, r.acked) \/ ResendIndex(r) > Len(r.window)
    THEN TRUE
    ELSE LET skb == r.window[ResendIndex(r)]
         IN  SnLe(r.max_psn, skb.psn) \/ (skb.big /\ ~r.nacked)

Resend(e) ==
    LET r    == ep[e]
        i    == ResendIndex(r)
        skb  == r.window[i]
        last == SnEq(skb.psn, r.resend_max)
        next == [r EXCEPT !.resend_pos = r.gone + i]
        sent == [next EXCEPT !.window[i].resending = TRUE,
                             !.resend_psn = IF last THEN r.resend_max + 1 ELSE skb.psn,
                             !.outstanding = Append(@, r.gone + i),
                             !.resend_count = @ + 1]
    IN  \/ /\ ResendStops(r)
           /\ Update(e, ResendEnd(r))
           /\ UNCHANGED net
        \/ /\ ~ResendStops(r)
           /\ skb.resending \/ skb.flush
           /\ Update(e, next)
           /\ UNCHANGED net
        \/ /\ ~ResendStops(r)
           /\ ~(skb.resending \/ skb.flush)
           /\ Update(e, IF last THEN ResendEnd(sent) ELSE sent)
           /\ Transmit({Data(e, skb, r.rx_acked,
                                    Wrap(skb.psn) % 4 = 0 \/ SnEq(skb.psn, r.acked + 1))})

\* One control operation, by priority.
DoPendingCtl(e) ==
    /\ CanTx(ep[e])
    /\ \/ /\ "RESEND" \in ep[e].ops
          /\ Resend(e)
       \/ /\ "RESEND" \notin ep[e].ops
          /\ ep[e].ops # {}
          /\ Update(e, SendAck(ep[e]))
          /\ Transmit({AckPacket(e, ep[e])})

-----------------------------------------------------------------------------
(* Polling *)

\* Mutant: the main thread polls before it dispatches.
CanPollAlways(r, async) == TRUE

\* The main thread polls only after it dispatched what the async thread left.
CanPoll(r, async) == async \/ (r.async_comps = <<>> /\ r.pending_rx = <<>>)

\* Mutant: a message is accepted after a gap.
DeliverAhead(r, psn, async) ==
    IF SnLe(psn, r.head_sn)
    THEN r
    ELSE [r EXCEPT !.head_sn = psn, !.got = Append(@, psn)]

\* A message is accepted only as the next one in order.
Deliver(r, psn, async) ==
    IF ~SnEq(psn, r.head_sn + 1)
    THEN r
    ELSE [r EXCEPT !.head_sn    = r.head_sn + 1,
                   !.pending_rx = IF async THEN Append(@, psn) ELSE @,
                   !.got        = IF async THEN @ ELSE Append(@, psn)]

\* Mutant: a NACK is ignored.
ProcessRxIgnoresNack(r, p, async) ==
    LET acked == ProcessAck(r, p.ack, async)
        after == [acked EXCEPT !.ops = IF p.ack_req THEN @ \cup {"ACK"} ELSE @]
    IN  IF p.am THEN Deliver(after, p.psn, async) ELSE after

ProcessRx(r, p, async) ==
    LET acked == ProcessAck(r, p.ack, async)
        ops   == (IF p.ack_req THEN {"ACK"} ELSE {})
                    \cup (IF SnLt(r.head_sn + 1, p.psn) THEN {"NACK"} ELSE {})
        after == [acked EXCEPT !.ops = @ \cup ops, !.nacked = @ \/ p.nack]
    IN  IF p.am THEN Deliver(after, p.psn, async) ELSE after

Receive(e, p, async) ==
    LET r == ep[e]
    IN  /\ p.dst = e
        /\ CanPoll(r, async)
        /\ Update(e, IF r.state = "closed" THEN r ELSE ProcessRx(r, p, async))
        /\ net' = IF Lossy THEN net \ {p} ELSE net

Lose(p) ==
    /\ Lossy
    /\ net' = net \ {p}
    /\ UNCHANGED ep

\* The oldest control packet is completed: uct_ud_iface_ctl_skb_complete.
CtlSkbComplete(r, async) ==
    LET n    == Head(r.outstanding)
        rest == [r EXCEPT !.outstanding = Tail(@)]
        unmarked == [rest EXCEPT !.window[n - r.gone].resending = FALSE,
                                 !.resend_count = @ - 1]
    IN  WindowReleaseCompleted(IF n = 0 THEN rest ELSE unmarked, async)

SendCompletion(e, async) ==
    /\ ep[e].outstanding # <<>>
    /\ CanPoll(ep[e], async)
    /\ Update(e, CtlSkbComplete(ep[e], async))
    /\ UNCHANGED net

\* The main thread calls what the async thread queued for it.
DispatchAsyncComps(r) ==
    [r EXCEPT !.done = @ \o r.async_comps, !.async_comps = <<>>]

Dispatch(e) ==
    /\ ep[e].async_comps # <<>> \/ ep[e].pending_rx # <<>>
    /\ Update(e, [DispatchAsyncComps(ep[e]) EXCEPT !.got = @ \o ep[e].pending_rx,
                                                   !.pending_rx = <<>>])
    /\ UNCHANGED net

-----------------------------------------------------------------------------
(* The timer *)

(***************************************************************************)
(* age: the time since the last send or resend, at most one tick ("fresh"),*)
(* one to three ticks ("tick"), more ("late").  dead: the peer has not     *)
(* acknowledged anything for peer_timeout.                                 *)
(***************************************************************************)
Timer(e, age, dead) ==
    LET r == ep[e]
        t == IF age = "late" THEN ResendStart(CaDrop(r)) ELSE r
    IN  /\ age # "fresh" \/ dead
        /\ dead => "timeout" \in CloseKinds
        /\ ~IsLastAckReceived(r)
        /\ r.ops \cap {"ACK_REQ", "RESEND"} = {}
        /\ r.resend_count = 0
        /\ ~r.timed_out
        /\ Update(e, [t EXCEPT !.ops = IF age = "fresh" THEN @ ELSE @ \cup {"ACK_REQ"},
                               !.timed_out = dead])
        /\ UNCHANGED net

-----------------------------------------------------------------------------
(* Flush, cancel, timeout and disconnect *)

\* An acknowledgement is requested at once unless other control operations
\* are scheduled, which will send it.
AckReqDo(r) ==
    LET asked == [r EXCEPT !.ops = @ \cup {"ACK_REQ"}]
    IN  IF asked.ops = {"ACK_REQ"} THEN SendAck(asked) ELSE asked

AckReqPackets(e, r) ==
    IF r.ops \subseteq {"ACK_REQ"}
    THEN {AckPacket(e, [r EXCEPT !.ops = {"ACK_REQ"}])}
    ELSE {}

CompSkbAdd(r) ==
    LET skb == [psn |-> r.psn - 1, comp |-> TRUE, big |-> FALSE, flush |-> TRUE,
                ack_req |-> TRUE, resending |-> FALSE]
        counted == [r EXCEPT !.flushes = @ + 1]
    IN  IF r.window # <<>>
        THEN [counted EXCEPT !.window = Append(@, skb)]
        ELSE [counted EXCEPT !.async_comps = @ \o CompletionsOf(<<skb>>, TRUE)]

\* Nothing to wait for: the flush returns UCS_OK.
FlushIsDone(r) == r.window = <<>> /\ r.async_comps = <<>>

Flush(e) ==
    LET r   == ep[e]
        n   == Len(r.window)
        ask == ~IsLastAckReceived(r) /\ ~r.window[n].ack_req
        asked == CASE ask -> [AckReqDo(r) EXCEPT !.window[n].ack_req = TRUE]
                   [] IsLastAckReceived(r) -> [r EXCEPT !.ops = @ \ {"ACK_REQ"}]
                   [] OTHER -> r
    IN  /\ r.state = "open"
        /\ r.flushes < MaxFlush[e]
        /\ ~NoWindow(r) /\ CanTx(r)
        /\ ~FlushIsDone(r)
        /\ Update(e, CompSkbAdd(asked))
        /\ Transmit(IF ask THEN AckReqPackets(e, r) ELSE {})

\* Mutant: the outstanding packets are not taken for acknowledged.
CancelNothing(r) == ResetMaxPsn(r)

\* flush(CANCEL) first takes everything for acknowledged.
CancelAll(r) == [ResetMaxPsn(r) EXCEPT !.acked = r.psn - 1]

\* busy: the pending queue must be progressed first, UCS_ERR_NO_RESOURCE.
FlushCancel(e, busy) ==
    LET cancelled == CancelAll(ep[e])
        idle == busy \/ ~CanTx(cancelled) \/ FlushIsDone(cancelled)
        r == [cancelled EXCEPT !.state = IF idle /\ @ # "cancelling"
                                         THEN "cancelled" ELSE "cancelling"]
    IN  /\ "cancel" \in CloseKinds
        /\ ep[e].state # "closed"
        /\ ep[e].flushes < MaxFlush[e]
        /\ Update(e, IF idle THEN r ELSE CompSkbAdd(AckReqDo(r)))
        /\ Transmit(IF idle THEN {} ELSE AckReqPackets(e, r))

\* All control packets of the endpoint are completed, oldest first: none of
\* the packets they resent is RESENDING any more, and what this leaves
\* completed at the front of the window is released.
PurgeOutstanding(r) ==
    LET sent     == Resends(r)
        unmarked == [i \in DOMAIN r.window |->
                        [r.window[i] EXCEPT !.resending = @ /\ r.gone + i \notin sent]]
        purged   == [r EXCEPT !.outstanding = <<>>, !.window = unmarked,
                              !.resend_count = @ - Cardinality(sent)]
    IN  IF r.outstanding = <<>> THEN r ELSE WindowReleaseCompleted(purged, FALSE)

\* Mutant: the packets that are left are reported as sent.
PurgeSucceeds(r) ==
    LET drained == PurgeOutstanding(ResetMaxPsn(DispatchAsyncComps(r)))
        acked   == [drained EXCEPT !.ops = {}, !.acked = r.psn - 1]
    IN  WindowRelease(acked, acked.acked, TRUE, FALSE, FALSE)

\* The packets that are left are released with an error status.
Purge(r) ==
    LET drained == PurgeOutstanding(ResetMaxPsn(DispatchAsyncComps(r)))
        acked   == [drained EXCEPT !.ops = {}, !.acked = r.psn - 1]
    IN  WindowRelease(acked, acked.acked, FALSE, FALSE, FALSE)

DeferredTimeoutHandler(e) ==
    LET r == [ep[e] EXCEPT !.timed_out = FALSE]
    IN  /\ ep[e].timed_out
        /\ Update(e, [Purge(r) EXCEPT !.state = IF @ = "open" THEN "failed" ELSE @])
        /\ UNCHANGED net

Disconnect(e, busy) ==
    LET r == CancelAll(ep[e])
        idle == busy \/ ~CanTx(r) \/ FlushIsDone(r)
    IN  /\ "disconnect" \in CloseKinds
        /\ ep[e].state # "closed"
        /\ Update(e, [Purge(IF idle THEN r ELSE AckReqDo(r)) EXCEPT !.state = "closed"])
        /\ Transmit(IF idle THEN {} ELSE AckReqPackets(e, r))

-----------------------------------------------------------------------------
Next ==
    \/ \E e \in Ep :
        \/ \E kind \in SendKinds : Send(e, kind)
        \/ DoPendingCtl(e)
        \/ \E p \in net, async \in Modes : Receive(e, p, async)
        \/ \E async \in Modes : SendCompletion(e, async)
        \/ Dispatch(e)
        \/ \E age \in {"fresh", "tick", "late"}, dead \in BOOLEAN : Timer(e, age, dead)
        \/ Flush(e)
        \/ \E busy \in BOOLEAN : FlushCancel(e, busy) \/ Disconnect(e, busy)
        \/ DeferredTimeoutHandler(e)
    \/ \E p \in net : Lose(p)

Spec == Init /\ [][Next]_vars

-----------------------------------------------------------------------------
(***************************************************************************)
(* Fairness.  The progress functions run again and again; the timer is     *)
(* rearmed until everything is acknowledged and its time stamps only move  *)
(* when something is sent or acknowledged, so it expires late again and    *)
(* again while nothing is; every signaled send completes; no packet stays  *)
(* in the network for ever.  A lossy network that is offered packets that  *)
(* help the protocol in one way again and again delivers one of them.      *)
(***************************************************************************)
Helps(e, p, how) ==
    CASE how = "data" -> p.am /\ SnEq(p.psn, ep[e].head_sn + 1)
      [] how = "ack"  -> SnLt(ep[e].acked, p.ack)
      [] how = "nack" -> p.nack
      [] how = "ask"  -> p.ack_req

LocalFairness ==
    \A e \in Ep :
        /\ WF_vars(DoPendingCtl(e))
        /\ WF_vars(\E async \in Modes : SendCompletion(e, async))
        /\ WF_vars(Dispatch(e))

NetworkFairness ==
    \A e \in Ep :
        /\ WF_vars(\E p \in net : p.dst = e /\ Lose(p))
        /\ SF_vars(Timer(e, "late", FALSE))
        /\ \A how \in {"data", "ack", "nack", "ask"} :
            SF_vars(\E p \in net, async \in Modes :
                        Helps(e, p, how) /\ Receive(e, p, async))

FairSpec == Spec /\ LocalFairness /\ NetworkFairness

-----------------------------------------------------------------------------
(* Properties *)

\* Every variable has its type.
TypeOK ==
    /\ net \subseteq Packet
    /\ \A e \in Ep : LET r == ep[e] IN
        /\ {r.psn, r.acked, r.max_psn, r.head_sn, r.rx_acked,
            r.resend_psn, r.resend_max} \subseteq Int
        /\ r.cwnd \in MinWindow .. MaxWindow
        /\ \A i \in DOMAIN r.window : r.window[i] \in Skb
        /\ r.ops \subseteq CtlOps
        /\ r.state \in {"open", "cancelled", "cancelling", "failed", "closed"}

\* What the user of e got, plus what waits for its main thread, are exactly
\* the first messages of the peer, each once and in the order they were sent:
\* whatever the network lost, duplicated or reordered and whichever thread
\* received (uct_ud_ep_process_rx).
InOrderDelivery ==
    \A e \in Ep :
        LET all == ep[e].got \o ep[e].pending_rx
        IN  /\ Len(all) < ep[Peer(e)].psn - FirstPsn + 1
            /\ \A i \in DOMAIN all : all[i] = FirstPsn + i - 1

\* What an endpoint takes for acknowledged its peer has accepted, and was sent
\* (the assertion of uct_ud_ep_process_ack): until the user gives the endpoint up.
AckedWasReceived ==
    \A e \in Ep :
        /\ ep[e].acked < ep[e].psn
        /\ ep[e].state = "open" => ep[e].acked <= ep[Peer(e)].head_sn

\* A packet whose copy the hardware still sends stays in the window: every
\* control descriptor refers to a packet of the window marked RESENDING, each
\* such packet has one descriptor, and resend_count counts them; nor does the
\* resend position refer to a released packet when it may be used
\* (uct_ud_ep_resend, uct_ud_iface_ctl_skb_complete, uct_ud_ep_resend_ack).
ResendsTracked ==
    \A e \in Ep :
        LET r   == ep[e]
            out == Resends(r)
        IN  /\ \A j, k \in DOMAIN r.outstanding :
                 j < k /\ r.outstanding[j] # 0 => r.outstanding[j] # r.outstanding[k]
            /\ r.resend_count = Cardinality(out)
            /\ out = {r.gone + i : i \in {j \in DOMAIN r.window : r.window[j].resending}}
            /\ "RESEND" \in r.ops /\ SnLt(r.acked, r.resend_max)
                 => r.resend_pos = 0 \/ r.resend_pos > r.gone

Comps(r) == r.done \o r.async_comps

\* User completions are called in the order of the operations, flushes after
\* the sends they follow, also when both threads complete operations.
CompletionOrder ==
    \A e \in Ep :
        LET all == Comps(ep[e]) \o CompletionsOf(ep[e].window, TRUE)
        IN  \A i, j \in DOMAIN all :
                i < j => \/ all[i].psn < all[j].psn
                         \/ all[i].psn = all[j].psn /\ all[j].flush

\* An operation whose completion reports success was received by the peer; so
\* was everything before a completed flush (uct_ud_ep_comp_skb_add): unless the
\* user gave the endpoint up, and also when the peer is declared dead.
SuccessMeansReceived ==
    \A e \in Ep : ep[e].state \in {"open", "failed"} =>
        \A i \in DOMAIN Comps(ep[e]) :
            Comps(ep[e])[i].ok => Comps(ep[e])[i].psn <= ep[Peer(e)].head_sn

\* When uct_ep_flush returns UCS_OK everything sent was received by the peer
\* and every completion was called.
FlushDoneMeansReceived ==
    \A e \in Ep :
        ep[e].state = "open" /\ FlushIsDone(ep[e])
            => ep[e].psn - 1 <= ep[Peer(e)].head_sn

\* A message that was sent is acknowledged and leaves the window in the end,
\* if the network does not lose everything: neither the congestion window, nor
\* the rule that large packets are resent only after a NACK, nor the full send
\* queue stops the protocol (uct_ud_ep_timer, uct_ud_ep_resend).
AllReceived ==
    \A e \in Ep : []<>(ep[e].window = <<>> /\ IsLastAckReceived(ep[e]))

\* flush(CANCEL) needs no packet of the peer: for as long as it has something to
\* wait for, everything it waits for is taken for acknowledged, and a control
\* packet whose send completion releases it is on its way or scheduled (the
\* comment in uct_ud_ep_flush_nolock).
CancelNeedsNoPeer ==
    \A e \in Ep :
        LET r == ep[e]
        IN  r.state = "cancelling" /\ r.window # <<>> =>
                /\ IsLastAckReceived(r)
                /\ r.outstanding # <<>> \/ "ACK_REQ" \in r.ops
=============================================================================
