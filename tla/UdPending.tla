----------------------------- MODULE UdPending -----------------------------
(***************************************************************************)
(* The pending queue of a UD interface: user requests that found no        *)
(* resources, and the control element through which an endpoint sends its  *)
(* CREQ, resends and acknowledgements, dispatched by the main thread's     *)
(* progress and by the asynchronous progress.                              *)
(*                                                                         *)
(* Everything runs under the interface's lock (uct_ud_enter), so a         *)
(* progress call is a sequence of steps that only user callbacks come      *)
(* between: handlers while it polls, and the requests' own callbacks while *)
(* it dispatches.  The acknowledgement protocol is in UdEp; here a window  *)
(* is a count of packets not acknowledged yet.                             *)
(***************************************************************************)
EXTENDS Naturals, FiniteSetsExt, Arbiter

CONSTANTS
    Ep,            \* the endpoints of the interface
    CanAddTo,      \* CanAddTo[e]: endpoints a request callback of e may queue on
    StartsConnected, \* the endpoints created with connect_to_ep
    Loads,         \* bounds to choose from, records of
                   \*   msg[e]: messages a user has for endpoint e
                   \*   kinds: the requests it queues, [async, more], more: in two parts
                   \*   ctl: control events (timers, ack requests) in a behaviour
    Window,        \* packets an endpoint may have unacknowledged
    TxLen,         \* work queue elements of the interface
    Skbs           \* limit of the interface's pool of send buffers (TX_MAX_BUFS)

ASSUME UdPendingAssumption ==
    /\ CanAddTo \in [Ep -> SUBSET Ep]
    /\ StartsConnected \subseteq Ep
    /\ \A l \in Loads : /\ l.msg \in [Ep -> Nat] /\ l.ctl \in Nat
                        /\ l.kinds \subseteq [async : BOOLEAN, more : BOOLEAN]
    /\ {Window, TxLen, Skbs} \subseteq Nat \ {0}

VARIABLES
    pq,         \* iface->tx.pending_q and the endpoints' groups
    ops,        \* ep->tx.pending.ops
    resend,     \* packets the resend in progress has left
    flag,       \* UCT_UD_EP_FLAG_HAS_PENDING
    connected,  \* UCT_UD_EP_FLAG_CONNECTED
    unacked,    \* packets in ep->tx.window
    available,  \* iface->tx.available
    abp,        \* iface->tx.async_before_pending
    next,       \* the user's next message of each endpoint
    sent,       \* messages of each endpoint, in the order they were sent
    load,       \* the bound in force, less the control events so far
    pc          \* where the holder of the interface lock is

vars == <<pq, ops, resend, flag, connected, unacked, available, abp, next,
          sent, load, pc>>

Ctl == [msg |-> 0, async |-> FALSE, more |-> FALSE]  \* &ep->tx.pending.elem
Op == {"CREQ", "RESEND", "ACK", "NACK"}      \* CREQ: also CREP; ACK: also ACK_REQ
HiPrio == {"CREQ", "RESEND"}
CtlAck == {"ACK", "NACK"}

\* "user": nobody progresses.  "poll": before progress_pending, events counts
\* whether something was polled.  "dispatch": between two elements.
\* "callback": inside req->func of the head request of pc.ep.
User == [at |-> "user"]
Poll(async, ev) == [at |-> "poll", async |-> async, events |-> ev]
Dispatch(async, ev) == [at |-> "dispatch", async |-> async, events |-> ev]

IsReq(x) == x # Ctl
HasRequests(e) == \E i \in DOMAIN pq.group[e] : IsReq(pq.group[e][i])

CanTx == available > 0
HasSkbs == MapThenSumSet(LAMBDA e : unacked[e], Ep) < Skbs
NoWindow(e) == unacked[e] >= Window
ConnectedAndNoPending(e) == connected[e] /\ ~flag[e]

\* uct_ud_ep_get_tx_skb gives a buffer.
CanSend(e) ==
    /\ ConnectedAndNoPending(e) /\ ~NoWindow(e) /\ ~abp
    /\ CanTx /\ HasSkbs

\* User code runs: the application, a handler called by the main thread's
\* polling, or a request's callback.
InUser == pc.at = "user" \/ (pc.at = "poll" /\ ~pc.async)
InPending(e) == pc.at = "callback" /\ pc.ep = e

-----------------------------------------------------------------------------
\* uct_ud_ep_ctl_op_add on a queue: the control element is in its group once.
CtlSchedule(q, e) ==
    Schedule(IF Contains(q.group[e], Ctl) THEN q ELSE Push(q, e, Ctl), e)

\* The endpoints that are not connected have scheduled a CREQ.
Init ==
    LET idle == [group   |-> [e \in Ep |-> IF e \in StartsConnected THEN <<>> ELSE <<Ctl>>],
                 list    |-> SetToSeq(Ep \ StartsConnected),
                 resched |-> <<>>]
    IN  /\ pq = idle
        /\ ops = [e \in Ep |-> IF e \in StartsConnected THEN {} ELSE {"CREQ"}]
        /\ resend = [e \in Ep |-> 0]
        /\ flag = [e \in Ep |-> FALSE]
        /\ connected = [e \in Ep |-> e \in StartsConnected]
        /\ unacked = [e \in Ep |-> 0]
        /\ available = TxLen
        /\ abp = FALSE
        /\ next = [e \in Ep |-> 1]
        /\ sent = [e \in Ep |-> <<>>]
        /\ load \in Loads
        /\ pc = User

\* What a data packet does: its header carries the acknowledgement, so a
\* waiting ACK or ACK_REQ is no longer needed (a NACK still is).
Transmit(e, m) ==
    /\ sent' = [sent EXCEPT ![e] = Append(@, m)]
    /\ unacked' = [unacked EXCEPT ![e] = @ + 1]
    /\ available' = available - 1
    /\ ops' = [ops EXCEPT ![e] = @ \ {"ACK"}]

\* uct_ud_ep_am_short and the others: a direct send that finds resources.
Send(e) ==
    /\ InUser
    /\ next[e] <= load.msg[e]
    /\ CanSend(e)
    /\ Transmit(e, next[e])
    /\ next' = [next EXCEPT ![e] = @ + 1]
    /\ UNCHANGED <<pq, resend, flag, connected, abp, load, pc>>

\* Mutant: the endpoint is not marked as having pending requests.
AddRequestNoFlag(e, kind) ==
    /\ next[e] <= load.msg[e]
    /\ abp \/ ~(CanTx /\ HasSkbs /\ ConnectedAndNoPending(e) /\ ~NoWindow(e))
    /\ UNCHANGED flag
    /\ pq' = Schedule(Push(pq, e, [msg |-> next[e], async |-> kind.async, more |-> kind.more]), e)
    /\ next' = [next EXCEPT ![e] = @ + 1]
    /\ UNCHANGED <<ops, resend, connected, unacked, available, abp, sent, load>>

\* uct_ud_ep_pending_add, when it does not return UCS_ERR_BUSY.
AddRequest(e, kind) ==
    /\ next[e] <= load.msg[e]
    /\ abp \/ ~(CanTx /\ HasSkbs /\ ConnectedAndNoPending(e) /\ ~NoWindow(e))
    /\ flag' = [flag EXCEPT ![e] = TRUE]
    /\ pq' = Schedule(Push(pq, e, [msg |-> next[e], async |-> kind.async, more |-> kind.more]), e)
    /\ next' = [next EXCEPT ![e] = @ + 1]
    /\ UNCHANGED <<ops, resend, connected, unacked, available, abp, sent, load>>

PendingAdd(e, kind) == InUser /\ AddRequest(e, kind) /\ UNCHANGED pc

\* Only the head of a two-element group can have the control element, at the
\* tail, as its only companion.
IsLastPendingElem(g) == Len(g) = 1 \/ (Len(g) = 2 /\ g[2] = Ctl)

\* Mutant: the control element is not queued again.
PendingPurgeControl(e) ==
    /\ pc = User
    /\ HasRequests(e)
    /\ LET g == pq.group[e]
           last == \E i \in DOMAIN g : IsReq(g[i]) /\ IsLastPendingElem(SubSeq(g, i, Len(g)))
           q == PurgeAll(pq, e)
       IN  /\ flag' = [flag EXCEPT ![e] = @ /\ ~last]
           /\ pq' = q
    /\ UNCHANGED <<ops, resend, connected, unacked, available, abp, next, sent,
                   load, pc>>

\* uct_ud_ep_pending_purge: the requests go back to the user; the control
\* element is queued again for the control operations that remain.
PendingPurge(e) ==
    /\ pc = User
    /\ HasRequests(e)
    /\ LET g == pq.group[e]
           last == \E i \in DOMAIN g : IsReq(g[i]) /\ IsLastPendingElem(SubSeq(g, i, Len(g)))
           q == PurgeAll(pq, e)
       IN  /\ flag' = [flag EXCEPT ![e] = @ /\ ~last]
           /\ pq' = IF ops[e] # {} THEN CtlSchedule(q, e) ELSE q
    /\ UNCHANGED <<ops, resend, connected, unacked, available, abp, next, sent,
                   load, pc>>

-----------------------------------------------------------------------------
\* uct_ud_verbs_iface_progress, or the async thread's uct_ud_iface_async_progress.
StartProgress(async) ==
    /\ pc = User
    /\ pc' = Poll(async, FALSE)
    /\ UNCHANGED <<pq, ops, resend, flag, connected, unacked, available, abp,
                   next, sent, load>>

Polled == pc.at = "poll" /\ pc' = [pc EXCEPT !.events = TRUE]

\* uct_ud_ep_process_ack: n packets stay unacknowledged.  The completion of a
\* released packet raises async_before_pending; in async it is put off.
PollAck(e, n, comp) ==
    /\ Polled
    /\ connected[e] /\ n < unacked[e]
    /\ unacked' = [unacked EXCEPT ![e] = n]
    /\ abp' = (abp \/ (comp /\ ~pc.async /\ pq.list # <<>>))
    /\ resend' = [resend EXCEPT ![e] = Min({@, n})]
    /\ LET resending == resend[e] > 0 /\ n > 0
       IN  /\ ops' = [ops EXCEPT ![e] = IF resending THEN @ \cup {"RESEND"}
                                        ELSE IF n = 0 THEN @ \ {"RESEND"} ELSE @]
           /\ pq' = Schedule(IF resending THEN CtlSchedule(pq, e) ELSE pq, e)
    /\ UNCHANGED <<flag, connected, available, next, sent, load>>

\* Mutant: the group is not scheduled when the connection is up.
PollCrepNoSchedule(e) ==
    /\ Polled
    /\ ~connected[e] /\ unacked[e] > 0
    /\ connected' = [connected EXCEPT ![e] = TRUE]
    /\ unacked' = [unacked EXCEPT ![e] = 0]
    /\ resend' = [resend EXCEPT ![e] = 0]
    /\ ops' = [ops EXCEPT ![e] = @ \ {"RESEND"}]
    /\ UNCHANGED pq
    /\ UNCHANGED <<flag, available, abp, next, sent, load>>

\* uct_ud_ep_rx_ctl: the reply to the CREQ, the only packet in the window.
PollCrep(e) ==
    /\ Polled
    /\ ~connected[e] /\ unacked[e] > 0
    /\ connected' = [connected EXCEPT ![e] = TRUE]
    /\ unacked' = [unacked EXCEPT ![e] = 0]
    /\ resend' = [resend EXCEPT ![e] = 0]
    /\ ops' = [ops EXCEPT ![e] = @ \ {"RESEND"}]
    /\ pq' = Schedule(pq, e)
    /\ UNCHANGED <<flag, available, abp, next, sent, load>>

\* uct_ud_verbs_iface_poll_tx: the main thread polls it when nothing came in.
PollTx ==
    /\ Polled
    /\ pc.async \/ ~pc.events
    /\ available < TxLen
    /\ available' = TxLen
    /\ UNCHANGED <<pq, ops, resend, flag, connected, unacked, abp, next, sent, load>>

\* A packet asks for an ack or shows a gap, or the timer (swept by
\* progress_pending) asks for an ack or starts a resend.
CtlOpAdd(e, op) ==
    /\ pc.at = "poll" /\ load.ctl > 0
    /\ op = "RESEND" => unacked[e] > 0
    /\ op \in CtlAck => connected[e]
    /\ ops' = [ops EXCEPT ![e] = @ \cup {op}]
    /\ resend' = IF op = "RESEND" THEN [resend EXCEPT ![e] = unacked[e]] ELSE resend
    /\ pq' = CtlSchedule(pq, e)
    /\ load' = [load EXCEPT !.ctl = @ - 1]
    /\ UNCHANGED <<flag, connected, unacked, available, abp, next, sent, pc>>

\* The progress call returns; the async one blocks direct sends if it had
\* events and leaves a group scheduled.
Leave(q, before) ==
    /\ pq' = q
    /\ abp' = (before \/ (pc.async /\ pc.events /\ q.list # <<>>))
    /\ pc' = User

\* The dispatch loop goes on while a group is scheduled.
Loop(q, before) ==
    IF q.list = <<>> THEN Leave(SpliceResched(q), before)
    ELSE pq' = q /\ abp' = before /\ pc' = Dispatch(pc.async, pc.events)

\* uct_ud_iface_progress_pending up to the dispatch loop.
ProgressPending ==
    /\ pc.at = "poll"
    /\ LET before == abp /\ pc.async
       IN  IF CanTx THEN Loop(pq, before) ELSE Leave(pq, before)
    /\ UNCHANGED <<ops, resend, flag, connected, unacked, available, next, sent, load>>

-----------------------------------------------------------------------------
SendCreq(e) ==
    /\ UNCHANGED resend
    /\ IF CanTx /\ HasSkbs
       THEN /\ ops' = [ops EXCEPT ![e] = @ \ {"CREQ"}]
            /\ unacked' = [unacked EXCEPT ![e] = @ + 1]
            /\ available' = available - 1
       ELSE UNCHANGED <<ops, unacked, available>>

\* uct_ud_ep_resend: the next packet of the window, or the end of the resend
\* (which may come early: a large packet is not resent before a NACK).
Resend(e) ==
    /\ UNCHANGED unacked
    /\ \/ /\ resend[e] > 0
          /\ resend' = [resend EXCEPT ![e] = @ - 1]
          /\ available' = available - 1
          /\ UNCHANGED ops
       \/ /\ ops' = [ops EXCEPT ![e] = @ \ {"RESEND"}]
          /\ UNCHANGED <<resend, available>>

SendAck(e) ==
    /\ ops' = [ops EXCEPT ![e] = @ \ CtlAck]
    /\ available' = IF connected[e] THEN available - 1 ELSE available
    /\ UNCHANGED <<resend, unacked>>

\* uct_ud_ep_do_pending_ctl.
DoPendingCtl(e) ==
    IF "CREQ" \in ops[e] THEN SendCreq(e)
    ELSE IF "RESEND" \in ops[e] THEN Resend(e)
    ELSE IF ops[e] # {} THEN SendAck(e)
    ELSE UNCHANGED <<ops, resend, unacked, available>>

\* Mutant: a group with nothing to send is dispatched again.
CtlOpNextAlways(q, e) == NextGroup(q, e)

\* uct_ud_ep_ctl_op_next, after the control step.
CtlOpNext(q, e) == IF ops'[e] # {} THEN NextGroup(q, e) ELSE ReschedGroup(q, e)

\* uct_ud_ep_do_pending up to req->func, for the head of the next group.
DoPending ==
    /\ pc.at = "dispatch"
    /\ LET e == Head(pq.list)
           q == TakeGroup(pq)
           x == Head(pq.group[e])
           control == DoPendingCtl(e) /\ UNCHANGED flag
           idle == UNCHANGED <<ops, resend, unacked, available, flag>>
       IN  IF ~CanTx \/ (~HasSkbs /\ ops[e] = {})
           THEN Leave(SpliceResched(StopGroup(q, e)), abp) /\ idle
           ELSE IF ops[e] = {} /\ (~connected[e] \/ NoWindow(e))
           THEN Loop(DeschedGroup(q, e), abp) /\ idle
           ELSE IF x = Ctl
           THEN /\ control
                /\ Loop(IF ops'[e] # {} THEN NextGroup(q, e) ELSE RemoveElem(q, e), abp)
           ELSE IF (pc.async => x.async) /\ ops[e] \cap HiPrio = {}
           THEN /\ flag' = [flag EXCEPT ![e] = FALSE]
                /\ abp' = (abp /\ ~x.async)
                /\ pq' = q
                /\ pc' = [at |-> "callback", async |-> pc.async, events |-> pc.events,
                          ep |-> e, last |-> IsLastPendingElem(pq.group[e]),
                          before |-> abp, sent |-> FALSE]
                /\ UNCHANGED <<ops, resend, unacked, available>>
           ELSE /\ control
                /\ Loop(IF pc.async THEN CtlOpNext(q, e) ELSE NextGroup(q, e), abp)
    /\ UNCHANGED <<connected, next, sent, load>>

-----------------------------------------------------------------------------
\* Inside req->func: the request sends its message, or a part of it.
CallbackSend ==
    /\ pc.at = "callback" /\ ~pc.sent
    /\ CanSend(pc.ep)
    /\ Transmit(pc.ep, Head(pq.group[pc.ep]).msg)
    /\ pc' = [pc EXCEPT !.sent = TRUE]
    /\ UNCHANGED <<pq, resend, flag, connected, abp, next, load>>

\* Inside req->func: user code, in a completion it calls, queues a new request.
CallbackAdd(f, kind) ==
    /\ pc.at = "callback"
    /\ f \in CanAddTo[pc.ep]
    /\ AddRequest(f, kind)
    /\ UNCHANGED pc

\* uct_ud_ep_do_pending after req->func: UCS_OK.
CallbackOk ==
    /\ pc.at = "callback" /\ pc.sent /\ ~Head(pq.group[pc.ep]).more
    /\ flag' = [flag EXCEPT ![pc.ep] = ~pc.last]
    /\ Loop(RemoveElem(pq, pc.ep), pc.before)
    /\ UNCHANGED <<ops, resend, connected, unacked, available, next, sent, load>>

\* UCS_INPROGRESS: the request keeps its place for the rest of its message.
CallbackInProgress ==
    /\ pc.at = "callback" /\ pc.sent /\ Head(pq.group[pc.ep]).more
    /\ flag' = [flag EXCEPT ![pc.ep] = TRUE]
    /\ Loop(NextGroup([pq EXCEPT !.group[pc.ep][1].more = FALSE], pc.ep), pc.before)
    /\ UNCHANGED <<ops, resend, connected, unacked, available, next, sent, load>>

\* An error: low priority control goes out in its place.
CallbackFails ==
    /\ pc.at = "callback" /\ ~pc.sent /\ ~CanSend(pc.ep)
    /\ flag' = [flag EXCEPT ![pc.ep] = TRUE]
    /\ DoPendingCtl(pc.ep)
    /\ Loop(CtlOpNext(pq, pc.ep), pc.before)
    /\ UNCHANGED <<connected, next, sent, load>>

Callback == CallbackSend \/ CallbackOk \/ CallbackInProgress \/ CallbackFails

Next ==
    \/ \E e \in Ep : Send(e) \/ PendingPurge(e) \/ PollCrep(e)
    \/ \E e \in Ep, kind \in load.kinds : PendingAdd(e, kind) \/ CallbackAdd(e, kind)
    \/ \E async \in BOOLEAN : StartProgress(async)
    \/ \E e \in Ep, n \in 0 .. Window, comp \in BOOLEAN : PollAck(e, n, comp)
    \/ \E e \in Ep, op \in Op \ {"CREQ"} : CtlOpAdd(e, op)
    \/ PollTx \/ ProgressPending \/ DoPending \/ Callback

Spec == Init /\ [][Next]_vars

\* A progress call runs to its end; the main thread keeps calling progress and
\* gets the lock; the peer's replies and the completions of posted sends are
\* polled in the end.
Fairness ==
    /\ WF_vars(ProgressPending) /\ WF_vars(DoPending) /\ WF_vars(Callback)
    /\ SF_vars(StartProgress(FALSE)) /\ SF_vars(PollTx)
    /\ \A e \in Ep : SF_vars(PollAck(e, 0, FALSE)) /\ SF_vars(PollCrep(e))

FairSpec == Spec /\ Fairness

-----------------------------------------------------------------------------
Msg == 1 .. Max(UNION {Range(l.msg) : l \in Loads})
Elem == [msg : Msg, async : BOOLEAN, more : BOOLEAN] \cup {Ctl}

TypeOK ==
    /\ pq.group \in [Ep -> Seq(Elem)]
    /\ \A e \in Ep : Cardinality({i \in DOMAIN pq.group[e] : pq.group[e][i] = Ctl}) <= 1
    /\ IsInjective(pq.list \o pq.resched) /\ Range(pq.list \o pq.resched) \subseteq Ep
    /\ ops \in [Ep -> SUBSET Op] /\ resend \in [Ep -> 0 .. Window]
    /\ {flag, connected} \subseteq [Ep -> BOOLEAN]
    /\ unacked \in [Ep -> 0 .. Window] /\ available \in 0 .. TxLen
    /\ abp \in BOOLEAN /\ load.ctl \in Nat /\ next \in [Ep -> Nat \ {0}]
    /\ sent \in [Ep -> Seq(Msg)]
    /\ pc.at \in {"user", "poll", "dispatch", "callback"}

\* Messages of an endpoint leave in the order the user issued them, direct or
\* through the pending queue, whatever control and async progress come between.
SentInOrder == \A e \in Ep : \A i \in 1 .. Len(sent[e]) - 1 : sent[e][i] <= sent[e][i + 1]

\* Nothing that can be sent is forgotten.  A control operation has its element
\* queued and its group scheduled, through purges and dispatches; a descheduled
\* request waits for its connection or its window, and with both it is scheduled,
\* so that the next dispatch reaches it.
ReadyIsScheduled ==
    \A e \in Ep : ~InPending(e) =>
        /\ ops[e] # {} => Contains(pq.group[e], Ctl) /\ ScheduledIn(pq, e)
        /\ HasRequests(e) /\ connected[e] /\ ~NoWindow(e) => ScheduledIn(pq, e)

\* The dispatch loop ends, so the interface lock is released.
DispatchEnds == pc.at = "dispatch" ~> pc = User

\* Every queued request is sent or purged in the end.
RequestsDrain == \A e \in Ep : HasRequests(e) ~> ~HasRequests(e)
=============================================================================
