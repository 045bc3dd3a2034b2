----------------------------- MODULE UcpFailover ----------------------------
(***************************************************************************)
(* Failover of a UCP endpoint (ucp/core/ucp_failover.c) over endpoints of  *)
(* the RC failover transport.  Two workers are connected by several lanes. *)
(* When a device fails the lane's context asks the peer, over another      *)
(* lane, how many messages it got, sends again what it did not get, and    *)
(* moves the endpoint to the new lane.                                     *)
(*                                                                         *)
(* Each side numbers the lanes itself: lane l of a side is link            *)
(* LinkOf[side][l].  All state of a side is the record node[side].         *)
(***************************************************************************)
EXTENDS RcFailover, TLC

CONSTANTS
    A, B,          \* the two workers
    NumLanes,      \* key.num_lanes, on both sides
    LinkOf,        \* lanes2remote: the link that a side's lane is
    Guid,          \* ibv_get_device_guid of the device of a side's lane
    NoCtx,         \* failover_array[lane] is NULL
    Loads          \* bounds on what the workers and the devices do

VARIABLES node, load

vars == <<node, load>>

Side == {A, B}
Lane == 0 .. NumLanes - 1
Peer(s) == IF s = A THEN B ELSE A

ASSUME FailoverAssumption ==
    /\ A # B
    /\ NumLanes \in Nat \ {0}
    /\ LinkOf \in [Side -> [Lane -> Lane]]
    /\ \A s \in Side : \A l, k \in Lane : LinkOf[s][l] = LinkOf[s][k] => l = k
    /\ Guid \in [Side -> [Lane -> Nat]]

(* ucp_failover_get_remote_lane *)
RemoteLane(s, l) == CHOOSE k \in Lane : LinkOf[Peer(s)][k] = LinkOf[s][l]

(* The side has everything on lane 0 until a failover moves it. *)
Node ==
    [rc |-> [l \in Lane |-> NewEp], dev |-> [l \in Lane |-> "NONE"],
     up |-> [l \in Lane |-> TRUE], upcall |-> {}, pend |-> [l \in Lane |-> <<>>],
     ctx |-> [l \in Lane |-> NoCtx], discarded |-> {},
     am_lane |-> 0, rma_lane |-> 0, bw_lanes |-> Lane, wireup |-> 0,
     regs |-> {}, got |-> <<>>, written |-> {}, read |-> {}, aborted |-> FALSE]

(* Steps on a side in sequence, and one step for each member of a sequence.  *)
(* (The sets of one make TLC evaluate every intermediate record only once.) *)
Then(n, Step(_)) == CHOOSE r \in {Step(m) : m \in {n}} : TRUE
InTurn(Step(_, _), n, seq) == FoldLeft(LAMBDA m, x : CHOOSE r \in {Step(m, x)} : TRUE, n, seq)
EachLane(Step(_, _), n) == InTurn(Step, n, [i \in 1 .. NumLanes |-> i - 1])
-----------------------------------------------------------------------------
(* Sending.  uct_ep_am_short and uct_ep_am_bcopy also fail while requests   *)
(* wait in the endpoint's arbiter group, unless they come from the group.   *)
CanSendAm(n, l) == CanSend(n.dev[l], n.rc[l]) /\ n.pend[l] = <<>>

Post(n, l, op) == [n EXCEPT !.rc[l] = PostSend(n.dev[l], @, op)]

Am(body) == [kind |-> "am", body |-> body]

(* uct_rc_failover_ep_process_pending over the arbiter group, until a send  *)
(* fails: the request's function sends on the lane that the endpoint uses.  *)
LaneFor(n, op) == IF op.kind = "am" THEN n.am_lane ELSE n.rma_lane

Dispatch(n, l) ==
    LET ready(m, op) == CanSend(m.dev[LaneFor(m, op)], m.rc[LaneFor(m, op)])
        step(m, op) == IF m.pend[l] # <<>> /\ m.pend[l][1] = op /\ ready(m, op)
                       THEN Post([m EXCEPT !.pend[l] = Tail(@)], LaneFor(m, op), op)
                       ELSE m
    IN InTurn(step, n, n.pend[l])
-----------------------------------------------------------------------------
(* Contexts: failover_ctx_t.  "state" is the set of UCP_FO_FLAG_ bits, and   *)
(* rkey.state the set of UCT_RKEY_ bits; rkey.key is the rkey with its memh. *)
NewCtx(faultType, revise) ==
    [state |-> {"INIT"}, type |-> faultType, revise |-> revise, guid |-> 0,
     new |-> 0, rnew |-> 0, peer |-> 0,
     rkey |-> [state |-> {}, addr |-> 0, key |-> <<>>]]

(* ucp_ep_check_lane_already_fault: the metadata is dropped. *)
AlreadyFault(n, l) == l \in n.discarded

\* Mutant: each side yields to the other.
ConflictYields(s, n, info) ==
    [n EXCEPT !.ctx[info.rorigin] =
        [@ EXCEPT !.new = info.rnew, !.rnew = info.new, !.peer = info.ack,
                  !.state = @ \cup {"SELECTED", IF "SENT" \in @ THEN "REPLY" ELSE "REPLY_META"}]]

(* ucp_ep_failover_handle_conflicts.  Outside of a revision, and once a lane *)
(* was selected, the side whose device has the bigger guid decides.          *)
HandleConflicts(s, n, info) ==
    LET l == info.rorigin
        c == n.ctx[l]
        use(x) == [x EXCEPT !.new = info.rnew, !.rnew = info.new]
        decide(x) == IF x.new # info.rnew /\ Guid[s][l] < info.guid THEN use(x) ELSE x
        next == CASE info.revise ->
                       [use(c) EXCEPT !.state = {"INIT", "SELECTED", "REPLY_META"}]
                  [] ~info.revise /\ "SELECTED" \notin c.state ->
                       [use(c) EXCEPT !.state = @ \cup {"SELECTED", "REPLY_META"}]
                  [] ~info.revise /\ "SELECTED" \in c.state /\ "SENT" \notin c.state ->
                       [decide(c) EXCEPT !.state = @ \cup {"REPLY_META"}]
                  [] ~info.revise /\ {"SELECTED", "SENT"} \subseteq c.state
                                  /\ "REPLY" \notin c.state ->
                       [decide(c) EXCEPT !.state = @ \cup {"REPLY"}]
                  [] OTHER -> c
    IN [n EXCEPT !.ctx[l] = [next EXCEPT !.peer = info.ack]]

(* ucp_ep_failover_handle_fault_recv: the peer's end of the lane failed. *)
HandleFaultRecv(n, info) ==
    [n EXCEPT !.ctx[info.rorigin] =
        [NewCtx("EP", info.revise) EXCEPT
            !.state = {"INIT", "SELECTED", "REPLY_META"},
            !.new = info.rnew, !.rnew = info.new, !.peer = info.ack]]

(* ucp_ep_failover_handle *)
HandleReq(s, n, info) ==
    CASE AlreadyFault(n, info.rnew) -> n
      [] ~AlreadyFault(n, info.rnew) /\ n.ctx[info.rorigin] # NoCtx ->
           HandleConflicts(s, n, info)
      [] OTHER -> HandleFaultRecv(n, info)

(* ucp_ep_failover_handle_reply *)
HandleReply(n, info) ==
    IF AlreadyFault(n, info.rnew) \/ n.ctx[info.rorigin] = NoCtx THEN n
    ELSE [n EXCEPT !.ctx[info.rorigin] =
            LET moves == @.new # info.rnew /\ @.guid < info.guid
            IN [@ EXCEPT !.new = IF moves THEN info.rnew ELSE @,
                         !.rnew = IF moves THEN info.new ELSE @,
                         !.peer = info.ack, !.state = @ \cup {"REPLY"}]]

(* ucp_failover_rkey_handler: register the target of a request to resend,   *)
(* answer on the lane that will carry it (an answer that cannot be sent is  *)
(* lost), take the answer, or drop the registration.                        *)
HandleRkey(n, m) ==
    LET key == [lane |-> m.rnew, addr |-> m.addr, for |-> m.origin]
        reged == [n EXCEPT !.regs = @ \cup {key}]
    IN CASE m.t = "GET_RKEY" ->
              IF CanSendAm(n, m.rnew)
              THEN Post(reged, m.rnew, Am([t |-> "RESP_RKEY", origin |-> m.origin, key |-> key]))
              ELSE reged
         [] m.t = "RESP_RKEY" ->
              IF n.ctx[m.origin] = NoCtx THEN n
              ELSE [n EXCEPT !.ctx[m.origin].rkey =
                      [@ EXCEPT !.key = <<m.key>>, !.state = @ \cup {"REPLIED"}]]
         [] m.t = "RELEASE_RKEY" -> [n EXCEPT !.regs = @ \ {m.key}]

(* uct_iface_invoke_am *)
InvokeAm(s, n, body) ==
    CASE body.t = "DATA" -> [n EXCEPT !.got = Append(@, body.id)]
      [] body.t = "REQ" -> HandleReq(s, n, body)
      [] body.t = "RESP" -> HandleReply(n, body)
      [] OTHER -> HandleRkey(n, body)

(* uct_rc_failover_iface_poll_rx_common and simply_poll_rx *)
PollRx(s, n, l) ==
    InTurn(LAMBDA m, body : [InvokeAm(s, m, body) EXCEPT !.rc[l] = RxTaken(@)],
           n, RxBatch(n.rc[l]))
-----------------------------------------------------------------------------
(* Steps of ucp_failover_progress_lane. *)
WithFlag(n, l, flag) == [n EXCEPT !.ctx[l].state = @ \cup {flag}]

(* ucp_change_tl_map and ucp_failover_set_lane_ep_fault *)
Discard(n, l, status) == [n EXCEPT !.discarded = @ \cup {l}, !.rc[l].fault = status]

(* ucp_failover_reselect: ucs_fatal when no lane is left. *)
Reselect(s, n, l) ==
    LET usable == {k \in Lane \ {l} : k \notin n.discarded}
        new == Min(usable)
    IN IF usable = {} THEN [n EXCEPT !.aborted = TRUE]
       ELSE WithFlag([n EXCEPT !.ctx[l].new = new, !.ctx[l].rnew = RemoteLane(s, new)],
                     l, "SELECTED")

(* ucp_failover_change_wireup_lane; the peer's endpoint id is known. *)
ResolveEpId(n, l) ==
    IF "RESOLVED_EP_ID" \in n.ctx[l].state THEN n
    ELSE WithFlag([n EXCEPT !.wireup = IF @ = l THEN n.ctx[l].new ELSE @], l, "RESOLVED_EP_ID")

(* ucp_failover_progress_pre_handle: only a side whose own device failed *)
(* empties the queues of the lane and stops its queue pair.              *)
MustPreHandle(c) == c.type = "IFACE" /\ "PRE_HANDLED" \notin c.state
Drained(ep) == ep.txcq = <<>> /\ ep.rxcq = <<>>

PreHandled(n, l) ==
    WithFlag(IF MustPreHandle(n.ctx[l]) THEN [n EXCEPT !.rc[l] = StopQp(@)] ELSE n,
             l, "PRE_HANDLED")

(* ucp_failover_send_meta: the number of messages received goes with it. *)
MetaInfo(s, n, l) ==
    LET c == n.ctx[l]
    IN [t |-> IF "REPLY_META" \in c.state THEN "RESP" ELSE "REQ",
        origin |-> l, rorigin |-> RemoteLane(s, l), new |-> c.new, rnew |-> c.rnew,
        revise |-> c.revise, guid |-> Guid[s][l], ack |-> n.rc[l].ack]

SendMeta(s, n, l) ==
    LET c == n.ctx[l]
        sent == [n EXCEPT !.ctx[l].guid = Guid[s][l]]
    IN IF ~CanSendAm(n, c.new) THEN sent
       ELSE [Post(sent, c.new, Am(MetaInfo(s, n, l))) EXCEPT
               !.ctx[l].state = @ \cup {"SENT"}
                                  \cup (IF "REPLY_META" \in c.state THEN {"REPLY"} ELSE {})]

(* ucp_failover_progress_revise_lane: a context that was moving to this lane *)
(* takes this one's new lane and starts again.                               *)
ReviseLane(n, l) ==
    LET c == n.ctx[l]
        stale(j) == j \notin {l, c.new} /\ n.ctx[j] # NoCtx /\ n.ctx[j].new = l
        revised(x) == [x EXCEPT !.new = c.new, !.rnew = c.rnew, !.revise = TRUE,
                                !.state = {"INIT", "SELECTED"}, !.rkey.state = {}]
    IN WithFlag([n EXCEPT !.ctx = [j \in Lane |-> IF stale(j) THEN revised(n.ctx[j]) ELSE n.ctx[j]]],
                l, "REVISED")

\* Mutant: the peer is told this side's number of the lane.
GetRkeyOfOwnLane(n, l) ==
    LET c == n.ctx[l]
        req == [t |-> "GET_RKEY", origin |-> l, rnew |-> c.new, addr |-> c.rkey.addr]
    IN IF "INIT" \notin c.rkey.state \/ "REQ_SENT" \in c.rkey.state \/ ~CanSendAm(n, c.new)
       THEN n
       ELSE [Post(n, c.new, Am(req)) EXCEPT !.ctx[l].rkey.state = @ \cup {"REQ_SENT"}]

(* ucp_failover_progress_get_rkey: ask for a key, once, and wait for it. *)
GetRkey(n, l) ==
    LET c == n.ctx[l]
        req == [t |-> "GET_RKEY", origin |-> l, rnew |-> c.rnew, addr |-> c.rkey.addr]
    IN IF "INIT" \notin c.rkey.state \/ "REQ_SENT" \in c.rkey.state \/ ~CanSendAm(n, c.new)
       THEN n
       ELSE [Post(n, c.new, Am(req)) EXCEPT !.ctx[l].rkey.state = @ \cup {"REQ_SENT"}]

AwaitsRkey(c) == "INIT" \in c.rkey.state /\ ~({"REQ_SENT", "REPLIED"} \subseteq c.rkey.state)

(* ucp_failover_release_rkey: with the lane failed the release is dropped. *)
ReleaseRkey(n, l) ==
    LET c == n.ctx[l]
        reset == [n EXCEPT !.ctx[l].rkey.state = {}]
    IN CASE "USED" \notin c.rkey.state -> n
         [] "USED" \in c.rkey.state /\ ~CanSendAm(n, c.new) -> reset
         [] OTHER -> Post(reset, c.new, Am([t |-> "RELEASE_RKEY", key |-> c.rkey.key[1]]))

(* uct_rc_failover_ep_do_resend_rdma_zcopy: without a key for it the        *)
(* operation stays first and the key is asked for.                          *)
ResendRma(n, l, op, dropped) ==
    LET c == n.ctx[l]
    IN CASE "REPLIED" \notin c.rkey.state ->
              [n EXCEPT !.ctx[l].rkey = [state |-> {"INIT"}, addr |-> op.id, key |-> <<>>]]
         [] "REPLIED" \in c.rkey.state /\ ~CanSend(n.dev[c.new], n.rc[c.new]) -> n
         [] OTHER -> [Post(dropped, c.new, [op EXCEPT !.key = c.rkey.key])
                        EXCEPT !.ctx[l].rkey.state = @ \cup {"USED"}]

(* uct_rc_failover_ep_do_resend on the first operation that is left. *)
DoResend(n, l) ==
    LET new == n.ctx[l].new
        op == FirstOp(n.rc[l])[1].op
        dropped == [n EXCEPT !.rc[l] = DropFirst(@)]
    IN CASE op.kind = "last" -> dropped
         [] op.kind = "am" -> IF CanSendAm(n, new) THEN Post(dropped, new, op) ELSE n
         [] OTHER -> ResendRma(n, l, op, dropped)

(* uct_rc_failover_ep_failover_resend_progress; the assertion of *)
(* resend_prepare is ucs_assert_always.                          *)
ResendProgress(n, l) ==
    LET peerAck == n.ctx[l].peer
        next(m) == IF FirstOp(m.rc[l]) # <<>> THEN DoResend(m, l)
                   ELSE WithFlag([m EXCEPT !.rc[l] = ResendPost(@)], l, "RESEND")
    IN IF ~ResendFits(n.rc[l], peerAck) THEN [n EXCEPT !.aborted = TRUE]
       ELSE Then([n EXCEPT !.rc[l] = ResendPrepare(@, peerAck)], next)

(* ucp_failover_change_ucp_lane: the new configuration of the endpoint. *)
ChangeLane(n, l) ==
    LET new == n.ctx[l].new
    IN [n EXCEPT !.am_lane = IF @ = l THEN new ELSE @,
                 !.rma_lane = IF @ = l THEN new ELSE @,
                 !.bw_lanes = IF l \in @ THEN (@ \ {l}) \cup {new} ELSE @]

\* Mutant: the waiting requests stay with the failed lane.
LeavesPending(n, l) == n

(* uct_rc_ep_failover_pending_transfer_progress *)
TransferPending(n, l) ==
    LET new == n.ctx[l].new
    IN Dispatch([n EXCEPT !.pend[new] = @ \o n.pend[l], !.pend[l] = <<>>], new)

(* ucp_ep_failover_done *)
Done(n, l) ==
    [Discard(n, l, "FAULT") EXCEPT
        !.dev[l] = IF n.ctx[l].type = "IFACE" THEN "MIGRATED" ELSE @,
        !.ctx[l] = NoCtx]

(* ucp_failover_progress_resend, and the end of ucp_failover_progress_lane *)
SwitchLane(n, l) ==
    Then(ChangeLane(n, l), LAMBDA m : Then(TransferPending(m, l), LAMBDA k : Done(k, l)))

AfterRkey(n, l) ==
    CASE AwaitsRkey(n.ctx[l]) -> n
      [] ~AwaitsRkey(n.ctx[l]) /\ "RESEND" \notin n.ctx[l].state ->
           Then(ReleaseRkey(n, l), LAMBDA m : ResendProgress(m, l))
      [] OTHER -> Then(ReleaseRkey(n, l), LAMBDA m : SwitchLane(m, l))

AfterPreHandle(s, n, l) ==
    LET state == n.ctx[l].state
    IN CASE "SENT" \notin state -> SendMeta(s, n, l)
         [] "SENT" \in state /\ "REPLY" \notin state -> n
         [] {"SENT", "REPLY"} \subseteq state /\ "REVISED" \notin state -> ReviseLane(n, l)
         [] OTHER -> Then(GetRkey(n, l), LAMBDA m : AfterRkey(m, l))

AfterSelect(s, n, l) ==
    IF MustPreHandle(n.ctx[l]) /\ ~Drained(n.rc[l])
    THEN Then([n EXCEPT !.rc[l] = SimplyPollTx(@)], LAMBDA m : PollRx(s, m, l))
    ELSE Then(PreHandled(n, l), LAMBDA m : AfterPreHandle(s, m, l))

ProgressLane(s, n, l) ==
    IF n.ctx[l] = NoCtx \/ n.aborted THEN n
    ELSE CASE "CHANGE_TL_MAP" \notin n.ctx[l].state ->
                WithFlag(Discard(n, l, "IN_PROGRESS"), l, "CHANGE_TL_MAP")
           [] "CHANGE_TL_MAP" \in n.ctx[l].state /\ "SELECTED" \notin n.ctx[l].state ->
                Reselect(s, n, l)
           [] OTHER -> Then(ResolveEpId(n, l), LAMBDA m : AfterSelect(s, m, l))
-----------------------------------------------------------------------------
(* One round of the worker: the interfaces are polled in order, then the    *)
(* registered callbacks run.                                                *)
(* uct_rc_failover_iface_progress *)
PollLane(s, n, l) ==
    LET rx == PollRx(s, n, l)
        tx(m) == Then([m EXCEPT !.rc[l] = PollTx(@)], LAMBDA k : Dispatch(k, l))
        ep == n.rc[l]
    IN CASE n.dev[l] = "NONE" -> IF ep.rxcq = <<>> THEN tx(n) ELSE rx
         [] n.dev[l] = "IN_PROGRESS" ->
              IF Drained(ep) THEN [tx(n) EXCEPT !.upcall = @ \cup {l}] ELSE Then(rx, tx)
         [] OTHER -> n

(* uct_ib_iface_failure_handle_progress and                              *)
(* ucp_worker_iface_failover_error_handler: only a lane that is still in *)
(* the configuration of the endpoint gets a context.                     *)
MatchedLane(n, l) == l \in {n.am_lane, n.rma_lane} \cup n.bw_lanes

FailureUpcall(n, l) ==
    IF l \notin n.upcall THEN n
    ELSE [n EXCEPT !.upcall = @ \ {l}, !.dev[l] = "MIGRATING",
                   !.ctx[l] = IF @ = NoCtx /\ MatchedLane(n, l) THEN NewCtx("IFACE", FALSE) ELSE @]

(* ucp_worker_progress *)
Round(s) ==
    Then(Then(EachLane(LAMBDA n, l : PollLane(s, n, l), node[s]),
              LAMBDA n : EachLane(LAMBDA m, l : ProgressLane(s, m, l), n)),
         LAMBDA n : EachLane(FailureUpcall, n))

Progress(s) ==
    /\ ~node[s].aborted
    /\ node' = [node EXCEPT ![s] = Round(s)]
    /\ UNCHANGED load

(* The user sends the next operation of its script.  A send that fails *)
(* becomes a request in the arbiter group of the lane; a flush that    *)
(* finds the lane in failover is tried again.                          *)
Issue(s, n) ==
    /\ node' = [node EXCEPT ![s] = n]
    /\ load' = [load EXCEPT !.script[s] = Tail(@),
                            !.issued[s] = @ \cup {Head(load.script[s])}]

Send(s) ==
    LET op == Head(load.script[s])
        n == node[s]
        l == LaneFor(n, op)
        now == CanSend(n.dev[l], n.rc[l]) /\ (op.kind = "am" => CanSendAm(n, l))
    IN /\ load.script[s] # <<>> /\ op # FlushOp /\ ~n.aborted
       /\ Issue(s, IF now THEN Post(n, l, op) ELSE [n EXCEPT !.pend[l] = Append(@, op)])

FlushLane(s) ==
    LET n == node[s]
        l == n.am_lane
    IN /\ load.script[s] # <<>> /\ Head(load.script[s]) = FlushOp /\ ~n.aborted
       /\ n.dev[l] = "NONE" /\ n.rc[l].fault = "NONE"
       /\ \E unsignaled \in BOOLEAN :
            Issue(s, [n EXCEPT !.rc[l] = Flush(n.dev[l], @, unsignaled)])
-----------------------------------------------------------------------------
(* The devices.  A link carries requests and responses while both of its *)
(* ports are up and both queue pairs are in RTS.                         *)
Works(s, l) ==
    LET k == RemoteLane(s, l)
    IN /\ node[s].up[l] /\ node[Peer(s)].up[k]
       /\ node[s].rc[l].rts /\ node[Peer(s)].rc[k].rts

(* The responses to "back" arrive, with a completion for the last of them. *)
Answered(n, l, back) ==
    [n EXCEPT !.rc[l].unanswered = <<>>,
              !.rc[l].txcq = Append(@, [sn |-> Last(back).sn, ok |-> TRUE]),
              !.read = @ \cup {back[i].op.id : i \in {j \in DOMAIN back : back[j].op.kind = "get"}}]

(* The peer's device executes the oldest request.  Only on a link of *)
(* load.slow does the response take a step of its own.               *)
HwExecute(s, l) ==
    LET p == Peer(s)
        k == RemoteLane(s, l)
        wr == Head(node[s].rc[l].wire)
        sent == [node[s] EXCEPT !.rc[l].wire = Tail(@), !.rc[l].unanswered = Append(@, wr)]
        slow == LinkOf[s][l] \in load.slow
    IN /\ Works(s, l) /\ node[s].rc[l].wire # <<>>
       /\ node' = [node EXCEPT
            ![s] = IF slow THEN sent ELSE Answered(sent, l, sent.rc[l].unanswered),
            ![p].rc[k].rxcq = IF wr.op.kind = "am" THEN Append(@, wr.op.body) ELSE @,
            ![p].written = IF wr.op.kind = "put" THEN @ \cup {wr.op.id} ELSE @]
       /\ UNCHANGED load

HwRespond(s, l) ==
    LET back == node[s].rc[l].unanswered
    IN /\ Works(s, l) /\ back # <<>>
       /\ node' = [node EXCEPT ![s] = Answered(@, l, back)]
       /\ UNCHANGED load

(* The queue pair of a healthy device gives up on a peer that is silent. *)
HwRetryExceeded(s, l) ==
    LET ep == node[s].rc[l]
        left == ep.unanswered \o ep.wire
    IN /\ ~Works(s, l) /\ node[s].up[l] /\ ep.rts /\ left # <<>>
       /\ node' = [node EXCEPT ![s].rc[l] =
            [@ EXCEPT !.unanswered = <<>>, !.wire = <<>>, !.rts = FALSE,
                      !.txcq = @ \o [i \in DOMAIN left |-> [sn |-> left[i].sn, ok |-> FALSE]]]]
       /\ UNCHANGED load

(* A port fails, and later the asynchronous event is handled:             *)
(* uct_ib_handle_async_event.  Unless the load has its faults together, a *)
(* port fails only when both sides know of the ones that failed before.   *)
Known(f) ==
    /\ f.lane \in node[f.side].discarded
    /\ RemoteLane(f.side, f.lane) \in node[Peer(f.side)].discarded

PortDown(f) ==
    /\ f \in load.faults
    /\ load.together \/ \A g \in load.down : Known(g)
    /\ node' = [node EXCEPT ![f.side].up[f.lane] = FALSE]
    /\ load' = [load EXCEPT !.faults = @ \ {f}, !.down = @ \cup {f}]

HandleAsyncEvent(s, l) ==
    /\ ~node[s].up[l] /\ node[s].dev[l] = "NONE"
    /\ node' = [node EXCEPT ![s].dev[l] = "IN_PROGRESS"]
    /\ UNCHANGED load
-----------------------------------------------------------------------------
Init ==
    /\ node = [s \in Side |-> Node]
    /\ load \in Loads

Device(s, l) == HwExecute(s, l) \/ HwRespond(s, l) \/ HandleAsyncEvent(s, l)

Next ==
    \/ \E s \in Side : Progress(s) \/ Send(s) \/ FlushLane(s)
    \/ \E s \in Side, l \in Lane : Device(s, l)
    \/ \E f \in load.faults : PortDown(f)

Spec == Init /\ [][Next]_vars

(* With queue pairs that give up after their retries. *)
RetryNext == Next \/ \E s \in Side, l \in Lane : HwRetryExceeded(s, l)

RetrySpec == Init /\ [][RetryNext]_vars
-----------------------------------------------------------------------------
(* Every flag, lane and counter of the C structures stays in its range.     *)
TypeOK ==
    \A s \in Side :
        /\ node[s].am_lane \in Lane /\ node[s].wireup \in Lane
        /\ node[s].discarded \subseteq Lane /\ node[s].upcall \subseteq Lane
        /\ \A l \in Lane :
             /\ node[s].dev[l] \in DevFault /\ node[s].rc[l].fault \in EpFault
             /\ node[s].rc[l].pi \in 0 .. SnMod - 1 /\ node[s].rc[l].ack \in 0 .. SnMod - 1

(* The active messages of a side reach the peer's handler in the order in   *)
(* which they were sent, none twice and none skipped, although those that   *)
(* were on a failed lane are sent again on another                          *)
(* (uct_rc_failover_ep_do_resend, ucp_failover_pending_transfer).           *)
InOrderOnce == \A s \in Side : \A i \in DOMAIN node[s].got : node[s].got[i] = i

(* The completion credits of a device are what the requests that were posted *)
(* and not completed leave of tx_cq_len: polling, resend_prepare and         *)
(* resend_post together give back every credit once (the assertion of        *)
(* uct_rc_iface_add_cq_credits is the upper bound).                          *)
CreditsExact ==
    \A s \in Side, l \in Lane :
        LET ep == node[s].rc[l]
        IN ep.cq = CqLen - ((ep.pi - ep.ci) % SnMod)

(* A one-sided operation leaves the queues of its endpoint, where its        *)
(* completion is called, only when the write is in the peer's memory or the  *)
(* data of the read is here: what completion_desc and fo_completion_desc     *)
(* release was done, what they keep is posted again.                         *)
IsRma(op) == op.kind \in {"put", "get"}
Unfinished(n) ==
    UNION {{i.op.id : i \in {j \in Range(n.rc[l].outstanding_os) : IsRma(j.op)}}
             \cup {op.id : op \in {o \in Range(n.pend[l]) : IsRma(o)}} : l \in Lane}
OneSidedDone ==
    \A s \in Side :
        {op.id : op \in {o \in load.issued[s] : IsRma(o)}} \ Unfinished(node[s])
          \subseteq node[Peer(s)].written \cup node[s].read

(* A one-sided operation that is sent again carries the key that the peer    *)
(* registered for this address on the device at the other end of this lane   *)
(* (ucp_failover_progress_get_rkey, uct_rc_resend_ep_rdma_zcopy).            *)
RkeyFits ==
    \A s \in Side, l \in Lane : \A i \in DOMAIN node[s].rc[l].wire :
        LET op == node[s].rc[l].wire[i].op
        IN IsRma(op) /\ op.key # <<>> =>
             op.key[1].lane = RemoteLane(s, l) /\ op.key[1].addr = op.id

(* Nothing is left to do: rounds of the workers change nothing and the       *)
(* devices have nothing to carry or to report.                               *)
Quiescent ==
    /\ \A s \in Side : node[s].aborted \/ Round(s) = node[s]
    /\ \A s \in Side, l \in Lane :
         /\ Works(s, l) => node[s].rc[l].wire = <<>> /\ node[s].rc[l].unanswered = <<>>
         /\ node[s].up[l] \/ node[s].dev[l] # "NONE"

(* The workers and the devices never come to rest in the middle of a         *)
(* failover: when nothing moves any more no lane has a failover context, no  *)
(* request waits, every message that was sent has arrived and every          *)
(* operation has completed (ucp_failover_progress_lane waits for a REQ, a    *)
(* RESP and keys of the peer, and each of them comes).  No side has stopped  *)
(* its process: the peer's count never says that more was lost than is       *)
(* outstanding (ucs_assert_always in uct_rc_txqp_fo_completion_desc), and    *)
(* ucp_failover_reselect finds a lane while one link is healthy.             *)
FailoverEnds ==
    Quiescent =>
        \A s \in Side :
            /\ ~node[s].aborted
            /\ \A l \in Lane : /\ node[s].ctx[l] = NoCtx /\ node[s].pend[l] = <<>>
                               /\ node[s].rc[l].outstanding = <<>>
                               /\ node[s].rc[l].outstanding_os = <<>>
            /\ {op.body.id : op \in {o \in load.issued[s] : o.kind = "am"}}
                 = Range(node[Peer(s)].got)

(* After a failover both sides use the same link for active messages, it is  *)
(* not one that either gave up, and the peer's registrations for resent      *)
(* operations are gone: ucp_ep_failover_handle_conflicts, the revision of    *)
(* lanes and ucp_failover_release_rkey agree on both sides.                  *)
SameLane ==
    Quiescent =>
        /\ LinkOf[A][node[A].am_lane] = LinkOf[B][node[B].am_lane]
        /\ \A s \in Side : /\ node[s].am_lane \notin node[s].discarded
                           /\ node[s].wireup \notin node[s].discarded
                           /\ node[s].regs = {}
=============================================================================
