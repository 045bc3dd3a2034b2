----------------------------- MODULE RcFailover -----------------------------
(***************************************************************************)
(* The failover endpoint of the RC transport (uct/ib/rc/failover): what is *)
(* kept of every posted operation, how completions and received messages   *)
(* are polled, and how the operations that the peer never got are taken to *)
(* another endpoint.  An endpoint is a record; each operator is what one   *)
(* function of the C code does to it.                                      *)
(*                                                                         *)
(* The queue pair is part of the record: "wire" holds the posted requests  *)
(* that the peer's device has not executed, "unanswered" the executed ones *)
(* whose response has not come back, "txcq" the completions in the send    *)
(* queue and "rxcq" the messages in the receive queue.                     *)
(***************************************************************************)
EXTENDS Integers, Sequences, SequencesExt, FiniteSetsExt

CONSTANTS
    SnMod,       \* the counters are uint16_t: 65536
    FirstSn,     \* messages that each side had sent and acknowledged at the start
    CqLen,       \* tx_cq_len, the completions that the send queue holds
    RxMaxPoll    \* messages taken from the receive queue by one poll

(* uct_dev_fault_status_t of the device, uct_ep_fault_status_t of the endpoint. *)
DevFault == {"NONE", "IN_PROGRESS", "MIGRATING", "MIGRATED"}
EpFault == {"NONE", "IN_PROGRESS", "FAULT"}

(* A two-sided operation is an active message; "put" and "get" are RDMA. *)
(* "last" is UCT_EP_OP_LAST: the completion of a flush, which is in the   *)
(* one-sided queue without a request of its own.                          *)
OneSided(op) == op.kind # "am"

(* uct_rc_failover_ep_t, connected and idle after FirstSn messages each way. *)
NewEp ==
    [pi |-> FirstSn, ci |-> FirstSn, pc |-> 0, cq |-> CqLen, ack |-> FirstSn,
     outstanding |-> <<>>, outstanding_os |-> <<>>,
     fault |-> "NONE", prepared |-> FALSE,
     rts |-> TRUE, wire |-> <<>>, unanswered |-> <<>>, txcq |-> <<>>, rxcq |-> <<>>]

(* The checks at the top of every send function: UCS_ERR_BUSY when they fail. *)
CanSend(dev, ep) == dev \in {"NONE", "IN_PROGRESS"} /\ ep.fault = "NONE"

(* uct_rc_failover_ep_post_send and uct_rc_failover_add_send_op_sn: on a      *)
(* device in IN_PROGRESS the operation is counted and queued but not posted. *)
PostSend(dev, ep, op) ==
    LET item == [sn |-> (ep.pi + 1) % SnMod, op |-> op]
        posted == [ep EXCEPT !.pi = item.sn, !.cq = @ - 1,
                             !.wire = IF dev = "NONE" THEN Append(@, item) ELSE @]
    IN IF OneSided(op)
       THEN [posted EXCEPT !.pc = (@ + 1) % SnMod, !.outstanding_os = Append(@, item)]
       ELSE [posted EXCEPT !.outstanding = Append(@, item)]

(* uct_rc_failover_ep_flush: nothing to wait for; with unsignaled requests  *)
(* an empty write is posted to be completed after them; otherwise only the *)
(* completion is queued, under the number of the last request.             *)
FlushOp == [kind |-> "last"]

Flush(dev, ep, unsignaled) ==
    CASE ep.pi = ep.ci -> ep
      [] ep.pi # ep.ci /\ unsignaled -> PostSend(dev, ep, FlushOp)
      [] OTHER -> [ep EXCEPT !.outstanding_os = Append(@, [sn |-> ep.pi, op |-> FlushOp])]

(* ucs_queue_for_each_extract while the serial number is not beyond sn. *)
SnLe(a, b) == (b - a) % SnMod < SnMod \div 2     \* UCS_CIRCULAR_COMPARE16(a, <=, b)
UpTo(q, sn) == SelectSeq(q, LAMBDA i : SnLe(i.sn, sn))
After(q, sn) == SelectSeq(q, LAMBDA i : ~SnLe(i.sn, sn))

(* uct_rc_falilover_update_tx_res: ci, the send credits and cq_available *)
(* follow together; the counters wrap, cq_available does not.            *)
UpdateTxRes(ep, count) == [ep EXCEPT !.ci = (@ + count) % SnMod, !.cq = @ + count]

(* One completion of the send queue finishes everything up to its number.  *)
(* A failed one does too: uct_rc_failover_iface_poll_tx only logs it.      *)
CompletionDesc(ep, wc) ==
    [UpdateTxRes(ep, (wc.sn - ep.ci) % SnMod)
        EXCEPT !.outstanding = After(@, wc.sn), !.outstanding_os = After(@, wc.sn)]

PollTx(ep) == FoldLeft(CompletionDesc, [ep EXCEPT !.txcq = <<>>], ep.txcq)

(* uct_rc_verbs_iface_simply_poll_tx skips the failed ones. *)
SimplyPollTx(ep) == PollTx([ep EXCEPT !.txcq = SelectSeq(@, LAMBDA wc : wc.ok)])

RxBatch(ep) == SubSeq(ep.rxcq, 1, Min({Len(ep.rxcq), RxMaxPoll}))

(* uct_rc_failover_iface_handle_am: the message is counted after its handler. *)
RxTaken(ep) == [ep EXCEPT !.rxcq = Tail(@), !.ack = (@ + 1) % SnMod]

(* uct_rc_failover_pre_handle: nothing was left in either queue. *)
StopQp(ep) == [ep EXCEPT !.rts = FALSE]

(* The two-sided operations that the peer did not count, as uint16_t. *)
NeedResend(ep, peerAck) == ((ep.pi - ep.pc) - peerAck) % SnMod

(* ucs_assert_always(UCS_CIRCULAR_COMPARE16(ts_qlen, >=, need_resend_ts_cnt)) *)
ResendFits(ep, peerAck) ==
    ep.prepared \/ SnLe(NeedResend(ep, peerAck), Len(ep.outstanding))

\* Mutants: nothing is taken for received; all one-sided ones are.
ReleasesNothing(ep, peerAck) == <<>>
ReleasesOneSided(ep, peerAck) ==
    SubSeq(ep.outstanding, 1, Len(ep.outstanding) - NeedResend(ep, peerAck)) \o ep.outstanding_os

(* uct_rc_txqp_fo_completion_desc: the operations it releases, which are    *)
(* the first two-sided ones, by count, and the one-sided ones before them. *)
Released(ep, peerAck) ==
    LET num == Len(ep.outstanding) - NeedResend(ep, peerAck)
        ts == SubSeq(ep.outstanding, 1, num)
    IN IF ts = <<>> THEN <<>> ELSE ts \o UpTo(ep.outstanding_os, Last(ts).sn)

(* uct_rc_failover_ep_resend_prepare, done once. *)
ResendPrepare(ep, peerAck) ==
    IF ep.prepared THEN ep
    ELSE LET gone == Released(ep, peerAck)
             left(q) == SelectSeq(q, LAMBDA i : ~Contains(gone, i))
         IN [UpdateTxRes(ep, Len(gone))
               EXCEPT !.prepared = TRUE,
                      !.outstanding = left(@), !.outstanding_os = left(@)]

(* uct_rc_failover_ep_get_first_op: the queue with the smaller number first. *)
FirstOp(ep) ==
    LET ts == ep.outstanding
        os == ep.outstanding_os
        first == IF os = <<>> \/ (ts # <<>> /\ ~SnLe(os[1].sn, ts[1].sn)) THEN ts ELSE os
    IN IF first = <<>> THEN <<>> ELSE <<first[1]>>

(* uct_rc_failover_ep_delete_iter *)
DropFirst(ep) ==
    IF OneSided(FirstOp(ep)[1].op) THEN [ep EXCEPT !.outstanding_os = Tail(@)]
    ELSE [ep EXCEPT !.outstanding = Tail(@)]

\* Mutant: the credits of what was sent again are not given back.
ResendPostKeepsCredits(ep) == [ep EXCEPT !.ci = ep.pi]

(* uct_rc_verbs_ep_resend_post; the count is a uint16_t. *)
ResendPost(ep) == [ep EXCEPT !.ci = ep.pi, !.cq = @ + ((ep.pi - ep.ci) % SnMod)]

=============================================================================
