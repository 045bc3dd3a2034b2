------------------------------- MODULE MmFifo -------------------------------
(***************************************************************************)
(* The shared memory transport (uct/sm/mm/base): the receive FIFO of one   *)
(* interface, which several processes fill and one drains.                 *)
(*                                                                         *)
(* Shared memory: the control segment (head with its "event armed" bit,    *)
(* tail) and the FIFO elements.  A sender loads head, compares it with its *)
(* cached copy of tail, takes the element with a compare-and-swap, writes  *)
(* the payload and then publishes it by flipping the owner bit; the owner  *)
(* bit of lap k of the FIFO is k % 2.  The receiver polls the owner bit of *)
(* the element at read_index.  Each load, swap and store of shared memory  *)
(* is a step of its own; the fences of the code make these steps happen in *)
(* program order.                                                          *)
(*                                                                         *)
(* A sender that finds the FIFO full queues its message on the endpoint's  *)
(* arbiter group, which the progress of its own interface dispatches.      *)
(* A receiver with nothing to read arms the FIFO and sleeps on a datagram  *)
(* socket until a sender that took an armed head signals it.               *)
(***************************************************************************)
EXTENDS Integers, Sequences

CONSTANTS
    Senders,        \* the endpoints connected to the FIFO
    FifoSize,       \* fifo_size
    ReleaseBatch,   \* fifo_release_factor_mask + 1
    MaxPoll,        \* fifo_max_poll
    Descs,          \* the receive descriptors of recv_desc_mp
    NoDesc,         \* a NULL descriptor
    InitDesc,       \* the descriptors that the elements start with
    InitLast,       \* the first last_recv_desc
    AttachMayFail,  \* attaching the segment of a descriptor can fail
    NoMsg,          \* memory that no message was written to
    Lost,           \* read at an index whose message no handler was called with
    ArbElem,        \* the endpoint's own element on its arbiter group (arb_elem)
    Inlines,        \* the kinds of messages: TRUE short (inline), FALSE bcopy
    UsesEvents,     \* the receiver's user arms the FIFO and sleeps
    SockCap,        \* datagrams that the signal socket holds
    MaxMsgs         \* bound: messages per sender

Msg == [from : Senders, num : 1 .. MaxMsgs, inline : BOOLEAN]

ASSUME MmFifoAssumption ==
    /\ FifoSize \in Nat /\ FifoSize > 1
    /\ ReleaseBatch \in Nat /\ ReleaseBatch > 0 /\ ReleaseBatch < FifoSize
    /\ FifoSize % ReleaseBatch = 0
    /\ MaxPoll \in Nat /\ MaxPoll > 0
    /\ NoDesc \notin Descs /\ InitLast \in Descs
    /\ InitDesc \in [0 .. FifoSize - 1 -> Descs \ {InitLast}]
    /\ \A i, j \in 0 .. FifoSize - 1 : InitDesc[i] = InitDesc[j] => i = j
    /\ Inlines \subseteq BOOLEAN
    /\ AttachMayFail \in BOOLEAN /\ UsesEvents \in BOOLEAN
    /\ SockCap \in Nat /\ SockCap > 0
    /\ MaxMsgs \in Nat
    /\ NoMsg \notin Msg /\ Lost \notin Msg \cup {NoMsg} /\ ArbElem \notin Msg

VARIABLES
    head, armed,    \* fifo_ctl->head: the index and bit 63
    tail,           \* fifo_ctl->tail
    elems,          \* the FIFO elements
    mem,            \* the payload area of every descriptor
    sig,            \* datagrams queued on the receiver's signal socket
    \* the receiver (uct_mm_iface_t)
    read_index, rpc, rhead, total, fifo_poll_count, fifo_prev_wnd_cons,
    may_arm,        \* the last progress found nothing, the user may arm
    last_recv_desc, free, held,
    \* the senders (uct_mm_ep_t)
    pc, hd, hd_armed, cached_tail, group, cur, nxt, in_dispatch,
    \* history: who took which index, and what was read at each index
    log, got

shared == <<head, armed, tail, elems, mem, sig>>
rcvr   == <<read_index, rpc, rhead, total, fifo_poll_count, fifo_prev_wnd_cons,
            may_arm, last_recv_desc, free, held>>
sndr   == <<pc, hd, hd_armed, cached_tail, group, cur, nxt, in_dispatch>>
vars   == <<shared, rcvr, sndr, log, got>>

-----------------------------------------------------------------------------
Slot(i)     == i % FifoSize
OwnerBit(i) == (i \div FifoSize) % 2

\* Mutant: one element too many.
AbleToSendOneMore(h, t) == h - t <= FifoSize

\* UCT_MM_EP_IS_ABLE_TO_SEND; the cast to int32 drops the armed bit.
AbleToSend(h, t) == h - t < FifoSize

\* uct_mm_iface_t init: every owner bit is the one of the lap before the first.
Init ==
    /\ head = 0 /\ armed = FALSE /\ tail = 0
    /\ elems = [i \in 0 .. FifoSize - 1 |->
                  [owner |-> 1, inline |-> FALSE, data |-> NoMsg, desc |-> InitDesc[i]]]
    /\ mem = [d \in Descs |-> NoMsg]
    /\ sig = 0
    /\ read_index = 0 /\ rpc = "idle" /\ rhead = 0 /\ total = 0
    /\ fifo_poll_count = MaxPoll /\ fifo_prev_wnd_cons = FALSE /\ may_arm = FALSE
    /\ last_recv_desc = InitLast
    /\ free = Descs \ ({InitLast} \cup {InitDesc[i] : i \in 0 .. FifoSize - 1})
    /\ held = {}
    /\ pc = [s \in Senders |-> "idle"]
    /\ hd = [s \in Senders |-> 0]
    /\ hd_armed = [s \in Senders |-> FALSE]
    /\ cached_tail = [s \in Senders |-> 0]
    /\ group = [s \in Senders |-> <<>>]
    /\ cur = [s \in Senders |-> NoMsg]
    /\ nxt = [s \in Senders |-> 1]
    /\ in_dispatch = [s \in Senders |-> FALSE]
    /\ log = <<>> /\ got = <<>>

-----------------------------------------------------------------------------
(* Senders: uct_mm_ep_am_common_send() and what calls it. *)

\* The user starts to send its next message, short (inline) or bcopy.
SendNew(s, inline) ==
    /\ pc[s] = "idle" /\ nxt[s] <= MaxMsgs
    /\ cur' = [cur EXCEPT ![s] = [from |-> s, num |-> nxt[s], inline |-> inline]]
    /\ pc' = [pc EXCEPT ![s] = "load"]
    /\ UNCHANGED <<shared, rcvr, hd, hd_armed, cached_tail, group, nxt,
                   in_dispatch, log, got>>

\* The send returned NO_RESOURCE: to the user, or to the dispatch of the
\* arbiter, which keeps the element and reschedules the group.
NoResource(s) ==
    /\ pc' = [pc EXCEPT ![s] = IF in_dispatch[s] THEN "idle" ELSE "nores"]
    /\ in_dispatch' = [in_dispatch EXCEPT ![s] = FALSE]

\* Mutant: the queue of pending messages is not looked at.
LoadHeadIgnoresQueue(s) ==
    /\ pc[s] = "load"
    /\ hd' = [hd EXCEPT ![s] = head]
    /\ hd_armed' = [hd_armed EXCEPT ![s] = armed]
    /\ pc' = [pc EXCEPT ![s] = IF AbleToSend(head, cached_tail[s]) THEN "cas" ELSE "refresh"]
    /\ UNCHANGED <<shared, rcvr, cached_tail, group, cur, nxt, in_dispatch, log, got>>

\* head = fifo_ctl->head, and the test for room with the cached tail.
LoadHead(s) ==
    /\ pc[s] = "load"
    /\ hd' = [hd EXCEPT ![s] = head]
    /\ hd_armed' = [hd_armed EXCEPT ![s] = armed]
    /\ \/ /\ AbleToSend(head, cached_tail[s])
          /\ pc' = [pc EXCEPT ![s] = "cas"]
          /\ UNCHANGED in_dispatch
       \/ /\ ~AbleToSend(head, cached_tail[s])
          /\ group[s] # <<>>
          /\ NoResource(s)
       \/ /\ ~AbleToSend(head, cached_tail[s])
          /\ group[s] = <<>>
          /\ pc' = [pc EXCEPT ![s] = "refresh"]
          /\ UNCHANGED in_dispatch
    /\ UNCHANGED <<shared, rcvr, cached_tail, group, cur, nxt, log, got>>

\* uct_mm_ep_update_cached_tail() and the second test; without room the
\* endpoint puts its own element on its arbiter group.
RefreshTail(s) ==
    /\ pc[s] = "refresh"
    /\ cached_tail' = [cached_tail EXCEPT ![s] = tail]
    /\ \/ /\ AbleToSend(hd[s], tail)
          /\ pc' = [pc EXCEPT ![s] = "cas"]
          /\ UNCHANGED <<group, in_dispatch>>
       \/ /\ ~AbleToSend(hd[s], tail)
          /\ group' = [group EXCEPT ![s] = <<ArbElem>> \o @]
          /\ NoResource(s)
    /\ UNCHANGED <<shared, rcvr, hd, hd_armed, cur, nxt, log, got>>

\* Mutant: an unconditional store instead of the compare-and-swap.
StoreHead(s) ==
    /\ pc[s] = "cas"
    /\ head' = hd[s] + 1 /\ armed' = FALSE
    /\ log' = Append(log, cur[s])
    /\ pc' = [pc EXCEPT ![s] = "write"]
    /\ UNCHANGED <<tail, elems, mem, sig, rcvr, hd, hd_armed, cached_tail,
                   group, cur, nxt, in_dispatch, got>>

\* uct_mm_ep_get_remote_elem(): the swap takes the element and clears the
\* armed bit, or fails because head has changed since it was loaded.
CompareAndSwap(s) ==
    /\ pc[s] = "cas"
    /\ \/ /\ head = hd[s] /\ armed = hd_armed[s]
          /\ head' = head + 1
          /\ armed' = FALSE
          /\ log' = Append(log, cur[s])
          /\ pc' = [pc EXCEPT ![s] = "write"]
       \/ /\ head # hd[s] \/ armed # hd_armed[s]
          /\ pc' = [pc EXCEPT ![s] = "load"]
          /\ UNCHANGED <<head, armed, log>>
    /\ UNCHANGED <<tail, elems, mem, sig, rcvr, hd, hd_armed, cached_tail,
                   group, cur, nxt, in_dispatch, got>>

\* The payload goes into the element, or into the descriptor it points to.
WritePayload(s) ==
    /\ pc[s] = "write"
    /\ LET i == Slot(hd[s]) IN
       IF cur[s].inline
       THEN elems' = [elems EXCEPT ![i].data = cur[s]] /\ UNCHANGED mem
       ELSE mem' = [mem EXCEPT ![elems[i].desc] = cur[s]] /\ UNCHANGED elems
    /\ pc' = [pc EXCEPT ![s] = "publish"]
    /\ UNCHANGED <<head, armed, tail, sig, rcvr, hd, hd_armed, cached_tail,
                   group, cur, nxt, in_dispatch, log, got>>

\* uct_mm_ep_get_remote_seg() fails: the send returns, the element stays taken.
AttachFails(s) ==
    /\ AttachMayFail
    /\ pc[s] = "write" /\ ~cur[s].inline
    /\ pc' = [pc EXCEPT ![s] = "idle"]
    /\ nxt' = [nxt EXCEPT ![s] = IF in_dispatch[s] THEN @ ELSE @ + 1]
    /\ in_dispatch' = [in_dispatch EXCEPT ![s] = FALSE]
    /\ UNCHANGED <<shared, rcvr, hd, hd_armed, cached_tail, group, cur, log, got>>

\* The send returned OK: to the user, or to the dispatch, which removes the
\* element and goes on with the next one of the group.
SendDone(s) ==
    IF in_dispatch[s] THEN
        /\ group' = [group EXCEPT ![s] = Tail(@)]
        /\ pc' = [pc EXCEPT ![s] = IF Tail(group[s]) = <<>> THEN "idle" ELSE "dispatch"]
        /\ in_dispatch' = [in_dispatch EXCEPT ![s] = Tail(group[s]) # <<>>]
        /\ UNCHANGED nxt
    ELSE
        /\ pc' = [pc EXCEPT ![s] = "idle"]
        /\ nxt' = [nxt EXCEPT ![s] = @ + 1]
        /\ UNCHANGED <<group, in_dispatch>>

\* Mutant: the owner bit is not written.
PublishKeepsOwner(s) ==
    /\ pc[s] = "publish"
    /\ elems' = [elems EXCEPT ![Slot(hd[s])].inline = cur[s].inline]
    /\ SendDone(s)
    /\ UNCHANGED <<head, armed, tail, mem, sig, rcvr, hd, hd_armed, cached_tail,
                   cur, log, got>>

\* elem->flags = elem_flags: the owner bit of this lap.
Publish(s) ==
    /\ pc[s] = "publish"
    /\ elems' = [elems EXCEPT ![Slot(hd[s])].owner = OwnerBit(hd[s]),
                              ![Slot(hd[s])].inline = cur[s].inline]
    /\ IF hd_armed[s]
       THEN pc' = [pc EXCEPT ![s] = "signal"] /\ UNCHANGED <<group, nxt, in_dispatch>>
       ELSE SendDone(s)
    /\ UNCHANGED <<head, armed, tail, mem, sig, rcvr, hd, hd_armed, cached_tail,
                   cur, log, got>>

\* uct_mm_ep_signal_remote(): a full socket is ignored.
SignalRemote(s) ==
    /\ pc[s] = "signal"
    /\ sig' = IF sig < SockCap THEN sig + 1 ELSE sig
    /\ SendDone(s)
    /\ UNCHANGED <<head, armed, tail, elems, mem, rcvr, hd, hd_armed, cached_tail,
                   cur, log, got>>

\* The user queues the message that had no resources, or is told to retry
\* because there are resources now.
PendingAdd(s) ==
    /\ pc[s] = "nores"
    /\ pc' = [pc EXCEPT ![s] = "idle"]
    /\ IF AbleToSend(head, cached_tail[s])
       THEN UNCHANGED <<group, nxt>>
       ELSE /\ group' = [group EXCEPT ![s] = Append(@, cur[s])]
            /\ nxt' = [nxt EXCEPT ![s] = @ + 1]
    /\ UNCHANGED <<shared, rcvr, hd, hd_armed, cached_tail, cur, in_dispatch, log, got>>

\* The user does not queue it: it will try again.
GiveUp(s) ==
    /\ pc[s] = "nores"
    /\ pc' = [pc EXCEPT ![s] = "idle"]
    /\ UNCHANGED <<shared, rcvr, hd, hd_armed, cached_tail, group, cur, nxt,
                   in_dispatch, log, got>>

\* uct_mm_iface_progress() of the sender's interface dispatches the arbiter.
StartDispatch(s) ==
    /\ pc[s] = "idle" /\ group[s] # <<>>
    /\ pc' = [pc EXCEPT ![s] = "dispatch"]
    /\ in_dispatch' = [in_dispatch EXCEPT ![s] = TRUE]
    /\ UNCHANGED <<shared, rcvr, hd, hd_armed, cached_tail, group, cur, nxt, log, got>>

\* uct_mm_ep_process_pending(): first the tail is loaded ...
ProcessPending(s) ==
    /\ pc[s] = "dispatch"
    /\ cached_tail' = [cached_tail EXCEPT ![s] = tail]
    /\ pc' = [pc EXCEPT ![s] = "pending"]
    /\ UNCHANGED <<shared, rcvr, hd, hd_armed, group, cur, nxt, in_dispatch, log, got>>

\* ... then head, for the test for room.
ProcessElem(s) ==
    /\ pc[s] = "pending"
    /\ \/ /\ ~AbleToSend(head, cached_tail[s])      \* RESCHED_GROUP
          /\ NoResource(s)
          /\ UNCHANGED <<group, cur>>
       \/ /\ AbleToSend(head, cached_tail[s])
          /\ Head(group[s]) = ArbElem               \* REMOVE_ELEM
          /\ group' = [group EXCEPT ![s] = Tail(@)]
          /\ pc' = [pc EXCEPT ![s] = IF Tail(group[s]) = <<>> THEN "idle" ELSE "dispatch"]
          /\ in_dispatch' = [in_dispatch EXCEPT ![s] = Tail(group[s]) # <<>>]
          /\ UNCHANGED cur
       \/ /\ AbleToSend(head, cached_tail[s])
          /\ Head(group[s]) # ArbElem               \* req->func(req)
          /\ cur' = [cur EXCEPT ![s] = Head(group[s])]
          /\ pc' = [pc EXCEPT ![s] = "load"]
          /\ UNCHANGED <<group, in_dispatch>>
    /\ UNCHANGED <<shared, rcvr, hd, hd_armed, cached_tail, nxt, log, got>>

\* uct_mm_ep_pending_purge()
PendingPurge(s) ==
    /\ pc[s] = "idle" /\ group[s] # <<>>
    /\ group' = [group EXCEPT ![s] = <<>>]
    /\ UNCHANGED <<shared, rcvr, pc, hd, hd_armed, cached_tail, cur, nxt,
                   in_dispatch, log, got>>

\* uct_mm_ep_flush(): its only effect is on the cached tail.
Flush(s) ==
    /\ pc[s] = "idle"
    /\ ~AbleToSend(head, cached_tail[s]) /\ group[s] = <<>>
    /\ cached_tail' = [cached_tail EXCEPT ![s] = tail]
    /\ UNCHANGED <<shared, rcvr, pc, hd, hd_armed, group, cur, nxt, in_dispatch, log, got>>

-----------------------------------------------------------------------------
(* The receiver: uct_mm_iface_progress(), the armed event and its socket. *)

StartProgress ==
    /\ rpc = "idle"
    /\ rpc' = "poll" /\ total' = 0
    /\ UNCHANGED <<shared, sndr, read_index, rhead, fifo_poll_count,
                   fifo_prev_wnd_cons, may_arm, last_recv_desc, free, held, log, got>>

\* uct_mm_iface_fifo_has_new_data()
HasNewData == elems[Slot(read_index)].owner = OwnerBit(read_index)

\* uct_mm_iface_fifo_window_adjust() with the number of elements that were read
WindowAdjust(n) ==
    IF n < fifo_poll_count THEN
        /\ fifo_poll_count' = IF fifo_poll_count > 1 THEN fifo_poll_count \div 2 ELSE 1
        /\ fifo_prev_wnd_cons' = FALSE
    ELSE
        /\ fifo_poll_count' = IF fifo_prev_wnd_cons /\ fifo_poll_count < MaxPoll
                              THEN fifo_poll_count + 1 ELSE fifo_poll_count
        /\ fifo_prev_wnd_cons' = TRUE

\* uct_mm_iface_poll_fifo(): the owner bit.
PollFifo ==
    /\ rpc = "poll"
    /\ \/ /\ HasNewData
          /\ rpc' = "read"
          /\ UNCHANGED <<fifo_poll_count, fifo_prev_wnd_cons, may_arm>>
       \/ /\ ~HasNewData
          /\ rpc' = "idle"
          /\ WindowAdjust(total)
          /\ may_arm' = (total = 0)
    /\ UNCHANGED <<shared, sndr, read_index, rhead, total, last_recv_desc, free,
                   held, log, got>>

\* The part of uct_mm_iface_poll_fifo() that all kinds of messages share.
AdvanceRead(m) ==
    /\ got' = Append(got, m)
    /\ read_index' = read_index + 1
    /\ rpc' = "tail"
    /\ UNCHANGED <<sndr, head, armed, tail, mem, sig, rhead, total, fifo_poll_count,
                   fifo_prev_wnd_cons, may_arm, log>>

\* uct_mm_iface_process_recv() of an inline message.
ReadShort ==
    /\ rpc = "read" /\ elems[Slot(read_index)].inline
    /\ AdvanceRead(elems[Slot(read_index)].data)
    /\ UNCHANGED <<elems, last_recv_desc, free, held>>

\* The spare descriptor is missing and cannot be had: the handler is not called.
ReadBcopyNoDesc ==
    /\ rpc = "read" /\ ~elems[Slot(read_index)].inline
    /\ last_recv_desc = NoDesc /\ free = {}
    /\ AdvanceRead(Lost)
    /\ UNCHANGED <<elems, last_recv_desc, free, held>>

\* Mutant: the element keeps the descriptor that the user keeps.
ReadBcopyShared(keep) ==
    /\ rpc = "read" /\ ~elems[Slot(read_index)].inline
    /\ LET d == elems[Slot(read_index)].desc IN
       /\ AdvanceRead(mem[d])
       /\ held' = IF keep THEN held \cup {[desc |-> d, msg |-> mem[d]]} ELSE held
    /\ UNCHANGED <<elems, last_recv_desc, free>>

\* A message in a descriptor.  The handler is done with it (keep = FALSE), or
\* keeps the descriptor and the element gets the spare one.
ReadBcopy(keep) ==
    /\ rpc = "read" /\ ~elems[Slot(read_index)].inline
    /\ last_recv_desc # NoDesc \/ free # {}
    /\ \E spare \in IF last_recv_desc = NoDesc THEN free ELSE {last_recv_desc} :
       LET i     == Slot(read_index)
           d     == elems[i].desc
           free2 == free \ {spare}
       IN
       /\ AdvanceRead(mem[d])
       /\ IF keep THEN
             /\ held' = held \cup {[desc |-> d, msg |-> mem[d]]}
             /\ elems' = [elems EXCEPT ![i].desc = spare]
             /\ \E n \in free2 \cup {NoDesc} :
                   /\ n = NoDesc <=> free2 = {}
                   /\ last_recv_desc' = n
                   /\ free' = free2 \ {n}
          ELSE
             /\ last_recv_desc' = spare
             /\ free' = free2
             /\ UNCHANGED <<held, elems>>

\* Mutant: the batch is larger than the FIFO.
ProgressTailTooLate ==
    /\ rpc = "tail"
    /\ tail' = IF read_index % (2 * FifoSize) = 0 THEN read_index ELSE tail
    /\ total' = total + 1
    /\ IF total + 1 < fifo_poll_count
       THEN rpc' = "poll" /\ UNCHANGED <<fifo_poll_count, fifo_prev_wnd_cons>>
       ELSE rpc' = "idle" /\ WindowAdjust(total + 1)
    /\ may_arm' = FALSE
    /\ UNCHANGED <<sndr, head, armed, elems, mem, sig, read_index, rhead,
                   last_recv_desc, free, held, log, got>>

\* uct_mm_progress_fifo_tail() and the condition of the progress loop.
ProgressTail ==
    /\ rpc = "tail"
    /\ tail' = IF read_index % ReleaseBatch = 0 THEN read_index ELSE tail
    /\ total' = total + 1
    /\ IF total + 1 < fifo_poll_count
       THEN rpc' = "poll" /\ UNCHANGED <<fifo_poll_count, fifo_prev_wnd_cons>>
       ELSE rpc' = "idle" /\ WindowAdjust(total + 1)
    /\ may_arm' = FALSE
    /\ UNCHANGED <<sndr, head, armed, elems, mem, sig, read_index, rhead,
                   last_recv_desc, free, held, log, got>>

\* uct_mm_iface_release_desc(): the user returns a descriptor it kept.
ReleaseDesc(h) ==
    /\ h \in held
    /\ held' = held \ {h}
    /\ free' = free \cup {h.desc}
    /\ UNCHANGED <<shared, sndr, read_index, rpc, rhead, total, fifo_poll_count,
                   fifo_prev_wnd_cons, may_arm, last_recv_desc, log, got>>

\* uct_mm_iface_event_fd_arm(): load head; BUSY if it has unread elements ...
EventArm ==
    /\ UsesEvents /\ rpc = "idle" /\ may_arm
    /\ \/ /\ head > read_index
          /\ may_arm' = FALSE
          /\ UNCHANGED <<rpc, rhead>>
       \/ /\ head <= read_index
          /\ rpc' = IF armed THEN "arm_recv" ELSE "arm_cas"
          /\ rhead' = head
          /\ UNCHANGED may_arm
    /\ UNCHANGED <<shared, sndr, read_index, total, fifo_poll_count,
                   fifo_prev_wnd_cons, last_recv_desc, free, held, log, got>>

\* Mutant: the armed bit is set whatever head is by now.
ArmAlways ==
    /\ rpc = "arm_cas"
    /\ armed' = TRUE
    /\ rpc' = "arm_recv"
    /\ UNCHANGED <<head, tail, elems, mem, sig, sndr, read_index, rhead, total, may_arm,
                   fifo_poll_count, fifo_prev_wnd_cons, last_recv_desc, free, held, log, got>>

\* ... swap in the armed bit; BUSY if a sender was faster ...
ArmCompareAndSwap ==
    /\ rpc = "arm_cas"
    /\ \/ /\ head = rhead /\ ~armed
          /\ armed' = TRUE
          /\ rpc' = "arm_recv"
          /\ UNCHANGED may_arm
       \/ /\ head # rhead \/ armed
          /\ rpc' = "idle" /\ may_arm' = FALSE
          /\ UNCHANGED armed
    /\ UNCHANGED <<head, tail, elems, mem, sig, sndr, read_index, rhead, total,
                   fifo_poll_count, fifo_prev_wnd_cons, last_recv_desc, free, held, log, got>>

\* ... and BUSY if a signal is queued; the user sleeps otherwise.
ArmReceive ==
    /\ rpc = "arm_recv"
    /\ \/ /\ sig > 0
          /\ sig' = sig - 1
          /\ rpc' = "idle" /\ may_arm' = FALSE
       \/ /\ sig = 0
          /\ rpc' = "sleep"
          /\ UNCHANGED <<sig, may_arm>>
    /\ UNCHANGED <<head, armed, tail, elems, mem, sndr, read_index, rhead, total,
                   fifo_poll_count, fifo_prev_wnd_cons, last_recv_desc, free, held, log, got>>

\* The event file descriptor is readable.
WakeUp ==
    /\ rpc = "sleep" /\ sig > 0
    /\ rpc' = "idle" /\ may_arm' = FALSE
    /\ UNCHANGED <<shared, sndr, read_index, rhead, total, fifo_poll_count,
                   fifo_prev_wnd_cons, last_recv_desc, free, held, log, got>>

-----------------------------------------------------------------------------
\* The steps of a send or of a dispatch that has begun.
SenderStep(s) ==
    \/ LoadHead(s) \/ RefreshTail(s) \/ CompareAndSwap(s) \/ WritePayload(s)
    \/ Publish(s) \/ SignalRemote(s) \/ ProcessPending(s) \/ ProcessElem(s)

SenderUser(s) ==
    \/ \E inline \in Inlines : SendNew(s, inline)
    \/ PendingAdd(s) \/ GiveUp(s) \/ StartDispatch(s)
    \/ PendingPurge(s) \/ Flush(s) \/ AttachFails(s)

ReceiverStep ==
    \/ PollFifo \/ ReadShort \/ ReadBcopyNoDesc \/ (\E keep \in BOOLEAN : ReadBcopy(keep))
    \/ ProgressTail \/ ArmCompareAndSwap \/ ArmReceive \/ WakeUp

ReceiverUser == StartProgress \/ EventArm \/ \E h \in held : ReleaseDesc(h)

Next ==
    \/ \E s \in Senders : SenderStep(s) \/ SenderUser(s)
    \/ ReceiverStep
    \/ ReceiverUser

Spec == Init /\ [][Next]_vars

\* A process that has begun a send, a dispatch or a poll runs on; a user that was
\* told NO_RESOURCE reacts to it; a user whose
\* FIFO is awake calls progress, and one with queued messages does so again and
\* again, whatever else it tries in between.
Fairness ==
    /\ \A s \in Senders : /\ WF_vars(SenderStep(s))
                           /\ WF_vars(PendingAdd(s) \/ GiveUp(s))
                           /\ SF_vars(StartDispatch(s))
    /\ WF_vars(ReceiverStep) /\ WF_vars(StartProgress)

FairSpec == Spec /\ Fairness

-----------------------------------------------------------------------------
SharedOK ==
    /\ head \in Nat /\ armed \in BOOLEAN /\ tail \in Nat /\ sig \in 0 .. SockCap
    /\ elems \in [0 .. FifoSize - 1 -> [owner : {0, 1}, inline : BOOLEAN,
                                        data : Msg \cup {NoMsg}, desc : Descs]]
    /\ mem \in [Descs -> Msg \cup {NoMsg}]

ReceiverOK ==
    /\ read_index \in Nat /\ rhead \in Nat
    /\ rpc \in {"idle", "poll", "read", "tail", "arm_cas", "arm_recv", "sleep"}
    /\ fifo_poll_count \in 1 .. MaxPoll /\ total \in 0 .. MaxPoll
    /\ fifo_prev_wnd_cons \in BOOLEAN /\ may_arm \in BOOLEAN
    /\ last_recv_desc \in Descs \cup {NoDesc} /\ free \subseteq Descs
    /\ held \subseteq [desc : Descs, msg : Msg \cup {NoMsg}]

SendersOK ==
    /\ pc \in [Senders -> {"idle", "load", "refresh", "cas", "write", "publish",
                           "signal", "nores", "dispatch", "pending"}]
    /\ hd \in [Senders -> Nat] /\ hd_armed \in [Senders -> BOOLEAN]
    /\ cached_tail \in [Senders -> Nat]
    /\ group \in [Senders -> Seq(Msg \cup {ArbElem})]
    /\ cur \in [Senders -> Msg \cup {NoMsg}] /\ nxt \in [Senders -> 1 .. MaxMsgs + 1]
    /\ in_dispatch \in [Senders -> BOOLEAN]

HistoryOK == log \in Seq(Msg) /\ got \in Seq(Msg \cup {NoMsg, Lost})

\* The variables of uct_mm_fifo_ctl_t, uct_mm_iface_t and uct_mm_ep_t have their types;
\* the polling window stays between its minimum and its maximum.
TypeOK == SharedOK /\ ReceiverOK /\ SendersOK /\ HistoryOK

\* What is read at an index is the message whose sender took that index, whole:
\* never the previous lap's payload, a half written one or another sender's.
ReadsWhatWasTaken == \A i \in 1 .. Len(got) : got[i] \in {log[i], Lost}

\* The FIFO implements the bounded queue of MpscQueue: the compare-and-swap of
\* get_remote_elem takes a place, the poll of the receiver reads one.
Queue == INSTANCE MpscQueue WITH Values <- Msg, Capacity <- FifoSize
ImplementsQueue == Queue!Spec

\* A sender writes into an element only while nobody else does and after the
\* receiver has read the previous lap's message out of it.
WriterOwnsElement ==
    \A s \in Senders : pc[s] \in {"write", "publish"} =>
        /\ hd[s] >= read_index /\ hd[s] < read_index + FifoSize
        /\ \A t \in Senders \ {s} :
              pc[t] \in {"write", "publish"} => Slot(hd[t]) # Slot(hd[s])

\* The assert of poll_fifo: an element that looks new was taken by a sender.
NewDataWasTaken == rpc \in {"poll", "read"} /\ HasNewData => read_index < head

\* Every element that was taken is published or is about to be: no sender failed
\* to attach the memory of a descriptor.
NoneAbandoned ==
    \A i \in read_index .. head - 1 :
        \/ elems[Slot(i)].owner = OwnerBit(i)
        \/ \E s \in Senders : pc[s] \in {"write", "publish"} /\ hd[s] = i

\* "don't send now to prevent out-of-order sending": the messages of one
\* endpoint take their places in the order in which the user sent them.
EndpointOrder ==
    NoneAbandoned =>
        \A i, j \in 1 .. Len(log) :
            i < j /\ log[i].from = log[j].from => log[i].num < log[j].num

\* A receive descriptor is in exactly one place: attached to one FIFO element,
\* the spare one, kept by the user or in the memory pool.
DescInOnePlace ==
    LET attached == {elems[i].desc : i \in DOMAIN elems}
        kept     == {h.desc : h \in held}
    IN  /\ \A i, j \in DOMAIN elems : elems[i].desc = elems[j].desc => i = j
        /\ \A g, h \in held : g.desc = h.desc => g = h
        /\ attached \cap kept = {} /\ attached \cap free = {} /\ kept \cap free = {}
        /\ last_recv_desc \notin attached \cup kept \cup free
        /\ Descs = attached \cup kept \cup free \cup ({last_recv_desc} \ {NoDesc})

\* A message that the user keeps is not overwritten by later senders.
KeptMessageStable == \A h \in held : mem[h.desc] = h.msg

\* No lost wake-up: a receiver that sleeps although there is something to read
\* has a signal waiting, or the sender that took the armed head will send one.
NoLostWakeup ==
    rpc = "sleep" /\ HasNewData =>
        \/ sig > 0
        \/ \E s \in Senders : hd_armed[s] /\ pc[s] \in {"write", "publish", "signal"}

\* Everything that was sent is read in the end.
EverythingRead == <>[](read_index = head)

\* A queue of pending messages drains once there is room: it is not forgotten.
PendingDrains == \A s \in Senders : group[s] # <<>> ~> group[s] = <<>>
=============================================================================
