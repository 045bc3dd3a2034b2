---------------------------- MODULE MmFifoProofs ----------------------------
(***************************************************************************)
(* The types of MmFifo, that what the receiver reads is what was sent and  *)
(* receive descriptors have one owner (the inductive invariant of the FIFO), *)
(* and that it implements the queue of MpscQueue, for any number of senders, *)
(* any FIFO size, any release batch and any number of messages.            *)
(***************************************************************************)
EXTENDS MmFifo, TLAPS

(* Facts about % and \div by a variable divisor. *)

\* The remainder and the quotient are determined by the division equation.
LEMMA ModUnique ==
    ASSUME NEW M \in Nat, M > 0, NEW x \in Int, NEW q \in Int,
           NEW r \in 0 .. M - 1, x = M * q + r
    PROVE  x % M = r /\ x \div M = q
  OBVIOUS

\* The division equation holds.
LEMMA DivMod ==
    ASSUME NEW M \in Nat, M > 0, NEW x \in Int
    PROVE  /\ x \div M \in Int
           /\ x % M \in 0 .. M - 1
           /\ x = M * (x \div M) + (x % M)
  OBVIOUS

\* A positive multiple of M is not between 0 and M.
LEMMA NoMultipleBetween ==
    ASSUME NEW M \in Nat, M > 0, NEW k \in Int, M * k > 0
    PROVE  M * k >= M
<1>1. CASE k <= 0
  BY <1>1
<1>2. CASE k >= 1
  BY <1>2
<1> QED
  BY <1>1, <1>2

\* Two numbers less than M apart have different remainders.
LEMMA ModDistinct ==
    ASSUME NEW M \in Nat, M > 0, NEW i \in Int, NEW j \in Int, i < j, j < i + M
    PROVE  i % M # j % M
<1> DEFINE qi == i \div M
           ri == i % M
           qj == j \div M
           rj == j % M
<1>1. qi \in Int /\ ri \in Int /\ i = M * qi + ri
  BY DivMod
<1>2. qj \in Int /\ rj \in Int /\ j = M * qj + rj
  BY DivMod
<1> HIDE DEF qi, ri, qj, rj
<1>3. SUFFICES ASSUME ri = rj PROVE FALSE
  BY Zenon DEF ri, rj
<1>4. j - i = M * qj - M * qi
  BY <1>1, <1>2, <1>3
<1>5. M * qj - M * qi = M * (qj - qi)
  BY <1>1, <1>2
<1> DEFINE k == qj - qi
<1>6. k \in Int /\ M * k = j - i
  BY <1>1, <1>2, <1>4, <1>5
<1> HIDE DEF k
<1>7. M * k >= M
  BY <1>6, NoMultipleBetween
<1> QED
  BY <1>6, <1>7

\* Adding M keeps the remainder and adds one to the quotient.
LEMMA ModPlus ==
    ASSUME NEW M \in Nat, M > 0, NEW i \in Int
    PROVE  (i + M) % M = i % M /\ (i + M) \div M = (i \div M) + 1
<1> DEFINE q == i \div M
           r == i % M
           x == i + M
<1>1. q \in Int /\ r \in 0 .. M - 1 /\ i = M * q + r
  BY DivMod, Zenon
<1>2. x \in Int
  OBVIOUS
<1> HIDE DEF q, r
<1>3. M * (q + 1) = M * q + M
  BY <1>1
<1>4. x = M * (q + 1) + r
  BY <1>1, <1>3
<1> HIDE DEF x
<1>5. x % M = r /\ x \div M = q + 1
  BY <1>1, <1>2, <1>4, ModUnique
<1> QED
  BY <1>5, Zenon DEF x, q, r

-----------------------------------------------------------------------------
\* The program points of a send that has begun and not returned to the user.
Sending == {"load", "refresh", "cas", "write", "publish", "signal", "nores"}

\* A send has a message; a dispatch has a group to dispatch.
SenderControl ==
    \A s \in Senders :
        /\ pc[s] \in Sending => cur[s] \in Msg
        /\ pc[s] \in Sending /\ ~in_dispatch[s] => nxt[s] <= MaxMsgs
        /\ pc[s] \in {"dispatch", "pending"} => in_dispatch[s]
        /\ in_dispatch[s] => pc[s] \notin {"idle", "nores"} /\ group[s] # <<>>

\* Progress that goes on has not used up its window.
ReceiverControl == rpc \in {"poll", "read", "tail"} => total < fifo_poll_count

TypeInv == TypeOK /\ SenderControl /\ ReceiverControl

-----------------------------------------------------------------------------
(* Sequences. *)

\* The length and the elements of a sequence with one element appended.
LEMMA AppendFacts ==
    ASSUME NEW S, NEW q \in Seq(S), NEW x \in S
    PROVE  /\ Append(q, x) \in Seq(S)
           /\ Len(Append(q, x)) = Len(q) + 1
           /\ Append(q, x)[Len(q) + 1] = x
           /\ \A i \in 1 .. Len(q) : Append(q, x)[i] = q[i]
  OBVIOUS

\* One element put in front of a sequence.
LEMMA PushHead ==
    ASSUME NEW S, NEW q \in Seq(S), NEW x \in S
    PROVE  <<x>> \o q \in Seq(S)
  OBVIOUS

\* The head and the tail of a sequence that is not empty.
LEMMA HeadTail ==
    ASSUME NEW S, NEW q \in Seq(S), q # <<>>
    PROVE  Head(q) \in S /\ Tail(q) \in Seq(S)
  OBVIOUS

-----------------------------------------------------------------------------
(* The operators of MmFifo. *)

\* An index has a slot of the FIFO, and an owner bit.
LEMMA SlotType ==
    ASSUME NEW i \in Nat
    PROVE  Slot(i) \in 0 .. FifoSize - 1 /\ OwnerBit(i) \in {0, 1}
<1>1. FifoSize \in Nat /\ FifoSize > 0
  BY MmFifoAssumption
<1>2. i % FifoSize \in 0 .. FifoSize - 1 /\ i \div FifoSize \in Int
  BY <1>1, DivMod
<1>3. (i \div FifoSize) % 2 \in 0 .. 1
  BY <1>2
<1> QED
  BY <1>2, <1>3 DEF Slot, OwnerBit

\* The tail of a group is a group.
LEMMA GroupTail ==
    ASSUME NEW g \in Seq(Msg \cup {ArbElem}), g # <<>>
    PROVE  Tail(g) \in Seq(Msg \cup {ArbElem}) /\ Head(g) \in Msg \cup {ArbElem}
  BY HeadTail, Zenon

\* The return from a send keeps the types of the sender.
LEMMA SendDoneType ==
    ASSUME NEW s \in Senders, SendersOK, SenderControl, pc[s] \in {"publish", "signal"},
           SendDone(s), UNCHANGED <<hd, hd_armed, cached_tail, cur>>
    PROVE  SendersOK' /\ SenderControl'
<1>1. CASE in_dispatch[s]
  <2>1. Tail(group[s]) \in Seq(Msg \cup {ArbElem})
    BY <1>1, GroupTail, Zenon DEF SendersOK, SenderControl
  <2> DEFINE more == Tail(group[s]) # <<>>
  <2>2. /\ group' = [group EXCEPT ![s] = Tail(group[s])]
        /\ pc' = [pc EXCEPT ![s] = IF more THEN "dispatch" ELSE "idle"]
        /\ in_dispatch' = [in_dispatch EXCEPT ![s] = more]
        /\ UNCHANGED nxt
    BY <1>1, Zenon DEF SendDone
  <2>3. more \in BOOLEAN
    BY Zenon
  <2>4. SendersOK'
    BY <2>1, <2>2, <2>3, Zenon DEF SendersOK
  <2>5. SenderControl'
    <3>1. CASE more
      BY <2>1, <2>2, <3>1, Zenon DEF SendersOK, SenderControl, Sending
    <3>2. CASE ~more
      BY <2>1, <2>2, <3>2, Zenon DEF SendersOK, SenderControl, Sending
    <3> QED
      BY <3>1, <3>2, Zenon
  <2> QED
    BY <2>4, <2>5, Zenon
<1>2. CASE ~in_dispatch[s]
  <2>1. /\ pc' = [pc EXCEPT ![s] = "idle"]
        /\ nxt' = [nxt EXCEPT ![s] = nxt[s] + 1]
        /\ UNCHANGED <<group, in_dispatch>>
    BY <1>2, Zenon DEF SendDone
  <2>2. nxt[s] + 1 \in 1 .. MaxMsgs + 1
    BY <1>2, MmFifoAssumption DEF SendersOK, SenderControl, Sending
  <2> QED
    BY <1>2, <2>1, <2>2, Zenon DEF SendersOK, SenderControl, Sending
<1> QED
  BY <1>1, <1>2, Zenon

\* The window adjustment keeps the window between its bounds.
LEMMA WindowAdjustType ==
    ASSUME NEW n \in Nat, fifo_poll_count \in 1 .. MaxPoll, WindowAdjust(n)
    PROVE  fifo_poll_count' \in 1 .. MaxPoll /\ fifo_prev_wnd_cons' \in BOOLEAN
<1>1. fifo_poll_count' \in 1 .. MaxPoll
  BY MmFifoAssumption DEF WindowAdjust
<1>2. fifo_prev_wnd_cons' \in BOOLEAN
  BY Zenon DEF WindowAdjust
<1> QED
  BY <1>1, <1>2, Zenon

-----------------------------------------------------------------------------
(* Type correctness. *)

\* The initial state has the types.
LEMMA TypeInit == Init => TypeInv
<1> SUFFICES ASSUME Init PROVE TypeInv
  BY Zenon
<1>1. SharedOK
  <2>1. head \in Nat /\ tail \in Nat /\ sig \in 0 .. SockCap
    BY MmFifoAssumption DEF Init
  <2>5. armed \in BOOLEAN
    BY Zenon DEF Init
  <2>2. ASSUME NEW i \in 0 .. FifoSize - 1 PROVE InitDesc[i] \in Descs
    BY <2>2, MmFifoAssumption, Zenon
  <2>3. elems \in [0 .. FifoSize - 1 -> [owner : {0, 1}, inline : BOOLEAN,
                                         data : Msg \cup {NoMsg}, desc : Descs]]
    BY <2>2, Zenon DEF Init
  <2>4. mem \in [Descs -> Msg \cup {NoMsg}]
    BY Zenon DEF Init
  <2> QED
    BY <2>1, <2>5, <2>3, <2>4, Zenon DEF SharedOK
<1>2. ReceiverOK
  <2>1. /\ read_index \in Nat /\ rhead \in Nat /\ rpc = "idle"
        /\ fifo_poll_count \in 1 .. MaxPoll /\ total \in 0 .. MaxPoll
    BY MmFifoAssumption DEF Init
  <2>2. fifo_prev_wnd_cons \in BOOLEAN /\ may_arm \in BOOLEAN
    BY Zenon DEF Init
  <2>3. /\ last_recv_desc \in Descs \cup {NoDesc} /\ free \subseteq Descs
        /\ held \subseteq [desc : Descs, msg : Msg \cup {NoMsg}]
    BY MmFifoAssumption, Zenon DEF Init
  <2> QED
    BY <2>1, <2>2, <2>3, Zenon DEF ReceiverOK
<1>3. SendersOK
  BY MmFifoAssumption DEF Init, SendersOK
<1>4. HistoryOK
  BY DEF Init, HistoryOK
<1>5. SenderControl /\ ReceiverControl
  BY Zenon DEF Init, SenderControl, ReceiverControl, Sending
<1> QED
  BY <1>1, <1>2, <1>3, <1>4, <1>5, Zenon DEF TypeInv, TypeOK

\* Every step keeps the types.
LEMMA TypeStep == TypeInv /\ [Next]_vars => TypeInv'
<1> SUFFICES ASSUME TypeInv, [Next]_vars PROVE TypeInv'
  BY Zenon
<1>t. SharedOK /\ ReceiverOK /\ SendersOK /\ HistoryOK /\ SenderControl /\ ReceiverControl
  BY Zenon DEF TypeInv, TypeOK
<1>1. ASSUME NEW s \in Senders, NEW inline \in Inlines, SendNew(s, inline) PROVE TypeInv'
  <2>1. SharedOK' /\ ReceiverOK' /\ HistoryOK' /\ ReceiverControl'
    BY <1>t, <1>1, Zenon DEF SendNew, SharedOK, ReceiverOK, HistoryOK, ReceiverControl, shared, rcvr
  <2> DEFINE m == [from |-> s, num |-> nxt[s], inline |-> inline]
  <2>2. m \in Msg
    BY <1>t, <1>1, MmFifoAssumption DEF SendNew, SendersOK, Msg
  <2>3. /\ cur' = [cur EXCEPT ![s] = m] /\ pc' = [pc EXCEPT ![s] = "load"]
        /\ nxt[s] <= MaxMsgs
        /\ UNCHANGED <<hd, hd_armed, cached_tail, group, nxt, in_dispatch>>
    BY <1>1, Zenon DEF SendNew
  <2> HIDE DEF m
  <2>4. SendersOK'
    BY <1>t, <2>2, <2>3, Zenon DEF SendersOK
  <2>5. SenderControl'
    BY <1>t, <1>1, <2>2, <2>3, Zenon DEF SendNew, SendersOK, SenderControl, Sending
  <2> QED
    BY <2>1, <2>4, <2>5, Zenon DEF TypeInv, TypeOK
<1>2. ASSUME NEW s \in Senders, LoadHead(s) PROVE TypeInv'
  <2>1. SharedOK' /\ ReceiverOK' /\ HistoryOK' /\ ReceiverControl'
    BY <1>t, <1>2, Zenon DEF LoadHead, NoResource, SharedOK, ReceiverOK, HistoryOK, ReceiverControl, shared, rcvr
  <2>2. SendersOK'
    <3>1. hd_armed' \in [Senders -> BOOLEAN]
      BY <1>t, <1>2, Zenon DEF LoadHead, SendersOK, SharedOK
    <3>2. in_dispatch' \in [Senders -> BOOLEAN]
      BY <1>t, <1>2, Zenon DEF LoadHead, NoResource, SendersOK
    <3>3. hd' \in [Senders -> Nat]
      BY <1>t, <1>2, Zenon DEF LoadHead, SendersOK, SharedOK
    <3>4. pc' \in [Senders -> {"idle", "load", "refresh", "cas", "write", "publish",
                               "signal", "nores", "dispatch", "pending"}]
      BY <1>t, <1>2, Zenon DEF LoadHead, NoResource, SendersOK
    <3>5. UNCHANGED <<cached_tail, group, cur, nxt>>
      BY <1>2, Zenon DEF LoadHead
    <3> QED
      BY <1>t, <3>1, <3>2, <3>3, <3>4, <3>5, Zenon DEF SendersOK
  <2>3. SenderControl'
    BY <1>t, <1>2 DEF LoadHead, NoResource, SendersOK, SenderControl, Sending
  <2> QED
    BY <2>1, <2>2, <2>3, Zenon DEF TypeInv, TypeOK
<1>3. ASSUME NEW s \in Senders, RefreshTail(s) PROVE TypeInv'
  <2>1. SharedOK' /\ ReceiverOK' /\ HistoryOK' /\ ReceiverControl'
    BY <1>t, <1>3, Zenon DEF RefreshTail, SharedOK, ReceiverOK, HistoryOK, ReceiverControl, shared, rcvr
  <2>2. <<ArbElem>> \o group[s] \in Seq(Msg \cup {ArbElem})
    BY <1>t, PushHead, Zenon DEF SendersOK
  <2>3. SendersOK'
    <3>1. group' \in [Senders -> Seq(Msg \cup {ArbElem})]
      BY <1>t, <1>3, <2>2, Zenon DEF RefreshTail, SendersOK
    <3>2. in_dispatch' \in [Senders -> BOOLEAN]
      BY <1>t, <1>3, Zenon DEF RefreshTail, NoResource, SendersOK
    <3>3. cached_tail' \in [Senders -> Nat]
      BY <1>t, <1>3, Zenon DEF RefreshTail, SendersOK, SharedOK
    <3>4. pc' \in [Senders -> {"idle", "load", "refresh", "cas", "write", "publish",
                               "signal", "nores", "dispatch", "pending"}]
      BY <1>t, <1>3, Zenon DEF RefreshTail, NoResource, SendersOK
    <3>5. UNCHANGED <<hd, hd_armed, cur, nxt>>
      BY <1>3, Zenon DEF RefreshTail
    <3> QED
      BY <1>t, <3>1, <3>2, <3>3, <3>4, <3>5, Zenon DEF SendersOK
  <2>4. SenderControl'
    BY <1>t, <1>3 DEF RefreshTail, NoResource, SendersOK, SenderControl, Sending
  <2> QED
    BY <2>1, <2>3, <2>4, Zenon DEF TypeInv, TypeOK
<1>4. ASSUME NEW s \in Senders, CompareAndSwap(s) PROVE TypeInv'
  <2>1. ReceiverOK' /\ ReceiverControl'
    BY <1>t, <1>4, Zenon DEF CompareAndSwap, ReceiverOK, ReceiverControl, rcvr
  <2>2. head' \in Nat
    BY <1>t, <1>4 DEF CompareAndSwap, SharedOK
  <2>3. armed' \in BOOLEAN
    BY <1>t, <1>4, Zenon DEF CompareAndSwap, SharedOK
  <2>4. UNCHANGED <<tail, sig, elems, mem>>
    BY <1>4, Zenon DEF CompareAndSwap
  <2>5. SharedOK'
    BY <1>t, <2>2, <2>3, <2>4, Zenon DEF SharedOK
  <2>6. SendersOK' /\ SenderControl'
    BY <1>t, <1>4, Zenon DEF CompareAndSwap, SendersOK, SenderControl, Sending
  <2>7. cur[s] \in Msg
    BY <1>t, <1>4, Zenon DEF CompareAndSwap, SenderControl, Sending
  <2>8. log' \in {log, Append(log, cur[s])} /\ got' = got
    BY <1>4, Zenon DEF CompareAndSwap
  <2>9. HistoryOK'
    BY <1>t, <2>7, <2>8, AppendFacts DEF HistoryOK
  <2> QED
    BY <2>1, <2>5, <2>6, <2>9, Zenon DEF TypeInv, TypeOK
<1>5. ASSUME NEW s \in Senders, WritePayload(s) PROVE TypeInv'
  <2>1. ReceiverOK' /\ ReceiverControl' /\ HistoryOK'
    BY <1>t, <1>5, Zenon DEF WritePayload, ReceiverOK, ReceiverControl, HistoryOK, rcvr
  <2>2. cur[s] \in Msg
    BY <1>t, <1>5, Zenon DEF WritePayload, SenderControl, Sending
  <2>3. Slot(hd[s]) \in 0 .. FifoSize - 1
    BY <1>t, SlotType, Zenon DEF SendersOK
  <2>4. SharedOK'
    <3>1. UNCHANGED <<head, armed, tail, sig>>
      BY <1>5, Zenon DEF WritePayload
    <3>2. CASE cur[s].inline
      <4>1. elems' = [elems EXCEPT ![Slot(hd[s])].data = cur[s]] /\ mem' = mem
        BY <1>5, <3>2, Zenon DEF WritePayload
      <4> QED
        BY <1>t, <2>2, <2>3, <3>1, <4>1, Zenon DEF SharedOK
    <3>3. CASE ~cur[s].inline
      <4>1. mem' = [mem EXCEPT ![elems[Slot(hd[s])].desc] = cur[s]] /\ elems' = elems
        BY <1>5, <3>3, Zenon DEF WritePayload
      <4> QED
        BY <1>t, <2>2, <2>3, <3>1, <4>1, Zenon DEF SharedOK
    <3> QED
      BY <3>2, <3>3, Zenon
  <2>5. SendersOK' /\ SenderControl'
    BY <1>t, <1>5, Zenon DEF WritePayload, SendersOK, SenderControl, Sending
  <2> QED
    BY <2>1, <2>4, <2>5, Zenon DEF TypeInv, TypeOK
<1>6. ASSUME NEW s \in Senders, AttachFails(s) PROVE TypeInv'
  <2>1. SharedOK' /\ ReceiverOK' /\ HistoryOK' /\ ReceiverControl'
    BY <1>t, <1>6, Zenon DEF AttachFails, SharedOK, ReceiverOK, HistoryOK, ReceiverControl, shared, rcvr
  <2>2. SendersOK'
    <3>1. nxt' \in [Senders -> 1 .. MaxMsgs + 1]
      BY <1>t, <1>6, MmFifoAssumption DEF AttachFails, SendersOK, SenderControl, Sending
    <3>2. pc' = [pc EXCEPT ![s] = "idle"] /\ in_dispatch' = [in_dispatch EXCEPT ![s] = FALSE]
          /\ UNCHANGED <<hd, hd_armed, cached_tail, group, cur>>
      BY <1>6, Zenon DEF AttachFails
    <3> QED
      BY <1>t, <3>1, <3>2, Zenon DEF SendersOK
  <2>3. SenderControl'
    BY <1>t, <1>6, Zenon DEF AttachFails, SendersOK, SenderControl, Sending
  <2> QED
    BY <2>1, <2>2, <2>3, Zenon DEF TypeInv, TypeOK
<1>7. ASSUME NEW s \in Senders, Publish(s) PROVE TypeInv'
  <2>1. ReceiverOK' /\ ReceiverControl' /\ HistoryOK'
    BY <1>t, <1>7, Zenon DEF Publish, ReceiverOK, ReceiverControl, HistoryOK, rcvr
  <2>2. cur[s].inline \in BOOLEAN
    BY <1>t, <1>7, Zenon DEF Publish, SenderControl, Sending, Msg
  <2>3. Slot(hd[s]) \in 0 .. FifoSize - 1 /\ OwnerBit(hd[s]) \in {0, 1}
    BY <1>t, SlotType, Zenon DEF SendersOK
  <2>4. SharedOK'
    <3>1. /\ UNCHANGED <<head, armed, tail, sig, mem>>
          /\ elems' = [elems EXCEPT ![Slot(hd[s])].owner = OwnerBit(hd[s]),
                                    ![Slot(hd[s])].inline = cur[s].inline]
      BY <1>7, Zenon DEF Publish
    <3> QED
      BY <1>t, <2>2, <2>3, <3>1, Zenon DEF SharedOK
  <2>5. SendersOK' /\ SenderControl'
    <3>1. CASE hd_armed[s]
      BY <1>t, <1>7, <3>1, ZenonT(30) DEF Publish, SendersOK, SenderControl, Sending
    <3>2. CASE ~hd_armed[s]
      BY <1>t, <1>7, <3>2, SendDoneType, Zenon DEF Publish
    <3> QED
      BY <3>1, <3>2, Zenon
  <2> QED
    BY <2>1, <2>4, <2>5, Zenon DEF TypeInv, TypeOK
<1>8. ASSUME NEW s \in Senders, SignalRemote(s) PROVE TypeInv'
  <2>1. ReceiverOK' /\ ReceiverControl' /\ HistoryOK'
    BY <1>t, <1>8, Zenon DEF SignalRemote, ReceiverOK, ReceiverControl, HistoryOK, rcvr
  <2>2. SharedOK'
    BY <1>t, <1>8, MmFifoAssumption DEF SignalRemote, SharedOK
  <2>3. SendersOK' /\ SenderControl'
    BY <1>t, <1>8, SendDoneType, Zenon DEF SignalRemote
  <2> QED
    BY <2>1, <2>2, <2>3, Zenon DEF TypeInv, TypeOK
<1>9. ASSUME NEW s \in Senders, PendingAdd(s) PROVE TypeInv'
  <2>1. SharedOK' /\ ReceiverOK' /\ HistoryOK' /\ ReceiverControl'
    BY <1>t, <1>9, Zenon DEF PendingAdd, SharedOK, ReceiverOK, HistoryOK, ReceiverControl, shared, rcvr
  <2>2. cur[s] \in Msg /\ ~in_dispatch[s] /\ nxt[s] <= MaxMsgs
    BY <1>t, <1>9, Zenon DEF PendingAdd, SenderControl, Sending
  <2>3. nxt[s] + 1 \in 1 .. MaxMsgs + 1
    BY <1>t, <2>2, MmFifoAssumption DEF SendersOK
  <2>4. Append(group[s], cur[s]) \in Seq(Msg \cup {ArbElem})
    BY <1>t, <2>2, AppendFacts, Zenon DEF SendersOK
  <2>5. SendersOK'
    BY <1>t, <1>9, <2>3, <2>4, Zenon DEF PendingAdd, SendersOK
  <2>6. SenderControl'
    BY <1>t, <1>9, <2>2 DEF PendingAdd, SendersOK, SenderControl, Sending
  <2> QED
    BY <2>1, <2>5, <2>6, Zenon DEF TypeInv, TypeOK
<1>10. ASSUME NEW s \in Senders, GiveUp(s) PROVE TypeInv'
  <2>1. SharedOK' /\ ReceiverOK' /\ HistoryOK' /\ ReceiverControl'
    BY <1>t, <1>10, Zenon DEF GiveUp, SharedOK, ReceiverOK, HistoryOK, ReceiverControl, shared, rcvr
  <2>2. SendersOK'
    BY <1>t, <1>10, MmFifoAssumption, Zenon DEF GiveUp, SendersOK, SenderControl, Sending, SharedOK
  <2>3. SenderControl'
    BY <1>t, <1>10, Zenon DEF GiveUp, SendersOK, SenderControl, Sending
  <2> QED
    BY <2>1, <2>2, <2>3, Zenon DEF TypeInv, TypeOK
<1>11. ASSUME NEW s \in Senders, StartDispatch(s) PROVE TypeInv'
  <2>1. SharedOK' /\ ReceiverOK' /\ HistoryOK' /\ ReceiverControl'
    BY <1>t, <1>11, Zenon DEF StartDispatch, SharedOK, ReceiverOK, HistoryOK, ReceiverControl, shared, rcvr
  <2>2. SendersOK'
    BY <1>t, <1>11, MmFifoAssumption, Zenon DEF StartDispatch, SendersOK, SenderControl, Sending, SharedOK
  <2>3. SenderControl'
    BY <1>t, <1>11, Zenon DEF StartDispatch, SendersOK, SenderControl, Sending
  <2> QED
    BY <2>1, <2>2, <2>3, Zenon DEF TypeInv, TypeOK
<1>12. ASSUME NEW s \in Senders, ProcessPending(s) PROVE TypeInv'
  <2>1. SharedOK' /\ ReceiverOK' /\ HistoryOK' /\ ReceiverControl'
    BY <1>t, <1>12, Zenon DEF ProcessPending, SharedOK, ReceiverOK, HistoryOK, ReceiverControl, shared, rcvr
  <2>2. SendersOK'
    BY <1>t, <1>12, MmFifoAssumption, Zenon DEF ProcessPending, SendersOK, SenderControl, Sending, SharedOK
  <2>3. SenderControl'
    BY <1>t, <1>12, Zenon DEF ProcessPending, SendersOK, SenderControl, Sending
  <2> QED
    BY <2>1, <2>2, <2>3, Zenon DEF TypeInv, TypeOK
<1>13. ASSUME NEW s \in Senders, ProcessElem(s) PROVE TypeInv'
  <2>1. SharedOK' /\ ReceiverOK' /\ HistoryOK' /\ ReceiverControl'
    BY <1>t, <1>13, Zenon DEF ProcessElem, SharedOK, ReceiverOK, HistoryOK, ReceiverControl, shared, rcvr
  <2>2. /\ in_dispatch[s] /\ group[s] # <<>>
        /\ Tail(group[s]) \in Seq(Msg \cup {ArbElem}) /\ Head(group[s]) \in Msg \cup {ArbElem}
    BY <1>t, <1>13, GroupTail, Zenon DEF ProcessElem, SendersOK, SenderControl
  <2>3. CASE ~AbleToSend(head, cached_tail[s])
    BY <1>t, <1>13, <2>1, <2>3, ZenonT(30) DEF ProcessElem, NoResource, SendersOK, SenderControl, Sending,
       TypeInv, TypeOK
  <2>4. CASE AbleToSend(head, cached_tail[s]) /\ Head(group[s]) = ArbElem
    <3> DEFINE more == Tail(group[s]) # <<>>
    <3>1. /\ group' = [group EXCEPT ![s] = Tail(group[s])]
          /\ pc' = [pc EXCEPT ![s] = IF more THEN "dispatch" ELSE "idle"]
          /\ in_dispatch' = [in_dispatch EXCEPT ![s] = more]
          /\ UNCHANGED <<hd, hd_armed, cached_tail, cur, nxt>>
      BY <1>13, <2>4, Zenon DEF ProcessElem
    <3>2. more \in BOOLEAN
      BY Zenon
    <3>3. SendersOK'
      BY <1>t, <2>2, <3>1, <3>2, Zenon DEF SendersOK
    <3>4. SenderControl'
      <4>1. CASE more
        BY <1>t, <2>2, <3>1, <4>1, Zenon DEF SendersOK, SenderControl, Sending
      <4>2. CASE ~more
        BY <1>t, <2>2, <3>1, <4>2, Zenon DEF SendersOK, SenderControl, Sending
      <4> QED
        BY <4>1, <4>2, Zenon
    <3> QED
      BY <2>1, <3>3, <3>4, Zenon DEF TypeInv, TypeOK
  <2>5. CASE AbleToSend(head, cached_tail[s]) /\ Head(group[s]) # ArbElem
    <3>1. /\ cur' = [cur EXCEPT ![s] = Head(group[s])] /\ pc' = [pc EXCEPT ![s] = "load"]
          /\ UNCHANGED <<hd, hd_armed, cached_tail, group, nxt, in_dispatch>>
      BY <1>13, <2>5, Zenon DEF ProcessElem
    <3>2. Head(group[s]) \in Msg
      BY <2>2, <2>5, Zenon
    <3>3. SendersOK' /\ SenderControl'
      BY <1>t, <2>2, <3>1, <3>2, Zenon DEF SendersOK, SenderControl, Sending
    <3> QED
      BY <2>1, <3>3, Zenon DEF TypeInv, TypeOK
  <2> QED
    BY <2>3, <2>4, <2>5, Zenon
<1>14. ASSUME NEW s \in Senders, PendingPurge(s) PROVE TypeInv'
  <2>1. SharedOK' /\ ReceiverOK' /\ HistoryOK' /\ ReceiverControl'
    BY <1>t, <1>14, Zenon DEF PendingPurge, SharedOK, ReceiverOK, HistoryOK, ReceiverControl, shared, rcvr
  <2>2. SendersOK'
    BY <1>t, <1>14, MmFifoAssumption DEF PendingPurge, SendersOK, SenderControl, Sending, SharedOK
  <2>3. SenderControl'
    BY <1>t, <1>14, Zenon DEF PendingPurge, SendersOK, SenderControl, Sending
  <2> QED
    BY <2>1, <2>2, <2>3, Zenon DEF TypeInv, TypeOK
<1>15. ASSUME NEW s \in Senders, Flush(s) PROVE TypeInv'
  <2>1. SharedOK' /\ ReceiverOK' /\ HistoryOK' /\ ReceiverControl'
    BY <1>t, <1>15, Zenon DEF Flush, SharedOK, ReceiverOK, HistoryOK, ReceiverControl, shared, rcvr
  <2>2. SendersOK'
    BY <1>t, <1>15, MmFifoAssumption, Zenon DEF Flush, SendersOK, SenderControl, Sending, SharedOK
  <2>3. SenderControl'
    BY <1>t, <1>15, Zenon DEF Flush, SendersOK, SenderControl, Sending
  <2> QED
    BY <2>1, <2>2, <2>3, Zenon DEF TypeInv, TypeOK
<1>16. ASSUME StartProgress PROVE TypeInv'
  <2>1. SendersOK' /\ SenderControl' /\ SharedOK' /\ HistoryOK'
    BY <1>t, <1>16, Zenon DEF StartProgress, SendersOK, SenderControl, sndr, SharedOK, HistoryOK, shared
  <2>2. ReceiverOK' /\ ReceiverControl'
    BY <1>t, <1>16, MmFifoAssumption DEF StartProgress, SharedOK, ReceiverOK, ReceiverControl
  <2> QED
    BY <2>1, <2>2, Zenon DEF TypeInv, TypeOK
<1>17. ASSUME PollFifo PROVE TypeInv'
  <2>1. SharedOK' /\ SendersOK' /\ HistoryOK' /\ SenderControl'
    BY <1>t, <1>17, Zenon DEF PollFifo, SharedOK, SendersOK, HistoryOK, SenderControl, shared, sndr
  <2>2. CASE HasNewData
    BY <1>t, <1>17, <2>1, <2>2, Zenon DEF PollFifo, ReceiverOK, ReceiverControl, TypeInv, TypeOK
  <2>3. CASE ~HasNewData
    <3>1. WindowAdjust(total) /\ rpc' = "idle" /\ may_arm' = (total = 0)
      BY <1>17, <2>3, Zenon DEF PollFifo
    <3>2. fifo_poll_count' \in 1 .. MaxPoll /\ fifo_prev_wnd_cons' \in BOOLEAN
      BY <1>t, <3>1, WindowAdjustType DEF ReceiverOK
    <3>3. may_arm' \in BOOLEAN
      BY <3>1, Zenon
    <3>4. UNCHANGED <<read_index, rhead, total, last_recv_desc, free, held>>
      BY <1>17, Zenon DEF PollFifo
    <3>5. ReceiverOK' /\ ReceiverControl'
      BY <1>t, <3>1, <3>2, <3>3, <3>4, Zenon DEF ReceiverOK, ReceiverControl
    <3> QED
      BY <2>1, <3>5, Zenon DEF TypeInv, TypeOK
  <2> QED
    BY <2>2, <2>3, Zenon
<1>18. ASSUME ReadShort PROVE TypeInv'
  <2>1. SendersOK' /\ SenderControl'
    BY <1>t, <1>18, Zenon DEF ReadShort, AdvanceRead, SendersOK, SenderControl, sndr
  <2>2. SharedOK' /\ HistoryOK'
    <3>1. elems[Slot(read_index)].data \in Msg \cup {NoMsg}
      BY <1>t, SlotType, Zenon DEF SharedOK, ReceiverOK
    <3>2. HistoryOK'
      BY <1>t, <1>18, <3>1, AppendFacts, Zenon DEF ReadShort, AdvanceRead, HistoryOK
    <3>3. SharedOK'
      BY <1>t, <1>18, Zenon DEF ReadShort, AdvanceRead, SharedOK
    <3> QED
      BY <3>2, <3>3, Zenon
  <2>3. ReceiverOK' /\ ReceiverControl'
    BY <1>t, <1>18, MmFifoAssumption DEF ReadShort, AdvanceRead, SharedOK, ReceiverOK, ReceiverControl
  <2> QED
    BY <2>1, <2>2, <2>3, Zenon DEF TypeInv, TypeOK
<1>19. ASSUME ReadBcopyNoDesc PROVE TypeInv'
  <2>1. SendersOK' /\ SenderControl'
    BY <1>t, <1>19, Zenon DEF ReadBcopyNoDesc, AdvanceRead, SendersOK, SenderControl, sndr
  <2>2. SharedOK' /\ HistoryOK'
    <3>1. HistoryOK'
      BY <1>t, <1>19, AppendFacts, Zenon DEF ReadBcopyNoDesc, AdvanceRead, HistoryOK
    <3>2. SharedOK'
      BY <1>t, <1>19, Zenon DEF ReadBcopyNoDesc, AdvanceRead, SharedOK
    <3> QED
      BY <3>1, <3>2, Zenon
  <2>3. ReceiverOK' /\ ReceiverControl'
    BY <1>t, <1>19, MmFifoAssumption, SMTT(30) DEF ReadBcopyNoDesc, AdvanceRead, SharedOK, ReceiverOK, ReceiverControl
  <2> QED
    BY <2>1, <2>2, <2>3, Zenon DEF TypeInv, TypeOK
<1>20. ASSUME NEW keep \in BOOLEAN, ReadBcopy(keep) PROVE TypeInv'
  <2> DEFINE i == Slot(read_index)
             d == elems[i].desc
             kept == [desc |-> d, msg |-> mem[d]]
  <2>1. i \in 0 .. FifoSize - 1
    BY <1>t, SlotType, Zenon DEF ReceiverOK
  <2>2. d \in Descs /\ mem[d] \in Msg \cup {NoMsg}
    BY <1>t, <2>1, Zenon DEF SharedOK
  <2>3. PICK spare \in IF last_recv_desc = NoDesc THEN free ELSE {last_recv_desc} :
           /\ AdvanceRead(mem[d])
           /\ IF keep THEN
                 /\ held' = held \cup {kept}
                 /\ elems' = [elems EXCEPT ![i].desc = spare]
                 /\ \E n \in (free \ {spare}) \cup {NoDesc} :
                       /\ n = NoDesc <=> free \ {spare} = {}
                       /\ last_recv_desc' = n
                       /\ free' = (free \ {spare}) \ {n}
              ELSE
                 /\ last_recv_desc' = spare
                 /\ free' = free \ {spare}
                 /\ UNCHANGED <<held, elems>>
    BY <1>20, Zenon DEF ReadBcopy
  <2>4. spare \in Descs
    BY <1>t, <2>3, Zenon DEF ReceiverOK
  <2>5. SendersOK' /\ SenderControl'
    BY <1>t, <2>3, Zenon DEF AdvanceRead, SendersOK, SenderControl, sndr
  <2>6. kept \in [desc : Descs, msg : Msg \cup {NoMsg}]
    BY <2>2, Zenon
  <2> HIDE DEF i, d, kept
  <2>7. elems' \in {elems, [elems EXCEPT ![i].desc = spare]} /\ held' \in {held, held \cup {kept}}
    BY <2>3, Zenon
  <2>8. SharedOK'
    BY <1>t, <2>1, <2>3, <2>4, <2>7, SMTT(30) DEF AdvanceRead, SharedOK
  <2>9. HistoryOK'
    BY <1>t, <2>2, <2>3, AppendFacts, Zenon DEF AdvanceRead, HistoryOK
  <2>10. last_recv_desc' \in Descs \cup {NoDesc} /\ free' \subseteq Descs
    BY <1>t, <2>3, <2>4, Zenon DEF ReceiverOK
  <2>11. held' \subseteq [desc : Descs, msg : Msg \cup {NoMsg}]
    BY <1>t, <2>6, <2>7, Zenon DEF ReceiverOK
  <2>12. ReceiverOK'
    <3>1. /\ read_index' = read_index + 1 /\ rpc' = "tail"
          /\ UNCHANGED <<rhead, total, fifo_poll_count, fifo_prev_wnd_cons, may_arm>>
      BY <2>3, Zenon DEF AdvanceRead
    <3> QED
      BY <1>t, <2>10, <2>11, <3>1 DEF ReceiverOK
  <2>13. ReceiverControl'
    BY <1>t, <1>20, <2>3, Zenon DEF ReadBcopy, AdvanceRead, ReceiverControl
  <2> QED
    BY <2>5, <2>8, <2>9, <2>12, <2>13, Zenon DEF TypeInv, TypeOK
<1>21. ASSUME ProgressTail PROVE TypeInv'
  <2>1. SendersOK' /\ HistoryOK' /\ SenderControl'
    BY <1>t, <1>21, Zenon DEF ProgressTail, SendersOK, HistoryOK, SenderControl, sndr
  <2>2. SharedOK'
    BY <1>t, <1>21, Zenon DEF ProgressTail, SharedOK, ReceiverOK
  <2>3. total + 1 \in 0 .. MaxPoll /\ total + 1 <= fifo_poll_count
    BY <1>t, <1>21, MmFifoAssumption DEF ProgressTail, ReceiverOK, ReceiverControl
  <2>4. /\ total' = total + 1 /\ may_arm' = FALSE
        /\ UNCHANGED <<read_index, rhead, last_recv_desc, free, held>>
    BY <1>21, Zenon DEF ProgressTail
  <2>5. CASE total + 1 < fifo_poll_count
    <3>1. rpc' = "poll" /\ UNCHANGED <<fifo_poll_count, fifo_prev_wnd_cons>>
      BY <1>21, <2>5, Zenon DEF ProgressTail
    <3> QED
      BY <1>t, <2>1, <2>2, <2>3, <2>4, <2>5, <3>1, Zenon DEF ReceiverOK, ReceiverControl, TypeInv, TypeOK
  <2>6. CASE ~(total + 1 < fifo_poll_count)
    <3>1. rpc' = "idle" /\ WindowAdjust(total + 1)
      BY <1>21, <2>6, Zenon DEF ProgressTail
    <3>2. fifo_poll_count' \in 1 .. MaxPoll /\ fifo_prev_wnd_cons' \in BOOLEAN
      BY <1>t, <2>3, <3>1, WindowAdjustType DEF ReceiverOK
    <3> QED
      BY <1>t, <2>1, <2>2, <2>3, <2>4, <3>1, <3>2, Zenon DEF ReceiverOK, ReceiverControl, TypeInv, TypeOK
  <2> QED
    BY <2>5, <2>6, Zenon
<1>22. ASSUME NEW h \in held, ReleaseDesc(h) PROVE TypeInv'
  <2>1. SendersOK' /\ SenderControl' /\ SharedOK' /\ HistoryOK'
    BY <1>t, <1>22, Zenon DEF ReleaseDesc, SendersOK, SenderControl, sndr, SharedOK, HistoryOK, shared
  <2>2. ReceiverOK' /\ ReceiverControl'
    BY <1>t, <1>22, MmFifoAssumption DEF ReleaseDesc, SharedOK, ReceiverOK, ReceiverControl
  <2> QED
    BY <2>1, <2>2, Zenon DEF TypeInv, TypeOK
<1>23. ASSUME EventArm PROVE TypeInv'
  <2>1. SendersOK' /\ SenderControl' /\ SharedOK' /\ HistoryOK'
    BY <1>t, <1>23, Zenon DEF EventArm, SendersOK, SenderControl, sndr, SharedOK, HistoryOK, shared
  <2>2. ReceiverOK' /\ ReceiverControl'
    BY <1>t, <1>23, MmFifoAssumption, Zenon DEF EventArm, SharedOK, ReceiverOK, ReceiverControl
  <2> QED
    BY <2>1, <2>2, Zenon DEF TypeInv, TypeOK
<1>24. ASSUME ArmCompareAndSwap PROVE TypeInv'
  <2>1. SendersOK' /\ SenderControl'
    BY <1>t, <1>24, Zenon DEF ArmCompareAndSwap, SendersOK, SenderControl, sndr
  <2>2. SharedOK' /\ HistoryOK'
    BY <1>t, <1>24, SlotType, MmFifoAssumption, Zenon DEF ArmCompareAndSwap, SharedOK, HistoryOK, ReceiverOK
  <2>3. ReceiverOK' /\ ReceiverControl'
    BY <1>t, <1>24, MmFifoAssumption, Zenon DEF ArmCompareAndSwap, SharedOK, ReceiverOK, ReceiverControl
  <2> QED
    BY <2>1, <2>2, <2>3, Zenon DEF TypeInv, TypeOK
<1>25. ASSUME ArmReceive PROVE TypeInv'
  <2>1. SendersOK' /\ SenderControl'
    BY <1>t, <1>25, Zenon DEF ArmReceive, SendersOK, SenderControl, sndr
  <2>2. SharedOK' /\ HistoryOK'
    <3>1. sig' \in 0 .. SockCap
      BY <1>t, <1>25, MmFifoAssumption DEF ArmReceive, SharedOK
    <3>2. UNCHANGED <<head, armed, tail, elems, mem, log, got>>
      BY <1>25, Zenon DEF ArmReceive
    <3> QED
      BY <1>t, <3>1, <3>2, Zenon DEF SharedOK, HistoryOK
  <2>3. ReceiverOK' /\ ReceiverControl'
    BY <1>t, <1>25, MmFifoAssumption, Zenon DEF ArmReceive, SharedOK, ReceiverOK, ReceiverControl
  <2> QED
    BY <2>1, <2>2, <2>3, Zenon DEF TypeInv, TypeOK
<1>26. ASSUME WakeUp PROVE TypeInv'
  <2>1. SendersOK' /\ SenderControl' /\ SharedOK' /\ HistoryOK'
    BY <1>t, <1>26, Zenon DEF WakeUp, SendersOK, SenderControl, sndr, SharedOK, HistoryOK, shared
  <2>2. ReceiverOK' /\ ReceiverControl'
    BY <1>t, <1>26, MmFifoAssumption, Zenon DEF WakeUp, SharedOK, ReceiverOK, ReceiverControl
  <2> QED
    BY <2>1, <2>2, Zenon DEF TypeInv, TypeOK
<1>27. ASSUME UNCHANGED vars PROVE TypeInv'
  BY <1>t, <1>27, Zenon DEF TypeInv, TypeOK, SharedOK, ReceiverOK, SendersOK, HistoryOK, SenderControl,
     ReceiverControl, vars, shared, rcvr, sndr
<1> QED
  BY <1>1, <1>2, <1>3, <1>4, <1>5, <1>6, <1>7, <1>8, <1>9, <1>10, <1>11, <1>12, <1>13, <1>14,
     <1>15, <1>16, <1>17, <1>18, <1>19, <1>20, <1>21, <1>22, <1>23, <1>24, <1>25, <1>26, <1>27, Zenon
     DEF Next, SenderStep, SenderUser, ReceiverStep, ReceiverUser

\* The variables keep their types, and the polling window its bounds, for any
\* FIFO size and any number of senders.
THEOREM TypeCorrect == Spec => []TypeOK
<1>1. TypeInv => TypeOK
  BY Zenon DEF TypeInv
<1> QED
  BY TypeInit, TypeStep, <1>1, PTL DEF Spec

-----------------------------------------------------------------------------
(* The FIFO. *)

Writing == {"write", "publish"}

\* What the receiver would read at index i.
Payload(i, inline) == IF inline THEN elems[Slot(i)].data ELSE mem[elems[Slot(i)].desc]

\* The indices: the tail follows the reader, which follows the head, and
\* they are at most one lap apart; the copies of the senders are old values.
IndexInv ==
    /\ Len(log) = head /\ Len(got) = read_index
    /\ tail <= read_index /\ read_index <= head /\ head <= tail + FifoSize
    /\ \A s \in Senders :
          /\ cached_tail[s] <= tail /\ hd[s] <= head
          /\ pc[s] = "cas" => hd[s] < cached_tail[s] + FifoSize

\* A sender that writes has an unpublished element of its own.
WriterInv ==
    \A s \in Senders : pc[s] \in Writing =>
        /\ read_index <= hd[s] /\ hd[s] < head
        /\ log[hd[s] + 1] = cur[s]
        /\ elems[Slot(hd[s])].owner # OwnerBit(hd[s])
        /\ pc[s] = "publish" => Payload(hd[s], cur[s].inline) = cur[s]
        /\ \A t \in Senders : pc[t] \in Writing /\ hd[t] = hd[s] => t = s

\* A published element holds the message of its index; one that was not taken
\* yet does not look published.
ElemInv ==
    /\ \A i \in read_index .. head - 1 :
          elems[Slot(i)].owner = OwnerBit(i) => Payload(i, elems[Slot(i)].inline) = log[i + 1]
    /\ \A i \in head .. read_index + FifoSize - 1 : elems[Slot(i)].owner # OwnerBit(i)

\* The receiver reads only what is published.
ReadInv == rpc = "read" => HasNewData

FifoInv ==
    /\ IndexInv /\ WriterInv /\ ElemInv /\ ReadInv
    /\ DescInOnePlace /\ KeptMessageStable /\ ReadsWhatWasTaken

\* Where descriptors are depends on these variables only.
LEMMA DescFrame ==
    ASSUME DescInOnePlace, KeptMessageStable, UNCHANGED <<elems, mem, last_recv_desc, free, held>>
    PROVE  DescInOnePlace' /\ KeptMessageStable'
<1>1. elems' = elems /\ mem' = mem /\ last_recv_desc' = last_recv_desc /\ free' = free /\ held' = held
  BY Zenon
<1>2. DescInOnePlace'
  BY <1>1 DEF DescInOnePlace
<1>3. KeptMessageStable'
  BY <1>1, Zenon DEF KeptMessageStable
<1> QED
  BY <1>2, <1>3, Zenon

\* Two indices of the same lap-wide window have different slots.
LEMMA SlotDistinct ==
    ASSUME NEW r \in Nat, NEW i \in r .. r + FifoSize - 1, NEW j \in r .. r + FifoSize - 1, i # j
    PROVE  Slot(i) # Slot(j)
<1>1. FifoSize \in Nat /\ FifoSize > 0
  BY MmFifoAssumption
<1>2. CASE i < j
  BY <1>1, <1>2, ModDistinct DEF Slot
<1>3. CASE j < i
  BY <1>1, <1>3, ModDistinct DEF Slot
<1> QED
  BY <1>1, <1>2, <1>3

\* The next lap uses the same slot with the other owner bit.
LEMMA NextLap ==
    ASSUME NEW i \in Nat
    PROVE  Slot(i + FifoSize) = Slot(i) /\ OwnerBit(i + FifoSize) # OwnerBit(i)
<1>1. FifoSize \in Nat /\ FifoSize > 0
  BY MmFifoAssumption
<1>2. /\ (i + FifoSize) % FifoSize = i % FifoSize
      /\ (i + FifoSize) \div FifoSize = (i \div FifoSize) + 1
  BY <1>1, ModPlus
<1>3. i \div FifoSize \in Int
  BY <1>1, DivMod
<1>4. ((i \div FifoSize) + 1) % 2 # (i \div FifoSize) % 2
  <2> DEFINE q == i \div FifoSize
  <2>1. q \in Int
    BY <1>3, Zenon
  <2> HIDE DEF q
  <2>2. (q + 1) % 2 # q % 2
    BY <2>1
  <2> QED
    BY <2>2, Zenon DEF q
<1> QED
  BY <1>2, <1>4, Zenon DEF Slot, OwnerBit

\* Steps that touch neither the indices nor the elements, and whose senders do
\* not start to write, keep the invariant.
LEMMA FifoFrame ==
    ASSUME TypeInv, FifoInv,
           UNCHANGED <<head, tail, elems, mem, read_index, log, got,
                       last_recv_desc, free, held>>,
           \A s \in Senders :
              /\ pc'[s] \in Writing => pc'[s] = pc[s] /\ cur'[s] = cur[s] /\ hd'[s] = hd[s]
              /\ cached_tail'[s] \in {cached_tail[s], tail} /\ hd'[s] \in {hd[s], head}
              /\ pc'[s] = "cas" => hd'[s] < cached_tail'[s] + FifoSize,
           rpc' = "read" => HasNewData
    PROVE  FifoInv'
<1>1. IndexInv'
  <2>1. ASSUME NEW s \in Senders
        PROVE  /\ cached_tail'[s] <= tail /\ hd'[s] <= head
               /\ pc'[s] = "cas" => hd'[s] < cached_tail'[s] + FifoSize
    <3>1. head \in Nat /\ tail \in Nat /\ cached_tail[s] <= tail /\ hd[s] <= head
      BY Zenon DEF FifoInv, IndexInv, TypeInv, TypeOK, SharedOK
    <3>2. cached_tail'[s] \in {cached_tail[s], tail} /\ hd'[s] \in {hd[s], head}
      BY Zenon
    <3> QED
      BY <3>1, <3>2
  <2> QED
    BY <2>1, Zenon DEF FifoInv, IndexInv
<1>2. WriterInv'
  BY DEF FifoInv, WriterInv, Payload
<1>3. ElemInv'
  BY Zenon DEF FifoInv, ElemInv, Payload
<1>4. ReadInv'
  BY Zenon DEF ReadInv, HasNewData
<1>5. DescInOnePlace' /\ KeptMessageStable' /\ ReadsWhatWasTaken'
  BY DEF FifoInv, DescInOnePlace, KeptMessageStable, ReadsWhatWasTaken
<1> QED
  BY <1>1, <1>2, <1>3, <1>4, <1>5, Zenon DEF FifoInv

\* The initial state satisfies the invariant.
LEMMA FifoInit == Init => FifoInv
<1> SUFFICES ASSUME Init PROVE FifoInv
  BY Zenon
<1>1. IndexInv /\ WriterInv /\ ReadInv /\ KeptMessageStable /\ ReadsWhatWasTaken
  BY MmFifoAssumption
     DEF Init, IndexInv, WriterInv, Writing, ReadInv, KeptMessageStable, ReadsWhatWasTaken
<1>2. ElemInv
  <2>1. ASSUME NEW i \in 0 .. FifoSize - 1 PROVE Slot(i) \in 0 .. FifoSize - 1 /\ OwnerBit(i) = 0
    <3>1. i = FifoSize * 0 + i /\ FifoSize \in Nat /\ FifoSize > 0
      BY MmFifoAssumption
    <3>2. i % FifoSize = i /\ i \div FifoSize = 0
      BY <3>1, ModUnique
    <3> QED
      BY <3>2 DEF Slot, OwnerBit
  <2> QED
    BY <2>1, MmFifoAssumption DEF Init, ElemInv
<1>3. DescInOnePlace
  BY MmFifoAssumption DEF Init, DescInOnePlace
<1> QED
  BY <1>1, <1>2, <1>3, Zenon DEF FifoInv

\* Taking an element keeps the invariant: with the old copies of tail there is
\* room for it, so its slot was read and its owner bit is the one of the lap before.
LEMMA TakeStep ==
    ASSUME TypeInv, FifoInv, NEW s \in Senders, CompareAndSwap(s),
           head = hd[s], armed = hd_armed[s]
    PROVE  FifoInv'
<1>t. SharedOK /\ ReceiverOK /\ SendersOK /\ HistoryOK /\ SenderControl
  BY Zenon DEF TypeInv, TypeOK
<1>i. IndexInv /\ WriterInv /\ ElemInv /\ ReadInv /\ ReadsWhatWasTaken
  BY Zenon DEF FifoInv
<1>a. /\ pc[s] = "cas" /\ head' = head + 1 /\ log' = Append(log, cur[s])
      /\ pc' = [pc EXCEPT ![s] = "write"]
      /\ UNCHANGED <<tail, elems, mem, read_index, rpc, last_recv_desc, free, held,
                     hd, cached_tail, cur, got>>
  BY Zenon DEF CompareAndSwap, rcvr
<1>n. /\ FifoSize \in Nat /\ head \in Nat /\ tail \in Nat /\ read_index \in Nat
      /\ cached_tail[s] \in Nat /\ cur[s] \in Msg /\ log \in Seq(Msg)
  BY <1>t, <1>a, MmFifoAssumption, Zenon
     DEF SharedOK, ReceiverOK, SendersOK, HistoryOK, SenderControl, Sending
<1>room. head < tail + FifoSize
  <2>1. hd[s] < cached_tail[s] + FifoSize /\ cached_tail[s] <= tail
    BY <1>i, <1>a, Zenon DEF IndexInv
  <2> QED
    BY <1>n, <2>1
<1>log. /\ Len(log') = head + 1 /\ log'[head + 1] = cur[s]
        /\ \A i \in 1 .. head : log'[i] = log[i]
  BY <1>a, <1>n, <1>i, AppendFacts DEF IndexInv
<1>1. IndexInv'
  <2>1. ASSUME NEW t \in Senders
        PROVE  /\ cached_tail'[t] <= tail' /\ hd'[t] <= head'
               /\ pc'[t] = "cas" => hd'[t] < cached_tail'[t] + FifoSize
    <3>1. hd[t] \in Nat /\ cached_tail[t] <= tail /\ hd[t] <= head
      BY <1>t, <1>i, Zenon DEF IndexInv, SendersOK
    <3>2. pc'[t] = "cas" => pc[t] = "cas"
      BY <1>t, <1>a, Zenon DEF SendersOK
    <3>3. pc'[t] = "cas" => hd[t] < cached_tail[t] + FifoSize
      BY <1>i, <3>2, Zenon DEF IndexInv
    <3> QED
      BY <1>a, <1>n, <3>1, <3>3
  <2>2. Len(log') = head' /\ Len(got') = read_index' /\ tail' <= read_index'
        /\ read_index' <= head' /\ head' <= tail' + FifoSize
    BY <1>a, <1>n, <1>i, <1>room, <1>log DEF IndexInv
  <2> QED
    BY <2>1, <2>2, Zenon DEF IndexInv
<1>2. WriterInv'
  <2>1. ASSUME NEW t \in Senders, t # s, pc[t] \in Writing
        PROVE  /\ hd[t] \in Nat /\ read_index <= hd[t] /\ hd[t] < head
               /\ log'[hd[t] + 1] = cur[t]
               /\ elems[Slot(hd[t])].owner # OwnerBit(hd[t])
               /\ pc[t] = "publish" => Payload(hd[t], cur[t].inline) = cur[t]
    <3>1. hd[t] \in Nat /\ read_index <= hd[t] /\ hd[t] < head /\ log[hd[t] + 1] = cur[t]
      BY <1>t, <1>i, <2>1, Zenon DEF WriterInv, SendersOK
    <3>2. hd[t] + 1 \in 1 .. head
      BY <1>n, <3>1
    <3>3. log'[hd[t] + 1] = cur[t]
      BY <1>log, <3>1, <3>2, Zenon
    <3> QED
      BY <1>i, <2>1, <3>1, <3>3, Zenon DEF WriterInv
  <2>2. read_index <= head /\ elems[Slot(head)].owner # OwnerBit(head)
    BY <1>i, <1>n, <1>room DEF IndexInv, ElemInv
  <2>3. \A t \in Senders : /\ t # s => pc'[t] = pc[t]
                           /\ t = s => pc'[t] = "write"
    BY <1>t, <1>a, Zenon DEF SendersOK
  <2>4. ASSUME NEW t \in Senders, pc'[t] \in Writing
        PROVE  /\ read_index <= hd[t] /\ hd[t] < head + 1 /\ log'[hd[t] + 1] = cur[t]
               /\ elems[Slot(hd[t])].owner # OwnerBit(hd[t])
               /\ pc'[t] = "publish" => Payload(hd[t], cur[t].inline) = cur[t]
    <3>1. CASE t = s
      BY <1>n, <1>log, <2>2, <2>3, <3>1
    <3>2. CASE t # s
      BY <1>n, <2>1, <2>3, <2>4, <3>2
    <3> QED
      BY <3>1, <3>2, Zenon
  <2>5. ASSUME NEW t \in Senders, NEW u \in Senders,
               pc'[t] \in Writing, pc'[u] \in Writing, hd[t] = hd[u]
        PROVE  t = u
    <3>1. \A v \in Senders : v # s /\ pc'[v] \in Writing => hd[v] # head
      BY <1>n, <2>1, <2>3
    <3>2. CASE t = s \/ u = s
      BY <2>5, <3>1, <3>2, Zenon
    <3>3. CASE t # s /\ u # s
      BY <1>i, <2>3, <2>5, <3>3, Zenon DEF WriterInv
    <3> QED
      BY <3>2, <3>3, Zenon
  <2>6. UNCHANGED <<hd, cur, elems, mem, read_index>> /\ head' = head + 1
    BY <1>a, Zenon
  <2> QED
    BY <2>4, <2>5, <2>6, Zenon DEF WriterInv, Payload
<1>3. ElemInv'
  <2>1. ASSUME NEW i \in read_index .. head,
               elems[Slot(i)].owner = OwnerBit(i)
        PROVE  Payload(i, elems[Slot(i)].inline) = log'[i + 1]
    <3>1. i # head
      BY <1>i, <1>n, <1>room, <2>1 DEF IndexInv, ElemInv
    <3>2. i \in read_index .. head - 1
      BY <1>n, <3>1
    <3>3. i + 1 \in 1 .. head
      BY <1>n, <3>2
    <3> QED
      BY <1>i, <1>log, <2>1, <3>2, <3>3, Zenon DEF ElemInv
  <2>2. \A i \in head + 1 .. read_index + FifoSize - 1 : elems[Slot(i)].owner # OwnerBit(i)
    BY <1>i, <1>n DEF ElemInv
  <2>3. UNCHANGED <<elems, mem, read_index>> /\ head' = head + 1
    BY <1>a, Zenon
  <2>4. read_index .. head' - 1 = read_index .. head
    BY <1>n, <2>3
  <2> QED
    BY <2>1, <2>2, <2>3, <2>4, Zenon DEF ElemInv, Payload
<1>4. ReadInv'
  BY <1>a, <1>i, Zenon DEF ReadInv, HasNewData
<1>5. DescInOnePlace' /\ KeptMessageStable'
  <2>1. UNCHANGED <<elems, mem, last_recv_desc, free, held>>
    BY <1>a, Zenon
  <2> QED
    BY <2>1, DescFrame, Zenon DEF FifoInv
<1>6. ReadsWhatWasTaken'
  BY <1>a, <1>i, <1>n, <1>log DEF ReadsWhatWasTaken, IndexInv
<1> QED
  BY <1>1, <1>2, <1>3, <1>4, <1>5, <1>6, Zenon DEF FifoInv

\* Writing the payload keeps the invariant: the slots in use are distinct and so
\* are their descriptors, so that no other message is touched.
LEMMA WriteStep ==
    ASSUME TypeInv, FifoInv, NEW s \in Senders, WritePayload(s)
    PROVE  FifoInv'
<1>t. SharedOK /\ ReceiverOK /\ SendersOK /\ SenderControl
  BY Zenon DEF TypeInv, TypeOK
<1>i. IndexInv /\ WriterInv /\ ElemInv /\ ReadInv /\ DescInOnePlace /\ KeptMessageStable
  BY Zenon DEF FifoInv
<1> DEFINE w == Slot(hd[s])
<1>a. /\ pc[s] = "write" /\ pc' = [pc EXCEPT ![s] = "publish"]
      /\ UNCHANGED <<head, tail, read_index, rpc, last_recv_desc, free, held, hd,
                     cached_tail, cur, log, got>>
      /\ IF cur[s].inline
         THEN elems' = [elems EXCEPT ![w].data = cur[s]] /\ mem' = mem
         ELSE mem' = [mem EXCEPT ![elems[w].desc] = cur[s]] /\ elems' = elems
  BY Zenon DEF WritePayload, rcvr
<1>n. /\ FifoSize \in Nat /\ head \in Nat /\ tail \in Nat /\ read_index \in Nat /\ hd[s] \in Nat
      /\ tail <= read_index /\ head <= tail + FifoSize
  BY <1>t, <1>i, MmFifoAssumption, Zenon DEF SharedOK, ReceiverOK, SendersOK, IndexInv
<1>w. /\ w \in 0 .. FifoSize - 1 /\ elems[w].desc \in Descs
      /\ read_index <= hd[s] /\ hd[s] < head /\ hd[s] < read_index + FifoSize
      /\ elems[w].owner # OwnerBit(hd[s])
  <2>1. w \in 0 .. FifoSize - 1
    BY <1>n, SlotType, Zenon
  <2>2. elems[w].desc \in Descs
    BY <1>t, <2>1, Zenon DEF SharedOK
  <2>3. read_index <= hd[s] /\ hd[s] < head /\ elems[w].owner # OwnerBit(hd[s])
    BY <1>i, <1>a, Zenon DEF WriterInv, Writing
  <2> QED
    BY <1>n, <2>1, <2>2, <2>3
<1>e. /\ DOMAIN elems' = DOMAIN elems /\ DOMAIN elems = 0 .. FifoSize - 1
      /\ \A i \in 0 .. FifoSize - 1 : /\ elems'[i].owner = elems[i].owner
                                      /\ elems'[i].inline = elems[i].inline
                                      /\ elems'[i].desc = elems[i].desc
                                      /\ i # w => elems'[i].data = elems[i].data
  <2>1. CASE cur[s].inline
    <3>1. elems' = [elems EXCEPT ![w].data = cur[s]]
      BY <1>a, <2>1, Zenon
    <3> QED
      BY <1>t, <1>w, <3>1 DEF SharedOK
  <2>2. CASE ~cur[s].inline
    <3>1. elems' = elems
      BY <1>a, <2>2, Zenon
    <3> QED
      BY <1>t, <3>1, Zenon DEF SharedOK
  <2> QED
    BY <2>1, <2>2, Zenon
<1>m. \A d \in Descs : d # elems[w].desc => mem'[d] = mem[d]
  BY <1>t, <1>a, <1>w, Zenon DEF SharedOK
<1>p. ASSUME NEW i \in read_index .. read_index + FifoSize - 1, i # hd[s], NEW b
      PROVE  Payload(i, b)' = Payload(i, b)
  <2>1. Slot(i) \in 0 .. FifoSize - 1 /\ Slot(i) # w
    <3>1. i \in Nat /\ hd[s] \in read_index .. read_index + FifoSize - 1
      BY <1>n, <1>w
    <3> QED
      BY <1>n, <1>p, <3>1, SlotDistinct, SlotType, Zenon
  <2>2. elems[Slot(i)].desc # elems[w].desc /\ elems[Slot(i)].desc \in Descs
    BY <1>t, <1>i, <1>w, <1>e, <2>1 DEF DescInOnePlace, SharedOK
  <2> QED
    BY <1>e, <1>m, <2>1, <2>2 DEF Payload
<1>q. Payload(hd[s], cur[s].inline)' = cur[s]
  <2>1. CASE cur[s].inline
    <3>1. elems' = [elems EXCEPT ![w].data = cur[s]] /\ cur' = cur /\ hd' = hd
      BY <1>a, <2>1, Zenon
    <3>2. elems'[w].data = cur[s]
      BY <1>t, <1>w, <3>1 DEF SharedOK
    <3> QED
      BY <2>1, <3>1, <3>2, Zenon DEF Payload
  <2>2. CASE ~cur[s].inline
    <3>1. mem' = [mem EXCEPT ![elems[w].desc] = cur[s]] /\ elems' = elems /\ cur' = cur /\ hd' = hd
      BY <1>a, <2>2, Zenon
    <3>2. mem'[elems'[w].desc] = cur[s]
      BY <1>t, <1>w, <3>1, Zenon DEF SharedOK
    <3> QED
      BY <2>2, <3>1, <3>2, Zenon DEF Payload
  <2> QED
    BY <2>1, <2>2, Zenon
<1>1. IndexInv'
  <2>1. \A t \in Senders : pc'[t] = "cas" => pc[t] = "cas"
    BY <1>t, <1>a, Zenon DEF SendersOK
  <2> QED
    BY <1>a, <1>i, <2>1, Zenon DEF IndexInv
<1>2. WriterInv'
  <2>1. \A t \in Senders : /\ pc'[t] \in Writing <=> pc[t] \in Writing
                           /\ t # s => pc'[t] = pc[t]
    BY <1>t, <1>a, Zenon DEF SendersOK, Writing
  <2>2. ASSUME NEW t \in Senders, pc'[t] \in Writing
        PROVE  /\ read_index <= hd[t] /\ hd[t] < head /\ log[hd[t] + 1] = cur[t]
               /\ elems'[Slot(hd[t])].owner # OwnerBit(hd[t])
               /\ pc'[t] = "publish" => Payload(hd[t], cur[t].inline)' = cur[t]
               /\ \A u \in Senders : pc'[u] \in Writing /\ hd[u] = hd[t] => u = t
    <3>1. /\ hd[t] \in Nat /\ read_index <= hd[t] /\ hd[t] < head /\ log[hd[t] + 1] = cur[t]
          /\ elems[Slot(hd[t])].owner # OwnerBit(hd[t])
          /\ pc[t] = "publish" => Payload(hd[t], cur[t].inline) = cur[t]
          /\ \A u \in Senders : pc'[u] \in Writing /\ hd[u] = hd[t] => u = t
      BY <1>t, <1>i, <2>1, <2>2, Zenon DEF WriterInv, SendersOK
    <3>2. elems'[Slot(hd[t])].owner = elems[Slot(hd[t])].owner
      BY <1>e, <3>1, SlotType, Zenon
    <3>3. CASE t = s
      BY <1>q, <3>1, <3>2, <3>3, Zenon
    <3>4. CASE t # s
      <4>1. hd[t] # hd[s]
        BY <1>a, <2>1, <3>1, <3>4, Zenon DEF Writing
      <4>2. hd[t] \in read_index .. read_index + FifoSize - 1
        BY <1>n, <3>1
      <4>3. cur' = cur /\ hd' = hd
        BY <1>a, Zenon
      <4>4. Payload(hd[t], cur[t].inline)' = Payload(hd[t], cur[t].inline)
        BY <1>p, <4>1, <4>2, <4>3, Zenon DEF Payload
      <4> QED
        BY <2>1, <3>1, <3>2, <3>4, <4>4, Zenon
    <3> QED
      BY <3>3, <3>4, Zenon
  <2>3. UNCHANGED <<hd, cur, head, read_index, log>>
    BY <1>a, Zenon
  <2> QED
    BY <2>2, <2>3, Zenon DEF WriterInv, Payload
<1>3. ElemInv'
  <2>1. ASSUME NEW i \in read_index .. head - 1, elems'[Slot(i)].owner = OwnerBit(i)
        PROVE  Payload(i, elems[Slot(i)].inline)' = log[i + 1]
    <3>1. i \in Nat /\ i \in read_index .. read_index + FifoSize - 1
      BY <1>n
    <3>2. Slot(i) \in 0 .. FifoSize - 1
      BY <3>1, SlotType, Zenon
    <3>3. i # hd[s]
      BY <1>w, <1>e, <2>1, <3>2, Zenon
    <3>4. elems'[Slot(i)].inline = elems[Slot(i)].inline /\ elems'[Slot(i)].owner = elems[Slot(i)].owner
      BY <1>e, <3>2, Zenon
    <3>5. Payload(i, elems[Slot(i)].inline)' = Payload(i, elems[Slot(i)].inline)
      BY <1>p, <3>1, <3>3, <3>4 DEF Payload
    <3> QED
      BY <1>i, <2>1, <3>4, <3>5, Zenon DEF ElemInv
  <2>2. ASSUME NEW i \in head .. read_index + FifoSize - 1
        PROVE  elems'[Slot(i)].owner # OwnerBit(i)
    <3>1. Slot(i) \in 0 .. FifoSize - 1
      BY <1>n, SlotType
    <3> QED
      BY <1>i, <1>e, <3>1 DEF ElemInv
  <2>3. UNCHANGED <<head, read_index, log>>
    BY <1>a, Zenon
  <2> QED
    BY <2>1, <2>2, <2>3, Zenon DEF ElemInv, Payload
<1>4. ReadInv'
  BY <1>a, <1>i, <1>n, <1>e, SlotType, Zenon DEF ReadInv, HasNewData
<1>5. DescInOnePlace'
  <2>1. UNCHANGED <<last_recv_desc, free, held>>
    BY <1>a, Zenon
  <2>2. {elems'[i].desc : i \in DOMAIN elems'} = {elems[i].desc : i \in DOMAIN elems}
    BY <1>e
  <2> QED
    BY <1>i, <1>e, <2>1, <2>2, Zenon DEF DescInOnePlace
<1>6. KeptMessageStable'
  <2>1. \A h \in held : h.desc \in Descs /\ h.desc # elems[w].desc
    <3>1. elems[w].desc \in {elems[i].desc : i \in DOMAIN elems}
      BY <1>w, <1>e, Zenon
    <3>2. \A h \in held : h.desc \in {g.desc : g \in held} /\ h.desc \in Descs
      BY <1>t DEF ReceiverOK
    <3> QED
      BY <1>i, <3>1, <3>2, Zenon DEF DescInOnePlace
  <2> QED
    BY <1>a, <1>i, <1>m, <2>1, Zenon DEF KeptMessageStable
<1>7. ReadsWhatWasTaken'
  BY <1>a DEF FifoInv, ReadsWhatWasTaken
<1> QED
  BY <1>1, <1>2, <1>3, <1>4, <1>5, <1>6, <1>7, Zenon DEF FifoInv

\* Publishing keeps the invariant: the message of the index is in place.
LEMMA PublishStep ==
    ASSUME TypeInv, FifoInv, NEW s \in Senders, Publish(s)
    PROVE  FifoInv'
<1>t. SharedOK /\ ReceiverOK /\ SendersOK /\ SenderControl
  BY Zenon DEF TypeInv, TypeOK
<1>i. IndexInv /\ WriterInv /\ ElemInv /\ ReadInv /\ DescInOnePlace /\ KeptMessageStable
  BY Zenon DEF FifoInv
<1> DEFINE w == Slot(hd[s])
<1>a. /\ pc[s] = "publish"
      /\ UNCHANGED <<head, tail, mem, read_index, rpc, last_recv_desc, free, held, hd,
                     cached_tail, cur, log, got>>
      /\ elems' = [elems EXCEPT ![w].owner = OwnerBit(hd[s]), ![w].inline = cur[s].inline]
  BY Zenon DEF Publish, rcvr
<1>b. \A t \in Senders : /\ t # s => pc'[t] = pc[t]
                         /\ t = s => pc'[t] \in {"signal", "idle", "dispatch"}
  BY <1>t DEF Publish, SendDone, SendersOK
<1>n. /\ FifoSize \in Nat /\ head \in Nat /\ tail \in Nat /\ read_index \in Nat /\ hd[s] \in Nat
      /\ tail <= read_index /\ head <= tail + FifoSize
  BY <1>t, <1>i, MmFifoAssumption, Zenon DEF SharedOK, ReceiverOK, SendersOK, IndexInv
<1>w. /\ w \in 0 .. FifoSize - 1
      /\ read_index <= hd[s] /\ hd[s] < head /\ hd[s] < read_index + FifoSize
      /\ log[hd[s] + 1] = cur[s] /\ Payload(hd[s], cur[s].inline) = cur[s]
      /\ elems[w].owner # OwnerBit(hd[s])
  BY <1>t, <1>i, <1>a, <1>n, SlotType DEF WriterInv, Writing
<1>e. /\ DOMAIN elems' = DOMAIN elems /\ DOMAIN elems = 0 .. FifoSize - 1
      /\ \A i \in 0 .. FifoSize - 1 : /\ elems'[i].data = elems[i].data
                                      /\ elems'[i].desc = elems[i].desc
                                      /\ i # w => elems'[i] = elems[i]
      /\ elems'[w].inline = cur[s].inline
  BY <1>t, <1>a, <1>w DEF SharedOK
<1>s. ASSUME NEW i \in read_index .. read_index + FifoSize - 1, i # hd[s]
      PROVE  Slot(i) \in 0 .. FifoSize - 1 /\ Slot(i) # w
  <2>1. i \in Nat /\ hd[s] \in read_index .. read_index + FifoSize - 1
    BY <1>n, <1>w
  <2> QED
    BY <1>n, <1>s, <2>1, SlotDistinct, SlotType, Zenon
<1>1. IndexInv'
  <2>1. \A t \in Senders : pc'[t] = "cas" => pc[t] = "cas"
    BY <1>b, Zenon
  <2> QED
    BY <1>a, <1>i, <2>1, Zenon DEF IndexInv
<1>2. WriterInv'
  <2>1. \A t \in Senders : pc'[t] \in Writing => t # s /\ pc'[t] = pc[t]
    BY <1>b, Zenon DEF Writing
  <2>2. ASSUME NEW t \in Senders, pc'[t] \in Writing
        PROVE  /\ read_index <= hd[t] /\ hd[t] < head /\ log[hd[t] + 1] = cur[t]
               /\ elems'[Slot(hd[t])] = elems[Slot(hd[t])]
               /\ elems[Slot(hd[t])].owner # OwnerBit(hd[t])
               /\ pc'[t] = "publish" => Payload(hd[t], cur[t].inline) = cur[t]
               /\ \A u \in Senders : pc'[u] \in Writing /\ hd[u] = hd[t] => u = t
    <3>1. /\ hd[t] \in Nat /\ read_index <= hd[t] /\ hd[t] < head /\ log[hd[t] + 1] = cur[t]
          /\ elems[Slot(hd[t])].owner # OwnerBit(hd[t])
          /\ pc[t] = "publish" => Payload(hd[t], cur[t].inline) = cur[t]
          /\ \A u \in Senders : pc'[u] \in Writing /\ hd[u] = hd[t] => u = t
      BY <1>t, <1>i, <2>1, <2>2, Zenon DEF WriterInv, SendersOK
    <3>2. hd[t] # hd[s]
      BY <1>i, <1>a, <2>1, <2>2, Zenon DEF WriterInv, Writing
    <3>3. hd[t] \in read_index .. read_index + FifoSize - 1
      BY <1>n, <3>1
    <3>4. elems'[Slot(hd[t])] = elems[Slot(hd[t])]
      BY <1>e, <1>s, <3>2, <3>3, Zenon
    <3> QED
      BY <2>1, <2>2, <3>1, <3>4, Zenon
  <2>3. UNCHANGED <<hd, cur, head, read_index, log, mem>>
    BY <1>a, Zenon
  <2> QED
    BY <2>2, <2>3 DEF WriterInv, Payload
<1>3. ElemInv'
  <2>1. ASSUME NEW i \in read_index .. head - 1, elems'[Slot(i)].owner = OwnerBit(i)
        PROVE  Payload(i, elems[Slot(i)].inline)' = log[i + 1]
    <3>1. CASE i = hd[s]
      <4>1. mem' = mem /\ elems'[Slot(i)].data = elems[Slot(i)].data
            /\ elems'[Slot(i)].desc = elems[Slot(i)].desc /\ elems'[Slot(i)].inline = cur[s].inline
        BY <1>a, <1>w, <1>e, <3>1, Zenon
      <4> QED
        BY <1>w, <3>1, <4>1, Zenon DEF Payload
    <3>2. CASE i # hd[s]
      <4>1. i \in read_index .. read_index + FifoSize - 1
        BY <1>n
      <4>2. elems'[Slot(i)] = elems[Slot(i)] /\ mem' = mem
        BY <1>a, <1>e, <1>s, <3>2, <4>1, Zenon
      <4> QED
        BY <1>i, <2>1, <4>2, Zenon DEF ElemInv, Payload
    <3> QED
      BY <3>1, <3>2, Zenon
  <2>2. ASSUME NEW i \in head .. read_index + FifoSize - 1
        PROVE  elems'[Slot(i)].owner # OwnerBit(i)
    <3>1. i \in read_index .. read_index + FifoSize - 1 /\ i # hd[s]
      BY <1>n, <1>w, <1>i DEF IndexInv
    <3> QED
      BY <1>i, <1>e, <1>s, <3>1, Zenon DEF ElemInv
  <2>3. UNCHANGED <<head, read_index, log>>
    BY <1>a, Zenon
  <2> QED
    BY <2>1, <2>2, <2>3, Zenon DEF ElemInv, Payload
<1>4. ReadInv'
  <2>1. CASE read_index = hd[s]
    BY <1>a, <1>i, <1>w, <2>1, Zenon DEF ReadInv, HasNewData
  <2>2. CASE read_index # hd[s]
    <3>1. read_index \in read_index .. read_index + FifoSize - 1
      BY <1>n, MmFifoAssumption
    <3> QED
      BY <1>a, <1>i, <1>e, <1>s, <2>2, <3>1, Zenon DEF ReadInv, HasNewData
  <2> QED
    BY <2>1, <2>2, Zenon
<1>5. DescInOnePlace'
  <2>1. UNCHANGED <<last_recv_desc, free, held>>
    BY <1>a, Zenon
  <2>2. {elems'[i].desc : i \in DOMAIN elems'} = {elems[i].desc : i \in DOMAIN elems}
    BY <1>e
  <2> QED
    BY <1>i, <1>e, <2>1, <2>2 DEF DescInOnePlace
<1>6. KeptMessageStable' /\ ReadsWhatWasTaken'
  BY <1>a, Zenon DEF FifoInv, KeptMessageStable, ReadsWhatWasTaken
<1> QED
  BY <1>1, <1>2, <1>3, <1>4, <1>5, <1>6, Zenon DEF FifoInv

\* Reading an element, whatever happens to its descriptor, keeps the parts of
\* the invariant that do not speak of descriptors.
LEMMA ReadStep ==
    ASSUME TypeInv, FifoInv, rpc = "read", NEW m \in {log[read_index + 1], Lost},
           AdvanceRead(m),
           \A i \in 0 .. FifoSize - 1 :
              /\ elems'[i].owner = elems[i].owner /\ elems'[i].inline = elems[i].inline
              /\ i # Slot(read_index) => elems'[i] = elems[i]
    PROVE  IndexInv' /\ WriterInv' /\ ElemInv' /\ ReadInv' /\ ReadsWhatWasTaken'
<1>t. SharedOK /\ ReceiverOK /\ SendersOK /\ HistoryOK
  BY Zenon DEF TypeInv, TypeOK
<1>i. IndexInv /\ WriterInv /\ ElemInv /\ ReadsWhatWasTaken
  BY Zenon DEF FifoInv
<1>a. /\ read_index' = read_index + 1 /\ rpc' = "tail" /\ got' = Append(got, m)
      /\ UNCHANGED <<head, tail, mem, log, pc, hd, cached_tail, cur>>
  BY Zenon DEF AdvanceRead, sndr
<1>n. /\ FifoSize \in Nat /\ FifoSize > 0 /\ head \in Nat /\ tail \in Nat /\ read_index \in Nat
      /\ tail <= read_index /\ read_index <= head /\ head <= tail + FifoSize
      /\ Len(got) = read_index /\ Len(log) = head
  BY <1>t, <1>i, MmFifoAssumption DEF SharedOK, ReceiverOK, IndexInv
<1>new. read_index < head /\ elems[Slot(read_index)].owner = OwnerBit(read_index)
  <2>1. elems[Slot(read_index)].owner = OwnerBit(read_index)
    BY Zenon DEF FifoInv, ReadInv, HasNewData
  <2>2. CASE read_index = head
    <3>1. read_index \in head .. read_index + FifoSize - 1
      BY <1>n, <2>2
    <3> QED
      BY <1>i, <2>1, <3>1, Zenon DEF ElemInv
  <2> QED
    BY <1>n, <2>1, <2>2
<1>s. ASSUME NEW i \in read_index .. read_index + FifoSize - 1, i # read_index
      PROVE  elems'[Slot(i)] = elems[Slot(i)]
  <2>1. read_index \in read_index .. read_index + FifoSize - 1 /\ i \in Nat
    BY <1>n
  <2>2. Slot(i) # Slot(read_index) /\ Slot(i) \in 0 .. FifoSize - 1
    BY <1>n, <1>s, <2>1, SlotDistinct, SlotType, Zenon
  <2> QED
    BY <2>2, Zenon
<1>1. IndexInv'
  BY <1>a, <1>n, <1>i, <1>t, <1>new, AppendFacts, SMTT(30) DEF IndexInv, HistoryOK
<1>2. WriterInv'
  <2>1. ASSUME NEW t \in Senders, pc[t] \in Writing
        PROVE  /\ read_index + 1 <= hd[t] /\ hd[t] < head /\ log[hd[t] + 1] = cur[t]
               /\ elems'[Slot(hd[t])] = elems[Slot(hd[t])]
               /\ elems[Slot(hd[t])].owner # OwnerBit(hd[t])
               /\ pc[t] = "publish" => Payload(hd[t], cur[t].inline) = cur[t]
               /\ \A u \in Senders : pc[u] \in Writing /\ hd[u] = hd[t] => u = t
    <3>1. /\ hd[t] \in Nat /\ read_index <= hd[t] /\ hd[t] < head /\ log[hd[t] + 1] = cur[t]
          /\ elems[Slot(hd[t])].owner # OwnerBit(hd[t])
          /\ pc[t] = "publish" => Payload(hd[t], cur[t].inline) = cur[t]
          /\ \A u \in Senders : pc[u] \in Writing /\ hd[u] = hd[t] => u = t
      BY <1>t, <1>i, <2>1, Zenon DEF WriterInv, SendersOK
    <3>2. hd[t] # read_index
      BY <1>new, <3>1, Zenon
    <3>3. hd[t] \in read_index .. read_index + FifoSize - 1 /\ read_index + 1 <= hd[t]
      BY <1>n, <3>1, <3>2
    <3>4. elems'[Slot(hd[t])] = elems[Slot(hd[t])]
      BY <1>s, <3>2, <3>3, Zenon
    <3> QED
      BY <3>1, <3>3, <3>4, Zenon
  <2>2. UNCHANGED <<pc, hd, cur, head, log, mem>> /\ read_index' = read_index + 1
    BY <1>a, Zenon
  <2> QED
    BY <2>1, <2>2, ZenonT(30) DEF WriterInv, Payload
<1>3. ElemInv'
  <2>1. ASSUME NEW i \in read_index + 1 .. head - 1, elems'[Slot(i)].owner = OwnerBit(i)
        PROVE  Payload(i, elems[Slot(i)].inline)' = log[i + 1]
    <3>1. i \in read_index .. head - 1 /\ i \in read_index .. read_index + FifoSize - 1 /\ i # read_index
      BY <1>n
    <3>2. elems'[Slot(i)] = elems[Slot(i)] /\ mem' = mem
      BY <1>a, <1>s, <3>1, Zenon
    <3> QED
      BY <1>i, <2>1, <3>1, <3>2 DEF ElemInv, Payload
  <2>2. ASSUME NEW i \in head .. read_index + 1 + FifoSize - 1
        PROVE  elems'[Slot(i)].owner # OwnerBit(i)
    <3>1. CASE i = read_index + FifoSize
      <4>1. Slot(i) = Slot(read_index) /\ OwnerBit(i) # OwnerBit(read_index)
            /\ Slot(read_index) \in 0 .. FifoSize - 1
        BY <1>n, <3>1, NextLap, SlotType, Zenon
      <4> QED
        BY <1>new, <4>1, Zenon
    <3>2. CASE i # read_index + FifoSize
      <4>1. /\ i \in head .. read_index + FifoSize - 1 /\ i # read_index
            /\ i \in read_index .. read_index + FifoSize - 1
        BY <1>n, <1>new, <3>2
      <4> QED
        BY <1>i, <1>s, <4>1, Zenon DEF ElemInv
    <3> QED
      BY <3>1, <3>2, Zenon
  <2>3. UNCHANGED <<head, log>> /\ read_index' = read_index + 1
    BY <1>a, Zenon
  <2> QED
    BY <2>1, <2>2, <2>3, Zenon DEF ElemInv, Payload
<1>4. ReadInv'
  BY <1>a, Zenon DEF ReadInv
<1>5. ReadsWhatWasTaken'
  <2>1. /\ Len(got') = read_index + 1 /\ got'[read_index + 1] = m
        /\ \A i \in 1 .. read_index : got'[i] = got[i]
    BY <1>a, <1>n, <1>t, AppendFacts DEF HistoryOK
  <2>2. ASSUME NEW i \in 1 .. Len(got') PROVE got'[i] \in {log'[i], Lost}
    <3>1. i \in 1 .. read_index \/ i = read_index + 1
      BY <1>n, <2>1
    <3> QED
      BY <1>a, <1>n, <1>i, <2>1, <3>1, Zenon DEF ReadsWhatWasTaken
  <2> QED
    BY <2>2, Zenon DEF ReadsWhatWasTaken
<1> QED
  BY <1>1, <1>2, <1>3, <1>4, <1>5, Zenon

\* The message at read_index is whole when the receiver is about to read it.
LEMMA PayloadRead ==
    ASSUME TypeInv, FifoInv, rpc = "read"
    PROVE  Payload(read_index, elems[Slot(read_index)].inline) = log[read_index + 1]
<1>1. /\ FifoSize \in Nat /\ FifoSize > 0 /\ head \in Nat /\ read_index \in Nat
      /\ read_index <= head /\ elems[Slot(read_index)].owner = OwnerBit(read_index)
  BY MmFifoAssumption DEF TypeInv, TypeOK, SharedOK, ReceiverOK, FifoInv, IndexInv, ReadInv,
     HasNewData
<1>2. CASE read_index = head
  <2>1. read_index \in head .. read_index + FifoSize - 1
    BY <1>1, <1>2
  <2> QED
    BY <1>1, <2>1, Zenon DEF FifoInv, ElemInv
<1>3. CASE read_index < head
  <2>1. read_index \in read_index .. head - 1
    BY <1>1, <1>3
  <2> QED
    BY <1>1, <2>1, Zenon DEF FifoInv, ElemInv
<1> QED
  BY <1>1, <1>2, <1>3

\* Reading a message out of a descriptor keeps the invariant: the element gets
\* a descriptor that nobody else has when the user keeps the one with the message.
LEMMA ReadBcopyStep ==
    ASSUME TypeInv, FifoInv, NEW keep \in BOOLEAN, ReadBcopy(keep)
    PROVE  FifoInv'
<1>t. SharedOK /\ ReceiverOK
  BY Zenon DEF TypeInv, TypeOK
<1>i. DescInOnePlace /\ KeptMessageStable
  BY Zenon DEF FifoInv
<1> DEFINE w == Slot(read_index)
           d == elems[w].desc
           kept == [desc |-> d, msg |-> mem[d]]
<1>a. PICK spare \in IF last_recv_desc = NoDesc THEN free ELSE {last_recv_desc} :
         /\ AdvanceRead(mem[d])
         /\ IF keep THEN
               /\ held' = held \cup {kept}
               /\ elems' = [elems EXCEPT ![w].desc = spare]
               /\ \E n \in (free \ {spare}) \cup {NoDesc} :
                     /\ n = NoDesc <=> free \ {spare} = {}
                     /\ last_recv_desc' = n
                     /\ free' = (free \ {spare}) \ {n}
            ELSE
               /\ last_recv_desc' = spare
               /\ free' = free \ {spare}
               /\ UNCHANGED <<held, elems>>
  BY Zenon DEF ReadBcopy
<1>b. rpc = "read" /\ ~elems[w].inline /\ mem' = mem
  BY <1>a, Zenon DEF ReadBcopy, AdvanceRead
<1>w. w \in 0 .. FifoSize - 1 /\ d \in Descs /\ DOMAIN elems = 0 .. FifoSize - 1
  BY <1>t, SlotType, Zenon DEF ReceiverOK, SharedOK
<1> HIDE DEF kept
<1>1. IndexInv' /\ WriterInv' /\ ElemInv' /\ ReadInv' /\ ReadsWhatWasTaken'
  <2>1. mem[d] = log[read_index + 1]
    BY <1>b, PayloadRead, Zenon DEF Payload
  <2>2. elems' \in {elems, [elems EXCEPT ![w].desc = spare]}
    BY <1>a, Zenon
  <2>3. \A i \in 0 .. FifoSize - 1 :
              /\ elems'[i].owner = elems[i].owner /\ elems'[i].inline = elems[i].inline
              /\ i # w => elems'[i] = elems[i]
    <3>1. CASE elems' = elems
      BY <3>1, Zenon
    <3>2. CASE elems' = [elems EXCEPT ![w].desc = spare]
      BY <1>t, <1>w, <3>2 DEF SharedOK
    <3> QED
      BY <2>2, <3>1, <3>2, Zenon
  <2> QED
    BY <1>a, <1>b, <2>1, <2>3, ReadStep, Zenon
<1> DEFINE attached == {elems[i].desc : i \in DOMAIN elems}
           keptd == {h.desc : h \in held}
<1>d. /\ \A i, j \in DOMAIN elems : elems[i].desc = elems[j].desc => i = j
      /\ \A g, h \in held : g.desc = h.desc => g = h
      /\ attached \cap keptd = {} /\ attached \cap free = {} /\ keptd \cap free = {}
      /\ last_recv_desc \notin attached \cup keptd \cup free
      /\ Descs = attached \cup keptd \cup free \cup ({last_recv_desc} \ {NoDesc})
  BY <1>i, Zenon DEF DescInOnePlace
<1>sp. /\ spare \in Descs /\ spare # NoDesc /\ NoDesc \notin Descs
       /\ spare \notin attached \cup keptd
       /\ \A i \in DOMAIN elems : elems[i].desc # spare
  BY <1>t, <1>d, MmFifoAssumption, SMTT(30) DEF ReceiverOK
<1>2. DescInOnePlace'
  <2>1. CASE ~keep
    <3>1. last_recv_desc' = spare /\ free' = free \ {spare} /\ held' = held /\ elems' = elems
      BY <1>a, <2>1, Zenon
    <3>2. /\ spare \notin attached \cup keptd \cup (free \ {spare})
          /\ Descs = attached \cup keptd \cup (free \ {spare}) \cup ({spare} \ {NoDesc})
      BY <1>a, <1>d, <1>sp
    <3> HIDE DEF attached, keptd
    <3>3. /\ attached \cap keptd = {} /\ attached \cap (free \ {spare}) = {}
          /\ keptd \cap (free \ {spare}) = {}
      BY <1>d, Zenon
    <3> USE DEF attached, keptd
    <3> QED
      BY <1>d, <3>1, <3>2, <3>3, SMTT(30) DEF DescInOnePlace
  <2>2. CASE keep
    <3>1. PICK n \in (free \ {spare}) \cup {NoDesc} :
             /\ n = NoDesc <=> free \ {spare} = {}
             /\ last_recv_desc' = n
             /\ free' = (free \ {spare}) \ {n}
      BY <1>a, <2>2, Zenon
    <3>2. held' = held \cup {kept} /\ elems' = [elems EXCEPT ![w].desc = spare]
      BY <1>a, <2>2, Zenon
    <3>3. kept.desc = d
      BY Zenon DEF kept
    <3>4. /\ DOMAIN elems' = DOMAIN elems
          /\ elems'[w].desc = spare
          /\ \A i \in DOMAIN elems : i # w => elems'[i].desc = elems[i].desc
      BY <1>t, <1>w, <3>2, Zenon DEF SharedOK
    <3> DEFINE attached2 == {elems'[i].desc : i \in DOMAIN elems'}
               keptd2 == {h.desc : h \in held'}
    <3>5. attached2 = (attached \ {d}) \cup {spare}
      <4>1. ASSUME NEW x \in attached2 PROVE x \in (attached \ {d}) \cup {spare}
        BY <1>d, <1>w, <3>4, SMTT(30)
      <4>2. ASSUME NEW x \in (attached \ {d}) \cup {spare} PROVE x \in attached2
        BY <1>w, <3>4
      <4> QED
        BY <4>1, <4>2, Zenon
    <3>6. keptd2 = keptd \cup {d}
      BY <3>2, <3>3, Zenon
    <3>7. \A i, j \in DOMAIN elems' : elems'[i].desc = elems'[j].desc => i = j
      BY <1>d, <1>sp, <3>4
    <3>8. d \in attached
      BY <1>w, Zenon
    <3>9. \A g, h \in held' : g.desc = h.desc => g = h
      BY <1>d, <3>2, <3>3, <3>8
    <3> HIDE DEF attached, keptd, attached2, keptd2, d
    <3>10. d # spare
      BY <1>sp, <3>8, Zenon
    <3>11. /\ attached2 \cap keptd2 = {} /\ attached2 \cap free' = {} /\ keptd2 \cap free' = {}
      BY <1>d, <1>sp, <3>1, <3>5, <3>6, <3>8, <3>10
    <3>12. last_recv_desc' \notin attached2 \cup keptd2 \cup free'
      BY <1>d, <1>sp, <3>1, <3>5, <3>6, <3>8, <3>10
    <3>13. Descs = attached2 \cup keptd2 \cup free' \cup ({last_recv_desc'} \ {NoDesc})
      <4>1. ASSUME NEW x \in Descs
            PROVE x \in attached2 \cup keptd2 \cup free' \cup ({last_recv_desc'} \ {NoDesc})
        BY <1>a, <1>d, <1>sp, <3>1, <3>5, <3>6
      <4>2. ASSUME NEW x \in attached2 \cup keptd2 \cup free' \cup ({last_recv_desc'} \ {NoDesc})
            PROVE x \in Descs
        BY <1>d, <1>sp, <3>1, <3>5, <3>6, <3>8
      <4> QED
        BY <4>1, <4>2, Zenon
    <3> QED
      BY <3>7, <3>9, <3>11, <3>12, <3>13, Zenon DEF DescInOnePlace, attached2, keptd2
  <2> QED
    BY <2>1, <2>2, Zenon
<1>3. KeptMessageStable'
  <2>1. held' \in {held, held \cup {kept}}
    BY <1>a, Zenon
  <2>2. mem[kept.desc] = kept.msg
    BY Zenon DEF kept
  <2> QED
    BY <1>b, <1>i, <2>1, <2>2, Zenon DEF KeptMessageStable
<1> QED
  BY <1>1, <1>2, <1>3, Zenon DEF FifoInv

\* Releasing a descriptor keeps the invariant.
LEMMA ReleaseStep ==
    ASSUME TypeInv, FifoInv, NEW h \in held, ReleaseDesc(h)
    PROVE  FifoInv'
<1>a. /\ held' = held \ {h} /\ free' = free \cup {h.desc}
      /\ UNCHANGED <<head, tail, elems, mem, read_index, rpc, log, got, last_recv_desc,
                     pc, hd, cached_tail, cur>>
  BY Zenon DEF ReleaseDesc, shared, sndr
<1>1. IndexInv' /\ WriterInv' /\ ElemInv' /\ ReadInv' /\ ReadsWhatWasTaken'
  BY <1>a DEF FifoInv, IndexInv, WriterInv, ElemInv, ReadInv, ReadsWhatWasTaken, HasNewData, Payload
<1>2. KeptMessageStable'
  BY <1>a, Zenon DEF FifoInv, KeptMessageStable
<1>3. DescInOnePlace'
  <2> DEFINE keptd == {g.desc : g \in held}
             keptd2 == {g.desc : g \in held'}
             attached == {elems[i].desc : i \in DOMAIN elems}
  <2>1. /\ \A i, j \in DOMAIN elems : elems[i].desc = elems[j].desc => i = j
        /\ \A g, k \in held : g.desc = k.desc => g = k
        /\ attached \cap keptd = {} /\ attached \cap free = {} /\ keptd \cap free = {}
        /\ last_recv_desc \notin attached \cup keptd \cup free
        /\ Descs = attached \cup keptd \cup free \cup ({last_recv_desc} \ {NoDesc})
    BY Zenon DEF FifoInv, DescInOnePlace
  <2>2. keptd2 = keptd \ {h.desc} /\ h.desc \in keptd
    BY <1>a, <2>1
  <2>3. \A g, k \in held' : g.desc = k.desc => g = k
    BY <1>a, <2>1, Zenon
  <2>4. elems' = elems /\ last_recv_desc' = last_recv_desc /\ free' = free \cup {h.desc}
    BY <1>a, Zenon
  <2> HIDE DEF keptd, keptd2, attached
  <2>5. /\ attached \cap keptd2 = {} /\ attached \cap free' = {} /\ keptd2 \cap free' = {}
        /\ last_recv_desc \notin attached \cup keptd2 \cup free'
    BY <2>1, <2>2, <2>4
  <2>6. Descs = attached \cup keptd2 \cup free' \cup ({last_recv_desc} \ {NoDesc})
    BY <2>1, <2>2, <2>4
  <2>7. attached = {elems'[i].desc : i \in DOMAIN elems'} /\ keptd2 = {g.desc : g \in held'}
    BY <2>4, Zenon DEF attached, keptd2
  <2>8. \A i, j \in DOMAIN elems' : elems'[i].desc = elems'[j].desc => i = j
    BY <2>1, <2>4, Zenon
  <2>9. last_recv_desc' = last_recv_desc
    BY <2>4, Zenon
  <2> QED
    BY <2>3, <2>5, <2>6, <2>7, <2>8, <2>9, Zenon DEF DescInOnePlace
<1> QED
  BY <1>1, <1>2, <1>3, Zenon DEF FifoInv

\* Releasing the elements up to read_index keeps the invariant.
LEMMA TailStep ==
    ASSUME TypeInv, FifoInv, ProgressTail
    PROVE  FifoInv'
<1>a. /\ tail' \in {tail, read_index} /\ rpc' \in {"poll", "idle"}
      /\ UNCHANGED <<head, elems, mem, read_index, log, got, last_recv_desc, free, held,
                     pc, hd, cached_tail, cur>>
  BY Zenon DEF ProgressTail, sndr
<1>1. IndexInv'
  <2>1. tail \in Nat /\ read_index \in Nat /\ head \in Nat /\ FifoSize \in Nat
    BY MmFifoAssumption, Zenon DEF TypeInv, TypeOK, SharedOK, ReceiverOK
  <2>2. /\ tail <= tail' /\ tail' <= read_index /\ tail' \in Nat
    <3>1. tail <= read_index
      BY Zenon DEF FifoInv, IndexInv
    <3>2. tail' = tail \/ tail' = read_index
      BY <1>a, Zenon
    <3> QED
      BY ONLY <2>1, <3>1, <3>2
  <2>3. UNCHANGED <<head, read_index, log, got, pc, hd, cached_tail>>
    BY <1>a, Zenon
  <2>4. ASSUME NEW s \in Senders PROVE cached_tail[s] <= tail'
    <3>1. cached_tail[s] \in Nat /\ cached_tail[s] <= tail
      BY Zenon DEF TypeInv, TypeOK, SendersOK, FifoInv, IndexInv
    <3> QED
      BY <2>1, <2>2, <3>1
  <2>5. read_index <= head /\ head <= tail' + FifoSize
    <3>1. read_index <= head /\ head <= tail + FifoSize
      BY DEF FifoInv, IndexInv
    <3> DEFINE t == tail'
    <3>2. t \in Nat /\ tail <= t
      BY <2>2
    <3> HIDE DEF t
    <3>3. head <= t + FifoSize
      BY <2>1, <3>1, <3>2
    <3> QED
      BY <3>1, <3>3 DEF t
  <2> QED
    BY <2>2, <2>3, <2>4, <2>5, Zenon DEF FifoInv, IndexInv
<1>2. WriterInv' /\ ElemInv'
  <2>1. UNCHANGED <<head, elems, mem, read_index, log, pc, hd, cur>>
    BY <1>a, Zenon
  <2> QED
    BY <2>1 DEF FifoInv, WriterInv, ElemInv, Payload
<1>3. ReadInv'
  BY <1>a, Zenon DEF ReadInv
<1>4. DescInOnePlace' /\ KeptMessageStable' /\ ReadsWhatWasTaken'
  <2>1. UNCHANGED <<elems, mem, log, got, last_recv_desc, free, held>>
    BY <1>a, Zenon
  <2>2. DescInOnePlace' /\ KeptMessageStable'
    BY <2>1, DescFrame DEF FifoInv
  <2>3. ReadsWhatWasTaken'
    BY <2>1 DEF FifoInv, ReadsWhatWasTaken
  <2> QED
    BY <2>2, <2>3, Zenon
<1> QED
  BY <1>1, <1>2, <1>3, <1>4, Zenon DEF FifoInv

\* Every step keeps the invariant.
LEMMA FifoStep == TypeInv /\ FifoInv /\ [Next]_vars => FifoInv'
<1> SUFFICES ASSUME TypeInv, FifoInv, [Next]_vars PROVE FifoInv'
  BY Zenon
<1>t. SharedOK /\ ReceiverOK /\ SendersOK
  BY Zenon DEF TypeInv, TypeOK
<1>n. /\ FifoSize \in Nat /\ head \in Nat /\ tail \in Nat
      /\ hd \in [Senders -> Nat] /\ cached_tail \in [Senders -> Nat]
      /\ \A s \in Senders : /\ cached_tail[s] <= tail /\ hd[s] <= head
                            /\ pc[s] = "cas" => hd[s] < cached_tail[s] + FifoSize
  BY <1>t, MmFifoAssumption, Zenon DEF SharedOK, SendersOK, FifoInv, IndexInv
<1>1. ASSUME NEW s \in Senders, NEW inline \in Inlines, SendNew(s, inline) PROVE FifoInv'
  <2>1. rpc' = "read" => HasNewData
    BY <1>1, Zenon DEF SendNew, FifoInv, ReadInv, rcvr
  <2>2. UNCHANGED <<head, tail, elems, mem, read_index, log, got, last_recv_desc, free, held>>
    BY <1>1, Zenon DEF SendNew, shared, rcvr
  <2>3. ASSUME NEW t \in Senders
        PROVE  /\ pc'[t] \in Writing => pc'[t] = pc[t] /\ cur'[t] = cur[t] /\ hd'[t] = hd[t]
               /\ cached_tail'[t] \in {cached_tail[t], tail} /\ hd'[t] \in {hd[t], head}
               /\ pc'[t] = "cas" => hd'[t] < cached_tail'[t] + FifoSize
    BY <1>1, <1>n, <1>t, Zenon DEF SendNew, SendersOK, Writing
  <2> QED
    BY <2>1, <2>2, <2>3, FifoFrame, Zenon
<1>2. ASSUME NEW s \in Senders, LoadHead(s) PROVE FifoInv'
  <2>1. rpc' = "read" => HasNewData
    BY <1>2, Zenon DEF LoadHead, NoResource, AbleToSend, FifoInv, ReadInv, rcvr
  <2>2. UNCHANGED <<head, tail, elems, mem, read_index, log, got, last_recv_desc, free, held>>
    BY <1>2 DEF LoadHead, NoResource, AbleToSend, shared, rcvr
  <2>3. ASSUME NEW t \in Senders
        PROVE  /\ pc'[t] \in Writing => pc'[t] = pc[t] /\ cur'[t] = cur[t] /\ hd'[t] = hd[t]
               /\ cached_tail'[t] \in {cached_tail[t], tail} /\ hd'[t] \in {hd[t], head}
               /\ pc'[t] = "cas" => hd'[t] < cached_tail'[t] + FifoSize
    BY <1>2, <1>n, <1>t, SMTT(30) DEF LoadHead, NoResource, AbleToSend, SendersOK, Writing
  <2> QED
    BY <2>1, <2>2, <2>3, FifoFrame, Zenon
<1>3. ASSUME NEW s \in Senders, RefreshTail(s) PROVE FifoInv'
  <2>1. rpc' = "read" => HasNewData
    BY <1>3, Zenon DEF RefreshTail, NoResource, AbleToSend, FifoInv, ReadInv, rcvr
  <2>2. UNCHANGED <<head, tail, elems, mem, read_index, log, got, last_recv_desc, free, held>>
    BY <1>3, Zenon DEF RefreshTail, NoResource, AbleToSend, shared, rcvr
  <2>3. ASSUME NEW t \in Senders
        PROVE  /\ pc'[t] \in Writing => pc'[t] = pc[t] /\ cur'[t] = cur[t] /\ hd'[t] = hd[t]
               /\ cached_tail'[t] \in {cached_tail[t], tail} /\ hd'[t] \in {hd[t], head}
               /\ pc'[t] = "cas" => hd'[t] < cached_tail'[t] + FifoSize
    BY <1>3, <1>n, <1>t, SMTT(30) DEF RefreshTail, NoResource, AbleToSend, SendersOK, Writing
  <2> QED
    BY <2>1, <2>2, <2>3, FifoFrame, Zenon
<1>4. ASSUME NEW s \in Senders, CompareAndSwap(s) PROVE FifoInv'
  <2>1. CASE head = hd[s] /\ armed = hd_armed[s]
    BY <1>4, <2>1, TakeStep, Zenon
  <2>2. CASE ~(head = hd[s] /\ armed = hd_armed[s])
    <3>1. /\ pc' = [pc EXCEPT ![s] = "load"]
          /\ UNCHANGED <<head, tail, elems, mem, read_index, rpc, log, got, last_recv_desc, free, held,
                         hd, cached_tail, cur>>
      BY <1>4, <2>2, Zenon DEF CompareAndSwap, rcvr
    <3>2. \A t \in Senders : pc'[t] = pc[t] \/ pc'[t] = "load"
      BY <1>t, <3>1, Zenon DEF SendersOK
    <3>3. rpc' = "read" => HasNewData
      BY <3>1, Zenon DEF FifoInv, ReadInv
    <3> QED
      BY <1>n, <3>1, <3>2, <3>3, FifoFrame DEF Writing
  <2> QED
    BY <2>1, <2>2, Zenon
<1>5. ASSUME NEW s \in Senders, WritePayload(s) PROVE FifoInv'
  BY <1>5, WriteStep
<1>6. ASSUME NEW s \in Senders, AttachFails(s) PROVE FifoInv'
  <2>1. rpc' = "read" => HasNewData
    BY <1>6, Zenon DEF AttachFails, FifoInv, ReadInv, rcvr
  <2>2. UNCHANGED <<head, tail, elems, mem, read_index, log, got, last_recv_desc, free, held>>
    BY <1>6, Zenon DEF AttachFails, shared, rcvr
  <2>3. ASSUME NEW t \in Senders
        PROVE  /\ pc'[t] \in Writing => pc'[t] = pc[t] /\ cur'[t] = cur[t] /\ hd'[t] = hd[t]
               /\ cached_tail'[t] \in {cached_tail[t], tail} /\ hd'[t] \in {hd[t], head}
               /\ pc'[t] = "cas" => hd'[t] < cached_tail'[t] + FifoSize
    BY <1>6, <1>n, <1>t DEF AttachFails, SendersOK, Writing
  <2> QED
    BY <2>1, <2>2, <2>3, FifoFrame, Zenon
<1>7. ASSUME NEW s \in Senders, Publish(s) PROVE FifoInv'
  BY <1>7, PublishStep, Zenon
<1>8. ASSUME NEW s \in Senders, SignalRemote(s) PROVE FifoInv'
  <2>1. rpc' = "read" => HasNewData
    BY <1>8 DEF SignalRemote, SendDone, FifoInv, ReadInv, rcvr
  <2>2. UNCHANGED <<head, tail, elems, mem, read_index, log, got, last_recv_desc, free, held>>
    BY <1>8 DEF SignalRemote, SendDone, shared, rcvr
  <2>3. ASSUME NEW t \in Senders
        PROVE  /\ pc'[t] \in Writing => pc'[t] = pc[t] /\ cur'[t] = cur[t] /\ hd'[t] = hd[t]
               /\ cached_tail'[t] \in {cached_tail[t], tail} /\ hd'[t] \in {hd[t], head}
               /\ pc'[t] = "cas" => hd'[t] < cached_tail'[t] + FifoSize
    BY <1>8, <1>n, <1>t DEF SignalRemote, SendDone, SendersOK, Writing
  <2> QED
    BY <2>1, <2>2, <2>3, FifoFrame, Zenon
<1>9. ASSUME NEW s \in Senders, PendingAdd(s) PROVE FifoInv'
  <2>1. rpc' = "read" => HasNewData
    BY <1>9, Zenon DEF PendingAdd, FifoInv, ReadInv, rcvr
  <2>2. UNCHANGED <<head, tail, elems, mem, read_index, log, got, last_recv_desc, free, held>>
    BY <1>9, Zenon DEF PendingAdd, shared, rcvr
  <2>3. ASSUME NEW t \in Senders
        PROVE  /\ pc'[t] \in Writing => pc'[t] = pc[t] /\ cur'[t] = cur[t] /\ hd'[t] = hd[t]
               /\ cached_tail'[t] \in {cached_tail[t], tail} /\ hd'[t] \in {hd[t], head}
               /\ pc'[t] = "cas" => hd'[t] < cached_tail'[t] + FifoSize
    BY <1>9, <1>n, <1>t, Zenon DEF PendingAdd, SendersOK, Writing
  <2> QED
    BY <2>1, <2>2, <2>3, FifoFrame, Zenon
<1>10. ASSUME NEW s \in Senders, GiveUp(s) PROVE FifoInv'
  <2>1. rpc' = "read" => HasNewData
    BY <1>10, Zenon DEF GiveUp, FifoInv, ReadInv, rcvr
  <2>2. UNCHANGED <<head, tail, elems, mem, read_index, log, got, last_recv_desc, free, held>>
    BY <1>10, Zenon DEF GiveUp, shared, rcvr
  <2>3. ASSUME NEW t \in Senders
        PROVE  /\ pc'[t] \in Writing => pc'[t] = pc[t] /\ cur'[t] = cur[t] /\ hd'[t] = hd[t]
               /\ cached_tail'[t] \in {cached_tail[t], tail} /\ hd'[t] \in {hd[t], head}
               /\ pc'[t] = "cas" => hd'[t] < cached_tail'[t] + FifoSize
    BY <1>10, <1>n, <1>t DEF GiveUp, SendersOK, Writing
  <2> QED
    BY <2>1, <2>2, <2>3, FifoFrame, Zenon
<1>11. ASSUME NEW s \in Senders, StartDispatch(s) PROVE FifoInv'
  <2>1. rpc' = "read" => HasNewData
    BY <1>11, Zenon DEF StartDispatch, FifoInv, ReadInv, rcvr
  <2>2. UNCHANGED <<head, tail, elems, mem, read_index, log, got, last_recv_desc, free, held>>
    BY <1>11, Zenon DEF StartDispatch, shared, rcvr
  <2>3. ASSUME NEW t \in Senders
        PROVE  /\ pc'[t] \in Writing => pc'[t] = pc[t] /\ cur'[t] = cur[t] /\ hd'[t] = hd[t]
               /\ cached_tail'[t] \in {cached_tail[t], tail} /\ hd'[t] \in {hd[t], head}
               /\ pc'[t] = "cas" => hd'[t] < cached_tail'[t] + FifoSize
    BY <1>11, <1>n, <1>t DEF StartDispatch, SendersOK, Writing
  <2> QED
    BY <2>1, <2>2, <2>3, FifoFrame, Zenon
<1>12. ASSUME NEW s \in Senders, ProcessPending(s) PROVE FifoInv'
  <2>1. rpc' = "read" => HasNewData
    BY <1>12, Zenon DEF ProcessPending, FifoInv, ReadInv, rcvr
  <2>2. UNCHANGED <<head, tail, elems, mem, read_index, log, got, last_recv_desc, free, held>>
    BY <1>12, Zenon DEF ProcessPending, shared, rcvr
  <2>3. ASSUME NEW t \in Senders
        PROVE  /\ pc'[t] \in Writing => pc'[t] = pc[t] /\ cur'[t] = cur[t] /\ hd'[t] = hd[t]
               /\ cached_tail'[t] \in {cached_tail[t], tail} /\ hd'[t] \in {hd[t], head}
               /\ pc'[t] = "cas" => hd'[t] < cached_tail'[t] + FifoSize
    BY <1>12, <1>n, <1>t DEF ProcessPending, SendersOK, Writing
  <2> QED
    BY <2>1, <2>2, <2>3, FifoFrame, Zenon
<1>13. ASSUME NEW s \in Senders, ProcessElem(s) PROVE FifoInv'
  <2>1. rpc' = "read" => HasNewData
    BY <1>13 DEF ProcessElem, NoResource, FifoInv, ReadInv, rcvr
  <2>2. UNCHANGED <<head, tail, elems, mem, read_index, log, got, last_recv_desc, free, held>>
    BY <1>13 DEF ProcessElem, NoResource, shared, rcvr
  <2>3. ASSUME NEW t \in Senders
        PROVE  /\ pc'[t] \in Writing => pc'[t] = pc[t] /\ cur'[t] = cur[t] /\ hd'[t] = hd[t]
               /\ cached_tail'[t] \in {cached_tail[t], tail} /\ hd'[t] \in {hd[t], head}
               /\ pc'[t] = "cas" => hd'[t] < cached_tail'[t] + FifoSize
    BY <1>13, <1>n, <1>t DEF ProcessElem, NoResource, SendersOK, Writing
  <2> QED
    BY <2>1, <2>2, <2>3, FifoFrame, Zenon
<1>14. ASSUME NEW s \in Senders, PendingPurge(s) PROVE FifoInv'
  <2>1. rpc' = "read" => HasNewData
    BY <1>14 DEF PendingPurge, FifoInv, ReadInv, rcvr
  <2>2. UNCHANGED <<head, tail, elems, mem, read_index, log, got, last_recv_desc, free, held>>
    BY <1>14 DEF PendingPurge, shared, rcvr
  <2>3. ASSUME NEW t \in Senders
        PROVE  /\ pc'[t] \in Writing => pc'[t] = pc[t] /\ cur'[t] = cur[t] /\ hd'[t] = hd[t]
               /\ cached_tail'[t] \in {cached_tail[t], tail} /\ hd'[t] \in {hd[t], head}
               /\ pc'[t] = "cas" => hd'[t] < cached_tail'[t] + FifoSize
    BY <1>14, <1>n, <1>t, Zenon DEF PendingPurge, SendersOK, Writing
  <2> QED
    BY <2>1, <2>2, <2>3, FifoFrame, Zenon
<1>15. ASSUME NEW s \in Senders, Flush(s) PROVE FifoInv'
  <2>1. rpc' = "read" => HasNewData
    BY <1>15, Zenon DEF Flush, FifoInv, ReadInv, rcvr
  <2>2. UNCHANGED <<head, tail, elems, mem, read_index, log, got, last_recv_desc, free, held>>
    BY <1>15, Zenon DEF Flush, shared, rcvr
  <2>3. ASSUME NEW t \in Senders
        PROVE  /\ pc'[t] \in Writing => pc'[t] = pc[t] /\ cur'[t] = cur[t] /\ hd'[t] = hd[t]
               /\ cached_tail'[t] \in {cached_tail[t], tail} /\ hd'[t] \in {hd[t], head}
               /\ pc'[t] = "cas" => hd'[t] < cached_tail'[t] + FifoSize
    BY <1>15, <1>n, <1>t, Zenon DEF Flush, SendersOK, Writing
  <2> QED
    BY <2>1, <2>2, <2>3, FifoFrame, Zenon
<1>16. ASSUME StartProgress PROVE FifoInv'
  <2>1. rpc' = "read" => HasNewData
    BY <1>16, Zenon DEF StartProgress, FifoInv, ReadInv
  <2>2. UNCHANGED <<head, tail, elems, mem, read_index, log, got, last_recv_desc, free, held>>
    BY <1>16, Zenon DEF StartProgress, shared, sndr
  <2>3. UNCHANGED <<pc, cur, hd, cached_tail>>
    BY <1>16 DEF StartProgress, sndr
  <2> QED
    BY <1>n, <2>1, <2>2, <2>3, FifoFrame, Zenon
<1>17. ASSUME PollFifo PROVE FifoInv'
  <2>1. rpc' = "read" => HasNewData
    BY <1>17, Zenon DEF PollFifo, FifoInv, ReadInv
  <2>2. UNCHANGED <<head, tail, elems, mem, read_index, log, got, last_recv_desc, free, held>>
    BY <1>17, Zenon DEF PollFifo, shared, sndr
  <2>3. UNCHANGED <<pc, cur, hd, cached_tail>>
    BY <1>17, Zenon DEF PollFifo, sndr
  <2> QED
    BY <1>n, <2>1, <2>2, <2>3, FifoFrame, Zenon
<1>18. ASSUME ReadShort PROVE FifoInv'
  <2>1. rpc = "read" /\ elems[Slot(read_index)].inline /\ AdvanceRead(elems[Slot(read_index)].data)
        /\ UNCHANGED <<elems, mem, last_recv_desc, free, held>>
    BY <1>18, Zenon DEF ReadShort, AdvanceRead
  <2>2. elems[Slot(read_index)].data = log[read_index + 1]
    BY <2>1, PayloadRead, Zenon DEF Payload
  <2>3. IndexInv' /\ WriterInv' /\ ElemInv' /\ ReadInv' /\ ReadsWhatWasTaken'
    BY <2>1, <2>2, ReadStep, Zenon
  <2>4. DescInOnePlace' /\ KeptMessageStable'
    BY <2>1, DescFrame, Zenon DEF FifoInv
  <2> QED
    BY <2>3, <2>4, Zenon DEF FifoInv
<1>19. ASSUME ReadBcopyNoDesc PROVE FifoInv'
  <2>1. rpc = "read" /\ AdvanceRead(Lost) /\ UNCHANGED <<elems, mem, last_recv_desc, free, held>>
    BY <1>19, Zenon DEF ReadBcopyNoDesc, AdvanceRead
  <2>2. IndexInv' /\ WriterInv' /\ ElemInv' /\ ReadInv' /\ ReadsWhatWasTaken'
    BY <2>1, ReadStep, Zenon
  <2>3. DescInOnePlace' /\ KeptMessageStable'
    BY <2>1, DescFrame, Zenon DEF FifoInv
  <2> QED
    BY <2>2, <2>3, Zenon DEF FifoInv
<1>20. ASSUME NEW keep \in BOOLEAN, ReadBcopy(keep) PROVE FifoInv'
  BY <1>20, ReadBcopyStep, Zenon
<1>21. ASSUME ProgressTail PROVE FifoInv'
  BY <1>21, TailStep, Zenon
<1>22. ASSUME NEW h \in held, ReleaseDesc(h) PROVE FifoInv'
  BY <1>22, ReleaseStep, Zenon
<1>23. ASSUME EventArm PROVE FifoInv'
  <2>1. rpc' = "read" => HasNewData
    BY <1>23, Zenon DEF EventArm, FifoInv, ReadInv
  <2>2. UNCHANGED <<head, tail, elems, mem, read_index, log, got, last_recv_desc, free, held>>
    BY <1>23 DEF EventArm, shared, sndr
  <2>3. UNCHANGED <<pc, cur, hd, cached_tail>>
    BY <1>23 DEF EventArm, sndr
  <2> QED
    BY <1>n, <2>1, <2>2, <2>3, FifoFrame, Zenon
<1>24. ASSUME ArmCompareAndSwap PROVE FifoInv'
  <2>1. rpc' = "read" => HasNewData
    BY <1>24, Zenon DEF ArmCompareAndSwap, FifoInv, ReadInv
  <2>2. UNCHANGED <<head, tail, elems, mem, read_index, log, got, last_recv_desc, free, held>>
    BY <1>24, Zenon DEF ArmCompareAndSwap, shared, sndr
  <2>3. UNCHANGED <<pc, cur, hd, cached_tail>>
    BY <1>24, Zenon DEF ArmCompareAndSwap, sndr
  <2> QED
    BY <1>n, <2>1, <2>2, <2>3, FifoFrame, Zenon
<1>25. ASSUME ArmReceive PROVE FifoInv'
  <2>1. rpc' = "read" => HasNewData
    BY <1>25, Zenon DEF ArmReceive, FifoInv, ReadInv
  <2>2. UNCHANGED <<head, tail, elems, mem, read_index, log, got, last_recv_desc, free, held>>
    BY <1>25, Zenon DEF ArmReceive, shared, sndr
  <2>3. UNCHANGED <<pc, cur, hd, cached_tail>>
    BY <1>25, Zenon DEF ArmReceive, sndr
  <2> QED
    BY <1>n, <2>1, <2>2, <2>3, FifoFrame, Zenon
<1>26. ASSUME WakeUp PROVE FifoInv'
  <2>1. rpc' = "read" => HasNewData
    BY <1>26, Zenon DEF WakeUp, FifoInv, ReadInv
  <2>2. UNCHANGED <<head, tail, elems, mem, read_index, log, got, last_recv_desc, free, held>>
    BY <1>26, Zenon DEF WakeUp, shared, sndr
  <2>3. UNCHANGED <<pc, cur, hd, cached_tail>>
    BY <1>26, Zenon DEF WakeUp, sndr
  <2> QED
    BY <1>n, <2>1, <2>2, <2>3, FifoFrame, Zenon
<1>27. ASSUME UNCHANGED vars PROVE FifoInv'
  <2>1. UNCHANGED <<head, tail, elems, mem, read_index, rpc, log, got, last_recv_desc, free, held,
                    pc, hd, cur, cached_tail>>
    BY <1>27 DEF vars, shared, rcvr, sndr
  <2>2. rpc' = "read" => HasNewData
    BY <2>1, Zenon DEF FifoInv, ReadInv
  <2> QED
    BY <1>n, <2>1, <2>2, FifoFrame, Zenon
<1> QED
  BY <1>1, <1>2, <1>3, <1>4, <1>5, <1>6, <1>7, <1>8, <1>9, <1>10, <1>11, <1>12, <1>13, <1>14,
     <1>15, <1>16, <1>17, <1>18, <1>19, <1>20, <1>21, <1>22, <1>23, <1>24, <1>25, <1>26, <1>27
     DEF Next, SenderStep, SenderUser, ReceiverStep, ReceiverUser

\* The FIFO invariant holds in every reachable state.
THEOREM FifoCorrect == Spec => [](TypeInv /\ FifoInv)
  BY TypeInit, TypeStep, FifoInit, FifoStep, PTL DEF Spec

\* What the receiver reads at an index is what the sender that took the index
\* with its compare-and-swap has written, whole, whatever the other senders do.
THEOREM ReadsWhatWasTakenTheorem == Spec => []ReadsWhatWasTaken
<1>1. FifoInv => ReadsWhatWasTaken
  BY Zenon DEF FifoInv
<1> QED
  BY FifoCorrect, <1>1, PTL

\* A sender writes only into an element that it alone has and that the receiver
\* has read.
THEOREM WriterOwnsElementTheorem == Spec => []WriterOwnsElement
<1>1. TypeInv /\ FifoInv => WriterOwnsElement
  <2> SUFFICES ASSUME TypeInv, FifoInv, NEW s \in Senders, pc[s] \in Writing
               PROVE  /\ hd[s] >= read_index /\ hd[s] < read_index + FifoSize
                      /\ \A t \in Senders \ {s} :
                            pc[t] \in Writing => Slot(hd[t]) # Slot(hd[s])
    BY Zenon DEF WriterOwnsElement, Writing
  <2>1. /\ FifoSize \in Nat /\ head \in Nat /\ tail \in Nat /\ read_index \in Nat
        /\ hd \in [Senders -> Nat] /\ tail <= read_index /\ head <= tail + FifoSize
    BY MmFifoAssumption, Zenon DEF TypeInv, TypeOK, SharedOK, ReceiverOK, SendersOK, FifoInv, IndexInv
  <2>2. ASSUME NEW t \in Senders, pc[t] \in Writing
        PROVE  hd[t] \in read_index .. read_index + FifoSize - 1
    BY <2>1, <2>2, SMTT(30) DEF FifoInv, WriterInv
  <2>3. ASSUME NEW t \in Senders \ {s}, pc[t] \in Writing
        PROVE  Slot(hd[t]) # Slot(hd[s])
    <3>1. hd[t] # hd[s]
      BY <2>3, Zenon DEF FifoInv, WriterInv
    <3> QED
      BY <2>1, <2>2, <2>3, <3>1, SlotDistinct, Zenon
  <2> QED
    BY <2>1, <2>2, <2>3
<1> QED
  BY FifoCorrect, <1>1, PTL

\* An element whose owner bit says that it is new was taken by a sender: the
\* assert of uct_mm_iface_poll_fifo() holds.
THEOREM NewDataWasTakenTheorem == Spec => []NewDataWasTaken
<1>1. TypeInv /\ FifoInv => NewDataWasTaken
  <2> SUFFICES ASSUME TypeInv, FifoInv, HasNewData PROVE read_index < head
    BY Zenon DEF NewDataWasTaken
  <2>1. /\ FifoSize \in Nat /\ FifoSize > 0 /\ head \in Nat /\ read_index \in Nat /\ read_index <= head
    <3>1. SharedOK /\ ReceiverOK /\ IndexInv
      BY Zenon DEF TypeInv, TypeOK, FifoInv
    <3> QED
      BY <3>1, MmFifoAssumption DEF SharedOK, ReceiverOK, IndexInv
  <2>2. read_index # head
    <3>1. CASE read_index = head
      <4>1. read_index \in head .. read_index + FifoSize - 1
        BY <2>1, <3>1
      <4> QED
        BY <4>1, Zenon DEF FifoInv, ElemInv, HasNewData
    <3> QED
      BY <3>1, Zenon
  <2> QED
    BY <2>1, <2>2
<1> QED
  BY FifoCorrect, <1>1, PTL

\* A receive descriptor is in one place, and a message that the user keeps in
\* one is not overwritten.
THEOREM DescriptorTheorem == Spec => [](DescInOnePlace /\ KeptMessageStable)
<1>1. FifoInv => DescInOnePlace /\ KeptMessageStable
  BY Zenon DEF FifoInv
<1> QED
  BY FifoCorrect, <1>1, PTL

\* The FIFO implements the bounded queue: the compare-and-swap is Take, the
\* read is Read, and every other step leaves the queue alone.
THEOREM QueueRefinement == Spec => ImplementsQueue
<1>1. Init => Queue!Init
  BY Zenon DEF Init, Queue!Init
<1>2. TypeInv /\ FifoInv /\ [Next]_vars => [Queue!Next]_<<log, got>>
  <2> SUFFICES ASSUME TypeInv, FifoInv, [Next]_vars, ~UNCHANGED <<log, got>>
               PROVE  Queue!Next
    BY Zenon
  <2>n. /\ FifoSize \in Nat /\ head \in Nat /\ tail \in Nat /\ read_index \in Nat
        /\ Len(log) = head /\ Len(got) = read_index /\ tail <= read_index
    BY MmFifoAssumption, Zenon DEF TypeInv, TypeOK, SharedOK, ReceiverOK, FifoInv, IndexInv
  <2>1. ASSUME NEW s \in Senders, CompareAndSwap(s) PROVE Queue!Take
    <3>1. head = hd[s] /\ pc[s] = "cas" /\ log' = Append(log, cur[s]) /\ UNCHANGED got
      BY <2>1, Zenon DEF CompareAndSwap
    <3>2. cur[s] \in Msg /\ cached_tail[s] \in Nat
      BY <3>1, Zenon DEF TypeInv, TypeOK, SendersOK, SenderControl, Sending
    <3>3. hd[s] < cached_tail[s] + FifoSize /\ cached_tail[s] <= tail
      BY <3>1, Zenon DEF FifoInv, IndexInv
    <3>4. Len(log) < Len(got) + FifoSize
      BY <2>n, <3>1, <3>2, <3>3, SMTT(30)
    <3> QED
      BY <3>1, <3>2, <3>4, Zenon DEF Queue!Take
  <2>2. ASSUME NEW m, AdvanceRead(m), rpc = "read" PROVE Queue!Read
    <3>1. got' = Append(got, m) /\ UNCHANGED log
      BY <2>2, Zenon DEF AdvanceRead
    <3>2. FifoInv'
      BY FifoStep, Zenon
    <3>3. Len(got') = Len(got) + 1 /\ got'[Len(got) + 1] = m
      BY <3>1 DEF TypeInv, TypeOK, HistoryOK
    <3>4. read_index' = read_index + 1 /\ head' = head
      BY <2>2, Zenon DEF AdvanceRead
    <3>5. Len(got) < Len(log)
      BY <2>n, <3>2, <3>4, SMTT(30) DEF FifoInv, IndexInv
    <3>6. m \in {log[Len(got) + 1], Lost}
      <4>1. Len(got) + 1 \in 1 .. Len(got')
        BY <2>n, <3>3
      <4> QED
        BY <3>1, <3>2, <3>3, <4>1, Zenon DEF FifoInv, ReadsWhatWasTaken
    <3> QED
      BY <3>1, <3>5, <3>6, Zenon DEF Queue!Read
  <2>3. \/ \E s \in Senders : CompareAndSwap(s)
        \/ ReadShort \/ ReadBcopyNoDesc \/ \E keep \in BOOLEAN : ReadBcopy(keep)
    BY Zenon DEF Next, SenderStep, SenderUser, ReceiverStep, ReceiverUser, vars, SendNew, LoadHead,
       RefreshTail, WritePayload, AttachFails, Publish, SignalRemote, PendingAdd, GiveUp,
       StartDispatch, ProcessPending, ProcessElem, PendingPurge, Flush, StartProgress, PollFifo,
       ProgressTail, ReleaseDesc, EventArm, ArmCompareAndSwap, ArmReceive, WakeUp
  <2>4. ASSUME ReadShort \/ ReadBcopyNoDesc \/ \E keep \in BOOLEAN : ReadBcopy(keep)
        PROVE  rpc = "read" /\ \E m : AdvanceRead(m)
    BY <2>4, Zenon DEF ReadShort, ReadBcopyNoDesc, ReadBcopy
  <2> QED
    BY <2>1, <2>2, <2>3, <2>4, Zenon DEF Queue!Next
<1> QED
  BY FifoCorrect, <1>1, <1>2, PTL DEF Spec, ImplementsQueue, Queue!Spec

-----------------------------------------------------------------------------
(* Wake-ups. *)

InFlight == Writing \cup {"signal"}

\* From the time the head is armed until the receiver wakes up: nobody has taken
\* the armed head, or who took it is on the way to signal or has given it up
\* unpublished, or the signal is there.
WakeInv ==
    /\ rpc = "arm_cas" => rhead = read_index
    /\ rpc \in {"arm_recv", "sleep"} =>
          \/ sig > 0
          \/ armed /\ head = read_index
          \/ \E s \in Senders : /\ hd_armed[s] /\ pc[s] \in InFlight
                                /\ pc[s] \in Writing => hd[s] = read_index
          \/ /\ ~HasNewData /\ read_index < head
             /\ \A s \in Senders : pc[s] \in Writing => hd[s] # read_index

\* Steps in which no sender starts or ends to be in flight keep it.
LEMMA WakeFrame ==
    ASSUME WakeInv, UNCHANGED <<head, armed, sig, read_index, elems>>,
           (rpc' = rpc /\ rhead' = rhead) \/ rpc' \notin {"arm_cas", "arm_recv", "sleep"},
           \A s \in Senders :
              /\ pc[s] \in InFlight => pc'[s] = pc[s] /\ hd'[s] = hd[s] /\ hd_armed'[s] = hd_armed[s]
              /\ pc'[s] \in Writing => pc[s] \in Writing
    PROVE  WakeInv'
<1>1. CASE rpc' \notin {"arm_cas", "arm_recv", "sleep"}
  BY <1>1, Zenon DEF WakeInv
<1>2. CASE rpc' = rpc /\ rhead' = rhead
  <2>1. HasNewData' <=> HasNewData
    BY Zenon DEF HasNewData
  <2> QED
    BY <1>2, <2>1, Zenon DEF WakeInv, InFlight
<1> QED
  BY <1>1, <1>2, Zenon

\* It holds initially.
LEMMA WakeInit == Init => WakeInv
  BY Zenon DEF Init, WakeInv

\* Every step keeps it.
LEMMA WakeStep == TypeInv /\ FifoInv /\ WakeInv /\ [Next]_vars => WakeInv'
<1> SUFFICES ASSUME TypeInv, FifoInv, WakeInv, [Next]_vars PROVE WakeInv'
  BY Zenon
<1>t. SharedOK /\ ReceiverOK /\ SendersOK
  BY Zenon DEF TypeInv, TypeOK
<1>n. /\ head \in Nat /\ read_index \in Nat /\ read_index <= head /\ hd \in [Senders -> Nat]
  BY <1>t, Zenon DEF SharedOK, ReceiverOK, SendersOK, FifoInv, IndexInv
<1>1. ASSUME NEW s \in Senders, NEW inline \in Inlines, SendNew(s, inline) PROVE WakeInv'
  <2>1. UNCHANGED <<head, armed, sig, read_index, elems, rpc, rhead>>
    BY <1>1, Zenon DEF SendNew, shared, rcvr
  <2>2. \A t \in Senders :
           /\ pc[t] \in InFlight => pc'[t] = pc[t] /\ hd'[t] = hd[t] /\ hd_armed'[t] = hd_armed[t]
           /\ pc'[t] \in Writing => pc[t] \in Writing
    BY <1>1, <1>t, Zenon DEF SendNew, SendersOK, InFlight, Writing
  <2> QED
    BY <2>1, <2>2, WakeFrame, Zenon
<1>2. ASSUME NEW s \in Senders, LoadHead(s) PROVE WakeInv'
  <2>1. UNCHANGED <<head, armed, sig, read_index, elems, rpc, rhead>>
    BY <1>2, Zenon DEF LoadHead, NoResource, shared, rcvr
  <2>2. \A t \in Senders :
           /\ pc[t] \in InFlight => pc'[t] = pc[t] /\ hd'[t] = hd[t] /\ hd_armed'[t] = hd_armed[t]
           /\ pc'[t] \in Writing => pc[t] \in Writing
    BY <1>2, <1>t DEF LoadHead, NoResource, SendersOK, InFlight, Writing
  <2> QED
    BY <2>1, <2>2, WakeFrame, Zenon
<1>3. ASSUME NEW s \in Senders, RefreshTail(s) PROVE WakeInv'
  <2>1. UNCHANGED <<head, armed, sig, read_index, elems, rpc, rhead>>
    BY <1>3 DEF RefreshTail, NoResource, shared, rcvr
  <2>2. \A t \in Senders :
           /\ pc[t] \in InFlight => pc'[t] = pc[t] /\ hd'[t] = hd[t] /\ hd_armed'[t] = hd_armed[t]
           /\ pc'[t] \in Writing => pc[t] \in Writing
    BY <1>3, <1>t DEF RefreshTail, NoResource, SendersOK, InFlight, Writing
  <2> QED
    BY <2>1, <2>2, WakeFrame, Zenon
<1>4. ASSUME NEW s \in Senders, CompareAndSwap(s) PROVE WakeInv'
  <2>1. /\ pc[s] = "cas" /\ UNCHANGED <<sig, read_index, elems, rpc, rhead, hd, hd_armed>>
        /\ HasNewData' = HasNewData
    BY <1>4, Zenon DEF CompareAndSwap, rcvr, HasNewData
  <2>2. CASE head = hd[s] /\ armed = hd_armed[s]
    <3>1. pc' = [pc EXCEPT ![s] = "write"] /\ head' = head + 1
      BY <1>4, <2>2, Zenon DEF CompareAndSwap
    <3>2. \A t \in Senders : t # s => pc'[t] = pc[t]
      BY <1>t, <3>1, Zenon DEF SendersOK
    <3>3. pc'[s] = "write"
      BY <1>t, <3>1, Zenon DEF SendersOK
    <3>4. ASSUME armed, head = read_index
          PROVE  hd_armed'[s] /\ pc'[s] \in InFlight /\ hd'[s] = read_index'
      BY <2>1, <2>2, <3>3, <3>4, Zenon DEF InFlight, Writing
    <3>5. ASSUME NEW t \in Senders, hd_armed[t], pc[t] \in InFlight,
                 pc[t] \in Writing => hd[t] = read_index
          PROVE  hd_armed'[t] /\ pc'[t] \in InFlight /\ (pc'[t] \in Writing => hd'[t] = read_index')
      BY <2>1, <3>2, <3>5, Zenon DEF InFlight, Writing
    <3>6. ASSUME ~HasNewData, read_index < head,
                 \A t \in Senders : pc[t] \in Writing => hd[t] # read_index
          PROVE  /\ ~HasNewData' /\ read_index' < head'
                 /\ \A t \in Senders : pc'[t] \in Writing => hd'[t] # read_index'
      BY <1>n, <2>1, <2>2, <3>1, <3>2, <3>6
    <3> QED
      BY <2>1, <3>4, <3>5, <3>6, Zenon DEF WakeInv
  <2>3. CASE ~(head = hd[s] /\ armed = hd_armed[s])
    <3>1. pc' = [pc EXCEPT ![s] = "load"] /\ UNCHANGED <<head, armed>>
      BY <1>4, <2>3, Zenon DEF CompareAndSwap
    <3>2. \A t \in Senders : /\ t # s => pc'[t] = pc[t]
                             /\ t = s => pc'[t] = "load"
      BY <1>t, <3>1 DEF SendersOK
    <3> QED
      BY <2>1, <3>1, <3>2, WakeFrame, Zenon DEF InFlight, Writing
  <2> QED
    BY <2>2, <2>3, Zenon
<1>5. ASSUME NEW s \in Senders, WritePayload(s) PROVE WakeInv'
  <2>1. /\ pc[s] = "write" /\ UNCHANGED <<head, armed, sig, read_index, rpc, rhead, hd, hd_armed>>
        /\ pc' = [pc EXCEPT ![s] = "publish"]
    BY <1>5, Zenon DEF WritePayload, rcvr
  <2>2. \A t \in Senders : /\ pc'[t] \in Writing <=> pc[t] \in Writing
                           /\ pc'[t] \in InFlight <=> pc[t] \in InFlight
    BY <1>t, <2>1, Zenon DEF SendersOK, InFlight, Writing
  <2>3. HasNewData' <=> HasNewData
    <3>1. \A i \in 0 .. FifoSize - 1 : elems'[i].owner = elems[i].owner
      <4>1. CASE cur[s].inline
        <5>1. elems' = [elems EXCEPT ![Slot(hd[s])].data = cur[s]]
          BY <1>5, <4>1, Zenon DEF WritePayload
        <5> QED
          BY <1>t, <5>1 DEF SharedOK
      <4>2. CASE ~cur[s].inline
        BY <1>5, <4>2, Zenon DEF WritePayload
      <4> QED
        BY <4>1, <4>2
    <3> QED
      BY <1>n, <2>1, <3>1, SlotType DEF HasNewData
  <2> QED
    BY <2>1, <2>2, <2>3, Zenon DEF WakeInv
<1>6. ASSUME NEW s \in Senders, AttachFails(s) PROVE WakeInv'
  <2>1. /\ pc[s] = "write" /\ UNCHANGED <<head, armed, sig, read_index, elems, rpc, rhead, hd, hd_armed>>
        /\ pc' = [pc EXCEPT ![s] = "idle"]
    BY <1>6, Zenon DEF AttachFails, shared, rcvr
  <2>2. \A t \in Senders : /\ t # s => pc'[t] = pc[t]
                           /\ pc'[t] \in Writing => pc[t] \in Writing /\ t # s
    BY <1>t, <2>1, Zenon DEF SendersOK, Writing
  <2>3. HasNewData' <=> HasNewData
    BY <2>1, Zenon DEF HasNewData
  <2>4. CASE hd[s] = read_index
    <3>1. ~HasNewData /\ read_index < head
          /\ \A t \in Senders : t # s /\ pc[t] \in Writing => hd[t] # read_index
      BY <2>1, <2>4, Zenon DEF FifoInv, WriterInv, Writing, HasNewData
    <3> QED
      BY <2>1, <2>2, <2>3, <3>1, Zenon DEF WakeInv
  <2>5. CASE hd[s] # read_index
    <3>1. \A t \in Senders : /\ pc[t] \in InFlight /\ (pc[t] \in Writing => hd[t] = read_index)
                             => t # s
      BY <2>1, <2>5, Zenon DEF Writing
    <3> QED
      BY <2>1, <2>2, <2>3, <3>1, Zenon DEF WakeInv
  <2> QED
    BY <2>4, <2>5, Zenon
<1>7. ASSUME NEW s \in Senders, Publish(s) PROVE WakeInv'
  <2>1. /\ pc[s] = "publish" /\ UNCHANGED <<head, armed, sig, read_index, rpc, rhead, hd, hd_armed>>
        /\ elems' = [elems EXCEPT ![Slot(hd[s])].owner = OwnerBit(hd[s]),
                                  ![Slot(hd[s])].inline = cur[s].inline]
    BY <1>7, Zenon DEF Publish, rcvr
  <2>2. \A t \in Senders : t # s => pc'[t] = pc[t]
    BY <1>7, <1>t, Zenon DEF Publish, SendDone, SendersOK
  <2>3. IF hd_armed[s] THEN pc'[s] = "signal" ELSE pc'[s] \notin Writing
    BY <1>7, <1>t DEF Publish, SendDone, SendersOK, Writing
  <2>4. ASSUME ~HasNewData, hd[s] # read_index PROVE ~HasNewData'
    <3>1. Slot(hd[s]) # Slot(read_index) /\ Slot(read_index) \in 0 .. FifoSize - 1
      <4>1. /\ FifoSize \in Nat /\ FifoSize > 0 /\ tail \in Nat
            /\ tail <= read_index /\ head <= tail + FifoSize
        BY <1>t, MmFifoAssumption DEF SharedOK, FifoInv, IndexInv
      <4>2. read_index <= hd[s] /\ hd[s] < head
        BY <2>1, Zenon DEF FifoInv, WriterInv, Writing
      <4>3. /\ hd[s] \in read_index .. read_index + FifoSize - 1
            /\ read_index \in read_index .. read_index + FifoSize - 1
        BY <1>n, <4>1, <4>2
      <4> QED
        BY <1>n, <2>4, <4>3, SlotDistinct, SlotType, Zenon
    <3>2. elems'[Slot(read_index)] = elems[Slot(read_index)]
      BY <1>t, <2>1, <3>1, Zenon DEF SharedOK
    <3> QED
      BY <2>1, <2>4, <3>2, Zenon DEF HasNewData
  <2>5. ASSUME NEW t \in Senders, hd_armed[t], pc[t] \in InFlight,
               pc[t] \in Writing => hd[t] = read_index
        PROVE  hd_armed'[t] /\ pc'[t] \in InFlight /\ (pc'[t] \in Writing => hd'[t] = read_index')
    <3>1. CASE t = s
      BY <2>1, <2>3, <2>5, <3>1, Zenon DEF InFlight, Writing
    <3>2. CASE t # s
      BY <2>1, <2>2, <2>5, <3>2, Zenon
    <3> QED
      BY <3>1, <3>2, Zenon
  <2>6. ASSUME ~HasNewData, read_index < head,
               \A t \in Senders : pc[t] \in Writing => hd[t] # read_index
        PROVE  /\ ~HasNewData' /\ read_index' < head'
               /\ \A t \in Senders : pc'[t] \in Writing => hd'[t] # read_index'
    <3>1. hd[s] # read_index
      BY <2>1, <2>6, Zenon DEF Writing
    <3>2. \A t \in Senders : pc'[t] \in Writing => pc[t] \in Writing
      BY <2>1, <2>2, Zenon DEF Writing
    <3> QED
      BY <2>1, <2>4, <2>6, <3>1, <3>2, Zenon
  <2> QED
    BY <2>1, <2>5, <2>6, Zenon DEF WakeInv
<1>8. ASSUME NEW s \in Senders, SignalRemote(s) PROVE WakeInv'
  <2>1. sig' > 0 /\ UNCHANGED <<rpc, rhead, read_index>>
    BY <1>8, <1>t, MmFifoAssumption DEF SignalRemote, SharedOK, rcvr
  <2> QED
    BY <2>1, Zenon DEF WakeInv
<1>9. ASSUME NEW s \in Senders, PendingAdd(s) PROVE WakeInv'
  <2>1. UNCHANGED <<head, armed, sig, read_index, elems, rpc, rhead>>
    BY <1>9, Zenon DEF PendingAdd, shared, rcvr
  <2>2. \A t \in Senders :
           /\ pc[t] \in InFlight => pc'[t] = pc[t] /\ hd'[t] = hd[t] /\ hd_armed'[t] = hd_armed[t]
           /\ pc'[t] \in Writing => pc[t] \in Writing
    BY <1>9, <1>t, Zenon DEF PendingAdd, SendersOK, InFlight, Writing
  <2> QED
    BY <2>1, <2>2, WakeFrame, Zenon
<1>10. ASSUME NEW s \in Senders, GiveUp(s) PROVE WakeInv'
  <2>1. UNCHANGED <<head, armed, sig, read_index, elems, rpc, rhead>>
    BY <1>10, Zenon DEF GiveUp, shared, rcvr
  <2>2. \A t \in Senders :
           /\ pc[t] \in InFlight => pc'[t] = pc[t] /\ hd'[t] = hd[t] /\ hd_armed'[t] = hd_armed[t]
           /\ pc'[t] \in Writing => pc[t] \in Writing
    BY <1>10, <1>t, Zenon DEF GiveUp, SendersOK, InFlight, Writing
  <2> QED
    BY <2>1, <2>2, WakeFrame, Zenon
<1>11. ASSUME NEW s \in Senders, StartDispatch(s) PROVE WakeInv'
  <2>1. UNCHANGED <<head, armed, sig, read_index, elems, rpc, rhead>>
    BY <1>11, Zenon DEF StartDispatch, shared, rcvr
  <2>2. \A t \in Senders :
           /\ pc[t] \in InFlight => pc'[t] = pc[t] /\ hd'[t] = hd[t] /\ hd_armed'[t] = hd_armed[t]
           /\ pc'[t] \in Writing => pc[t] \in Writing
    BY <1>11, <1>t, Zenon DEF StartDispatch, SendersOK, InFlight, Writing
  <2> QED
    BY <2>1, <2>2, WakeFrame, Zenon
<1>12. ASSUME NEW s \in Senders, ProcessPending(s) PROVE WakeInv'
  <2>1. UNCHANGED <<head, armed, sig, read_index, elems, rpc, rhead>>
    BY <1>12, Zenon DEF ProcessPending, shared, rcvr
  <2>2. \A t \in Senders :
           /\ pc[t] \in InFlight => pc'[t] = pc[t] /\ hd'[t] = hd[t] /\ hd_armed'[t] = hd_armed[t]
           /\ pc'[t] \in Writing => pc[t] \in Writing
    BY <1>12, <1>t DEF ProcessPending, SendersOK, InFlight, Writing
  <2> QED
    BY <2>1, <2>2, WakeFrame, Zenon
<1>13. ASSUME NEW s \in Senders, ProcessElem(s) PROVE WakeInv'
  <2>1. UNCHANGED <<head, armed, sig, read_index, elems, rpc, rhead>>
    BY <1>13, Zenon DEF ProcessElem, NoResource, shared, rcvr
  <2>2. \A t \in Senders :
           /\ pc[t] \in InFlight => pc'[t] = pc[t] /\ hd'[t] = hd[t] /\ hd_armed'[t] = hd_armed[t]
           /\ pc'[t] \in Writing => pc[t] \in Writing
    BY <1>13, <1>t DEF ProcessElem, NoResource, SendersOK, InFlight, Writing
  <2> QED
    BY <2>1, <2>2, WakeFrame, Zenon
<1>14. ASSUME NEW s \in Senders, PendingPurge(s) PROVE WakeInv'
  <2>1. UNCHANGED <<head, armed, sig, read_index, elems, rpc, rhead>>
    BY <1>14, Zenon DEF PendingPurge, shared, rcvr
  <2>2. \A t \in Senders :
           /\ pc[t] \in InFlight => pc'[t] = pc[t] /\ hd'[t] = hd[t] /\ hd_armed'[t] = hd_armed[t]
           /\ pc'[t] \in Writing => pc[t] \in Writing
    BY <1>14, <1>t, Zenon DEF PendingPurge, SendersOK, InFlight, Writing
  <2> QED
    BY <2>1, <2>2, WakeFrame, Zenon
<1>15. ASSUME NEW s \in Senders, Flush(s) PROVE WakeInv'
  <2>1. UNCHANGED <<head, armed, sig, read_index, elems, rpc, rhead>>
    BY <1>15 DEF Flush, shared, rcvr
  <2>2. \A t \in Senders :
           /\ pc[t] \in InFlight => pc'[t] = pc[t] /\ hd'[t] = hd[t] /\ hd_armed'[t] = hd_armed[t]
           /\ pc'[t] \in Writing => pc[t] \in Writing
    BY <1>15, <1>t DEF Flush, SendersOK, InFlight, Writing
  <2> QED
    BY <2>1, <2>2, WakeFrame, Zenon
<1>16. ASSUME StartProgress PROVE WakeInv'
  <2>1. UNCHANGED <<head, armed, sig, read_index, elems, pc, hd, hd_armed>>
    BY <1>16, Zenon DEF StartProgress, shared, sndr
  <2>2. (rpc' = rpc /\ rhead' = rhead) \/ rpc' \notin {"arm_cas", "arm_recv", "sleep"}
    BY <1>16 DEF StartProgress
  <2> QED
    BY <2>1, <2>2, WakeFrame
<1>17. ASSUME PollFifo PROVE WakeInv'
  <2>1. UNCHANGED <<head, armed, sig, read_index, elems, pc, hd, hd_armed>>
    BY <1>17, Zenon DEF PollFifo, shared, sndr
  <2>2. (rpc' = rpc /\ rhead' = rhead) \/ rpc' \notin {"arm_cas", "arm_recv", "sleep"}
    BY <1>17, Zenon DEF PollFifo
  <2> QED
    BY <2>1, <2>2, WakeFrame, Zenon
<1>18. ASSUME ReadShort PROVE WakeInv'
  <2>1. rpc' = "tail"
    BY <1>18, Zenon DEF ReadShort, AdvanceRead
  <2> QED
    BY <2>1 DEF WakeInv
<1>19. ASSUME ReadBcopyNoDesc PROVE WakeInv'
  <2>1. rpc' = "tail"
    BY <1>19 DEF ReadBcopyNoDesc, AdvanceRead
  <2> QED
    BY <2>1, Zenon DEF WakeInv
<1>20. ASSUME NEW keep \in BOOLEAN, ReadBcopy(keep) PROVE WakeInv'
  <2>1. rpc' = "tail"
    BY <1>20, Zenon DEF ReadBcopy, AdvanceRead
  <2> QED
    BY <2>1 DEF WakeInv
<1>21. ASSUME ProgressTail PROVE WakeInv'
  <2>1. UNCHANGED <<head, armed, sig, read_index, elems, pc, hd, hd_armed>>
    BY <1>21, Zenon DEF ProgressTail, sndr
  <2>2. (rpc' = rpc /\ rhead' = rhead) \/ rpc' \notin {"arm_cas", "arm_recv", "sleep"}
    BY <1>21, Zenon DEF ProgressTail
  <2> QED
    BY <2>1, <2>2, WakeFrame, Zenon
<1>22. ASSUME NEW h \in held, ReleaseDesc(h) PROVE WakeInv'
  <2>1. UNCHANGED <<head, armed, sig, read_index, elems, pc, hd, hd_armed>>
    BY <1>22 DEF ReleaseDesc, shared, sndr
  <2>2. (rpc' = rpc /\ rhead' = rhead) \/ rpc' \notin {"arm_cas", "arm_recv", "sleep"}
    BY <1>22, Zenon DEF ReleaseDesc
  <2> QED
    BY <2>1, <2>2, WakeFrame, Zenon
<1>23. ASSUME EventArm PROVE WakeInv'
  <2>1. UNCHANGED <<head, armed, sig, read_index, elems>> /\ rpc = "idle"
    BY <1>23 DEF EventArm, shared
  <2>0. head > read_index <=> ~(head <= read_index)
    BY <1>n
  <2>2. CASE head > read_index
    <3>1. rpc' = rpc
      BY <1>23, <2>0, <2>2, Zenon DEF EventArm
    <3> QED
      BY <2>1, <3>1 DEF WakeInv
  <2>3. CASE head <= read_index
    <3>1. rpc' = (IF armed THEN "arm_recv" ELSE "arm_cas") /\ rhead' = head
      BY <1>23, <2>0, <2>3, Zenon DEF EventArm
    <3>2. head = read_index
      BY <1>n, <2>3
    <3> QED
      BY <2>1, <3>1, <3>2, Zenon DEF WakeInv
  <2> QED
    BY <1>n, <2>2, <2>3
<1>24. ASSUME ArmCompareAndSwap PROVE WakeInv'
  <2>1. \/ rpc' = "idle"
        \/ rpc' = "arm_recv" /\ head = rhead /\ armed' = TRUE /\ UNCHANGED <<head, read_index>>
    BY <1>24, Zenon DEF ArmCompareAndSwap
  <2>2. rhead = read_index
    BY <1>24, Zenon DEF ArmCompareAndSwap, WakeInv
  <2> QED
    BY <2>1, <2>2, Zenon DEF WakeInv
<1>25. ASSUME ArmReceive PROVE WakeInv'
  <2>1. CASE sig > 0
    BY <1>25, <1>t, <2>1 DEF ArmReceive, WakeInv, SharedOK
  <2>2. CASE ~(sig > 0)
    <3>1. /\ UNCHANGED <<head, armed, sig, read_index, elems, pc, hd, hd_armed>>
          /\ rpc = "arm_recv" /\ rpc' = "sleep"
      BY <1>25, <2>2, Zenon DEF ArmReceive, sndr
    <3>2. HasNewData' <=> HasNewData
      BY <3>1 DEF HasNewData
    <3> QED
      BY <3>1, <3>2, Zenon DEF WakeInv
  <2> QED
    BY <2>1, <2>2, Zenon
<1>26. ASSUME WakeUp PROVE WakeInv'
  <2>1. UNCHANGED <<head, armed, sig, read_index, elems, pc, hd, hd_armed>>
    BY <1>26, Zenon DEF WakeUp, shared, sndr
  <2>2. (rpc' = rpc /\ rhead' = rhead) \/ rpc' \notin {"arm_cas", "arm_recv", "sleep"}
    BY <1>26, Zenon DEF WakeUp
  <2> QED
    BY <2>1, <2>2, WakeFrame, Zenon
<1>27. ASSUME UNCHANGED vars PROVE WakeInv'
  <2>1. UNCHANGED <<head, armed, sig, read_index, elems, rpc, rhead, pc, hd, hd_armed>>
    BY <1>27, Zenon DEF vars, shared, rcvr, sndr
  <2> QED
    BY <2>1, WakeFrame, Zenon
<1> QED
  BY <1>1, <1>2, <1>3, <1>4, <1>5, <1>6, <1>7, <1>8, <1>9, <1>10, <1>11, <1>12, <1>13, <1>14,
     <1>15, <1>16, <1>17, <1>18, <1>19, <1>20, <1>21, <1>22, <1>23, <1>24, <1>25, <1>26, <1>27
     DEF Next, SenderStep, SenderUser, ReceiverStep, ReceiverUser

\* A receiver that sleeps with something to read will be woken: its socket has
\* a signal or the sender that took the armed head will send one.
THEOREM NoLostWakeupTheorem == Spec => []NoLostWakeup
<1>1. TypeInv /\ FifoInv /\ WakeInv => NoLostWakeup
  <2> SUFFICES ASSUME TypeInv, FifoInv, WakeInv, rpc = "sleep", HasNewData, ~(sig > 0)
               PROVE  \E s \in Senders : hd_armed[s] /\ pc[s] \in {"write", "publish", "signal"}
    BY Zenon DEF NoLostWakeup
  <2>1. ~(armed /\ head = read_index)
    <3>1. /\ FifoSize \in Nat /\ FifoSize > 0 /\ head \in Nat /\ read_index \in Nat
      BY MmFifoAssumption DEF TypeInv, TypeOK, SharedOK, ReceiverOK
    <3>2. CASE head = read_index
      <4>1. read_index \in head .. read_index + FifoSize - 1
        BY <3>1, <3>2
      <4> QED
        BY <4>1, Zenon DEF FifoInv, ElemInv, HasNewData
    <3> QED
      BY <3>2, Zenon
  <2> QED
    BY <2>1, Zenon DEF WakeInv, InFlight, Writing
<1> QED
  BY TypeInit, TypeStep, FifoInit, FifoStep, WakeInit, WakeStep, <1>1, PTL DEF Spec

=============================================================================
