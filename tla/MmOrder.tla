------------------------------ MODULE MmOrder -------------------------------
(***************************************************************************)
(* The messages of an endpoint of MmFifo arrive in the order in which they *)
(* were sent, as long as none is abandoned, for any number of senders, any *)
(* FIFO size and any number of messages.                                   *)
(***************************************************************************)
EXTENDS MmFifoProofs

\* The messages that took a place, of each sender, are in the order of their numbers.
LogOrder ==
    \A i, j \in 1 .. Len(log) :
        i < j /\ log[i].from = log[j].from => log[i].num < log[j].num

\* The messages of s that took a place are below number n, or not beyond it.
Below(s, n) == \A i \in 1 .. Len(log) : log[i].from = s => log[i].num < n
UpTo(s, n) == \A i \in 1 .. Len(log) : log[i].from = s => log[i].num <= n

\* The user's next message comes after all that took a place, unless it took one itself.
NewOrder(s) ==
    /\ UpTo(s, nxt[s])
    /\ ~(pc[s] \in InFlight /\ ~in_dispatch[s]) => Below(s, nxt[s])

\* The queued messages are in order, before the user's next one and after all that took
\* a place, unless it is the first one that took a place.
QueueOrder(s) ==
    \A k \in 1 .. Len(group[s]) : group[s][k] # ArbElem =>
        /\ group[s][k].from = s /\ group[s][k].num < nxt[s]
        /\ UpTo(s, group[s][k].num)
        /\ ~(k = 1 /\ pc[s] \in InFlight /\ in_dispatch[s]) => Below(s, group[s][k].num)
        /\ \A j \in 1 .. k - 1 : group[s][j] # ArbElem => group[s][j].num < group[s][k].num

\* A send is of the first queued message or of the user's next one.
CurOrder(s) ==
    pc[s] \in Sending =>
        /\ cur[s].from = s
        /\ in_dispatch[s] => cur[s] = group[s][1]
        /\ ~in_dispatch[s] => cur[s].num = nxt[s]

\* With a queue a new message finds no room, until the queue is dispatched.
RoomOrder(s) ==
    /\ ~in_dispatch[s] /\ group[s] # <<>> =>
          pc[s] \in {"idle", "load", "nores"} /\ ~AbleToSend(head, cached_tail[s])
    /\ pc[s] = "refresh" => group[s] = <<>>

OrderOf(s) == NewOrder(s) /\ QueueOrder(s) /\ CurOrder(s) /\ RoomOrder(s)

OrderInv == NoneAbandoned => LogOrder /\ \A s \in Senders : OrderOf(s)

\* The initial state satisfies the invariant.
LEMMA OrderInit == Init => OrderInv
<1> SUFFICES ASSUME Init PROVE LogOrder /\ \A s \in Senders : OrderOf(s)
  BY Zenon DEF OrderInv
<1>1. LogOrder
  BY DEF Init, LogOrder
<1>2. ASSUME NEW s \in Senders PROVE OrderOf(s)
  BY <1>2 DEF Init, OrderOf, NewOrder, QueueOrder, CurOrder, RoomOrder, UpTo, Below,
              Sending, InFlight, Writing
<1> QED
  BY <1>1, <1>2, Zenon

\* What a step may do to the elements: only a publishing sender flips an owner bit, only
\* a sender that took the head starts to write, and only a read moves read_index.
ElemStep ==
    /\ head' \in {head, head + 1}
    /\ read_index' = read_index \/ (rpc = "read" /\ read_index' = read_index + 1)
    /\ \A i \in 0 .. FifoSize - 1 :
          \/ elems'[i].owner = elems[i].owner
          \/ \E s \in Senders : pc[s] = "publish" /\ i = Slot(hd[s])
    /\ \A s \in Senders : pc'[s] \in Writing =>
          (pc[s] \in Writing /\ hd'[s] = hd[s]) \/ hd'[s] = head

\* An abandoned element stays abandoned: the receiver never passes it, so no later lap
\* writes to it.
LEMMA AbandonedStays ==
    ASSUME TypeInv, FifoInv, ElemStep, NoneAbandoned'
    PROVE  NoneAbandoned
<1> SUFFICES ASSUME NEW i \in read_index .. head - 1, elems[Slot(i)].owner # OwnerBit(i),
                    ~ \E s \in Senders : pc[s] \in Writing /\ hd[s] = i
             PROVE  FALSE
  BY Zenon DEF NoneAbandoned, Writing
<1>1. /\ read_index \in Nat /\ head \in Nat /\ tail \in Nat /\ i \in Nat
      /\ FifoSize \in Nat /\ tail <= read_index /\ head <= tail + FifoSize
      /\ i \in read_index .. read_index + FifoSize - 1
  BY MmFifoAssumption DEF TypeInv, TypeOK, SharedOK, ReceiverOK, FifoInv, IndexInv
<1>2. i # read_index \/ rpc # "read"
  BY Zenon DEF FifoInv, ReadInv, HasNewData
<1>3. i \in read_index' .. head' - 1
  BY <1>1, <1>2 DEF ElemStep
<1>4. Slot(i) \in 0 .. FifoSize - 1
  BY <1>1, SlotType, Zenon
<1>5. ASSUME NEW s \in Senders, pc[s] = "publish", Slot(i) = Slot(hd[s]) PROVE FALSE
  <2>1. hd[s] # i /\ hd[s] \in read_index .. read_index + FifoSize - 1
    <3>1. pc[s] \in Writing
      BY <1>5, Zenon DEF Writing
    <3>2. hd[s] \in Nat /\ read_index <= hd[s] /\ hd[s] < head
      BY <3>1, Zenon DEF FifoInv, WriterInv, TypeInv, TypeOK, SendersOK
    <3> QED
      BY <1>1, <3>1, <3>2
  <2> QED
    BY <1>1, <1>5, <2>1, SlotDistinct, Zenon
<1>6. elems'[Slot(i)].owner = elems[Slot(i)].owner
  BY <1>4, <1>5, Zenon DEF ElemStep
<1>7. PICK s \in Senders : pc'[s] \in Writing /\ hd'[s] = i
  BY <1>3, <1>6, Zenon DEF NoneAbandoned, Writing
<1>8. hd'[s] = head
  BY <1>7, Zenon DEF ElemStep
<1> QED
  BY <1>1, <1>7, <1>8

\* Every step is such a step.
LEMMA ElemStepHolds ==
    ASSUME TypeInv, [Next]_vars
    PROVE  ElemStep
<1>t. SharedOK /\ SendersOK /\ ReceiverOK
  BY Zenon DEF TypeInv, TypeOK
<1>u. ASSUME UNCHANGED <<head, read_index, elems>>,
             \A s \in Senders : pc'[s] \in Writing => pc[s] \in Writing /\ hd'[s] = hd[s]
      PROVE  ElemStep
  BY <1>u, Zenon DEF ElemStep
<1>1. ASSUME NEW s \in Senders, NEW inline \in Inlines, SendNew(s, inline) PROVE ElemStep
  BY <1>t, <1>1, <1>u, Zenon DEF SendNew, SendersOK, Writing, shared, rcvr
<1>2. ASSUME NEW s \in Senders, LoadHead(s) PROVE ElemStep
  <2>1. UNCHANGED <<head, read_index, elems>>
    BY <1>2, Zenon DEF LoadHead, shared, rcvr
  <2>2. ASSUME NEW r \in Senders, pc'[r] \in Writing PROVE pc[r] \in Writing /\ hd'[r] = hd[r]
    BY <1>t, <1>2, <2>2, Zenon DEF LoadHead, NoResource, SendersOK, Writing
  <2> QED
    BY <1>u, <2>1, <2>2, Zenon
<1>3. ASSUME NEW s \in Senders, RefreshTail(s) PROVE ElemStep
  <2>1. UNCHANGED <<head, read_index, elems>>
    BY <1>3, Zenon DEF RefreshTail, shared, rcvr
  <2>2. ASSUME NEW r \in Senders, pc'[r] \in Writing PROVE pc[r] \in Writing /\ hd'[r] = hd[r]
    BY <1>t, <1>3, <2>2, Zenon DEF RefreshTail, NoResource, SendersOK, Writing
  <2> QED
    BY <1>u, <2>1, <2>2, Zenon
<1>4. ASSUME NEW s \in Senders, CompareAndSwap(s) PROVE ElemStep
  <2>1. UNCHANGED <<read_index, elems, hd>> /\ head' \in {head, head + 1}
    BY <1>4, Zenon DEF CompareAndSwap, rcvr
  <2>2. ASSUME NEW r \in Senders, pc'[r] \in Writing
        PROVE (pc[r] \in Writing /\ hd'[r] = hd[r]) \/ hd'[r] = head
    BY <1>t, <1>4, <2>2, Zenon DEF CompareAndSwap, SendersOK, Writing
  <2> QED
    BY <2>1, <2>2, Zenon DEF ElemStep
<1>5. ASSUME NEW s \in Senders, WritePayload(s) PROVE ElemStep
  <2>1. UNCHANGED <<head, read_index, hd>>
    BY <1>5, Zenon DEF WritePayload, rcvr
  <2>2. ASSUME NEW i \in 0 .. FifoSize - 1 PROVE elems'[i].owner = elems[i].owner
    <3>1. elems' \in {elems, [elems EXCEPT ![Slot(hd[s])].data = cur[s]]}
      BY <1>5, Zenon DEF WritePayload
    <3>2. elems[i] \in [owner : {0, 1}, inline : BOOLEAN, data : Msg \cup {NoMsg}, desc : Descs]
      BY <1>t, <2>2, Zenon DEF SharedOK
    <3>3. DOMAIN elems = 0 .. FifoSize - 1
      BY <1>t, Zenon DEF SharedOK
    <3>4. elems'[i] \in {elems[i], [elems[i] EXCEPT !.data = cur[s]]}
      BY <2>2, <3>1, <3>3, Zenon
    <3> QED
      BY <3>2, <3>4, Zenon
  <2>3. ASSUME NEW r \in Senders, pc'[r] \in Writing PROVE pc[r] \in Writing
    BY <1>t, <1>5, <2>3, Zenon DEF WritePayload, SendersOK, Writing
  <2> QED
    BY <2>1, <2>2, <2>3, Zenon DEF ElemStep
<1>6. ASSUME NEW s \in Senders, AttachFails(s) PROVE ElemStep
  BY <1>t, <1>6, <1>u, Zenon DEF AttachFails, SendersOK, Writing, shared, rcvr
<1>d. ASSUME NEW s \in Senders, SendDone(s), NEW r \in Senders, pc'[r] \in Writing
      PROVE  pc[r] \in Writing
  BY <1>t, <1>d, Zenon DEF SendDone, SendersOK, Writing
<1>7. ASSUME NEW s \in Senders, Publish(s) PROVE ElemStep
  <2>1. UNCHANGED <<head, read_index, hd>> /\ pc[s] = "publish"
    BY <1>7, Zenon DEF Publish, rcvr
  <2>2. ASSUME NEW i \in 0 .. FifoSize - 1, i # Slot(hd[s]) PROVE elems'[i].owner = elems[i].owner
    BY <1>t, <1>7, <2>2, Zenon DEF Publish, SharedOK
  <2>3. ASSUME NEW r \in Senders, pc'[r] \in Writing PROVE pc[r] \in Writing
    <3>1. CASE hd_armed[s]
      BY <1>t, <1>7, <2>3, <3>1, Zenon DEF Publish, SendersOK, Writing
    <3>2. CASE ~hd_armed[s]
      BY <1>7, <1>d, <2>3, <3>2, Zenon DEF Publish
    <3> QED
      BY <3>1, <3>2, Zenon
  <2> QED
    BY <2>1, <2>2, <2>3, Zenon DEF ElemStep
<1>8. ASSUME NEW s \in Senders, SignalRemote(s) PROVE ElemStep
  <2>1. UNCHANGED <<head, read_index, hd, elems>> /\ SendDone(s)
    BY <1>8, Zenon DEF SignalRemote, rcvr
  <2> QED
    BY <1>d, <1>u, <2>1, Zenon
<1>9. ASSUME NEW s \in Senders, PendingAdd(s) PROVE ElemStep
  BY <1>t, <1>9, <1>u, Zenon DEF PendingAdd, SendersOK, Writing, shared, rcvr
<1>10. ASSUME NEW s \in Senders, GiveUp(s) PROVE ElemStep
  BY <1>t, <1>10, <1>u, Zenon DEF GiveUp, SendersOK, Writing, shared, rcvr
<1>11. ASSUME NEW s \in Senders, StartDispatch(s) PROVE ElemStep
  BY <1>t, <1>11, <1>u, Zenon DEF StartDispatch, SendersOK, Writing, shared, rcvr
<1>12. ASSUME NEW s \in Senders, ProcessPending(s) PROVE ElemStep
  BY <1>t, <1>12, <1>u, Zenon DEF ProcessPending, SendersOK, Writing, shared, rcvr
<1>13. ASSUME NEW s \in Senders, ProcessElem(s) PROVE ElemStep
  <2>1. UNCHANGED <<head, read_index, elems, hd>>
    BY <1>13, Zenon DEF ProcessElem, shared, rcvr
  <2>2. ASSUME NEW r \in Senders, pc'[r] \in Writing PROVE pc[r] \in Writing
    BY <1>t, <1>13, <2>2, Zenon DEF ProcessElem, NoResource, SendersOK, Writing
  <2> QED
    BY <1>u, <2>1, <2>2, Zenon
<1>14. ASSUME NEW s \in Senders, PendingPurge(s) \/ Flush(s) PROVE ElemStep
  BY <1>14, <1>u, Zenon DEF PendingPurge, Flush, shared, rcvr
<1>15. ASSUME UNCHANGED <<sndr, head, read_index, elems>> PROVE ElemStep
  BY <1>15, <1>u, Zenon DEF sndr
<1>16. ASSUME PollFifo \/ ProgressTail \/ ArmCompareAndSwap \/ ArmReceive \/ WakeUp PROVE ElemStep
  BY <1>15, <1>16, Zenon DEF PollFifo, ProgressTail, ArmCompareAndSwap, ArmReceive, WakeUp, shared
<1>17. ASSUME StartProgress \/ EventArm \/ \E h \in held : ReleaseDesc(h) PROVE ElemStep
  BY <1>15, <1>17, Zenon DEF StartProgress, EventArm, ReleaseDesc, shared
<1>r. ASSUME NEW m, AdvanceRead(m), rpc = "read",
             \A i \in 0 .. FifoSize - 1 : elems'[i].owner = elems[i].owner
      PROVE  ElemStep
  BY <1>r, Zenon DEF AdvanceRead, ElemStep, sndr
<1>18. ASSUME ReadShort PROVE ElemStep
  BY <1>18, <1>r, Zenon DEF ReadShort
<1>19. ASSUME ReadBcopyNoDesc PROVE ElemStep
  BY <1>19, <1>r, Zenon DEF ReadBcopyNoDesc
<1>20. ASSUME NEW keep \in BOOLEAN, ReadBcopy(keep) PROVE ElemStep
  <2>1. PICK spare : elems' \in {elems, [elems EXCEPT ![Slot(read_index)].desc = spare]}
    BY <1>20, Zenon DEF ReadBcopy
  <2>2. ASSUME NEW i \in 0 .. FifoSize - 1 PROVE elems'[i].owner = elems[i].owner
    <3>2. elems[i] \in [owner : {0, 1}, inline : BOOLEAN, data : Msg \cup {NoMsg}, desc : Descs]
      BY <1>t, <2>2, Zenon DEF SharedOK
    <3>3. DOMAIN elems = 0 .. FifoSize - 1
      BY <1>t, Zenon DEF SharedOK
    <3>4. elems'[i] \in {elems[i], [elems[i] EXCEPT !.desc = spare]}
      BY <2>1, <2>2, <3>3, Zenon
    <3> QED
      BY <3>2, <3>4, Zenon
  <2>3. PICK m : AdvanceRead(m)
    BY <1>20, Zenon DEF ReadBcopy
  <2>4. rpc = "read"
    BY <1>20, Zenon DEF ReadBcopy
  <2> QED
    BY <1>r, <2>2, <2>3, <2>4, Zenon
<1>21. ASSUME UNCHANGED vars PROVE ElemStep
  BY <1>15, <1>21, Zenon DEF vars, shared, rcvr
<1> QED
  BY <1>1, <1>2, <1>3, <1>4, <1>5, <1>6, <1>7, <1>8, <1>9, <1>10, <1>11, <1>12, <1>13, <1>14,
     <1>16, <1>17, <1>18, <1>19, <1>20, <1>21, Zenon
     DEF Next, SenderStep, SenderUser, ReceiverStep, ReceiverUser
-----------------------------------------------------------------------------
\* What is below a number depends on the log only.
LEMMA BelowFrame ==
    ASSUME NEW s, NEW n, UNCHANGED log
    PROVE  /\ Below(s, n) => Below(s, n)'
           /\ UpTo(s, n) => UpTo(s, n)'
           /\ LogOrder => LogOrder'
  BY Zenon DEF Below, UpTo, LogOrder

\* Messages have a number.
LEMMA MsgNum ==
    ASSUME NEW m \in Msg
    PROVE  m.num \in Int /\ m.from \in Senders
  BY MmFifoAssumption DEF Msg

\* So have those that took a place.
LEMMA LogNum ==
    ASSUME log \in Seq(Msg)
    PROVE  \A i \in 1 .. Len(log) : log[i].num \in Int
<1> SUFFICES ASSUME NEW i \in 1 .. Len(log) PROVE log[i] \in Msg
  BY MsgNum, Zenon
<1> QED
  OBVIOUS

\* A message of another endpoint takes a place.
LEMMA BelowOther ==
    ASSUME log \in Seq(Msg), NEW m \in Msg, log' = Append(log, m), NEW s, m.from # s, NEW n
    PROVE  /\ Below(s, n) => Below(s, n)'
           /\ UpTo(s, n) => UpTo(s, n)'
<1>1. /\ Len(log') = Len(log) + 1 /\ Len(log) \in Nat /\ log'[Len(log) + 1] = m
      /\ \A i \in 1 .. Len(log) : log'[i] = log[i]
  BY AppendFacts
<1>2. ASSUME NEW i \in 1 .. Len(log'), log'[i].from = s
      PROVE  i \in 1 .. Len(log) /\ log'[i] = log[i]
  BY <1>1, <1>2
<1>3. Below(s, n) => Below(s, n)'
  BY <1>2, Zenon DEF Below
<1>4. UpTo(s, n) => UpTo(s, n)'
  BY <1>2, Zenon DEF UpTo
<1> QED
  BY <1>3, <1>4, Zenon

\* A message of the endpoint itself takes a place, after all its earlier ones.
LEMMA BelowOwn ==
    ASSUME log \in Seq(Msg), NEW m \in Msg, log' = Append(log, m), Below(m.from, m.num)
    PROVE  /\ UpTo(m.from, m.num)'
           /\ LogOrder => LogOrder'
<1>1. /\ Len(log') = Len(log) + 1 /\ Len(log) \in Nat /\ log'[Len(log) + 1] = m
      /\ \A i \in 1 .. Len(log) : log'[i] = log[i]
  BY AppendFacts
<1>2. \A i \in 1 .. Len(log) : log[i].num \in Int
  BY LogNum, Zenon
<1>3. m.num \in Int
  BY MsgNum, Zenon
<1>4. \A i \in 1 .. Len(log) : log[i].from = m.from => log[i].num < m.num
  BY Zenon DEF Below
<1>5. UpTo(m.from, m.num)'
  <2>1. ASSUME NEW i \in 1 .. Len(log'), log'[i].from = m.from PROVE log'[i].num <= m.num
    BY <1>1, <1>2, <1>3, <1>4, <2>1
  <2> QED
    BY <2>1, Zenon DEF UpTo
<1>6. ASSUME LogOrder PROVE LogOrder'
  <2>1. ASSUME NEW i \in 1 .. Len(log'), NEW j \in 1 .. Len(log'), i < j,
               log'[i].from = log'[j].from
        PROVE  log'[i].num < log'[j].num
    <3>1. i \in 1 .. Len(log) /\ log'[i] = log[i]
      BY <1>1, <2>1
    <3>2. CASE j = Len(log) + 1
      BY <1>1, <1>4, <2>1, <3>1, <3>2, Zenon
    <3>3. CASE j \in 1 .. Len(log)
      <4>1. log'[j] = log[j]
        BY <1>1, <3>3, Zenon
      <4> QED
        BY <1>6, <2>1, <3>1, <3>3, <4>1, Zenon DEF LogOrder
    <3> QED
      BY <1>1, <2>1, <3>2, <3>3
  <2> QED
    BY <2>1, Zenon DEF LogOrder
<1> QED
  BY <1>5, <1>6, Zenon

\* Numbers beyond one that is not passed are not reached.
LEMMA BelowMore ==
    ASSUME log \in Seq(Msg), NEW s, NEW n \in Int, NEW m \in Int, n < m, UpTo(s, n)
    PROVE  Below(s, m)
<1>1. \A i \in 1 .. Len(log) : log[i].num \in Int
  BY LogNum, Zenon
<1> QED
  BY <1>1 DEF UpTo, Below

\* The same of the next state.
LEMMA BelowMoreNext ==
    ASSUME log' \in Seq(Msg), NEW s, NEW n \in Int, NEW m \in Int, n < m, UpTo(s, n)'
    PROVE  Below(s, m)' /\ UpTo(s, m)'
<1>1. \A i \in 1 .. Len(log') : log'[i] \in Msg
  OBVIOUS
<1>2. \A i \in 1 .. Len(log') : log'[i].num \in Int
  BY <1>1, MsgNum, Zenon
<1> QED
  BY <1>2 DEF UpTo, Below

\* What is below a number does not pass it.
LEMMA BelowUpTo ==
    ASSUME log \in Seq(Msg), NEW s, NEW n \in Int, Below(s, n)
    PROVE  UpTo(s, n)
<1>1. \A i \in 1 .. Len(log) : log[i].num \in Int
  BY LogNum, Zenon
<1> QED
  BY <1>1 DEF UpTo, Below

\* Steps of others keep the order of an endpoint: they only fill the FIFO.
LEMMA OrderFrame ==
    ASSUME TypeInv, TypeInv', NEW s \in Senders, OrderOf(s), head' >= head,
           pc'[s] = pc[s], group'[s] = group[s], cur'[s] = cur[s], nxt'[s] = nxt[s],
           in_dispatch'[s] = in_dispatch[s], cached_tail'[s] = cached_tail[s],
           \A n : Below(s, n) => Below(s, n)',
           \A n : UpTo(s, n) => UpTo(s, n)'
    PROVE  OrderOf(s)'
<1>1. NewOrder(s)'
  BY Zenon DEF OrderOf, NewOrder
<1>2. QueueOrder(s)'
  BY Zenon DEF OrderOf, QueueOrder
<1>3. CurOrder(s)'
  BY Zenon DEF OrderOf, CurOrder
<1>4. RoomOrder(s)'
  <2>1. ~AbleToSend(head, cached_tail[s]) => ~AbleToSend(head, cached_tail[s])'
    BY MmFifoAssumption, SMTT(40) DEF AbleToSend, TypeInv, TypeOK, SharedOK, SendersOK
  <2> QED
    BY <2>1, Zenon DEF OrderOf, RoomOrder
<1> QED
  BY <1>1, <1>2, <1>3, <1>4, Zenon DEF OrderOf

\* The elements of the tail of a sequence.
LEMMA TailFacts ==
    ASSUME NEW S, NEW q \in Seq(S), q # <<>>
    PROVE  /\ Len(q) \in Nat /\ Len(q) > 0 /\ Head(q) = q[1]
           /\ Len(Tail(q)) = Len(q) - 1
           /\ \A k \in 1 .. Len(Tail(q)) : Tail(q)[k] = q[k + 1]
  OBVIOUS

\* A send that takes no place and finishes no message keeps the numbers in order.
LEMMA OrderKeep ==
    ASSUME NEW s \in Senders, NewOrder(s), QueueOrder(s), UNCHANGED log,
           group'[s] = group[s], nxt'[s] = nxt[s],
           pc[s] \in InFlight => pc'[s] \in InFlight /\ in_dispatch'[s] = in_dispatch[s]
    PROVE  NewOrder(s)' /\ QueueOrder(s)'
<1>1. \A n : (Below(s, n) => Below(s, n)') /\ (UpTo(s, n) => UpTo(s, n)')
  BY BelowFrame, Zenon
<1>2. NewOrder(s)'
  BY <1>1, Zenon DEF NewOrder
<1>3. QueueOrder(s)'
  BY <1>1, Zenon DEF QueueOrder
<1> QED
  BY <1>2, <1>3, Zenon

\* The first element leaves the queue.
LEMMA QueuePop ==
    ASSUME NEW s \in Senders, SendersOK, QueueOrder(s), UNCHANGED log, group[s] # <<>>,
           group'[s] = Tail(group[s]), nxt'[s] = nxt[s]
    PROVE  QueueOrder(s)'
<1>1. \A n : (Below(s, n) => Below(s, n)') /\ (UpTo(s, n) => UpTo(s, n)')
  BY BelowFrame, Zenon
<1>2. /\ Len(group[s]) \in Nat /\ Len(group'[s]) = Len(group[s]) - 1
      /\ \A k \in 1 .. Len(group'[s]) : group'[s][k] = group[s][k + 1]
  BY TailFacts DEF SendersOK
<1> SUFFICES ASSUME NEW k \in 1 .. Len(group'[s]), group'[s][k] # ArbElem
             PROVE  /\ group'[s][k].from = s /\ group'[s][k].num < nxt'[s]
                    /\ UpTo(s, group[s][k].num)' /\ Below(s, group[s][k].num)'
                    /\ \A j \in 1 .. k - 1 :
                          group'[s][j] # ArbElem => group'[s][j].num < group'[s][k].num
  BY Zenon DEF QueueOrder
<1>3. k + 1 \in 1 .. Len(group[s]) /\ k + 1 # 1 /\ group'[s][k] = group[s][k + 1]
  BY <1>2
<1>4. /\ group[s][k + 1].from = s /\ group[s][k + 1].num < nxt[s]
      /\ UpTo(s, group[s][k + 1].num) /\ Below(s, group[s][k + 1].num)
      /\ \A j \in 1 .. (k + 1) - 1 :
            group[s][j] # ArbElem => group[s][j].num < group[s][k + 1].num
  BY <1>3, Zenon DEF QueueOrder
<1>5. ASSUME NEW j \in 1 .. k - 1, group'[s][j] # ArbElem
      PROVE  group'[s][j].num < group'[s][k].num
  <2>1. j + 1 \in 1 .. (k + 1) - 1 /\ group'[s][j] = group[s][j + 1]
    BY <1>2
  <2> QED
    BY <1>3, <1>4, <1>5, <2>1, Zenon
<1>6. UpTo(s, group[s][k].num)' /\ Below(s, group[s][k].num)'
  BY <1>1, <1>3, <1>4, Zenon
<1> QED
  BY <1>3, <1>4, <1>5, <1>6, Zenon

\* The return from a send keeps the order.
LEMMA DoneOrder ==
    ASSUME NEW s \in Senders, TypeInv, OrderOf(s), pc[s] \in {"publish", "signal"},
           SendDone(s), UNCHANGED <<log, head, cached_tail>>
    PROVE  OrderOf(s)'
<1>t. SendersOK /\ SenderControl /\ log \in Seq(Msg)
  BY Zenon DEF TypeInv, TypeOK, HistoryOK
<1>b. \A n : (Below(s, n) => Below(s, n)') /\ (UpTo(s, n) => UpTo(s, n)')
  BY BelowFrame, Zenon
<1>o. NewOrder(s) /\ QueueOrder(s) /\ CurOrder(s) /\ RoomOrder(s)
  BY Zenon DEF OrderOf
<1>1. CASE in_dispatch[s]
  <2> DEFINE more == Tail(group[s]) # <<>>
  <2>1. /\ group'[s] = Tail(group[s]) /\ nxt'[s] = nxt[s] /\ group[s] # <<>>
        /\ pc'[s] = (IF more THEN "dispatch" ELSE "idle") /\ in_dispatch'[s] = more
    BY <1>t, <1>1, Zenon DEF SendDone, SendersOK, SenderControl
  <2>2. QueueOrder(s)'
    BY <1>t, <1>o, <2>1, QueuePop, Zenon
  <2>3. NewOrder(s)'
    <3>1. UpTo(s, nxt[s]) /\ Below(s, nxt[s])
      BY <1>1, <1>o, Zenon DEF NewOrder
    <3> QED
      BY <1>b, <2>1, <3>1, Zenon DEF NewOrder
  <2>4. CurOrder(s)' /\ RoomOrder(s)'
    BY <2>1, Zenon DEF CurOrder, RoomOrder, Sending
  <2> QED
    BY <2>2, <2>3, <2>4, Zenon DEF OrderOf
<1>2. CASE ~in_dispatch[s]
  <2>1. /\ group'[s] = group[s] /\ nxt'[s] = nxt[s] + 1 /\ in_dispatch'[s] = in_dispatch[s]
        /\ pc'[s] = "idle" /\ nxt[s] \in Int
    BY <1>t, <1>2, MmFifoAssumption DEF SendDone, SendersOK
  <2>2. group[s] = <<>>
    BY <1>2, <1>o, Zenon DEF RoomOrder
  <2>3. UpTo(s, nxt[s])
    BY <1>o, Zenon DEF NewOrder
  <2>4. Below(s, nxt[s] + 1)
    BY <1>t, <2>1, <2>3, BelowMore
  <2>5. UpTo(s, nxt[s] + 1)
    BY <1>t, <2>1, <2>4, BelowUpTo
  <2>6. NewOrder(s)'
    BY <1>b, <2>1, <2>4, <2>5, Zenon DEF NewOrder
  <2>7. QueueOrder(s)' /\ CurOrder(s)' /\ RoomOrder(s)'
    BY <2>1, <2>2 DEF QueueOrder, CurOrder, RoomOrder, Sending
  <2> QED
    BY <2>6, <2>7, Zenon DEF OrderOf
<1> QED
  BY <1>1, <1>2, Zenon

\* A send that takes its place keeps the order.
LEMMA TakeOrder ==
    ASSUME NEW s \in Senders, TypeInv, LogOrder, OrderOf(s), pc[s] = "cas",
           log' = Append(log, cur[s]), pc'[s] = "write",
           UNCHANGED <<group, cur, nxt, in_dispatch>>
    PROVE  LogOrder' /\ OrderOf(s)'
<1>t. /\ SendersOK /\ SenderControl /\ log \in Seq(Msg) /\ cur[s] \in Msg /\ cur[s].num \in Int
      /\ nxt[s] \in Int /\ ArbElem \notin Msg
  BY MsgNum, MmFifoAssumption, SMTT(40) DEF TypeInv, TypeOK, HistoryOK, SenderControl, Sending, SendersOK
<1>h. log' \in Seq(Msg)
  BY <1>t, AppendFacts, Zenon
<1>o. NewOrder(s) /\ QueueOrder(s) /\ CurOrder(s) /\ RoomOrder(s)
  BY Zenon DEF OrderOf
<1>c. /\ cur[s].from = s
      /\ in_dispatch[s] => cur[s] = group[s][1]
      /\ ~in_dispatch[s] => cur[s].num = nxt[s]
  BY <1>o, Zenon DEF CurOrder, Sending
<1>n. pc[s] \notin InFlight /\ pc'[s] \in InFlight
  BY Zenon DEF InFlight, Writing
<1>1. CASE in_dispatch[s]
  <2>1. 1 \in 1 .. Len(group[s]) /\ group[s][1] # ArbElem /\ group[s][1] = cur[s]
    <3>1. group[s] # <<>> /\ group[s] \in Seq(Msg \cup {ArbElem})
      BY <1>t, <1>1, Zenon DEF SenderControl, SendersOK
    <3>2. Len(group[s]) \in Nat /\ Len(group[s]) > 0
      BY <3>1, TailFacts, Zenon
    <3> QED
      BY <1>t, <1>c, <1>1, <3>2
  <2>2. cur[s].num < nxt[s] /\ Below(s, cur[s].num)
    BY <1>o, <1>n, <2>1, Zenon DEF QueueOrder
  <2>3. UpTo(cur[s].from, cur[s].num)' /\ LogOrder'
    <3>1. Below(cur[s].from, cur[s].num)
      BY <1>c, <2>2, Zenon
    <3> QED
      BY <1>t, <3>1, BelowOwn, Zenon
  <2>4. UpTo(s, cur[s].num)'
    BY <1>c, <2>3, Zenon
  <2>5. NewOrder(s)'
    <3>1. Below(s, nxt[s])' /\ UpTo(s, nxt[s])'
      BY <1>t, <1>h, <2>2, <2>4, BelowMoreNext, Zenon
    <3> QED
      BY <3>1, Zenon DEF NewOrder
  <2>6. QueueOrder(s)'
    <3> SUFFICES ASSUME NEW k \in 1 .. Len(group[s]), group[s][k] # ArbElem
                 PROVE  /\ group[s][k].from = s /\ group[s][k].num < nxt[s]
                        /\ UpTo(s, group[s][k].num)'
                        /\ k # 1 => Below(s, group[s][k].num)'
                        /\ \A j \in 1 .. k - 1 :
                              group[s][j] # ArbElem => group[s][j].num < group[s][k].num
      BY <1>1, <1>n, Zenon DEF QueueOrder
    <3>1. /\ group[s][k].from = s /\ group[s][k].num < nxt[s]
          /\ \A j \in 1 .. k - 1 :
                group[s][j] # ArbElem => group[s][j].num < group[s][k].num
      BY <1>o, Zenon DEF QueueOrder
    <3>2. CASE k = 1
      BY <2>1, <2>4, <3>1, <3>2, Zenon
    <3>3. CASE k # 1
      <4>1. cur[s].num < group[s][k].num
        <5>1. 1 \in 1 .. k - 1
          BY <3>3
        <5> QED
          BY <2>1, <3>1, <5>1, Zenon
      <4>2. group[s][k].num \in Int
        <5>1. group[s][k] \in Msg
          BY <1>t DEF SendersOK
        <5> QED
          BY <5>1, MsgNum, Zenon
      <4>3. Below(s, group[s][k].num)' /\ UpTo(s, group[s][k].num)'
        BY <1>t, <1>h, <2>4, <4>1, <4>2, BelowMoreNext, Zenon
      <4> QED
        BY <3>1, <3>3, <4>3, Zenon
    <3> QED
      BY <3>2, <3>3, Zenon
  <2>7. CurOrder(s)' /\ RoomOrder(s)'
    BY <1>c, <1>1, <1>n, Zenon DEF CurOrder, RoomOrder
  <2> QED
    BY <2>3, <2>5, <2>6, <2>7, Zenon DEF OrderOf
<1>2. CASE ~in_dispatch[s]
  <2>1. Below(s, cur[s].num) /\ cur[s].num = nxt[s]
    BY <1>c, <1>o, <1>n, <1>2, Zenon DEF NewOrder
  <2>2. group[s] = <<>>
    BY <1>o, <1>2, Zenon DEF RoomOrder
  <2>3. UpTo(cur[s].from, cur[s].num)' /\ LogOrder'
    <3>1. Below(cur[s].from, cur[s].num)
      BY <1>c, <2>1, Zenon
    <3> QED
      BY <1>t, <3>1, BelowOwn, Zenon
  <2>4. UpTo(s, nxt[s])'
    BY <1>c, <2>1, <2>3, Zenon
  <2>5. NewOrder(s)'
    BY <1>2, <1>n, <2>4, Zenon DEF NewOrder
  <2>6. QueueOrder(s)' /\ CurOrder(s)' /\ RoomOrder(s)'
    BY <1>c, <1>2, <2>2 DEF QueueOrder, CurOrder, RoomOrder
  <2> QED
    BY <2>3, <2>5, <2>6, Zenon DEF OrderOf
<1> QED
  BY <1>1, <1>2, Zenon

\* What the steps of an endpoint start from.
LEMMA OrderBase ==
    ASSUME NEW s \in Senders, TypeInv, FifoInv, OrderOf(s)
    PROVE  /\ SendersOK /\ SenderControl /\ log \in Seq(Msg)
           /\ nxt[s] \in Int /\ head \in Int /\ hd[s] \in Int /\ tail \in Int
           /\ cached_tail[s] \in Int /\ FifoSize \in Int /\ hd[s] <= head
           /\ NewOrder(s) /\ QueueOrder(s) /\ CurOrder(s) /\ RoomOrder(s)
<1>1. SendersOK /\ SenderControl /\ log \in Seq(Msg) /\ hd[s] <= head
  BY Zenon DEF TypeInv, TypeOK, HistoryOK, FifoInv, IndexInv
<1>2. nxt[s] \in Int /\ hd[s] \in Int /\ cached_tail[s] \in Int
  BY <1>1, MmFifoAssumption DEF SendersOK
<1>3. head \in Int /\ tail \in Int /\ FifoSize \in Int
  BY MmFifoAssumption DEF TypeInv, TypeOK, SharedOK
<1> QED
  BY <1>1, <1>2, <1>3, Zenon DEF OrderOf

\* A step of an endpoint that takes no place, finishes no message and leaves the queue.
LEMMA OwnKeep ==
    ASSUME NEW s \in Senders, NewOrder(s), QueueOrder(s), UNCHANGED log,
           group'[s] = group[s], nxt'[s] = nxt[s],
           pc[s] \in InFlight => pc'[s] \in InFlight /\ in_dispatch'[s] = in_dispatch[s],
           CurOrder(s)', RoomOrder(s)'
    PROVE  OrderOf(s)'
  BY OrderKeep, Zenon DEF OrderOf

\* SendNew keeps the order.
LEMMA SendNewOrder ==
    ASSUME NEW s \in Senders, TypeInv, FifoInv, OrderOf(s), NEW inline \in Inlines, SendNew(s, inline)
    PROVE  OrderOf(s)'
<1>t. /\ SendersOK /\ SenderControl /\ log \in Seq(Msg)
      /\ nxt[s] \in Int /\ head \in Int /\ hd[s] \in Int /\ tail \in Int
      /\ cached_tail[s] \in Int /\ FifoSize \in Int /\ hd[s] <= head
      /\ NewOrder(s) /\ QueueOrder(s) /\ CurOrder(s) /\ RoomOrder(s)
  BY OrderBase, Zenon
<1>1. /\ UNCHANGED <<log, head, cached_tail, group, nxt, in_dispatch>> /\ pc[s] = "idle"
      /\ pc'[s] = "load" /\ cur'[s].from = s /\ cur'[s].num = nxt[s] /\ ~in_dispatch[s]
  BY <1>t, Zenon DEF SendNew, SendersOK, SenderControl, shared
<1>2. CurOrder(s)' /\ RoomOrder(s)'
  BY <1>t, <1>1, Zenon DEF CurOrder, RoomOrder, Sending
<1> QED
  BY <1>t, <1>1, <1>2, OwnKeep, Zenon DEF InFlight, Writing

\* LoadHead keeps the order.
LEMMA LoadHeadOrder ==
    ASSUME NEW s \in Senders, TypeInv, FifoInv, OrderOf(s), LoadHead(s)
    PROVE  OrderOf(s)'
<1>t. /\ SendersOK /\ SenderControl /\ log \in Seq(Msg)
      /\ nxt[s] \in Int /\ head \in Int /\ hd[s] \in Int /\ tail \in Int
      /\ cached_tail[s] \in Int /\ FifoSize \in Int /\ hd[s] <= head
      /\ NewOrder(s) /\ QueueOrder(s) /\ CurOrder(s) /\ RoomOrder(s)
  BY OrderBase, Zenon
<1>1. UNCHANGED <<log, head, cached_tail, group, cur, nxt>> /\ pc[s] = "load"
  BY Zenon DEF LoadHead, shared
<1>2. \/ AbleToSend(head, cached_tail[s]) /\ pc'[s] = "cas" /\ in_dispatch' = in_dispatch
      \/ /\ ~AbleToSend(head, cached_tail[s]) /\ in_dispatch'[s] = FALSE
         /\ pc'[s] = IF in_dispatch[s] THEN "idle" ELSE "nores"
      \/ pc'[s] = "refresh" /\ group[s] = <<>> /\ in_dispatch' = in_dispatch
  BY <1>t, Zenon DEF LoadHead, NoResource, SendersOK
<1>3. CurOrder(s)'
  BY <1>t, <1>1, <1>2, Zenon DEF CurOrder, Sending
<1>4. RoomOrder(s)'
  BY <1>t, <1>1, <1>2, Zenon DEF RoomOrder
<1> QED
  BY <1>t, <1>1, <1>3, <1>4, OwnKeep, Zenon DEF InFlight, Writing

\* RefreshTail keeps the order.
LEMMA RefreshTailOrder ==
    ASSUME NEW s \in Senders, TypeInv, FifoInv, OrderOf(s), RefreshTail(s)
    PROVE  OrderOf(s)'
<1>t. /\ SendersOK /\ SenderControl /\ log \in Seq(Msg)
      /\ nxt[s] \in Int /\ head \in Int /\ hd[s] \in Int /\ tail \in Int
      /\ cached_tail[s] \in Int /\ FifoSize \in Int /\ hd[s] <= head
      /\ NewOrder(s) /\ QueueOrder(s) /\ CurOrder(s) /\ RoomOrder(s)
  BY OrderBase, Zenon
<1>1. /\ UNCHANGED <<log, head, cur, nxt>> /\ pc[s] = "refresh" /\ cached_tail'[s] = tail
      /\ group[s] = <<>> /\ ~in_dispatch[s]
  BY <1>t, Zenon DEF RefreshTail, RoomOrder, SendersOK, SenderControl, shared
<1>2. CASE AbleToSend(hd[s], tail)
  <2>1. UNCHANGED <<group, in_dispatch>> /\ pc'[s] = "cas"
    BY <1>t, <1>2, Zenon DEF RefreshTail, SendersOK
  <2>2. CurOrder(s)' /\ RoomOrder(s)'
    BY <1>t, <1>1, <2>1, Zenon DEF CurOrder, RoomOrder, Sending
  <2> QED
    BY <1>t, <1>1, <2>1, <2>2, OwnKeep, Zenon DEF InFlight, Writing
<1>3. CASE ~AbleToSend(hd[s], tail)
  <2>1. group'[s] = <<ArbElem>> /\ in_dispatch'[s] = FALSE /\ pc'[s] = "nores"
    BY <1>t, <1>1, <1>3 DEF RefreshTail, NoResource, SendersOK
  <2>2. ~AbleToSend(head, tail)
    BY <1>t, <1>3 DEF AbleToSend
  <2>3. CurOrder(s)' /\ RoomOrder(s)'
    BY <1>t, <1>1, <2>1, <2>2, Zenon DEF CurOrder, RoomOrder, Sending
  <2>4. NewOrder(s)'
    BY <1>t, <1>1, <2>1, BelowFrame, Zenon DEF NewOrder, InFlight, Writing
  <2>5. QueueOrder(s)'
    BY <2>1 DEF QueueOrder
  <2> QED
    BY <2>3, <2>4, <2>5, Zenon DEF OrderOf
<1> QED
  BY <1>2, <1>3, Zenon

\* WritePayload keeps the order.
LEMMA WritePayloadOrder ==
    ASSUME NEW s \in Senders, TypeInv, FifoInv, OrderOf(s), WritePayload(s)
    PROVE  OrderOf(s)'
<1>t. /\ SendersOK /\ SenderControl /\ log \in Seq(Msg)
      /\ nxt[s] \in Int /\ head \in Int /\ hd[s] \in Int /\ tail \in Int
      /\ cached_tail[s] \in Int /\ FifoSize \in Int /\ hd[s] <= head
      /\ NewOrder(s) /\ QueueOrder(s) /\ CurOrder(s) /\ RoomOrder(s)
  BY OrderBase, Zenon
<1>1. /\ UNCHANGED <<log, head, cached_tail, group, cur, nxt, in_dispatch>>
      /\ pc[s] = "write" /\ pc'[s] = "publish"
  BY <1>t, Zenon DEF WritePayload, SendersOK
<1>2. CurOrder(s)' /\ RoomOrder(s)'
  BY <1>t, <1>1, Zenon DEF CurOrder, RoomOrder, Sending
<1> QED
  BY <1>t, <1>1, <1>2, OwnKeep, Zenon DEF InFlight, Writing

\* PendingAdd keeps the order.
LEMMA PendingAddOrder ==
    ASSUME NEW s \in Senders, TypeInv, FifoInv, OrderOf(s), PendingAdd(s)
    PROVE  OrderOf(s)'
<1>t. /\ SendersOK /\ SenderControl /\ log \in Seq(Msg)
      /\ nxt[s] \in Int /\ head \in Int /\ hd[s] \in Int /\ tail \in Int
      /\ cached_tail[s] \in Int /\ FifoSize \in Int /\ hd[s] <= head
      /\ NewOrder(s) /\ QueueOrder(s) /\ CurOrder(s) /\ RoomOrder(s)
  BY OrderBase, Zenon
<1>1. /\ UNCHANGED <<log, head, cached_tail, cur, in_dispatch>> /\ pc[s] = "nores"
      /\ pc'[s] = "idle" /\ ~in_dispatch[s]
  BY <1>t, Zenon DEF PendingAdd, SendersOK, SenderControl, shared
<1>2. CASE AbleToSend(head, cached_tail[s])
  <2>1. UNCHANGED <<group, nxt>>
    BY <1>2, Zenon DEF PendingAdd
  <2>2. CurOrder(s)' /\ RoomOrder(s)'
    BY <1>t, <1>1, <2>1, Zenon DEF CurOrder, RoomOrder, Sending
  <2> QED
    BY <1>t, <1>1, <2>1, <2>2, OwnKeep, Zenon DEF InFlight, Writing
<1>3. CASE ~AbleToSend(head, cached_tail[s])
  <2> DEFINE q == group[s]
             m == cur[s]
  <2>1. group'[s] = Append(q, m) /\ nxt'[s] = nxt[s] + 1
    BY <1>t, <1>3, Zenon DEF PendingAdd, SendersOK
  <2>2. m \in Msg /\ m.from = s /\ m.num = nxt[s]
    BY <1>t, <1>1, Zenon DEF CurOrder, Sending, SenderControl
  <2>3. /\ Len(q) \in Nat /\ Len(group'[s]) = Len(q) + 1 /\ group'[s][Len(q) + 1] = m
        /\ \A k \in 1 .. Len(q) : group'[s][k] = q[k]
    BY <1>t, <2>1, <2>2, AppendFacts DEF SendersOK
  <2>4. Below(s, nxt[s]) /\ UpTo(s, nxt[s])
    BY <1>t, <1>1, Zenon DEF NewOrder, InFlight, Writing
  <2>5. NewOrder(s)'
    <3>1. Below(s, nxt[s] + 1)
      BY <1>t, <2>4, BelowMore
    <3>2. UpTo(s, nxt[s] + 1)
      BY <1>t, <3>1, BelowUpTo, SMTT(40)
    <3> QED
      BY <1>1, <2>1, <3>1, <3>2, BelowFrame, Zenon DEF NewOrder
  <2>6. QueueOrder(s)'
    <3> HIDE DEF q, m
    <3> SUFFICES ASSUME NEW k \in 1 .. Len(group'[s]), group'[s][k] # ArbElem
                 PROVE  /\ group'[s][k].from = s /\ group'[s][k].num < nxt'[s]
                        /\ UpTo(s, group[s][k].num)' /\ Below(s, group[s][k].num)'
                        /\ \A j \in 1 .. k - 1 :
                              group'[s][j] # ArbElem => group'[s][j].num < group'[s][k].num
      BY Zenon DEF QueueOrder
    <3>1. CASE k = Len(q) + 1
      <4>1. group'[s][k] = m
        BY <2>3, <3>1, Zenon
      <4>2. UpTo(s, group[s][k].num)' /\ Below(s, group[s][k].num)'
        BY <1>1, <2>2, <2>4, <4>1, BelowFrame, Zenon
      <4>3. ASSUME NEW j \in 1 .. k - 1, group'[s][j] # ArbElem
            PROVE  group'[s][j].num < nxt[s]
        <5>1. j \in 1 .. Len(q) /\ group'[s][j] = q[j]
          BY <2>3, <3>1, SMTT(40)
        <5> QED
          BY <1>t, <4>3, <5>1, ZenonT(40) DEF QueueOrder, q
      <4> QED
        BY <1>t, <2>1, <2>2, <4>1, <4>2, <4>3, SMTT(40)
    <3>2. CASE k \in 1 .. Len(q)
      <4>1. /\ group'[s][k] = q[k]
            /\ \A j \in 1 .. k - 1 : group'[s][j] = q[j]
        BY <2>3, <3>2
      <4>2. /\ q[k].from = s /\ q[k].num < nxt[s]
            /\ UpTo(s, q[k].num) /\ Below(s, q[k].num)
            /\ \A j \in 1 .. k - 1 : q[j] # ArbElem => q[j].num < q[k].num
        <5>1. pc[s] \notin InFlight
          BY <1>1, Zenon DEF InFlight, Writing
        <5> QED
          BY <1>t, <3>2, <4>1, <5>1, Zenon DEF QueueOrder, q
      <4>3. UpTo(s, group[s][k].num)' /\ Below(s, group[s][k].num)'
        BY <1>1, <4>1, <4>2, BelowFrame, Zenon
      <4>4. q[k].num \in Int
        <5>1. q[k] \in Msg
          BY <1>t, <3>2, <4>1, SMTT(40) DEF SendersOK, q
        <5> QED
          BY <5>1, MsgNum, Zenon
      <4> QED
        BY <1>t, <2>1, <4>1, <4>2, <4>3, <4>4
    <3> QED
      BY <2>3, <3>1, <3>2, SMTT(40)
  <2>7. CurOrder(s)' /\ RoomOrder(s)'
    BY <1>1, <1>3, Zenon DEF CurOrder, RoomOrder, Sending
  <2> QED
    BY <2>5, <2>6, <2>7, Zenon DEF OrderOf
<1> QED
  BY <1>2, <1>3, Zenon

\* GiveUp keeps the order.
LEMMA GiveUpOrder ==
    ASSUME NEW s \in Senders, TypeInv, FifoInv, OrderOf(s), GiveUp(s)
    PROVE  OrderOf(s)'
<1>t. /\ SendersOK /\ SenderControl /\ log \in Seq(Msg)
      /\ nxt[s] \in Int /\ head \in Int /\ hd[s] \in Int /\ tail \in Int
      /\ cached_tail[s] \in Int /\ FifoSize \in Int /\ hd[s] <= head
      /\ NewOrder(s) /\ QueueOrder(s) /\ CurOrder(s) /\ RoomOrder(s)
  BY OrderBase, Zenon
<1>1. /\ UNCHANGED <<log, head, cached_tail, group, nxt, in_dispatch>> /\ pc[s] = "nores"
      /\ pc'[s] = "idle"
  BY <1>t, Zenon DEF GiveUp, SendersOK, shared
<1>2. CurOrder(s)' /\ RoomOrder(s)'
  BY <1>t, <1>1, Zenon DEF CurOrder, RoomOrder, Sending
<1> QED
  BY <1>t, <1>1, <1>2, OwnKeep, Zenon DEF InFlight, Writing

\* StartDispatch keeps the order.
LEMMA StartDispatchOrder ==
    ASSUME NEW s \in Senders, TypeInv, FifoInv, OrderOf(s), StartDispatch(s)
    PROVE  OrderOf(s)'
<1>t. /\ SendersOK /\ SenderControl /\ log \in Seq(Msg)
      /\ nxt[s] \in Int /\ head \in Int /\ hd[s] \in Int /\ tail \in Int
      /\ cached_tail[s] \in Int /\ FifoSize \in Int /\ hd[s] <= head
      /\ NewOrder(s) /\ QueueOrder(s) /\ CurOrder(s) /\ RoomOrder(s)
  BY OrderBase, Zenon
<1>1. /\ UNCHANGED <<log, head, cached_tail, group, nxt>> /\ pc[s] = "idle"
      /\ pc'[s] = "dispatch" /\ in_dispatch'[s]
  BY <1>t, Zenon DEF StartDispatch, SendersOK, shared
<1>2. CurOrder(s)' /\ RoomOrder(s)'
  BY <1>1, Zenon DEF CurOrder, RoomOrder, Sending
<1> QED
  BY <1>t, <1>1, <1>2, OwnKeep, Zenon DEF InFlight, Writing

\* ProcessPending keeps the order.
LEMMA ProcessPendingOrder ==
    ASSUME NEW s \in Senders, TypeInv, FifoInv, OrderOf(s), ProcessPending(s)
    PROVE  OrderOf(s)'
<1>t. /\ SendersOK /\ SenderControl /\ log \in Seq(Msg)
      /\ nxt[s] \in Int /\ head \in Int /\ hd[s] \in Int /\ tail \in Int
      /\ cached_tail[s] \in Int /\ FifoSize \in Int /\ hd[s] <= head
      /\ NewOrder(s) /\ QueueOrder(s) /\ CurOrder(s) /\ RoomOrder(s)
  BY OrderBase, Zenon
<1>1. /\ UNCHANGED <<log, head, group, nxt, in_dispatch>> /\ pc[s] = "dispatch"
      /\ pc'[s] = "pending" /\ in_dispatch[s]
  BY <1>t, Zenon DEF ProcessPending, SendersOK, SenderControl, shared
<1>2. CurOrder(s)' /\ RoomOrder(s)'
  BY <1>1, Zenon DEF CurOrder, RoomOrder, Sending
<1> QED
  BY <1>t, <1>1, <1>2, OwnKeep, Zenon DEF InFlight, Writing

\* ProcessElem keeps the order.
LEMMA ProcessElemOrder ==
    ASSUME NEW s \in Senders, TypeInv, FifoInv, OrderOf(s), ProcessElem(s)
    PROVE  OrderOf(s)'
<1>t. /\ SendersOK /\ SenderControl /\ log \in Seq(Msg)
      /\ nxt[s] \in Int /\ head \in Int /\ hd[s] \in Int /\ tail \in Int
      /\ cached_tail[s] \in Int /\ FifoSize \in Int /\ hd[s] <= head
      /\ NewOrder(s) /\ QueueOrder(s) /\ CurOrder(s) /\ RoomOrder(s)
  BY OrderBase, Zenon
<1>1. /\ UNCHANGED <<log, head, cached_tail, nxt>> /\ pc[s] = "pending"
      /\ in_dispatch[s] /\ group[s] # <<>>
  BY <1>t, Zenon DEF ProcessElem, SenderControl, shared
<1>2. CASE ~AbleToSend(head, cached_tail[s])
  <2>1. group' = group /\ pc'[s] = "idle" /\ ~in_dispatch'[s]
    BY <1>t, <1>1, <1>2, Zenon DEF ProcessElem, NoResource, SendersOK
  <2>2. CurOrder(s)' /\ RoomOrder(s)'
    BY <1>1, <1>2, <2>1, Zenon DEF CurOrder, RoomOrder, Sending
  <2> QED
    BY <1>t, <1>1, <2>1, <2>2, OwnKeep, Zenon DEF InFlight, Writing
<1>3. CASE AbleToSend(head, cached_tail[s]) /\ Head(group[s]) = ArbElem
  <2> DEFINE more == Tail(group[s]) # <<>>
  <2>1. /\ group'[s] = Tail(group[s])
        /\ pc'[s] = (IF more THEN "dispatch" ELSE "idle") /\ in_dispatch'[s] = more
    BY <1>t, <1>3, Zenon DEF ProcessElem, SendersOK
  <2>2. QueueOrder(s)'
    BY <1>t, <1>1, <2>1, QueuePop, Zenon
  <2>3. NewOrder(s)'
    <3>1. UpTo(s, nxt[s]) /\ Below(s, nxt[s])
      BY <1>t, <1>1, Zenon DEF NewOrder
    <3> QED
      BY <1>1, <3>1, BelowFrame, Zenon DEF NewOrder
  <2>4. CurOrder(s)' /\ RoomOrder(s)'
    BY <2>1, ZenonT(40) DEF CurOrder, RoomOrder, Sending
  <2> QED
    BY <2>2, <2>3, <2>4, Zenon DEF OrderOf
<1>4. CASE AbleToSend(head, cached_tail[s]) /\ Head(group[s]) # ArbElem
  <2>1. /\ UNCHANGED <<group, in_dispatch>> /\ pc'[s] = "load" /\ cur'[s] = Head(group[s])
    BY <1>t, <1>4, Zenon DEF ProcessElem, SendersOK
  <2>2. Head(group[s]) = group[s][1] /\ 1 \in 1 .. Len(group[s])
    BY <1>t, <1>1, TailFacts, SMTT(40) DEF SendersOK
  <2>3. group[s][1].from = s
    BY <1>t, <1>4, <2>2, ZenonT(40) DEF QueueOrder
  <2>4. CurOrder(s)' /\ RoomOrder(s)'
    BY <1>1, <2>1, <2>2, <2>3, Zenon DEF CurOrder, RoomOrder, Sending
  <2> QED
    BY <1>t, <1>1, <2>1, <2>4, OwnKeep, Zenon DEF InFlight, Writing
<1> QED
  BY <1>2, <1>3, <1>4, Zenon

\* PendingPurge keeps the order.
LEMMA PendingPurgeOrder ==
    ASSUME NEW s \in Senders, TypeInv, FifoInv, OrderOf(s), PendingPurge(s)
    PROVE  OrderOf(s)'
<1>t. /\ SendersOK /\ SenderControl /\ log \in Seq(Msg)
      /\ nxt[s] \in Int /\ head \in Int /\ hd[s] \in Int /\ tail \in Int
      /\ cached_tail[s] \in Int /\ FifoSize \in Int /\ hd[s] <= head
      /\ NewOrder(s) /\ QueueOrder(s) /\ CurOrder(s) /\ RoomOrder(s)
  BY OrderBase, Zenon
<1>1. /\ UNCHANGED <<log, pc, nxt, in_dispatch>> /\ pc[s] = "idle" /\ group'[s] = <<>>
  BY <1>t, Zenon DEF PendingPurge, SendersOK
<1>2. NewOrder(s)'
  BY <1>t, <1>1, BelowFrame, Zenon DEF NewOrder
<1>3. QueueOrder(s)' /\ CurOrder(s)' /\ RoomOrder(s)'
  BY <1>1, SMTT(40) DEF QueueOrder, CurOrder, RoomOrder, Sending
<1> QED
  BY <1>2, <1>3, Zenon DEF OrderOf

\* Flush keeps the order.
LEMMA FlushOrder ==
    ASSUME NEW s \in Senders, TypeInv, FifoInv, OrderOf(s), Flush(s)
    PROVE  OrderOf(s)'
<1>t. /\ SendersOK /\ SenderControl /\ log \in Seq(Msg)
      /\ nxt[s] \in Int /\ head \in Int /\ hd[s] \in Int /\ tail \in Int
      /\ cached_tail[s] \in Int /\ FifoSize \in Int /\ hd[s] <= head
      /\ NewOrder(s) /\ QueueOrder(s) /\ CurOrder(s) /\ RoomOrder(s)
  BY OrderBase, Zenon
<1>1. /\ UNCHANGED <<log, pc, nxt, in_dispatch, group, cur>> /\ pc[s] = "idle" /\ group[s] = <<>>
  BY Zenon DEF Flush
<1>2. CurOrder(s)' /\ RoomOrder(s)'
  BY <1>1, Zenon DEF CurOrder, RoomOrder, Sending
<1> QED
  BY <1>t, <1>1, <1>2, OwnKeep, Zenon DEF InFlight, Writing

\* Every step keeps the invariant.
LEMMA OrderStep == TypeInv /\ TypeInv' /\ FifoInv /\ OrderInv /\ [Next]_vars => OrderInv'
<1> SUFFICES ASSUME TypeInv, TypeInv', FifoInv, OrderInv, [Next]_vars, NoneAbandoned'
             PROVE  LogOrder' /\ \A s \in Senders : OrderOf(s)'
  BY Zenon DEF OrderInv
<1>n. NoneAbandoned
  BY AbandonedStays, ElemStepHolds, Zenon
<1>i. LogOrder /\ \A s \in Senders : OrderOf(s)
  BY <1>n, Zenon DEF OrderInv
<1>t. SharedOK /\ SendersOK /\ SenderControl /\ log \in Seq(Msg) /\ head \in Int
  BY DEF TypeInv, TypeOK, HistoryOK, SharedOK
<1> DEFINE Others(s) ==
             \A r \in Senders \ {s} :
                /\ pc'[r] = pc[r] /\ group'[r] = group[r] /\ cur'[r] = cur[r] /\ nxt'[r] = nxt[r]
                /\ in_dispatch'[r] = in_dispatch[r] /\ cached_tail'[r] = cached_tail[r]
           Goal == LogOrder' /\ \A s \in Senders : OrderOf(s)'
<1>f. ASSUME NEW s \in Senders, Others(s), UNCHANGED <<log, head>>, OrderOf(s)' PROVE Goal
  <2>1. ASSUME NEW r \in Senders \ {s} PROVE OrderOf(r)'
    <3>1. \A n : (Below(r, n) => Below(r, n)') /\ (UpTo(r, n) => UpTo(r, n)')
      BY <1>f, BelowFrame, Zenon
    <3> QED
      BY <1>i, <1>t, <1>f, <3>1, OrderFrame, SMTT(40)
  <2> QED
    BY <1>i, <1>f, <2>1, BelowFrame, Zenon
<1>r. ASSUME UNCHANGED <<sndr, log, head>> PROVE Goal
  <2>1. ASSUME NEW r \in Senders PROVE OrderOf(r)'
    <3>1. \A n : (Below(r, n) => Below(r, n)') /\ (UpTo(r, n) => UpTo(r, n)')
      BY <1>r, BelowFrame, Zenon
    <3>2. /\ pc'[r] = pc[r] /\ group'[r] = group[r] /\ cur'[r] = cur[r] /\ nxt'[r] = nxt[r]
          /\ in_dispatch'[r] = in_dispatch[r] /\ cached_tail'[r] = cached_tail[r] /\ head' >= head
      BY <1>t, <1>r, SMTT(40) DEF sndr
    <3> QED
      BY <1>i, <3>1, <3>2, OrderFrame, Zenon
  <2> QED
    BY <1>i, <1>r, <2>1, BelowFrame, Zenon
<1> HIDE DEF Goal, Others
<1>1. ASSUME NEW s \in Senders, NEW inline \in Inlines, SendNew(s, inline) PROVE Goal
  <2>1. Others(s) /\ UNCHANGED <<log, head>>
    BY <1>t, <1>1, Zenon DEF SendNew, SendersOK, shared, Others
  <2> QED
    BY <1>i, <1>f, <1>1, <2>1, SendNewOrder, Zenon
<1>2. ASSUME NEW s \in Senders, LoadHead(s) PROVE Goal
  <2>1. Others(s) /\ UNCHANGED <<log, head>>
    BY <1>t, <1>2, Zenon DEF LoadHead, NoResource, SendersOK, shared, Others
  <2> QED
    BY <1>i, <1>f, <1>2, <2>1, LoadHeadOrder, Zenon
<1>3. ASSUME NEW s \in Senders, RefreshTail(s) PROVE Goal
  <2>1. Others(s) /\ UNCHANGED <<log, head>>
    BY <1>t, <1>3, Zenon DEF RefreshTail, NoResource, SendersOK, shared, Others
  <2> QED
    BY <1>i, <1>f, <1>3, <2>1, RefreshTailOrder, Zenon
<1>5. ASSUME NEW s \in Senders, WritePayload(s) PROVE Goal
  <2>1. Others(s) /\ UNCHANGED <<log, head>>
    BY <1>t, <1>5, Zenon DEF WritePayload, SendersOK, shared, Others
  <2> QED
    BY <1>i, <1>f, <1>5, <2>1, WritePayloadOrder, Zenon
<1>9. ASSUME NEW s \in Senders, PendingAdd(s) PROVE Goal
  <2>1. Others(s) /\ UNCHANGED <<log, head>>
    BY <1>t, <1>9, Zenon DEF PendingAdd, SendersOK, shared, Others
  <2> QED
    BY <1>i, <1>f, <1>9, <2>1, PendingAddOrder, Zenon
<1>10. ASSUME NEW s \in Senders, GiveUp(s) PROVE Goal
  <2>1. Others(s) /\ UNCHANGED <<log, head>>
    BY <1>t, <1>10, Zenon DEF GiveUp, SendersOK, shared, Others
  <2> QED
    BY <1>i, <1>f, <1>10, <2>1, GiveUpOrder, Zenon
<1>11. ASSUME NEW s \in Senders, StartDispatch(s) PROVE Goal
  <2>1. Others(s) /\ UNCHANGED <<log, head>>
    BY <1>t, <1>11, Zenon DEF StartDispatch, SendersOK, shared, Others
  <2> QED
    BY <1>i, <1>f, <1>11, <2>1, StartDispatchOrder, Zenon
<1>12. ASSUME NEW s \in Senders, ProcessPending(s) PROVE Goal
  <2>1. Others(s) /\ UNCHANGED <<log, head>>
    BY <1>t, <1>12, Zenon DEF ProcessPending, SendersOK, shared, Others
  <2> QED
    BY <1>i, <1>f, <1>12, <2>1, ProcessPendingOrder, Zenon
<1>13. ASSUME NEW s \in Senders, ProcessElem(s) PROVE Goal
  <2>1. Others(s) /\ UNCHANGED <<log, head>>
    BY <1>t, <1>13, Zenon DEF ProcessElem, NoResource, SendersOK, shared, Others
  <2> QED
    BY <1>i, <1>f, <1>13, <2>1, ProcessElemOrder, Zenon
<1>14. ASSUME NEW s \in Senders, PendingPurge(s) PROVE Goal
  <2>1. Others(s) /\ UNCHANGED <<log, head>>
    BY <1>t, <1>14, Zenon DEF PendingPurge, SendersOK, shared, Others
  <2> QED
    BY <1>i, <1>f, <1>14, <2>1, PendingPurgeOrder, Zenon
<1>15. ASSUME NEW s \in Senders, Flush(s) PROVE Goal
  <2>1. Others(s) /\ UNCHANGED <<log, head>>
    BY <1>t, <1>15, Zenon DEF Flush, SendersOK, shared, Others
  <2> QED
    BY <1>i, <1>f, <1>15, <2>1, FlushOrder, Zenon
<1>4. ASSUME NEW s \in Senders, CompareAndSwap(s) PROVE Goal
  <2>1. Others(s) /\ UNCHANGED <<group, cur, nxt, in_dispatch>> /\ pc[s] = "cas"
    BY <1>t, <1>4, Zenon DEF CompareAndSwap, SendersOK, Others
  <2>2. CASE head = hd[s] /\ armed = hd_armed[s]
    <3>1. log' = Append(log, cur[s]) /\ pc'[s] = "write" /\ head' = head + 1
      BY <1>t, <1>4, <2>2, Zenon DEF CompareAndSwap, SendersOK
    <3>2. LogOrder' /\ OrderOf(s)'
      BY <1>i, <2>1, <3>1, TakeOrder, Zenon
    <3>3. ASSUME NEW r \in Senders \ {s} PROVE OrderOf(r)'
      <4>1. cur[s] \in Msg /\ cur[s].from # r
        BY <1>i, <1>t, <2>1, Zenon DEF OrderOf, CurOrder, SenderControl, Sending
      <4>2. \A n : (Below(r, n) => Below(r, n)') /\ (UpTo(r, n) => UpTo(r, n)')
        BY <1>t, <3>1, <4>1, BelowOther, Zenon
      <4>3. head' >= head
        BY <1>t, <3>1
      <4> QED
        BY <1>i, <2>1, <4>2, <4>3, OrderFrame, Zenon DEF Others
    <3> QED
      BY <3>2, <3>3, Zenon DEF Goal
  <2>3. CASE ~(head = hd[s] /\ armed = hd_armed[s])
    <3>1. UNCHANGED <<log, head>> /\ pc'[s] = "load" /\ UNCHANGED cached_tail
      BY <1>t, <1>4, <2>3, Zenon DEF CompareAndSwap, SendersOK
    <3>2. NewOrder(s) /\ QueueOrder(s) /\ CurOrder(s) /\ RoomOrder(s)
      BY <1>i, Zenon DEF OrderOf
    <3>3. CurOrder(s)' /\ RoomOrder(s)'
      BY <2>1, <3>1, <3>2, Zenon DEF CurOrder, RoomOrder, Sending
    <3>4. OrderOf(s)'
      BY <2>1, <3>1, <3>2, <3>3, OwnKeep, Zenon DEF InFlight, Writing
    <3> QED
      BY <1>f, <2>1, <3>1, <3>4, Zenon
  <2> QED
    BY <2>2, <2>3, Zenon
<1>6. ASSUME NEW s \in Senders, AttachFails(s) PROVE FALSE
  <2>1. /\ read_index \in Int /\ hd[s] \in Int /\ head \in Int /\ read_index <= hd[s] /\ hd[s] < head
        /\ elems[Slot(hd[s])].owner # OwnerBit(hd[s])
        /\ \A r \in Senders : pc[r] \in Writing /\ hd[r] = hd[s] => r = s
    <3>1. pc[s] \in Writing
      BY <1>6, Zenon DEF AttachFails, Writing
    <3> QED
      BY <1>t, <3>1 DEF FifoInv, WriterInv, TypeInv, TypeOK, SendersOK, ReceiverOK
  <2>2. UNCHANGED <<read_index, head, elems, hd>> /\ pc' = [pc EXCEPT ![s] = "idle"]
    BY <1>6, Zenon DEF AttachFails, shared, rcvr
  <2>3. hd[s] \in read_index' .. head' - 1
    BY <2>1, <2>2
  <2>4. PICK r \in Senders : pc'[r] \in Writing /\ hd[r] = hd[s]
    <3> DEFINE i == hd[s]
    <3>1. elems'[Slot(i)].owner # OwnerBit(i)
      BY <2>1, <2>2, Zenon
    <3> HIDE DEF i
    <3>2. \A k \in read_index' .. head' - 1 :
             \/ elems'[Slot(k)].owner = OwnerBit(k)
             \/ \E q \in Senders : pc'[q] \in Writing /\ hd'[q] = k
      BY Zenon DEF NoneAbandoned, Writing
    <3>3. i \in read_index' .. head' - 1
      BY <2>3, Zenon DEF i
    <3>4. \E q \in Senders : pc'[q] \in Writing /\ hd'[q] = i
      BY <3>1, <3>2, <3>3, Zenon
    <3> QED
      BY <2>2, <3>4, Zenon DEF i
  <2> QED
    BY <1>t, <2>1, <2>2, <2>4, Zenon DEF SendersOK, Writing
<1>7. ASSUME NEW s \in Senders, Publish(s) PROVE Goal
  <2>1. UNCHANGED <<log, head, cached_tail, cur>> /\ pc[s] = "publish"
    BY <1>7, Zenon DEF Publish
  <2>2. CASE hd_armed[s]
    <3>1. Others(s) /\ UNCHANGED <<group, nxt, in_dispatch>> /\ pc'[s] = "signal"
      BY <1>t, <1>7, <2>2, Zenon DEF Publish, SendersOK, Others
    <3>2. NewOrder(s) /\ QueueOrder(s) /\ CurOrder(s) /\ RoomOrder(s)
      BY <1>i, Zenon DEF OrderOf
    <3>3. CurOrder(s)' /\ RoomOrder(s)'
      BY <2>1, <3>1, <3>2, Zenon DEF CurOrder, RoomOrder, Sending
    <3>4. OrderOf(s)'
      BY <2>1, <3>1, <3>2, <3>3, OwnKeep, Zenon DEF InFlight, Writing
    <3> QED
      BY <1>f, <2>1, <3>1, <3>4, Zenon
  <2>3. CASE ~hd_armed[s]
    <3>1. SendDone(s)
      BY <1>7, <2>3, Zenon DEF Publish
    <3>2. Others(s)
      BY <1>t, <2>1, <3>1, Zenon DEF SendDone, SendersOK, Others
    <3> QED
      BY <1>f, <1>i, <2>1, <3>1, <3>2, DoneOrder, Zenon
  <2> QED
    BY <2>2, <2>3, Zenon
<1>8. ASSUME NEW s \in Senders, SignalRemote(s) PROVE Goal
  <2>1. UNCHANGED <<log, head, cached_tail, cur>> /\ pc[s] = "signal" /\ SendDone(s)
    BY <1>8, Zenon DEF SignalRemote
  <2>2. Others(s)
    BY <1>t, <2>1, Zenon DEF SendDone, SendersOK, Others
  <2> QED
    BY <1>f, <1>i, <2>1, <2>2, DoneOrder, Zenon
<1>16. ASSUME PollFifo \/ ProgressTail \/ ArmCompareAndSwap \/ ArmReceive \/ WakeUp PROVE Goal
  BY <1>r, <1>16, Zenon DEF PollFifo, ProgressTail, ArmCompareAndSwap, ArmReceive, WakeUp, shared
<1>17. ASSUME StartProgress \/ EventArm \/ \E h \in held : ReleaseDesc(h) PROVE Goal
  BY <1>r, <1>17, Zenon DEF StartProgress, EventArm, ReleaseDesc, shared
<1>18. ASSUME ReadShort \/ ReadBcopyNoDesc \/ \E keep \in BOOLEAN : ReadBcopy(keep) PROVE Goal
  <2>1. UNCHANGED <<sndr, log, head>>
    BY <1>18, Zenon DEF ReadShort, ReadBcopyNoDesc, ReadBcopy, AdvanceRead
  <2> QED
    BY <1>r, <2>1, Zenon
<1>21. ASSUME UNCHANGED vars PROVE Goal
  BY <1>r, <1>21, Zenon DEF vars, shared
<1> QED
  BY <1>1, <1>2, <1>3, <1>4, <1>5, <1>6, <1>7, <1>8, <1>9, <1>10, <1>11, <1>12, <1>13, <1>14, <1>15,
     <1>16, <1>17, <1>18, <1>21, Zenon
     DEF Goal, Next, SenderStep, SenderUser, ReceiverStep, ReceiverUser

\* "don't send now to prevent out-of-order sending": unless a send gave up the element it
\* took, the messages of an endpoint take their places in the order the user sent them.
THEOREM EndpointOrderTheorem == Spec => []EndpointOrder
<1>1. OrderInv => EndpointOrder
  BY Zenon DEF OrderInv, EndpointOrder, LogOrder
<1> QED
  BY <1>1, OrderInit, OrderStep, FifoCorrect, PTL DEF Spec

=============================================================================
