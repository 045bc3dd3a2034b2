------------------------------ MODULE Arbiter ------------------------------
(***************************************************************************)
(* The arbiter (src/src/ucs/datastruct/arbiter.c): groups of queued        *)
(* elements, each group scheduled on the arbiter's list or not, dispatched *)
(* round robin.  An arbiter is a record q:                                 *)
(*   q.group    what each group holds, head first (the circular list of a  *)
(*              group, read from tail->next)                               *)
(*   q.list     the scheduled groups, in dispatch order                    *)
(*   q.resched  the groups the current dispatch has put aside              *)
(* While an element is dispatched a dummy stands for it at the head of its *)
(* group; here the element keeps its place.  The group is off q.list then, *)
(* and appears there only when the callback schedules it again.            *)
(***************************************************************************)
EXTENDS Sequences, SequencesExt

ScheduledIn(q, g) == Contains(q.list, g) \/ Contains(q.resched, g)

Push(q, g, x) == [q EXCEPT !.group[g] = Append(@, x)]

\* ucs_arbiter_group_schedule: nothing for an empty or a scheduled group.
Schedule(q, g) == 
    IF q.group[g] = <<>> \/ ScheduledIn(q, g) THEN q
    ELSE [q EXCEPT !.list = Append(@, g)]

Unlisted(q, g) == [q EXCEPT !.list = Remove(@, g)]

\* ucs_arbiter_group_purge with a callback that removes every element.
PurgeAll(q, g) == [q EXCEPT !.group[g] = <<>>, !.list = Remove(@, g)]

\* The loop takes the next group off the list before it calls back.
TakeGroup(q) == [q EXCEPT !.list = Tail(@)]

\* A removed head: the group stays where the callback rescheduled it, else
\* goes to the tail; an emptied group is off the list.
RemoveElem(q, g) ==
    LET r == [q EXCEPT !.group[g] = Tail(@)]
    IN  IF r.group[g] = <<>> THEN Unlisted(r, g) ELSE Schedule(r, g)

\* A descheduled group stays scheduled if the callback scheduled it again.
DeschedGroup(q, g) == q

NextGroup(q, g) == [q EXCEPT !.list = Append(Remove(@, g), g)]

ReschedGroup(q, g) == [Unlisted(q, g) EXCEPT !.resched = Append(@, g)]

StopGroup(q, g) == [q EXCEPT !.list = <<g>> \o Remove(@, g)]

\* Leaving the dispatch loop.
SpliceResched(q) == [q EXCEPT !.list = @ \o q.resched, !.resched = <<>>]
=============================================================================
