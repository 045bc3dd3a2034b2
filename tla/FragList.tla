------------------------------ MODULE FragList ------------------------------
(***************************************************************************)
(* The "frag list" of ucs/datastruct: it puts packets that arrive in any   *)
(* order back into sequence number order.                                  *)
(*                                                                         *)
(* A frag list fl is a record of the fields of ucs_frag_list_t:            *)
(*   head_sn     the last sequence number that is in order (a counter that *)
(*               wraps at SnMod);                                          *)
(*   list        the runs of consecutive elements behind a hole, each with *)
(*               its first_sn, last_sn and elements (the head element of   *)
(*               the run first);                                           *)
(*   ready_list  the elements in order that nobody has pulled yet;         *)
(*   elem_count  an unsigned counter that wraps at CountMod;               *)
(*   list_count  the number of runs.                                       *)
(* An element is identified by its unwrapped sequence number, which the    *)
(* code never sees: it compares the wrapped ones.                          *)
(***************************************************************************)
EXTENDS Circular, Sequences, SequencesExt, FiniteSets

CONSTANTS
    MaxHoles,   \* max_holes: 0 (no out of order insert) or -1 (no limit)
    CountMod,   \* the number of values of an unsigned counter (2^32)
    InitialSn,  \* initial_sn, unwrapped: the first element has InitialSn + 1
    MaxElems,   \* bound: the number of elements that are sent
    Ahead,      \* bound: how far ahead of the head a packet may arrive
    Behind,     \* bound: how far behind the head a packet may arrive
    PullAll     \* TRUE: the user pulls until NULL after every insert

NoHoleLimit == -1

ASSUME FragListAssumption ==
    /\ MaxHoles \in {0, NoHoleLimit}
    /\ InitialSn \in Nat
    /\ CountMod \in Nat /\ MaxElems \in Nat /\ MaxElems < CountMod
    /\ Ahead \in 1 .. (SnMod \div 2 - 1)
    /\ Behind \in 0 .. (SnMod \div 2 - 1)
    /\ PullAll \in BOOLEAN

VARIABLES
    fl,         \* the frag list
    out,        \* the elements handed to the user, in the order of the hand-over
    must_pull   \* the user is in its pull loop (PullAll only)

vars == <<fl, out, must_pull>>

\* The unwrapped sequence numbers that the sender uses.
Sns == InitialSn + 1 .. InitialSn + MaxElems

-----------------------------------------------------------------------------
(* ucs_frag_list_insert() and the helpers it calls. *)

NewRun(sn, e) == [first_sn |-> sn, last_sn |-> sn, elems |-> <<e>>]

\* frag_list_replace_head(): the element becomes the head of run i.
ReplaceHead(h, e) ==
    [h EXCEPT !.first_sn = Wrap(h.first_sn - 1), !.elems = <<e>> \o @]

\* frag_list_add_tail(): the element becomes the last one of the run.
AddTail(h, e) == [h EXCEPT !.last_sn = Wrap(@ + 1), !.elems = Append(@, e)]

\* frag_list_merge_heads()
MergeHeads(h1, h2) ==
    [h1 EXCEPT !.last_sn = h2.last_sn, !.elems = @ \o h2.elems]

\* Mutant: runs are never merged.
NeverMerges(list, i, sn) == FALSE

\* The test of insert_slow() for a merge with the next run.  It compares with
\* ==, after the promotion of sn + 1 to int, and not with the compare macro.
MergesWithNext(list, i, sn) ==
    i < Len(list) /\ list[i + 1].first_sn = sn + 1

\* Mutant: the search does not stop at a run that has the element.
SearchStopNoDup(list, sn) ==
    LET stops == {i \in 1 .. Len(list) :
                    \/ SnEq(sn + 1, list[i].first_sn)
                    \/ SnEq(list[i].last_sn + 1, sn)
                    \/ SnLt(sn, list[i].first_sn)}
    IN  IF stops = {} THEN Len(list) + 1
        ELSE CHOOSE i \in stops : \A j \in stops : i <= j

\* The first run at which the search of insert_slow() stops, Len(list) + 1 if
\* there is none.
SearchStop(list, sn) ==
    LET stops == {i \in 1 .. Len(list) :
                    \/ ~SnLt(sn, list[i].first_sn) /\ SnLe(sn, list[i].last_sn)
                    \/ SnEq(sn + 1, list[i].first_sn)
                    \/ SnEq(list[i].last_sn + 1, sn)
                    \/ SnLt(sn, list[i].first_sn)}
    IN  IF stops = {} THEN Len(list) + 1
        ELSE CHOOSE i \in stops : \A j \in stops : i <= j

Result(f, type) == [fl |-> f, type |-> type]

CountUp(f) == [f EXCEPT !.elem_count = (@ + 1) % CountMod]

\* Mutant: it does not tell the user to pull.
InsertHeadNeverFirst(f, sn, e) ==
    IF f.list # <<>> /\ SnLe(f.list[1].first_sn, sn) THEN Result(f, "DUP")
    ELSE Result([f EXCEPT !.head_sn = Wrap(@ + 1)], "FAST")

\* ucs_frag_list_insert_head(): sn follows head_sn.
InsertHead(f, sn, e) ==
    IF f.list # <<>> /\ SnLe(f.list[1].first_sn, sn) THEN
        Result(f, "DUP")
    ELSE
        LET g == [f EXCEPT !.head_sn = Wrap(@ + 1)] IN
        IF f.ready_list # <<>> THEN
            Result([g EXCEPT !.ready_list = Append(@, e)], "READY")
        ELSE IF f.list # <<>> /\ SnEq(f.list[1].first_sn, sn + 1) THEN
            Result(g, "FIRST")
        ELSE
            Result(g, "FAST")

\* The tail of ucs_frag_list_insert_slow(): sn is ahead of head_sn + 1 and the
\* list takes holes.
InsertAhead(f, sn, e) ==
    LET i == SearchStop(f.list, sn)
        h == f.list[i]
    IN  IF i > Len(f.list) THEN
            Result([CountUp(f) EXCEPT !.list = Append(@, NewRun(sn, e)),
                                      !.list_count = @ + 1], "SLOW")
        ELSE IF ~SnLt(sn, h.first_sn) /\ SnLe(sn, h.last_sn) THEN
            Result(f, "DUP")
        ELSE IF SnEq(sn + 1, h.first_sn) THEN
            Result([CountUp(f) EXCEPT !.list[i] = ReplaceHead(h, e)], "SLOW")
        ELSE IF SnEq(h.last_sn + 1, sn) THEN
            IF MergesWithNext(f.list, i, sn) THEN
                Result([CountUp(f) EXCEPT
                          !.list = RemoveAt([@ EXCEPT ![i] =
                              MergeHeads(AddTail(h, e), f.list[i + 1])], i + 1),
                          !.list_count = @ - 1], "SLOW")
            ELSE
                Result([CountUp(f) EXCEPT !.list[i] = AddTail(h, e)], "SLOW")
        ELSE
            Result([CountUp(f) EXCEPT !.list = InsertAt(@, i, NewRun(sn, e)),
                                      !.list_count = @ + 1], "SLOW")

\* ucs_frag_list_insert_slow()
InsertSlow(f, sn, e) ==
    IF SnEq(sn, f.head_sn + 1) THEN InsertHead(f, sn, e)
    ELSE IF SnLe(sn, f.head_sn) THEN Result(f, "DUP")
    ELSE IF MaxHoles = 0 THEN Result(f, "FAIL")
    ELSE InsertAhead(f, sn, e)

\* ucs_frag_list_insert(), with its fast path for an empty list.
FragListInsert(f, sn, e) ==
    IF SnEq(sn, f.head_sn + 1) /\ f.elem_count = 0
    THEN Result([f EXCEPT !.head_sn = sn], "FAST")
    ELSE InsertSlow(f, sn, e)

-----------------------------------------------------------------------------
(* ucs_frag_list_pull(): the element it returns (a sequence, empty for     *)
(* NULL) and the list it leaves.                                           *)

CountDown(f) == [f EXCEPT !.elem_count = (@ - 1) % CountMod]

Pulled(f, elems) == [fl |-> f, elems |-> elems]

\* Mutant: the hole in front of the first run is not looked at.
PullSlowOverHole(f) ==
    LET h == Head(f.list) IN
    Pulled([CountDown(f) EXCEPT !.head_sn    = h.last_sn,
                                !.list       = Tail(@),
                                !.list_count = @ - 1,
                                !.ready_list = @ \o Tail(h.elems)],
           <<Head(h.elems)>>)

\* ucs_frag_list_pull_slow()
PullSlow(f) ==
    LET h == Head(f.list) IN
    IF ~SnEq(h.first_sn, f.head_sn + 1) THEN Pulled(f, <<>>)
    ELSE Pulled([CountDown(f) EXCEPT !.head_sn    = h.last_sn,
                                     !.list       = Tail(@),
                                     !.list_count = @ - 1,
                                     !.ready_list = @ \o Tail(h.elems)],
                <<Head(h.elems)>>)

\* ucs_frag_list_pull()
FragListPull(f) ==
    IF f.ready_list # <<>> THEN
        Pulled([CountDown(f) EXCEPT !.ready_list = Tail(@)], <<Head(f.ready_list)>>)
    ELSE IF f.list # <<>> THEN PullSlow(f)
    ELSE Pulled(f, <<>>)

-----------------------------------------------------------------------------
(* The user: it inserts what the network brings and consumes an element    *)
(* that is in order at once (FAST, FIRST), as the receive path of the UD   *)
(* transport does.                                                         *)

\* The unwrapped value of head_sn.
UnwrappedHead == InitialSn + Len(out) + Len(fl.ready_list)

\* ucs_frag_list_init()
Init ==
    /\ fl = [head_sn |-> Wrap(InitialSn), list |-> <<>>, ready_list |-> <<>>,
             elem_count |-> 0, list_count |-> 0]
    /\ out = <<>>
    /\ must_pull = FALSE

InsertElem(n) ==
    /\ ~must_pull
    /\ n \in (UnwrappedHead - Behind) .. (UnwrappedHead + Ahead)
    /\ LET r == FragListInsert(fl, Wrap(n), n) IN
       /\ fl' = r.fl
       /\ out' = IF r.type \in {"FAST", "FIRST"} THEN Append(out, n) ELSE out
       /\ must_pull' = (PullAll /\ r.type = "FIRST")

PullElem ==
    /\ PullAll => must_pull
    /\ LET r == FragListPull(fl) IN
       /\ fl' = r.fl
       /\ out' = out \o r.elems
       /\ must_pull' = (must_pull /\ r.elems # <<>>)

Next == PullElem \/ \E n \in Sns : InsertElem(n)

Spec == Init /\ [][Next]_vars

-----------------------------------------------------------------------------
\* All elements of all runs, in list order.
Held == FlattenSeq([i \in 1 .. Len(fl.list) |-> fl.list[i].elems])

TypeOK ==
    /\ fl.head_sn \in 0 .. SnMod - 1
    /\ fl.elem_count \in 0 .. CountMod - 1
    /\ fl.list_count \in 0 .. CountMod - 1
    /\ \A i \in 1 .. Len(fl.list) :
          /\ fl.list[i].first_sn \in 0 .. SnMod - 1
          /\ fl.list[i].last_sn \in 0 .. SnMod - 1
          /\ fl.list[i].elems \in Seq(Sns)
    /\ fl.ready_list \in Seq(Sns)
    /\ out \in Seq(Sns)
    /\ must_pull \in BOOLEAN

\* "removed from the head (dequeued) in strict serial number order"
\* (frag_list.h): the user is handed consecutive elements, without a gap or a repeat,
\* whatever the order of arrival and however often the counter has wrapped.
InSerialOrder == \A i \in 1 .. Len(out) : out[i] = InitialSn + i

\* An element that was accepted is in exactly one place: with the user, on the
\* ready list or in one run.  (The chaining of replace_head, merge_heads and
\* pull_slow neither loses nor duplicates an element.)
HeldOnce == IsInjective(out \o fl.ready_list \o Held)

\* The list is what frag_list.h draws, "list1-[hole]->list2", and what the asserts
\* of ucs_frag_list_dump() count: every run holds consecutive elements from its
\* first_sn to its last_sn, the runs lie ahead of head_sn in increasing order with
\* a hole between them, and the two counters are the numbers of elements and runs.
RunsExact ==
    /\ \A i \in 1 .. Len(fl.list) :
          LET r == fl.list[i] IN
          /\ Wrap(r.elems[1]) = r.first_sn
          /\ Wrap(r.elems[Len(r.elems)]) = r.last_sn
          /\ \A k \in 2 .. Len(r.elems) : r.elems[k] = r.elems[k - 1] + 1
          /\ i > 1 => ~SnEq(fl.list[i - 1].last_sn + 1, r.first_sn)
    /\ \A k \in 2 .. Len(Held) : Held[k - 1] < Held[k]
    /\ Held # <<>> => UnwrappedHead < Held[1]
    /\ fl.elem_count = Len(fl.ready_list) + Len(Held)
    /\ fl.list_count = Len(fl.list)

\* What is in order is handed over: a user that keeps pulling after FIRST is
\* never left with an element it could have had.
NothingLeftBehind ==
    (PullAll /\ ~must_pull) =>
        /\ fl.ready_list = <<>>
        /\ fl.list # <<>> => ~SnEq(fl.list[1].first_sn, fl.head_sn + 1)
=============================================================================
