------------------------------- MODULE Rcache -------------------------------
(***************************************************************************)
(* The registration cache (ucs/memory/rcache.c): threads get and put       *)
(* registrations of memory, while other threads unmap memory and the async *)
(* thread cleans up.                                                       *)
(*                                                                         *)
(* Memory is a row of pages.  gen[p] counts how often page p was unmapped  *)
(* (and mapped again); a registration remembers the counts it was made     *)
(* with, so one of unmapped memory can be told from a good one.  A step is *)
(* what happens under one lock, or between two operations on the reference *)
(* count of a region, which puts change without a lock: the loops over the *)
(* regions of a range take one region per step.                            *)
(***************************************************************************)
EXTENDS Integers, Sequences, FiniteSets

CONSTANTS
    Thread,         \* application threads
    Async,          \* the async thread, which runs the cleanup handler
    Pages,          \* number of pages
    MaxRegions,     \* params.max_regions
    MaxUnreleased,  \* params.max_unreleased, in pages
    Loads,          \* bounds: gets, unmaps (with invalidations and forks) and
                    \* failing registrations, one of which a behaviour gets
    NoRegion        \* a thread holds nothing

Threads == Thread \cup {Async}
NoThread == NoRegion

ASSUME RcacheAssumption ==
    /\ IsFiniteSet(Thread) /\ Async \notin Thread
    /\ NoRegion \notin Threads /\ NoRegion \notin Nat
    /\ Pages \in Nat /\ Pages > 0
    /\ Loads \subseteq [get : Nat, unmap : Nat, fail : Nat]

VARIABLES
    region,      \* every region created so far, also the freed ones
    inv_q,       \* page ranges unmapped while the page table was locked
    gc_list,     \* regions to be destroyed
    lru,         \* regions that may be evicted, oldest first
    unreleased,  \* unreleased_size
    pipe,        \* the async thread was asked to clean up
    writer,      \* thread with pgt_lock for writing, or none
    readers,     \* threads with pgt_lock for reading
    gen,         \* times each page was unmapped
    \* of each thread: where it is, the region it has, the range it gets or unmaps,
    \* none of which was unmapped since the get (fresh); the range it looks for
    \* in the page table or merges (start and end), and whether it merged
    at, held, asked, fresh, span, merged,
    left         \* gets, unmaps and failures the bounds still allow

cache  == <<region, gc_list, lru, unreleased>>
locks  == <<writer, readers>>
locals == <<at, held, asked, fresh, span, merged>>
vars   == <<cache, inv_q, pipe, locks, gen, locals, left>>

Page == 1 .. Pages
Ranges == {g \in Page \X Page : g[1] <= g[2]}
NoRange == <<1, 1>>
Size(g) == g[2] - g[1] + 1

\* Mutant: the last page of a range does not count.
OverlapShort(g, h) == g[1] < h[2] /\ h[1] < g[2]

\* ucs_rcache_find_regions: g and h share a page.
Overlap(g, h) == g[1] <= h[2] /\ h[1] <= g[2]

Covers(g, h) == g[1] <= h[1] /\ h[2] <= g[2]
PagesOf(g) == g[1] .. g[2]

Init ==
    /\ region = <<>> /\ inv_q = <<>> /\ gc_list = <<>> /\ lru = <<>>
    /\ unreleased = 0 /\ pipe = FALSE
    /\ writer = NoThread /\ readers = {}
    /\ gen = [p \in Page |-> 0]
    /\ at = [t \in Threads |-> "idle"]
    /\ held = [t \in Threads |-> NoRegion]
    /\ asked = [t \in Threads |-> NoRange]
    /\ fresh = [t \in Threads |-> FALSE]
    /\ span = [t \in Threads |-> NoRange]
    /\ merged = [t \in Threads |-> FALSE]
    /\ left \in Loads

Unlocked == writer = NoThread /\ readers = {}
Live(r) == ~region[r].freed
InPgt == {r \in DOMAIN region : region[r].pgt}
NumRegions == Cardinality({r \in DOMAIN region : Live(r)})
Goto(t, place) == at' = [at EXCEPT ![t] = place]

\* The regions of the page table that share a page with g, and the first of them: the
\* page table is searched by rising address.
Found(g) == {r \in InPgt : Overlap(region[r].range, g)}
FirstOf(S) == {r \in S : \A s \in S : region[r].range[1] <= region[s].range[1]}

-----------------------------------------------------------------------------
\* Region r is on list q.
On(q, r) == \E i \in 1 .. Len(q) : q[i] = r

\* ucs_rcache_region_lru_remove: list q without region r.
Without(q, r) ==
    IF On(q, r)
    THEN LET n == CHOOSE i \in 1 .. Len(q) : q[i] = r
         IN  [i \in 1 .. Len(q) - 1 |-> IF i < n THEN q[i] ELSE q[i + 1]]
    ELSE q

\* ucs_mem_region_destroy_internal, without or after the unlocked deregistration.
Destroy(r) ==
    /\ region' = [region EXCEPT ![r].freed = TRUE, ![r].waiting = FALSE]
    /\ lru' = Without(lru, r)

\* Mutant: the region is still marked as being in the page table.
InvalidateUnmarked(r, toGc, waiting) ==
    /\ region[r].ref # 1
    /\ region' = [region EXCEPT ![r].ref = @ - 1, ![r].waiting = waiting]
    /\ UNCHANGED <<gc_list, lru, unreleased>>

\* Mutant: a region put on the garbage list is destroyed as well.
PutFallsThrough(r, toGc, waiting) ==
    IF region[r].pgt /\ region[r].ref = 1
    THEN /\ region' = [region EXCEPT ![r].pgt = FALSE, ![r].ref = 0, ![r].freed = TRUE,
                                     ![r].waiting = FALSE]
         /\ lru' = Without(lru, r)
         /\ gc_list' = IF toGc THEN Append(gc_list, r) ELSE gc_list
         /\ unreleased' = IF toGc THEN unreleased + Size(region[r].range) ELSE unreleased
    ELSE /\ region' = [region EXCEPT ![r].pgt = FALSE, ![r].waiting = waiting,
                                     ![r].ref = IF region[r].pgt THEN @ - 1 ELSE @]
         /\ UNCHANGED <<gc_list, lru, unreleased>>

\* ucs_rcache_region_invalidate_internal, with ucs_rcache_region_put_internal for the
\* reference of the page table.  The caller has the lock for writing; in a memory event
\* the region is put aside (toGc) instead of being destroyed.
InvalidateRegion(r, toGc, waiting) ==
    \/ /\ ~region[r].pgt
       /\ region' = [region EXCEPT ![r].waiting = waiting]
       /\ UNCHANGED <<gc_list, lru, unreleased>>
    \/ /\ region[r].pgt /\ region[r].ref # 1
       /\ region' = [region EXCEPT ![r].pgt = FALSE, ![r].ref = @ - 1, ![r].waiting = waiting]
       /\ UNCHANGED <<gc_list, lru, unreleased>>
    \/ /\ region[r].pgt /\ region[r].ref = 1 /\ toGc
       /\ region' = [region EXCEPT ![r].pgt = FALSE, ![r].ref = 0, ![r].waiting = waiting]
       /\ gc_list' = Append(gc_list, r)
       /\ unreleased' = unreleased + Size(region[r].range)
       /\ UNCHANGED lru
    \/ /\ region[r].pgt /\ region[r].ref = 1 /\ ~toGc
       /\ region' = [region EXCEPT ![r].pgt = FALSE, ![r].ref = 0, ![r].freed = TRUE,
                                   ![r].waiting = FALSE]
       /\ lru' = Without(lru, r)
       /\ UNCHANGED <<gc_list, unreleased>>

-----------------------------------------------------------------------------
\* A user gets no memory that is being unmapped, and unmaps none that is being
\* registered.
InUse(kinds, g) == \E t \in Thread : at[t] \in kinds /\ Overlap(asked[t], g)
Getting == {"get", "fast", "lock", "inv", "inv_scan", "gc", "dereg", "overlap", "register",
            "evict", "evicting"}
Unmapping == {"unmap", "unmap_scan", "unmap_inv", "munmap"}

StartGet(t, g) ==
    /\ at[t] = "idle" /\ held[t] = NoRegion
    /\ left.get > 0 /\ ~InUse(Unmapping, g)
    /\ left' = [left EXCEPT !.get = @ - 1]
    /\ Goto(t, "get")
    /\ asked' = [asked EXCEPT ![t] = g]
    /\ fresh' = [fresh EXCEPT ![t] = TRUE]
    /\ UNCHANGED <<cache, inv_q, pipe, locks, gen, held, span, merged>>

\* Mutant: the invalidation queue is not looked at.
GetIgnoresQueue(t) ==
    /\ at[t] = "get" /\ writer = NoThread
    /\ LET found == {r \in InPgt : region[r].reg /\ Covers(region[r].range, asked[t])}
       IN  \/ \E r \in found :
                 /\ region' = [region EXCEPT ![r].ref = @ + 1]
                 /\ held' = [held EXCEPT ![t] = r]
                 /\ Goto(t, "fast")
                 /\ readers' = readers \cup {t}
           \/ /\ found = {}
              /\ Goto(t, "lock")
              /\ UNCHANGED <<region, held, readers>>
    /\ UNCHANGED <<inv_q, gc_list, lru, unreleased, pipe, writer, gen, asked, fresh, span,
                   merged, left>>

\* ucs_rcache_get with the lock for reading: a region found in the page table is held.
GetFast(t) ==
    /\ at[t] = "get" /\ writer = NoThread
    /\ LET found == {r \in InPgt : region[r].reg /\ Covers(region[r].range, asked[t])}
       IN  \/ \E r \in found :
                 /\ inv_q = <<>>
                 /\ region' = [region EXCEPT ![r].ref = @ + 1]
                 /\ held' = [held EXCEPT ![t] = r]
                 /\ Goto(t, "fast")
                 /\ readers' = readers \cup {t}
           \/ /\ inv_q # <<>> \/ found = {}
              /\ Goto(t, "lock")
              /\ UNCHANGED <<region, held, readers>>
    /\ UNCHANGED <<inv_q, gc_list, lru, unreleased, pipe, writer, gen, asked, fresh, span,
                   merged, left>>

\* ucs_rcache_region_lru_get, and the lock is released.
LruGet(t) ==
    /\ at[t] = "fast"
    /\ lru' = Without(lru, held[t])
    /\ readers' = readers \ {t}
    /\ Goto(t, "idle")
    /\ UNCHANGED <<region, inv_q, gc_list, unreleased, pipe, writer, gen, held, asked, fresh,
                   span, merged, left>>

\* ucs_rcache_create_region takes the lock for writing; so does ucs_rcache_clean.
Lock(t) ==
    /\ at[t] = "lock" /\ Unlocked
    /\ writer' = t
    /\ Goto(t, "inv")
    /\ UNCHANGED <<cache, inv_q, pipe, readers, gen, held, asked, fresh, span, merged, left>>

\* Mutant: the unmap event keeps the lock.
CheckInvQueueKeepsLock(t) ==
    /\ at[t] \in {"inv", "unmap_inv"}
    /\ \/ /\ inv_q # <<>>
          /\ inv_q' = Tail(inv_q)
          /\ unreleased' = unreleased - Size(Head(inv_q))
          /\ span' = [span EXCEPT ![t] = Head(inv_q)]
          /\ Goto(t, IF at[t] = "inv" THEN "inv_scan" ELSE "unmap_scan")
       \/ /\ inv_q = <<>>
          /\ Goto(t, IF at[t] = "inv" THEN "gc" ELSE "munmap")
          /\ UNCHANGED <<inv_q, unreleased, span>>
    /\ UNCHANGED <<region, gc_list, lru, pipe, locks, gen, held, asked, fresh, merged, left>>

\* ucs_rcache_check_inv_queue, one entry at a time.
CheckInvQueue(t) ==
    /\ at[t] \in {"inv", "unmap_inv"}
    /\ \/ /\ inv_q # <<>>
          /\ inv_q' = Tail(inv_q)
          /\ unreleased' = unreleased - Size(Head(inv_q))
          /\ span' = [span EXCEPT ![t] = Head(inv_q)]
          /\ Goto(t, IF at[t] = "inv" THEN "inv_scan" ELSE "unmap_scan")
          /\ UNCHANGED writer
       \/ /\ inv_q = <<>>
          /\ Goto(t, IF at[t] = "inv" THEN "gc" ELSE "munmap")
          /\ writer' = IF at[t] = "inv" THEN writer ELSE NoThread
          /\ UNCHANGED <<inv_q, unreleased, span>>
    /\ UNCHANGED <<region, gc_list, lru, pipe, readers, gen, held, asked, fresh, merged, left>>

\* ucs_rcache_invalidate_range, one region at a time, for an entry of the invalidation
\* queue, an unmap event (which puts the regions aside) or a fork.
InvalidateRange(t) ==
    /\ at[t] \in {"inv_scan", "unmap_scan", "fork_scan"}
    /\ \/ /\ \E r \in FirstOf(Found(span[t])) :
                InvalidateRegion(r, at[t] = "unmap_scan", region[r].waiting)
          /\ UNCHANGED <<at, span, writer>>
       \/ /\ Found(span[t]) = {}
          /\ Goto(t, CASE at[t] = "inv_scan" -> "inv"
                       [] at[t] = "unmap_scan" -> "unmap_inv"
                       [] at[t] = "fork_scan" -> "idle")
          /\ span' = [span EXCEPT ![t] = NoRange]
          /\ writer' = IF at[t] = "fork_scan" THEN NoThread ELSE writer
          /\ UNCHANGED cache
    /\ UNCHANGED <<inv_q, pipe, readers, gen, held, asked, fresh, merged, left>>

\* ucs_rcache_check_gc_list: the lock is dropped while a region is deregistered.
CheckGcList(t) ==
    /\ at[t] = "gc"
    /\ \/ /\ gc_list = <<>>
          /\ Goto(t, IF t = Async THEN "idle" ELSE "overlap")
          /\ writer' = IF t = Async THEN NoThread ELSE writer
          /\ span' = [span EXCEPT ![t] = asked[t]]
          /\ UNCHANGED <<cache, held>>
       \/ /\ gc_list # <<>>
          /\ gc_list' = Tail(gc_list)
          /\ unreleased' = unreleased - Size(region[Head(gc_list)].range)
          /\ UNCHANGED span
          /\ \/ /\ region[Head(gc_list)].reg
                /\ held' = [held EXCEPT ![t] = Head(gc_list)]
                /\ Goto(t, "dereg")
                /\ writer' = NoThread
                /\ UNCHANGED <<region, lru>>
             \/ /\ ~region[Head(gc_list)].reg
                /\ Destroy(Head(gc_list))
                /\ UNCHANGED <<at, held, writer>>
    /\ UNCHANGED <<inv_q, pipe, readers, gen, asked, fresh, merged, left>>

\* The deregistration is over, the lock is taken again.
DeregDone(t) ==
    /\ at[t] = "dereg" /\ Unlocked
    /\ Destroy(held[t])
    /\ Goto(t, "gc")
    /\ held' = [held EXCEPT ![t] = NoRegion]
    /\ writer' = t
    /\ UNCHANGED <<inv_q, gc_list, unreleased, pipe, readers, gen, asked, fresh, span, merged,
                   left>>

\* start = min(start, region start), end = max(end, region end)
Merge(g, h) == <<IF h[1] < g[1] THEN h[1] ELSE g[1], IF h[2] > g[2] THEN h[2] ELSE g[2]>>

\* ucs_rcache_check_overlap: a region that covers the range is held, any other that
\* overlaps it is invalidated and merged, one at a time; then a region is created.
CheckOverlap(t) ==
    /\ at[t] = "overlap"
    /\ \/ \E r \in FirstOf(Found(asked[t])) :
             /\ region[r].reg /\ Covers(region[r].range, span[t])
             /\ region' = [region EXCEPT ![r].ref = @ + 1]
             /\ held' = [held EXCEPT ![t] = r]
             /\ Goto(t, "idle")
             /\ writer' = NoThread
             /\ span' = [span EXCEPT ![t] = NoRange]
             /\ merged' = [merged EXCEPT ![t] = FALSE]
             /\ UNCHANGED <<gc_list, lru, unreleased>>
       \/ \E r \in FirstOf(Found(asked[t])) :
             /\ ~(region[r].reg /\ Covers(region[r].range, span[t]))
             /\ InvalidateRegion(r, FALSE, region[r].waiting)
             /\ span' = [span EXCEPT ![t] = Merge(span[t], region[r].range)]
             /\ merged' = [merged EXCEPT ![t] = TRUE]
             /\ UNCHANGED <<at, held, writer>>
       \/ /\ Found(asked[t]) = {}
          /\ region' = Append(region, [range |-> span[t], ref |-> 1, pgt |-> TRUE, reg |-> FALSE,
                                       freed |-> FALSE, waiting |-> FALSE, gens |-> gen])
          /\ held' = [held EXCEPT ![t] = Len(region) + 1]
          /\ Goto(t, "register")
          /\ span' = [span EXCEPT ![t] = NoRange]
          /\ UNCHANGED <<gc_list, lru, unreleased, writer, merged>>
    /\ UNCHANGED <<inv_q, pipe, readers, gen, asked, fresh, left>>

\* mem_reg: a merged region that fails is tried again without the merge, any
\* other stays in the page table to show that it failed.
MemReg(t, ok) ==
    /\ at[t] = "register"
    /\ \/ /\ ok
          /\ region' = [region EXCEPT ![held[t]].reg = TRUE, ![held[t]].ref = 2,
                                      ![held[t]].gens = gen]
          /\ Goto(t, "evict")
          /\ UNCHANGED <<gc_list, lru, unreleased, held, asked, fresh, writer, left>>
       \/ /\ ~ok /\ left.fail > 0
          /\ left' = [left EXCEPT !.fail = @ - 1]
          /\ held' = [held EXCEPT ![t] = NoRegion]
          /\ \/ /\ merged[t]
                /\ InvalidateRegion(held[t], FALSE, region[held[t]].waiting)
                /\ Goto(t, "inv")
                /\ UNCHANGED <<asked, fresh, writer>>
             \/ /\ ~merged[t]
                /\ Goto(t, "idle")
                /\ asked' = [asked EXCEPT ![t] = NoRange]
                /\ fresh' = [fresh EXCEPT ![t] = FALSE]
                /\ writer' = NoThread
                /\ UNCHANGED cache
    /\ merged' = [merged EXCEPT ![t] = FALSE]
    /\ UNCHANGED <<inv_q, pipe, readers, gen, span>>

\* Mutant: regions in use are evicted too.
LruEvictUsed(t) ==
    /\ at[t] = "evict"
    /\ IF lru # <<>> /\ NumRegions > MaxRegions
       THEN Goto(t, "evicting") /\ UNCHANGED writer
       ELSE Goto(t, "idle") /\ writer' = NoThread
    /\ UNCHANGED <<cache, inv_q, pipe, readers, gen, held, asked, fresh, span, merged, left>>

\* ucs_rcache_lru_evict: the head of the LRU list is dropped from it if it is
\* in use, else evicted (when the lock of the list was released).
LruEvict(t) ==
    /\ at[t] = "evict"
    /\ \/ /\ lru # <<>> /\ NumRegions > MaxRegions
          /\ region[Head(lru)].pgt /\ region[Head(lru)].ref = 1
          /\ Goto(t, "evicting")
          /\ UNCHANGED <<lru, writer>>
       \/ /\ lru # <<>> /\ NumRegions > MaxRegions
          /\ ~(region[Head(lru)].pgt /\ region[Head(lru)].ref = 1)
          /\ lru' = Tail(lru)
          /\ UNCHANGED <<at, writer>>
       \/ /\ lru = <<>> \/ NumRegions <= MaxRegions
          /\ Goto(t, "idle")
          /\ writer' = NoThread
          /\ UNCHANGED lru
    /\ UNCHANGED <<region, inv_q, gc_list, unreleased, pipe, readers, gen, held, asked, fresh,
                   span, merged, left>>

\* The head is still the region that was looked at: only a thread with the lock of
\* the page table takes regions off the list.
Evict(t) ==
    /\ at[t] = "evicting"
    /\ InvalidateRegion(Head(lru), FALSE, region[Head(lru)].waiting)
    /\ Goto(t, "evict")
    /\ UNCHANGED <<inv_q, pipe, locks, gen, held, asked, fresh, span, merged, left>>

-----------------------------------------------------------------------------
\* The thread is done with its region.
Return(t) ==
    /\ Goto(t, "idle")
    /\ held' = [held EXCEPT ![t] = NoRegion]
    /\ asked' = [asked EXCEPT ![t] = NoRange]
    /\ fresh' = [fresh EXCEPT ![t] = FALSE]

\* ucs_rcache_region_put: first the LRU list, then the reference.
StartPut(t) ==
    /\ at[t] = "idle" /\ held[t] # NoRegion
    /\ lru' = IF On(lru, held[t]) THEN lru ELSE Append(lru, held[t])
    /\ Goto(t, "put")
    /\ UNCHANGED <<region, inv_q, gc_list, unreleased, pipe, locks, gen, held, asked, fresh,
                   span, merged, left>>

\* ucs_rcache_region_put_internal with TAKE_PGLOCK.
Put(t) ==
    /\ at[t] = "put"
    /\ region' = [region EXCEPT ![held[t]].ref = @ - 1]
    /\ \/ /\ region[held[t]].ref = 1
          /\ Goto(t, "destroy")
          /\ UNCHANGED <<held, asked, fresh>>
       \/ /\ region[held[t]].ref # 1
          /\ Return(t)
    /\ UNCHANGED <<inv_q, gc_list, lru, unreleased, pipe, locks, gen, span, merged, left>>

\* The lock is taken and dropped for the deregistration.
PutLock(t) ==
    /\ at[t] = "destroy" /\ Unlocked
    /\ Goto(t, "put_dereg")
    /\ UNCHANGED <<cache, inv_q, pipe, locks, gen, held, asked, fresh, span, merged, left>>

PutDone(t) ==
    /\ at[t] = "put_dereg" /\ Unlocked
    /\ Destroy(held[t])
    /\ Return(t)
    /\ UNCHANGED <<inv_q, gc_list, unreleased, pipe, locks, gen, span, merged, left>>

\* Mutant: the region stays in the page table.
InvalidateKeeps(t) ==
    /\ at[t] = "idle" /\ held[t] # NoRegion /\ Unlocked
    /\ left.unmap > 0 /\ left' = [left EXCEPT !.unmap = @ - 1]
    /\ region' = [region EXCEPT ![held[t]].waiting = TRUE]
    /\ UNCHANGED <<inv_q, gc_list, lru, unreleased, pipe, locks, gen, locals>>

\* ucs_rcache_region_invalidate of a region the thread has.
Invalidate(t) ==
    /\ at[t] = "idle" /\ held[t] # NoRegion /\ Unlocked
    /\ left.unmap > 0 /\ left' = [left EXCEPT !.unmap = @ - 1]
    /\ InvalidateRegion(held[t], FALSE, TRUE)
    /\ UNCHANGED <<inv_q, pipe, locks, gen, locals>>

\* ucs_rcache_before_fork.
BeforeFork(t) ==
    /\ at[t] = "idle" /\ Unlocked
    /\ left.unmap > 0 /\ left' = [left EXCEPT !.unmap = @ - 1]
    /\ writer' = t
    /\ span' = [span EXCEPT ![t] = <<1, Pages>>]
    /\ Goto(t, "fork_scan")
    /\ UNCHANGED <<cache, inv_q, pipe, readers, gen, held, asked, fresh, merged>>

-----------------------------------------------------------------------------
\* A thread unmaps memory; the memory hook calls ucs_rcache_unmapped_callback.
\* Whoever has a region of it cannot count on it any longer.
StartUnmap(t, g) ==
    /\ at[t] = "idle" /\ held[t] = NoRegion
    /\ left.unmap > 0 /\ left' = [left EXCEPT !.unmap = @ - 1]
    /\ ~InUse(Getting \cup Unmapping, g)
    /\ pipe' = (pipe \/ unreleased > MaxUnreleased)
    /\ Goto(t, "unmap")
    /\ asked' = [asked EXCEPT ![t] = g]
    /\ fresh' = [u \in Threads |-> u # t /\ fresh[u] /\ ~Overlap(asked[u], g)]
    /\ UNCHANGED <<cache, inv_q, locks, gen, held, span, merged>>

\* With the lock the regions go to the garbage list, without it the range is queued.
UnmappedCallback(t) ==
    /\ at[t] = "unmap"
    /\ \/ /\ Unlocked
          /\ writer' = t
          /\ span' = [span EXCEPT ![t] = asked[t]]
          /\ Goto(t, "unmap_scan")
          /\ UNCHANGED <<inv_q, unreleased>>
       \/ /\ ~Unlocked
          /\ inv_q' = Append(inv_q, asked[t])
          /\ unreleased' = unreleased + Size(asked[t])
          /\ Goto(t, "munmap")
          /\ UNCHANGED <<writer, span>>
    /\ UNCHANGED <<region, gc_list, lru, pipe, readers, gen, held, asked, fresh, merged, left>>

\* The memory goes after the hook.
Munmap(t) ==
    /\ at[t] = "munmap"
    /\ gen' = [p \in Page |-> IF p \in PagesOf(asked[t]) THEN gen[p] + 1 ELSE gen[p]]
    /\ Return(t)
    /\ UNCHANGED <<cache, inv_q, pipe, locks, span, merged, left>>

\* ucs_rcache_invalidate_handler.
InvalidateHandler ==
    /\ pipe /\ at[Async] = "idle"
    /\ pipe' = FALSE
    /\ Goto(Async, "lock")
    /\ UNCHANGED <<cache, inv_q, locks, gen, held, asked, fresh, span, merged, left>>

-----------------------------------------------------------------------------
Proceed(t) ==
    \/ GetFast(t) \/ LruGet(t) \/ Lock(t) \/ CheckInvQueue(t) \/ InvalidateRange(t)
    \/ CheckGcList(t) \/ DeregDone(t) \/ CheckOverlap(t) \/ LruEvict(t) \/ Evict(t)
    \/ Put(t) \/ PutLock(t) \/ PutDone(t) \/ UnmappedCallback(t) \/ Munmap(t)
    \/ \E ok \in BOOLEAN : MemReg(t, ok)

Next ==
    \/ \E t \in Threads : Proceed(t)
    \/ \E t \in Thread, g \in Ranges : StartGet(t, g) \/ StartUnmap(t, g)
    \/ \E t \in Thread : StartPut(t) \/ Invalidate(t) \/ BeforeFork(t)
    \/ InvalidateHandler

Spec == Init /\ [][Next]_vars

\* Threads run, get the locks they wait for, and put what they hold in the end.
Fairness ==
    /\ \A t \in Threads : SF_vars(Proceed(t))
    /\ \A t \in Thread : WF_vars(StartPut(t))

FairSpec == Spec /\ Fairness

-----------------------------------------------------------------------------
Region == [range : Ranges, ref : Nat, pgt : BOOLEAN, reg : BOOLEAN, freed : BOOLEAN,
           waiting : BOOLEAN, gens : [Page -> Nat]]
Places == Getting \cup Unmapping \cup {"idle", "fork_scan", "put", "destroy", "put_dereg"}

\* Types of the variables; the lock of the page table has one writer or readers.
TypeOK ==
    /\ region \in Seq(Region)
    /\ inv_q \in Seq(Ranges) /\ gc_list \in Seq(DOMAIN region) /\ lru \in Seq(DOMAIN region)
    /\ unreleased \in Nat /\ pipe \in BOOLEAN
    /\ writer \in Threads \cup {NoThread} /\ readers \subseteq Threads
    /\ writer # NoThread => readers = {}
    /\ gen \in [Page -> Nat]
    /\ at \in [Threads -> Places] /\ held \in [Threads -> DOMAIN region \cup {NoRegion}]
    /\ asked \in [Threads -> Ranges] /\ fresh \in [Threads -> BOOLEAN]
    /\ span \in [Threads -> Ranges] /\ merged \in [Threads -> BOOLEAN]

\* Threads with a reference to r, and threads that destroy it.
Using == {"fast", "idle", "fork_scan", "put", "evict", "evicting"}
Destroying == {"dereg", "destroy", "put_dereg"}
Holders(r) == {t \in Threads : held[t] = r /\ at[t] \in Using}
Destroyers(r) == {t \in Threads : held[t] = r /\ at[t] \in Destroying}

\* The reference count, changed without a lock by gets and puts and under the
\* lock by invalidations, is always the number of users plus one for the page table.
RefsExact ==
    \A r \in DOMAIN region :
        Live(r) => region[r].ref = Cardinality(Holders(r)) + (IF region[r].pgt THEN 1 ELSE 0)

\* The pages of a sequence of ranges.
TotalSize(q) ==
    LET upto[i \in 0 .. Len(q)] == IF i = 0 THEN 0 ELSE upto[i - 1] + Size(q[i])
    IN  upto[Len(q)]

\* The reference counts are exact, and unreleased_size is the size of what waits on the
\* two queues that different threads fill and empty, so its subtraction never underflows.
CountsExact ==
    /\ RefsExact
    /\ unreleased = TotalSize(inv_q)
                    + TotalSize([i \in DOMAIN gc_list |-> region[gc_list[i]].range])

\* A region that nobody references is destroyed by exactly one path: it waits
\* once on the garbage list or one thread is destroying it, whoever dropped the
\* last reference (put, unmap event, merge, eviction, fork).  A region chosen for
\* eviction is destroyed by the eviction (the assertion on MUST_DESTROY in
\* put_internal), though the LRU lock was released meanwhile.
OneDestroyer ==
    /\ \A r \in DOMAIN region :
          LET queued == Cardinality({i \in DOMAIN gc_list : gc_list[i] = r})
          IN  queued + Cardinality(Destroyers(r)) =
                  IF Live(r) /\ region[r].ref = 0 THEN 1 ELSE 0
    /\ \A t \in Threads :
          at[t] = "evicting" => region[Head(lru)].pgt /\ region[Head(lru)].ref = 1

\* A region is freed when nothing leads to it any more: not the page table, the
\* LRU list, the garbage list, nor a thread (which would use freed memory).
NoDanglingRegion ==
    \A r \in DOMAIN region :
        ~Live(r) => /\ ~region[r].pgt /\ ~On(lru, r) /\ ~On(gc_list, r)
                    /\ \A t \in Threads : held[t] # r

\* What ucs_rcache_get returned is a registration of the memory as it is now:
\* unless the memory was unmapped since the get, no page of it was unmapped
\* after it was registered, also when the unmap could only be queued.
FreshRegistration ==
    \A t \in Thread :
        at[t] = "idle" /\ held[t] # NoRegion /\ fresh[t] =>
            LET r == region[held[t]]
            IN  /\ r.reg /\ Covers(r.range, asked[t])
                /\ \A p \in PagesOf(asked[t]) : r.gens[p] = gen[p]

\* Regions of the page table never overlap ("we have only one page table, since it
\* does not allow overlap"), so the insertion of a new region cannot fail.
PgtDisjoint ==
    \A r, s \in InPgt : r # s => PagesOf(region[r].range) \cap PagesOf(region[s].range) = {}

\* Every operation of the cache returns: no thread waits for ever for the lock
\* that others take, drop and retake, and retries come to an end.
OperationsReturn == \A t \in Threads : at[t] # "idle" ~> at[t] = "idle"

\* The completion given to ucs_rcache_region_invalidate is called in the end, once
\* the users of the region have put it.
InvalidationCompletes ==
    \A l \in Loads : \A r \in 1 .. l.get + l.fail :
        (r \in DOMAIN region /\ region[r].waiting) ~> (r \in DOMAIN region /\ ~region[r].waiting)
=============================================================================
