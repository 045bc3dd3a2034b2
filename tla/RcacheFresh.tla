----------------------------- MODULE RcacheFresh ------------------------------
(***************************************************************************)
(* The registrations of Rcache, for any number of threads, pages, regions  *)
(* and operations: those in the page table share no page, and what a get   *)
(* returned registers the memory as it is mapped now.                      *)
(***************************************************************************)
EXTENDS RcacheProofs

-----------------------------------------------------------------------------
(* The inductive invariant. *)

\* Regions of the page table are apart.
Disjoint ==
    \A r, s \in 1 .. Len(region) :
        region[r].pgt /\ region[s].pgt /\ Overlap(region[r].range, region[s].range) => r = s

\* A thread that merges regions has a range that covers what was asked for, and what is
\* left to be merged shares a page with that; so does what it registers then.
SpanOf(t) ==
    /\ at[t] = "overlap" =>
          /\ Covers(span[t], asked[t])
          /\ \A r \in 1 .. Len(region) :
                region[r].pgt /\ Overlap(region[r].range, span[t]) => Overlap(region[r].range, asked[t])
    /\ at[t] = "register" => Covers(region[held[t]].range, asked[t])

\* The regions with page p will be invalidated: p is in the queue, or being looked for.
Pending(p) ==
    \/ \E i \in 1 .. Len(inv_q) : p \in PagesOf(inv_q[i])
    \/ \E t \in Threads : at[t] \in {"inv_scan", "unmap_scan"} /\ p \in PagesOf(span[t])

\* A registration in the page table is good but for pages that are pending.
StaleInv ==
    \A r \in 1 .. Len(region) : region[r].pgt /\ region[r].reg =>
        \A p \in PagesOf(region[r].range) : region[r].gens[p] # gen[p] => Pending(p)

\* What a thread unmaps, after its event, is pending wherever the page table has it, or
\* a thread is about to put it there.
Unmapped == {"unmap_scan", "unmap_inv", "munmap"}
GoneReg(u) ==
    at[u] \in Unmapped =>
        \A p \in PagesOf(asked[u]) : \A r \in 1 .. Len(region) :
            region[r].pgt /\ p \in PagesOf(region[r].range) => Pending(p)
GoneSpan(u, t) ==
    at[u] \in Unmapped /\ at[t] = "overlap" =>
        \A p \in PagesOf(asked[u]) : p \in PagesOf(span[t]) => Pending(p)

\* A thread has a registration that it may use for what it asked for.
Has(t) ==
    \/ at[t] \in {"fast", "evict", "evicting"}
    \/ at[t] \in {"idle", "fork_scan"} /\ held[t] # NoRegion /\ fresh[t]

\* Nobody unmaps what another thread gets or may use.
Apart(t, u) ==
    (at[t] \in Getting \/ Has(t)) /\ at[u] \in Unmapping => ~Overlap(asked[t], asked[u])

\* After the queue was worked off, no page a thread asks for is added to it.
QueueOf(t) ==
    at[t] \in {"gc", "dereg", "overlap"} =>
        \A i \in 1 .. Len(inv_q) : ~Overlap(inv_q[i], asked[t])

\* What a thread may use is a registration of the memory as it is.
GoodOf(t) ==
    Has(t) =>
        /\ Covers(region[held[t]].range, asked[t])
        /\ \A p \in PagesOf(asked[t]) : region[held[t]].gens[p] = gen[p]

FreshInv ==
    /\ Disjoint /\ StaleInv
    /\ \A t \in Threads : SpanOf(t) /\ GoneReg(t) /\ GoodOf(t)
    /\ \A t, u \in Threads : GoneSpan(t, u)
    /\ \A t \in Thread : QueueOf(t)
    /\ \A t, u \in Thread : Apart(t, u)

-----------------------------------------------------------------------------
(* Ranges. *)

\* Two ranges overlap iff they share a page, and a range covers its parts.
LEMMA RangePages ==
    ASSUME NEW g \in Ranges, NEW h \in Ranges
    PROVE  /\ g[1] \in Int /\ g[2] \in Int /\ g[1] <= g[2]
           /\ PagesOf(g) \subseteq Page
           /\ \A p \in PagesOf(g) : p \in PagesOf(h) => Overlap(g, h)
           /\ Overlap(g, h) => \E p \in PagesOf(g) : p \in PagesOf(h)
           /\ Covers(g, h) => PagesOf(h) \subseteq PagesOf(g)
           /\ Overlap(g, h) = Overlap(h, g) /\ Covers(g, g)
<1>1. /\ g[1] \in Int /\ g[2] \in Int /\ g[1] <= g[2] /\ 1 <= g[1] /\ g[2] <= Pages
      /\ h[1] \in Int /\ h[2] \in Int /\ h[1] <= h[2] /\ Pages \in Int
  BY RcacheAssumption DEF Ranges, Page
<1>2. PagesOf(g) \subseteq Page /\ \A p \in PagesOf(g) : p \in PagesOf(h) => Overlap(g, h)
  BY <1>1 DEF PagesOf, Page, Overlap
<1>3. ASSUME Overlap(g, h) PROVE \E p \in PagesOf(g) : p \in PagesOf(h)
  <2>1. CASE g[1] <= h[1]
    BY <1>1, <1>3, <2>1 DEF Overlap, PagesOf
  <2>2. CASE h[1] <= g[1]
    BY <1>1, <1>3, <2>2 DEF Overlap, PagesOf
  <2> QED
    BY <1>1, <2>1, <2>2
<1>4. Covers(g, h) => PagesOf(h) \subseteq PagesOf(g)
  BY <1>1 DEF Covers, PagesOf
<1>5. Overlap(g, h) = Overlap(h, g) /\ Covers(g, g)
  BY <1>1 DEF Overlap, Covers
<1> QED
  BY <1>1, <1>2, <1>3, <1>4, <1>5, Zenon

\* A range that covers another covers what that covers, and overlaps what it overlaps.
LEMMA CoversTrans ==
    ASSUME NEW g \in Ranges, NEW h \in Ranges, NEW k \in Ranges, Covers(g, h), Covers(h, k)
    PROVE  Covers(g, k) /\ \A x \in Ranges : Overlap(x, k) => Overlap(x, h)
<1>1. \A x \in Ranges : x[1] \in Int /\ x[2] \in Int
  BY DEF Ranges, Page
<1> QED
  BY <1>1 DEF Covers, Overlap

\* Ranges that share a page are merged to what they have together.
LEMMA MergeFacts ==
    ASSUME NEW g \in Ranges, NEW h \in Ranges, Overlap(g, h), NEW k \in Ranges, Covers(g, k)
    PROVE  /\ Covers(Merge(g, h), k)
           /\ \A p \in PagesOf(Merge(g, h)) : p \in PagesOf(g) \/ p \in PagesOf(h)
           /\ \A x \in Ranges : Overlap(x, Merge(g, h)) => Overlap(x, g) \/ Overlap(x, h)
<1>1. \A x \in Ranges : x[1] \in Int /\ x[2] \in Int /\ x[1] <= x[2]
  BY DEF Ranges, Page
<1> DEFINE a == IF h[1] < g[1] THEN h[1] ELSE g[1]
<1> DEFINE b == IF h[2] > g[2] THEN h[2] ELSE g[2]
<1>2. a \in Int /\ b \in Int /\ Merge(g, h)[1] = a /\ Merge(g, h)[2] = b
  BY <1>1, Zenon DEF Merge
<1>3. Covers(Merge(g, h), k)
  BY <1>1, <1>2 DEF Covers
<1>4. \A p \in PagesOf(Merge(g, h)) : p \in PagesOf(g) \/ p \in PagesOf(h)
  BY <1>1, <1>2 DEF PagesOf, Overlap
<1>5. \A x \in Ranges : Overlap(x, Merge(g, h)) => Overlap(x, g) \/ Overlap(x, h)
  BY <1>1, <1>2 DEF Overlap
<1> QED
  BY <1>3, <1>4, <1>5, Zenon

-----------------------------------------------------------------------------
(* Steps that keep what was known. *)

\* The ranges of a state.
LEMMA RangeTypes ==
    ASSUME TypeInv
    PROVE  /\ \A r \in 1 .. Len(region) : region[r].range \in Ranges
           /\ \A t \in Threads : asked[t] \in Ranges /\ span[t] \in Ranges
           /\ \A i \in 1 .. Len(inv_q) : inv_q[i] \in Ranges
<1>1. ASSUME NEW r \in 1 .. Len(region) PROVE region[r].range \in Ranges
  BY RegionFields, Zenon DEF TypeInv
<1> QED
  BY <1>1 DEF TypeInv

\* Regions leave the page table at most.
Kept ==
    /\ Len(region') = Len(region)
    /\ \A r \in 1 .. Len(region) :
          /\ region'[r].range = region[r].range /\ region'[r].gens = region[r].gens
          /\ region'[r].reg = region[r].reg /\ (region'[r].pgt => region[r].pgt)

\* No region of the page table has page p, and no thread is about to add one.
Clear(p) ==
    /\ \A r \in 1 .. Len(region) : region[r].pgt => p \notin PagesOf(region[r].range)
    /\ \A t \in Threads : at[t] # "overlap"

\* Pages stay pending until no region has them.
PendingKept == \A p : Pending(p) => Pending(p)' \/ Clear(p)'

\* A step after which regions leave the page table at most keeps it disjoint, and its
\* registrations good but for pending pages.
LEMMA PgtFrame ==
    ASSUME Disjoint, StaleInv, Kept, gen' = gen, PendingKept
    PROVE  Disjoint' /\ StaleInv'
<1>1. Disjoint'
  BY Zenon DEF Disjoint, Kept
<1>2. ASSUME NEW r \in 1 .. Len(region'), region'[r].pgt, region'[r].reg,
             NEW p \in PagesOf(region'[r].range), region'[r].gens[p] # gen'[p]
      PROVE  Pending(p)'
  <2>1. r \in 1 .. Len(region) /\ region[r].pgt /\ region[r].reg /\ p \in PagesOf(region[r].range)
        /\ region[r].gens[p] # gen[p]
    BY <1>2, Zenon DEF Kept
  <2>2. Pending(p)
    BY <2>1, Zenon DEF StaleInv
  <2>3. Pending(p)' \/ Clear(p)'
    BY <2>2, Zenon DEF PendingKept
  <2> QED
    BY <1>2, <2>3, Zenon DEF Clear
<1> QED
  BY <1>1, <1>2, Zenon DEF StaleInv

\* What thread v is in the middle of it was in the middle of before.
Quiet(v) ==
    /\ at'[v] \in {"overlap", "register"} =>
          /\ at'[v] = at[v] /\ span'[v] = span[v] /\ asked'[v] = asked[v] /\ held'[v] = held[v]
    /\ at'[v] \in Unmapping => at[v] \in Unmapping /\ asked'[v] = asked[v]
    /\ at'[v] \in Unmapped => at[v] \in Unmapped
    /\ v \in Thread /\ (at'[v] \in Getting \/ Has(v)') =>
          (at[v] \in Getting \/ Has(v)) /\ asked'[v] = asked[v]
    /\ Has(v)' => Has(v) /\ held'[v] = held[v] /\ asked'[v] = asked[v]
    /\ at'[v] \in {"gc", "dereg"} => at[v] \in {"gc", "dereg", "overlap"} \/ inv_q' = <<>>

\* The other threads do nothing.
Others(t) ==
    \A u \in Threads : u # t =>
        /\ at'[u] = at[u] /\ held'[u] = held[u] /\ asked'[u] = asked[u]
        /\ fresh'[u] = fresh[u] /\ span'[u] = span[u]

\* A thread that does not take the step is in the middle of what it was.
LEMMA OthersQuiet ==
    ASSUME NEW t \in Threads, Others(t), NEW u \in Threads, u # t
    PROVE  Quiet(u) /\ Has(u)' = Has(u)
<1>1. /\ at'[u] = at[u] /\ held'[u] = held[u] /\ asked'[u] = asked[u]
      /\ fresh'[u] = fresh[u] /\ span'[u] = span[u]
  BY Zenon DEF Others
<1>2. Has(u)' = Has(u)
  BY <1>1, Zenon DEF Has
<1> QED
  BY <1>1, <1>2, Zenon DEF Quiet

\* A thread that has a registration has a region.
LEMMA HasHeld ==
    ASSUME TypeInv, CountInv, NEW t \in Threads, Has(t) \/ at[t] = "register"
    PROVE  held[t] \in 1 .. Len(region) /\ held[t] # NoRegion
<1>1. held[t] # NoRegion
  BY Zenon DEF CountInv, HeldInv, HeldOf, Has, Full
<1> QED
  BY <1>1, Bounds, Zenon

\* What a quiet thread merges still covers what it asked for.
LEMMA QuietSpan ==
    ASSUME TypeInv, CountInv, NEW v \in Threads, SpanOf(v), Quiet(v), Kept
    PROVE  SpanOf(v)'
<1>1. CASE at'[v] = "overlap"
  BY <1>1, Zenon DEF SpanOf, Quiet, Kept
<1>2. CASE at'[v] = "register"
  <2>1. /\ at[v] = "register" /\ asked'[v] = asked[v] /\ held'[v] = held[v]
    BY <1>2, Zenon DEF Quiet
  <2>2. region'[held[v]].range = region[held[v]].range
    BY <2>1, HasHeld, Zenon DEF Kept
  <2> QED
    BY <1>2, <2>1, <2>2, Zenon DEF SpanOf
<1>3. CASE at'[v] \notin {"overlap", "register"}
  BY <1>3, Zenon DEF SpanOf
<1> QED
  BY <1>1, <1>2, <1>3, Zenon

\* What a quiet thread unmaps is still pending wherever a region has it.
LEMMA QuietGone ==
    ASSUME NEW v \in Threads, GoneReg(v), Quiet(v), Kept, PendingKept
    PROVE  GoneReg(v)'
<1> SUFFICES ASSUME at'[v] \in Unmapped, NEW p \in PagesOf(asked'[v]),
                    NEW r \in 1 .. Len(region'), region'[r].pgt, p \in PagesOf(region'[r].range)
             PROVE  Pending(p)'
  BY Zenon DEF GoneReg
<1>1. at[v] \in Unmapped /\ asked'[v] = asked[v]
  BY Zenon DEF Quiet, Unmapped, Unmapping
<1>2. r \in 1 .. Len(region) /\ region[r].pgt /\ p \in PagesOf(region[r].range)
  BY Zenon DEF Kept
<1>3. Pending(p)
  BY <1>1, <1>2, Zenon DEF GoneReg
<1> QED
  BY <1>3, Zenon DEF PendingKept, Clear

\* What a quiet thread may use is still a registration of the memory.
LEMMA QuietGood ==
    ASSUME TypeInv, CountInv, NEW v \in Threads, GoodOf(v), Quiet(v), Kept, gen' = gen
    PROVE  GoodOf(v)'
<1> SUFFICES ASSUME Has(v)'
             PROVE  /\ Covers(region'[held'[v]].range, asked'[v])
                    /\ \A p \in PagesOf(asked'[v]) : region'[held'[v]].gens[p] = gen'[p]
  BY Zenon DEF GoodOf
<1>1. Has(v) /\ held'[v] = held[v] /\ asked'[v] = asked[v]
  BY Zenon DEF Quiet
<1>2. /\ region'[held[v]].range = region[held[v]].range
      /\ region'[held[v]].gens = region[held[v]].gens
  BY <1>1, HasHeld, Zenon DEF Kept
<1> QED
  BY <1>1, <1>2, Zenon DEF GoodOf

\* What a quiet thread unmaps is still pending for a quiet one that merges.
LEMMA QuietPair ==
    ASSUME NEW v \in Threads, NEW w \in Threads, GoneSpan(v, w), Quiet(v), Quiet(w), PendingKept
    PROVE  GoneSpan(v, w)'
<1> SUFFICES ASSUME at'[v] \in Unmapped, at'[w] = "overlap", NEW p \in PagesOf(asked'[v]),
                    p \in PagesOf(span'[w])
             PROVE  Pending(p)'
  BY Zenon DEF GoneSpan
<1>1. at[v] \in Unmapped /\ asked'[v] = asked[v]
  BY Zenon DEF Quiet, Unmapped, Unmapping
<1>2. at[w] = "overlap" /\ span'[w] = span[w]
  BY Zenon DEF Quiet
<1>3. Pending(p)
  BY <1>1, <1>2 DEF GoneSpan
<1> QED
  BY <1>3, Zenon DEF PendingKept, Clear

\* Two quiet threads still do not unmap what the other gets.
LEMMA QuietApart ==
    ASSUME NEW v \in Thread, NEW w \in Thread, Apart(v, w), Quiet(v), Quiet(w)
    PROVE  Apart(v, w)'
<1> SUFFICES ASSUME at'[v] \in Getting \/ Has(v)', at'[w] \in Unmapping
             PROVE  ~Overlap(asked'[v], asked'[w])
  BY Zenon DEF Apart
<1>1. (at[v] \in Getting \/ Has(v)) /\ asked'[v] = asked[v]
  BY Zenon DEF Quiet
<1>2. at[w] \in Unmapping /\ asked'[w] = asked[w]
  BY Zenon DEF Quiet
<1> QED
  BY <1>1, <1>2, Zenon DEF Apart

\* The queue has nothing new.
QueueKept == \A i \in 1 .. Len(inv_q') : \E j \in 1 .. Len(inv_q) : inv_q'[i] = inv_q[j]

\* The queue still has nothing a quiet thread asked for.
LEMMA QuietQueue ==
    ASSUME NEW v \in Thread, QueueOf(v), Quiet(v), QueueKept
    PROVE  QueueOf(v)'
<1> SUFFICES ASSUME at'[v] \in {"gc", "dereg", "overlap"}, NEW i \in 1 .. Len(inv_q')
             PROVE  ~Overlap(inv_q'[i], asked'[v])
  BY Zenon DEF QueueOf
<1>1. PICK j \in 1 .. Len(inv_q) : inv_q'[i] = inv_q[j]
  BY Zenon DEF QueueKept
<1>2. inv_q' # <<>>
  OBVIOUS
<1>3. at[v] \in {"gc", "dereg", "overlap"}
  BY <1>2, Zenon DEF Quiet
<1>4. asked'[v] = asked[v]
  BY Zenon DEF Quiet, Getting
<1> QED
  BY <1>1, <1>3, <1>4, Zenon DEF QueueOf

\* A step after which all is as before.
LEMMA QuietFresh ==
    ASSUME TypeInv, CountInv, FreshInv, \A v \in Threads : Quiet(v), Kept, gen' = gen,
           PendingKept, QueueKept
    PROVE  FreshInv'
<1>1. Disjoint' /\ StaleInv'
  BY PgtFrame, Zenon DEF FreshInv
<1>2. ASSUME NEW v \in Threads PROVE SpanOf(v)' /\ GoneReg(v)' /\ GoodOf(v)'
  BY <1>2, QuietSpan, QuietGone, QuietGood, Zenon DEF FreshInv
<1>3. ASSUME NEW v \in Threads, NEW w \in Threads PROVE GoneSpan(v, w)'
  BY <1>3, QuietPair, Zenon DEF FreshInv
<1>4. Thread \subseteq Threads
  BY Zenon DEF Threads
<1>5. ASSUME NEW v \in Thread PROVE QueueOf(v)'
  BY <1>4, <1>5, QuietQueue, Zenon DEF FreshInv
<1>6. ASSUME NEW v \in Thread, NEW w \in Thread PROVE Apart(v, w)'
  BY <1>4, <1>6, QuietApart, Zenon DEF FreshInv
<1> QED
  BY <1>1, <1>2, <1>3, <1>5, <1>6, Zenon DEF FreshInv

Scanning == {"inv_scan", "unmap_scan"}

\* A step of a thread that does not scan, or goes on scanning.
LEMMA QuietStep ==
    ASSUME TypeInv, CountInv, FreshInv, NEW t \in Threads, Others(t), Quiet(t), Kept,
           UNCHANGED <<gen, inv_q>>,
           at[t] \in Scanning => at'[t] = at[t] /\ span'[t] = span[t]
    PROVE  FreshInv'
<1>1. \A v \in Threads : Quiet(v)
  BY OthersQuiet, Zenon
<1>2. PendingKept
  <2>1. ASSUME NEW p, NEW v \in Threads, at[v] \in Scanning, p \in PagesOf(span[v])
        PROVE  at'[v] \in Scanning /\ p \in PagesOf(span'[v])
    BY <2>1, Zenon DEF Others
  <2> QED
    BY <2>1, Zenon DEF PendingKept, Pending, Scanning
<1>3. QueueKept
  BY Zenon DEF QueueKept
<1> QED
  BY <1>1, <1>2, <1>3, QuietFresh, Zenon

\* A step that changes no region keeps them.
LEMMA SameKept ==
    ASSUME region' = region
    PROVE  Kept
  BY Zenon DEF Kept

\* ucs_rcache_region_invalidate_internal keeps ranges and registrations.
LEMMA InvalidateKept ==
    ASSUME TypeInv, NEW r \in 1 .. Len(region), NEW toGc, NEW w \in BOOLEAN,
           region[r].pgt => region[r].ref >= 1, InvalidateRegion(r, toGc, w)
    PROVE  Kept
<1>1. region \in Seq(Region)
  BY Zenon DEF TypeInv
<1>2. \/ Upd(r, region[r].ref, region[r].pgt, region[r].reg, region[r].freed, region[r].gens)
      \/ Upd(r, region[r].ref - 1, FALSE, region[r].reg, region[r].freed, region[r].gens)
      \/ Upd(r, 0, FALSE, region[r].reg, region[r].freed, region[r].gens)
      \/ Upd(r, 0, FALSE, region[r].reg, TRUE, region[r].gens)
  BY <1>1, InvalidateUpd, Zenon
<1> QED
  BY <1>2, Zenon DEF Upd, Kept

\* ucs_mem_region_destroy_internal keeps ranges and registrations.
LEMMA DestroyKept ==
    ASSUME TypeInv, NEW r \in 1 .. Len(region), Destroy(r)
    PROVE  Kept
<1>1. region \in Seq(Region)
  BY Zenon DEF TypeInv
<1>2. Upd(r, region[r].ref, region[r].pgt, region[r].reg, TRUE, region[r].gens)
  BY <1>1, FreeUpd, Zenon
<1> QED
  BY <1>2, Zenon DEF Upd, Kept

\* The fast path returns what it found.
LEMMA LruGetFresh ==
    ASSUME TypeInv, CountInv, FreshInv, NEW t \in Threads, LruGet(t)
    PROVE  FreshInv'
<1>0. /\ at[t] = "fast" /\ at' = [at EXCEPT ![t] = "idle"]
      /\ UNCHANGED <<region, inv_q, gen, held, asked, fresh, span>>
  BY Zenon DEF LruGet, Goto
<1>1. Others(t) /\ at'[t] = "idle"
  BY <1>0, Zenon DEF Others, TypeInv
<1>2. Quiet(t)
  BY <1>0, <1>1, Zenon DEF Quiet, Has, Getting, Unmapping, Unmapped
<1> QED
  BY <1>0, <1>1, <1>2, SameKept, QuietStep, Zenon DEF Scanning

\* The lock is taken for writing.
LEMMA LockFresh ==
    ASSUME TypeInv, CountInv, FreshInv, NEW t \in Threads, Lock(t)
    PROVE  FreshInv'
<1>0. /\ at[t] = "lock" /\ at' = [at EXCEPT ![t] = "inv"]
      /\ UNCHANGED <<region, inv_q, gen, held, asked, fresh, span>>
  BY Zenon DEF Lock, Goto, cache
<1>1. Others(t) /\ at'[t] = "inv"
  BY <1>0, Zenon DEF Others, TypeInv
<1>2. Quiet(t)
  BY <1>0, <1>1, Zenon DEF Quiet, Has, Getting, Unmapping, Unmapped
<1> QED
  BY <1>0, <1>1, <1>2, SameKept, QuietStep, Zenon DEF Scanning

\* A region of the gc list is destroyed.
LEMMA DeregDoneFresh ==
    ASSUME TypeInv, CountInv, FreshInv, NEW t \in Threads, DeregDone(t)
    PROVE  FreshInv'
<1>0. /\ at[t] = "dereg" /\ at' = [at EXCEPT ![t] = "gc"] /\ Destroy(held[t])
      /\ held' = [held EXCEPT ![t] = NoRegion] /\ UNCHANGED <<inv_q, gen, asked, fresh, span>>
  BY Zenon DEF DeregDone, Goto
<1>1. Others(t) /\ at'[t] = "gc"
  BY <1>0, Zenon DEF Others, TypeInv
<1>2. Quiet(t)
  BY <1>0, <1>1, Zenon DEF Quiet, Has, Getting, Unmapping, Unmapped
<1>3. Kept
  BY <1>0, SomethingHeld, DestroyKept, Zenon DEF Full, Destroying
<1> QED
  BY <1>0, <1>1, <1>2, <1>3, QuietStep, Zenon DEF Scanning

\* A region to evict is picked, or the get returns.
LEMMA LruEvictFresh ==
    ASSUME TypeInv, CountInv, FreshInv, NEW t \in Threads, LruEvict(t)
    PROVE  FreshInv'
<1>0. /\ at[t] = "evict" /\ UNCHANGED <<region, inv_q, gen, held, asked, fresh, span>>
      /\ at' = at \/ at' = [at EXCEPT ![t] = "evicting"] \/ at' = [at EXCEPT ![t] = "idle"]
  BY Zenon DEF LruEvict, Goto
<1>1. Others(t) /\ at'[t] \in {"evict", "evicting", "idle"}
  BY <1>0, Zenon DEF Others, TypeInv
<1>2. Quiet(t)
  BY <1>0, <1>1, Zenon DEF Quiet, Has, Getting, Unmapping, Unmapped
<1> QED
  BY <1>0, <1>1, <1>2, SameKept, QuietStep, Zenon DEF Scanning

\* The picked region is invalidated.
LEMMA EvictFresh ==
    ASSUME TypeInv, CountInv, FreshInv, NEW t \in Threads, Evict(t)
    PROVE  FreshInv'
<1>0. /\ at[t] = "evicting" /\ UNCHANGED <<inv_q, gen, held, asked, fresh, span>>
      /\ at' = [at EXCEPT ![t] = "evict"]
      /\ InvalidateRegion(Head(lru), FALSE, region[Head(lru)].waiting)
  BY Zenon DEF Evict, Goto
<1>1. Others(t) /\ at'[t] = "evict"
  BY <1>0, Zenon DEF Others, TypeInv
<1>2. Quiet(t)
  BY <1>0, <1>1, Zenon DEF Quiet, Has, Getting, Unmapping, Unmapped
<1>3. Kept
  <2>1. lru # <<>> /\ region[lru[1]].pgt
    BY <1>0, Zenon DEF CountInv, LruInv
  <2>2. Head(lru) \in 1 .. Len(region) /\ region[Head(lru)].pgt /\ region \in Seq(Region)
    BY <2>1, LruFacts DEF TypeInv
  <2>3. region[Head(lru)].waiting \in BOOLEAN /\ region[Head(lru)].ref >= 1
    BY <2>2, RegionFields, PgtRef, Zenon
  <2> QED
    BY <1>0, <2>2, <2>3, InvalidateKept, Zenon
<1> QED
  BY <1>0, <1>1, <1>2, <1>3, QuietStep, Zenon DEF Scanning

\* A put begins.
LEMMA StartPutFresh ==
    ASSUME TypeInv, CountInv, FreshInv, NEW t \in Thread, StartPut(t)
    PROVE  FreshInv'
<1>0. /\ at[t] = "idle" /\ at' = [at EXCEPT ![t] = "put"] /\ t \in Threads
      /\ UNCHANGED <<region, inv_q, gen, held, asked, fresh, span>>
  BY Zenon DEF StartPut, Goto, Threads
<1>1. Others(t) /\ at'[t] = "put"
  BY <1>0, Zenon DEF Others, TypeInv
<1>2. Quiet(t)
  BY <1>0, <1>1, Zenon DEF Quiet, Has, Getting, Unmapping, Unmapped
<1> QED
  BY <1>0, <1>1, <1>2, SameKept, QuietStep, Zenon DEF Scanning

\* A put drops a reference.
LEMMA PutFresh ==
    ASSUME TypeInv, CountInv, FreshInv, NEW t \in Threads, Put(t)
    PROVE  FreshInv'
<1>p. PICK r : r = held[t]
  BY Zenon
<1>0. /\ at[t] = "put" /\ UNCHANGED <<inv_q, gen, span>>
      /\ region' = [region EXCEPT ![r].ref = region[r].ref - 1]
      /\ \/ at' = [at EXCEPT ![t] = "destroy"] /\ UNCHANGED <<held, asked, fresh>>
         \/ /\ at' = [at EXCEPT ![t] = "idle"] /\ held' = [held EXCEPT ![t] = NoRegion]
            /\ asked' = [asked EXCEPT ![t] = NoRange] /\ fresh' = [fresh EXCEPT ![t] = FALSE]
  BY <1>p, Zenon DEF Put, Goto, Return
<1>1. Others(t) /\ (at'[t] = "destroy" \/ (at'[t] = "idle" /\ held'[t] = NoRegion))
  BY <1>0 DEF Others, TypeInv
<1>2. Quiet(t)
  BY <1>0, <1>1, Zenon DEF Quiet, Has, Getting, Unmapping, Unmapped
<1>3. Kept
  <2>1. r \in 1 .. Len(region) /\ region \in Seq(Region) /\ region[r].ref - 1 \in Nat
    BY <1>p, <1>0, PutHolds DEF TypeInv
  <2>2. Upd(r, region[r].ref - 1, region[r].pgt, region[r].reg, region[r].freed, region[r].gens)
    BY <1>0, <2>1, RefUpd, Zenon
  <2> QED
    BY <2>1, <2>2, Zenon DEF Upd, Kept
<1> QED
  BY <1>0, <1>1, <1>2, <1>3, QuietStep, Zenon DEF Scanning

\* The last put destroys.
LEMMA PutLockFresh ==
    ASSUME TypeInv, CountInv, FreshInv, NEW t \in Threads, PutLock(t)
    PROVE  FreshInv'
<1>0. /\ at[t] = "destroy" /\ at' = [at EXCEPT ![t] = "put_dereg"]
      /\ UNCHANGED <<region, inv_q, gen, held, asked, fresh, span>>
  BY Zenon DEF PutLock, Goto, cache
<1>1. Others(t) /\ at'[t] = "put_dereg"
  BY <1>0, Zenon DEF Others, TypeInv
<1>2. Quiet(t)
  BY <1>0, <1>1, Zenon DEF Quiet, Has, Getting, Unmapping, Unmapped
<1> QED
  BY <1>0, <1>1, <1>2, SameKept, QuietStep, Zenon DEF Scanning

\* The region of the last put is freed.
LEMMA PutDoneFresh ==
    ASSUME TypeInv, CountInv, FreshInv, NEW t \in Threads, PutDone(t)
    PROVE  FreshInv'
<1>0. /\ at[t] = "put_dereg" /\ at' = [at EXCEPT ![t] = "idle"] /\ Destroy(held[t])
      /\ held' = [held EXCEPT ![t] = NoRegion] /\ asked' = [asked EXCEPT ![t] = NoRange]
      /\ fresh' = [fresh EXCEPT ![t] = FALSE] /\ UNCHANGED <<inv_q, gen, span>>
  BY Zenon DEF PutDone, Goto, Return
<1>1. Others(t) /\ at'[t] = "idle" /\ held'[t] = NoRegion
  BY <1>0, Zenon DEF Others, TypeInv
<1>2. Quiet(t)
  BY <1>0, <1>1, Zenon DEF Quiet, Has, Getting, Unmapping, Unmapped
<1>3. Kept
  BY <1>0, SomethingHeld, DestroyKept, Zenon DEF Full, Destroying
<1> QED
  BY <1>0, <1>1, <1>2, <1>3, QuietStep, Zenon DEF Scanning

\* A holder invalidates its region.
LEMMA InvalidateFresh ==
    ASSUME TypeInv, CountInv, FreshInv, NEW t \in Thread, Invalidate(t)
    PROVE  FreshInv'
<1>0. /\ at[t] = "idle" /\ t \in Threads /\ held[t] # NoRegion
      /\ UNCHANGED <<inv_q, gen, at, held, asked, fresh, span>>
      /\ InvalidateRegion(held[t], FALSE, TRUE)
  BY Zenon DEF Invalidate, Threads, locals
<1>1. Others(t)
  BY <1>0, Zenon DEF Others
<1>2. Quiet(t)
  BY <1>0, <1>1, Zenon DEF Quiet, Has, Getting, Unmapping, Unmapped
<1>3. Kept
  BY <1>0, HeldRef, InvalidateKept, Zenon DEF Using
<1> QED
  BY <1>0, <1>1, <1>2, <1>3, QuietStep, Zenon DEF Scanning

\* The handler of a fork begins.
LEMMA BeforeForkFresh ==
    ASSUME TypeInv, CountInv, FreshInv, NEW t \in Thread, BeforeFork(t)
    PROVE  FreshInv'
<1>0. /\ at[t] = "idle" /\ t \in Threads /\ at' = [at EXCEPT ![t] = "fork_scan"]
      /\ span' = [span EXCEPT ![t] = <<1, Pages>>]
      /\ UNCHANGED <<region, inv_q, gen, held, asked, fresh>>
  BY Zenon DEF BeforeFork, Goto, cache, Threads
<1>1. Others(t) /\ at'[t] = "fork_scan"
  BY <1>0, Zenon DEF Others, TypeInv
<1>2. Quiet(t)
  BY <1>0, <1>1, Zenon DEF Quiet, Has, Getting, Unmapping, Unmapped
<1> QED
  BY <1>0, <1>1, <1>2, SameKept, QuietStep, Zenon DEF Scanning

\* The asynchronous handler begins.
LEMMA InvalidateHandlerFresh ==
    ASSUME TypeInv, CountInv, FreshInv, InvalidateHandler
    PROVE  FreshInv'
<1>0. /\ at[Async] = "idle" /\ Async \in Threads /\ Async \notin Thread
      /\ at' = [at EXCEPT ![Async] = "lock"]
      /\ UNCHANGED <<region, inv_q, gen, held, asked, fresh, span>>
  BY RcacheAssumption, Zenon DEF InvalidateHandler, Goto, cache, Threads
<1>1. Others(Async) /\ at'[Async] = "lock"
  BY <1>0, Zenon DEF Others, TypeInv
<1>2. Quiet(Async)
  BY <1>0, <1>1, Zenon DEF Quiet, Has, Getting, Unmapping, Unmapped
<1> QED
  BY <1>0, <1>1, <1>2, SameKept, QuietStep, Zenon DEF Scanning

\* A range leaves the queue: the thread that took it looks for its regions now.
LEMMA CheckInvQueueFresh ==
    ASSUME TypeInv, CountInv, FreshInv, NEW t \in Threads, CheckInvQueue(t)
    PROVE  FreshInv'
<1>0. at[t] \in {"inv", "unmap_inv"} /\ UNCHANGED <<region, gen, held, asked, fresh>>
  BY Zenon DEF CheckInvQueue
<1>1. CASE inv_q # <<>>
  <2>1. /\ inv_q' = Tail(inv_q) /\ span' = [span EXCEPT ![t] = Head(inv_q)]
        /\ at' = [at EXCEPT ![t] = IF at[t] = "inv" THEN "inv_scan" ELSE "unmap_scan"]
    BY <1>1, Zenon DEF CheckInvQueue, Goto
  <2>2. /\ Others(t) /\ span'[t] = Head(inv_q)
        /\ at'[t] = IF at[t] = "inv" THEN "inv_scan" ELSE "unmap_scan"
    BY <1>0, <2>1, Zenon DEF Others, TypeInv
  <2>3. Quiet(t)
    BY <1>0, <2>2, Zenon DEF Quiet, Has, Getting, Unmapping, Unmapped
  <2>4. /\ \A i \in 1 .. Len(inv_q') : i + 1 \in 1 .. Len(inv_q) /\ inv_q'[i] = inv_q[i + 1]
        /\ \A i \in 1 .. Len(inv_q) :
              inv_q[i] = Head(inv_q) \/ (i - 1 \in 1 .. Len(inv_q') /\ inv_q'[i - 1] = inv_q[i])
    <3>1. inv_q \in Seq(Ranges)
      BY Zenon DEF TypeInv
    <3> QED
      BY <1>1, <2>1, <3>1
  <2>5. QueueKept
    BY <2>4, Zenon DEF QueueKept
  <2>6. PendingKept
    <3>1. at'[t] \in Scanning /\ at[t] \notin Scanning
      BY <1>0, <2>2, Zenon DEF Scanning
    <3>2. ASSUME NEW p, NEW i \in 1 .. Len(inv_q), p \in PagesOf(inv_q[i]) PROVE Pending(p)'
      BY <2>2, <2>4, <3>1, <3>2, Zenon DEF Pending, Scanning
    <3>3. ASSUME NEW p, NEW v \in Threads, at[v] \in Scanning, p \in PagesOf(span[v])
          PROVE  Pending(p)'
      BY <2>2, <3>1, <3>3, Zenon DEF Pending, Scanning, Others
    <3> QED
      BY <3>2, <3>3, Zenon DEF PendingKept, Pending, Scanning
  <2>7. \A v \in Threads : Quiet(v)
    BY <2>2, <2>3, OthersQuiet, Zenon
  <2> QED
    BY <1>0, <2>5, <2>6, <2>7, SameKept, QuietFresh, Zenon
<1>2. CASE inv_q = <<>>
  <2>1. /\ UNCHANGED <<inv_q, span>>
        /\ at' = [at EXCEPT ![t] = IF at[t] = "inv" THEN "gc" ELSE "munmap"]
    BY <1>2, Zenon DEF CheckInvQueue, Goto
  <2>2. Others(t) /\ at'[t] = IF at[t] = "inv" THEN "gc" ELSE "munmap"
    BY <1>0, <2>1, Zenon DEF Others, TypeInv
  <2>3. Quiet(t)
    BY <1>0, <1>2, <2>1, <2>2 DEF Quiet, Has, Getting, Unmapping, Unmapped
  <2> QED
    BY <1>0, <2>1, <2>2, <2>3, SameKept, QuietStep, Zenon DEF Scanning
<1> QED
  BY <1>1, <1>2, Zenon

\* A region with a page of the range is invalidated; when there is none left the
\* pages of the range are no longer pending, and no region has them.
LEMMA InvalidateRangeFresh ==
    ASSUME TypeInv, LockInv, CountInv, FreshInv, NEW t \in Threads, InvalidateRange(t)
    PROVE  FreshInv'
<1>0. /\ at[t] \in {"inv_scan", "unmap_scan", "fork_scan"}
      /\ UNCHANGED <<inv_q, gen, held, asked, fresh>>
  BY Zenon DEF InvalidateRange
<1>1. ASSUME NEW r \in FirstOf(Found(span[t])),
             InvalidateRegion(r, at[t] = "unmap_scan", region[r].waiting),
             UNCHANGED <<at, span>>
      PROVE  FreshInv'
  <2>1. r \in 1 .. Len(region) /\ region[r].pgt /\ region \in Seq(Region)
    BY <1>1 DEF FirstOf, Found, InPgt, TypeInv
  <2>2. region[r].waiting \in BOOLEAN /\ region[r].ref >= 1
    BY <2>1, RegionFields, PgtRef, Zenon
  <2>3. Kept
    BY <1>1, <2>1, <2>2, InvalidateKept, Zenon
  <2>4. Others(t)
    BY <1>0, <1>1, Zenon DEF Others
  <2>5. Quiet(t)
    BY <1>0, <1>1, Zenon DEF Quiet, Has
  <2> QED
    BY <1>0, <1>1, <2>3, <2>4, <2>5, QuietStep, Zenon
<1>2. ASSUME Found(span[t]) = {}, FirstOf(Found(span[t])) = {}
      PROVE  FreshInv'
  <2>1. /\ UNCHANGED region /\ span' = [span EXCEPT ![t] = NoRange]
        /\ at' = [at EXCEPT ![t] = CASE at[t] = "inv_scan" -> "inv"
                                     [] at[t] = "unmap_scan" -> "unmap_inv"
                                     [] at[t] = "fork_scan" -> "idle"]
    BY <1>2, Zenon DEF InvalidateRange, Goto, cache
  <2>2. /\ Others(t)
        /\ at[t] = "inv_scan" => at'[t] = "inv"
        /\ at[t] = "unmap_scan" => at'[t] = "unmap_inv"
        /\ at[t] = "fork_scan" => at'[t] = "idle"
    BY <1>0, <2>1, Zenon DEF Others, TypeInv
  <2>3. Quiet(t)
    BY <1>0, <2>2, Zenon DEF Quiet, Has, Getting, Unmapping, Unmapped
  <2>4. ASSUME NEW p \in PagesOf(span[t]) PROVE Clear(p)'
    <3>1. \A r \in 1 .. Len(region) : region[r].pgt => ~Overlap(region[r].range, span[t])
      BY <1>2 DEF Found, InPgt, TypeInv
    <3>2. \A r \in 1 .. Len(region) : region[r].pgt => p \notin PagesOf(region[r].range)
      BY <2>4, <3>1, RangeTypes, RangePages, Zenon
    <3>3. \A v \in Threads : at'[v] # "overlap"
      <4>1. \A v \in Threads : v # t => at[v] # "overlap"
        BY <1>0, Alone, Zenon DEF Locked
      <4> QED
        BY <1>0, <2>2, <4>1, Zenon DEF Others
    <3> QED
      BY <2>1, <3>2, <3>3, Zenon DEF Clear
  <2>5. PendingKept
    <3>1. ASSUME NEW p, NEW v \in Threads, v # t, at[v] \in Scanning, p \in PagesOf(span[v])
          PROVE  Pending(p)'
      BY <2>2, <3>1, Zenon DEF Pending, Scanning, Others
    <3>2. ASSUME NEW p, NEW i \in 1 .. Len(inv_q), p \in PagesOf(inv_q[i]) PROVE Pending(p)'
      BY <1>0, <3>2, Zenon DEF Pending
    <3> QED
      BY <2>4, <3>1, <3>2, Zenon DEF PendingKept, Pending, Scanning
  <2>6. QueueKept
    BY <1>0, Zenon DEF QueueKept
  <2>7. \A v \in Threads : Quiet(v)
    BY <2>2, <2>3, OthersQuiet, Zenon
  <2> QED
    BY <1>0, <2>1, <2>5, <2>6, <2>7, SameKept, QuietFresh, Zenon
<1> QED
  BY <1>1, <1>2, Zenon DEF InvalidateRange, FirstOf

\* A step of thread t after which the other threads are as before.
LEMMA KeptFresh ==
    ASSUME TypeInv, CountInv, FreshInv, NEW t \in Threads,
           \A v \in Threads : v # t => Quiet(v),
           Kept, gen' = gen, PendingKept, \A v \in Thread : v # t => QueueOf(v)',
           SpanOf(t)', GoneReg(t)', GoodOf(t)',
           \A u \in Threads : GoneSpan(t, u)' /\ GoneSpan(u, t)',
           t \in Thread => QueueOf(t)' /\ \A u \in Thread : Apart(t, u)' /\ Apart(u, t)'
    PROVE  FreshInv'
<1>1. Disjoint' /\ StaleInv'
  BY PgtFrame, Zenon DEF FreshInv
<1>2. ASSUME NEW v \in Threads, v # t PROVE SpanOf(v)' /\ GoneReg(v)' /\ GoodOf(v)'
  BY <1>2, QuietSpan, QuietGone, QuietGood, Zenon DEF FreshInv
<1>3. ASSUME NEW v \in Threads, NEW w \in Threads, v # t, w # t PROVE GoneSpan(v, w)'
  BY <1>3, QuietPair, Zenon DEF FreshInv
<1>4. Thread \subseteq Threads
  BY Zenon DEF Threads
<1>6. ASSUME NEW v \in Thread, NEW w \in Thread, v # t, w # t PROVE Apart(v, w)'
  BY <1>4, <1>6, QuietApart, Zenon DEF FreshInv
<1> QED
  BY <1>1, <1>2, <1>3, <1>6, Zenon DEF FreshInv

\* Nobody scans that did not before, and the queue is the same.
LEMMA PendingFrame ==
    ASSUME NEW t \in Threads, inv_q' = inv_q, at[t] \notin Scanning,
           \A u \in Threads : u # t => at'[u] = at[u] /\ span'[u] = span[u]
    PROVE  PendingKept /\ QueueKept
<1>1. ASSUME NEW p, NEW v \in Threads, at[v] \in Scanning, p \in PagesOf(span[v])
      PROVE  at'[v] \in Scanning /\ p \in PagesOf(span'[v])
  BY <1>1, Zenon
<1> QED
  BY <1>1, Zenon DEF PendingKept, Pending, Scanning, QueueKept

\* Thread t begins a get, or gets a registration.
LEMMA GetFresh ==
    ASSUME TypeInv, CountInv, FreshInv, NEW t \in Threads, Others(t), Kept, UNCHANGED <<gen, inv_q>>,
           at[t] \notin Scanning, at'[t] \in {"get", "fast", "idle"}, GoodOf(t)',
           \A u \in Thread : at[u] \in Unmapping => ~Overlap(asked'[t], asked[u])
    PROVE  FreshInv'
<1>1. PendingKept /\ QueueKept
  BY PendingFrame, Zenon DEF Others
<1>2. \A v \in Threads : v # t => Quiet(v)
  BY OthersQuiet, Zenon
<1>3. Thread \subseteq Threads
  BY Zenon DEF Threads
<1>4. \A v \in Thread : v # t => QueueOf(v)'
  BY <1>1, <1>2, <1>3, QuietQueue, Zenon DEF FreshInv
<1>5. SpanOf(t)' /\ GoneReg(t)' /\ QueueOf(t)'
  BY Zenon DEF SpanOf, GoneReg, QueueOf, Unmapped
<1>6. \A u \in Threads : GoneSpan(t, u)' /\ GoneSpan(u, t)'
  BY Zenon DEF GoneSpan, Unmapped
<1>7. \A u \in Thread : Apart(t, u)' /\ Apart(u, t)'
  BY <1>3, Zenon DEF Apart, Unmapping, Others
<1> QED
  BY <1>1, <1>2, <1>4, <1>5, <1>6, <1>7, KeptFresh, Zenon

\* A get begins, of memory that nobody unmaps.
LEMMA StartGetFresh ==
    ASSUME TypeInv, CountInv, FreshInv, NEW t \in Thread, NEW g \in Ranges, StartGet(t, g)
    PROVE  FreshInv'
<1>0. /\ at[t] = "idle" /\ t \in Threads /\ ~InUse(Unmapping, g) /\ at' = [at EXCEPT ![t] = "get"]
      /\ asked' = [asked EXCEPT ![t] = g] /\ fresh' = [fresh EXCEPT ![t] = TRUE]
      /\ UNCHANGED <<region, inv_q, gen, held, span>>
  BY Zenon DEF StartGet, Goto, cache, Threads
<1>1. Others(t) /\ at'[t] = "get" /\ asked'[t] = g
  BY <1>0, Zenon DEF Others, TypeInv
<1>2. GoodOf(t)'
  BY <1>1, Zenon DEF GoodOf, Has
<1>3. \A u \in Thread : at[u] \in Unmapping => ~Overlap(asked'[t], asked[u])
  <2>1. \A u \in Thread : at[u] \in Unmapping => ~Overlap(asked[u], g) /\ asked[u] \in Ranges
    BY <1>0, RangeTypes, Zenon DEF InUse, Threads
  <2> QED
    BY <1>1, <2>1, RangePages, Zenon
<1> QED
  BY <1>0, <1>1, <1>2, <1>3, SameKept, GetFresh, Zenon DEF Scanning

\* The fast path finds a region only while the queue is empty.
LEMMA GetFastFresh ==
    ASSUME TypeInv, LockInv, CountInv, FreshInv, NEW t \in Threads, GetFast(t)
    PROVE  FreshInv'
<1>0. /\ at[t] = "get" /\ t # Async /\ writer = NoThread
      /\ UNCHANGED <<inv_q, gen, asked, fresh, span>>
  BY Zenon DEF GetFast, LockInv
<1>1. ASSUME NEW r \in InPgt, region[r].reg, Covers(region[r].range, asked[t]), inv_q = <<>>,
             region' = [region EXCEPT ![r].ref = @ + 1],
             held' = [held EXCEPT ![t] = r], at' = [at EXCEPT ![t] = "fast"]
      PROVE  FreshInv'
  <2>1. r \in 1 .. Len(region) /\ region \in Seq(Region) /\ region[r].pgt
    BY <1>1 DEF InPgt, TypeInv
  <2>2. region[r].ref + 1 \in Nat
    BY <2>1, RegionFields
  <2>3. Upd(r, region[r].ref + 1, region[r].pgt, region[r].reg, region[r].freed, region[r].gens)
    BY <1>1, <2>1, <2>2, RefUpd, Zenon
  <2>4. Kept
    BY <2>3, Zenon DEF Upd, Kept
  <2>5. Others(t) /\ at'[t] = "fast" /\ held'[t] = r /\ asked'[t] = asked[t]
    BY <1>0, <1>1, Zenon DEF Others, TypeInv
  <2>6. GoodOf(t)'
    <3>1. \A p : ~Pending(p)
      <4>1. \A v \in Threads : at[v] \notin Scanning
        BY <1>0, Alone, Zenon DEF Scanning, Locked
      <4>2. 1 .. Len(inv_q) = {}
        BY <1>1
      <4> QED
        BY <4>1, <4>2, Zenon DEF Pending, Scanning
    <3>2. \A p \in PagesOf(region[r].range) : region[r].gens[p] = gen[p]
      BY <1>1, <2>1, <3>1, Zenon DEF FreshInv, StaleInv
    <3>3. PagesOf(asked[t]) \subseteq PagesOf(region[r].range)
      BY <1>1, <2>1, RangeTypes, RangePages, Zenon
    <3>4. region'[r].range = region[r].range /\ region'[r].gens = region[r].gens
      BY <2>1, <2>4, Zenon DEF Kept
    <3> QED
      BY <1>0, <1>1, <2>5, <3>2, <3>3, <3>4 DEF GoodOf
  <2>7. \A u \in Thread : at[u] \in Unmapping => ~Overlap(asked'[t], asked[u])
    BY <1>0, <2>5, Zenon DEF FreshInv, Apart, Getting, Threads
  <2> QED
    BY <1>0, <2>4, <2>5, <2>6, <2>7, GetFresh, Zenon DEF Scanning
<1>2. ASSUME at' = [at EXCEPT ![t] = "lock"], UNCHANGED <<region, held>>
      PROVE  FreshInv'
  <2>1. Others(t) /\ at'[t] = "lock"
    BY <1>0, <1>2, Zenon DEF Others, TypeInv
  <2>2. Quiet(t)
    BY <1>0, <2>1, Zenon DEF Quiet, Has, Getting, Unmapping, Unmapped
  <2> QED
    BY <1>0, <1>2, <2>1, <2>2, SameKept, QuietStep, Zenon DEF Scanning
<1> QED
  BY <1>1, <1>2, Zenon DEF GetFast, Goto

\* The gc list is worked off: the get goes on to look for overlaps.
LEMMA CheckGcListFresh ==
    ASSUME TypeInv, LockInv, CountInv, FreshInv, NEW t \in Threads, CheckGcList(t)
    PROVE  FreshInv'
<1>0. /\ at[t] = "gc" /\ held[t] = NoRegion /\ UNCHANGED <<inv_q, gen, asked, fresh>>
  BY NothingHeld, Zenon DEF CheckGcList, Empty
<1>1. CASE gc_list = <<>> /\ t = Async
  <2>1. /\ UNCHANGED <<region, held>> /\ at' = [at EXCEPT ![t] = "idle"]
        /\ span' = [span EXCEPT ![t] = asked[t]]
    BY <1>1, Zenon DEF CheckGcList, Goto, cache
  <2>2. Others(t) /\ at'[t] = "idle" /\ held'[t] = NoRegion
    BY <1>0, <2>1, Zenon DEF Others, TypeInv
  <2>3. Quiet(t)
    BY <1>0, <2>2, Zenon DEF Quiet, Has, Getting, Unmapping, Unmapped
  <2> QED
    BY <1>0, <2>1, <2>2, <2>3, SameKept, QuietStep, Zenon DEF Scanning
<1>2. CASE gc_list = <<>> /\ t # Async
  <2>1. /\ UNCHANGED <<region, held>> /\ at' = [at EXCEPT ![t] = "overlap"]
        /\ span' = [span EXCEPT ![t] = asked[t]]
    BY <1>2, Zenon DEF CheckGcList, Goto, cache
  <2>2. Others(t) /\ at'[t] = "overlap" /\ span'[t] = asked[t] /\ asked'[t] = asked[t]
    BY <1>0, <2>1, Zenon DEF Others, TypeInv
  <2>3. t \in Thread /\ Thread \subseteq Threads /\ asked[t] \in Ranges
    BY <1>2, RangeTypes, Zenon DEF Threads
  <2>4. PendingKept /\ QueueKept
    BY <1>0, <2>2, PendingFrame, Zenon DEF Others, Scanning
  <2>5. \A v \in Threads : v # t => Quiet(v)
    BY <2>2, OthersQuiet, Zenon
  <2>6. \A v \in Thread : v # t => QueueOf(v)'
    BY <2>3, <2>4, <2>5, QuietQueue, Zenon DEF FreshInv
  <2>7. SpanOf(t)' /\ GoneReg(t)' /\ GoodOf(t)'
    <3>1. Covers(asked[t], asked[t])
      BY <2>3, RangePages, Zenon
    <3> QED
      BY <2>2, <3>1, Zenon DEF SpanOf, GoneReg, GoodOf, Unmapped, Has
  <2>8. \A u \in Thread : at[u] \in Unmapping => ~Overlap(asked[t], asked[u])
    BY <1>0, <2>3, Zenon DEF FreshInv, Apart, Getting
  <2>9. ASSUME NEW u \in Threads PROVE GoneSpan(t, u)' /\ GoneSpan(u, t)'
    <3>1. GoneSpan(t, u)'
      BY <2>2, Zenon DEF GoneSpan, Unmapped
    <3>2. ASSUME at'[u] \in Unmapped, NEW p \in PagesOf(asked'[u]), p \in PagesOf(span'[t])
          PROVE  FALSE
      <4>1. u # t /\ at[u] \in Unmapped /\ asked'[u] = asked[u] /\ asked[u] \in Ranges
        BY <2>2, <3>2, RangeTypes, Zenon DEF Unmapped, Others
      <4>2. u \in Thread
        BY <4>1, Zenon DEF LockInv, Unmapped, Threads
      <4>3. Overlap(asked[t], asked[u])
        BY <2>2, <2>3, <3>2, <4>1, RangePages, Zenon
      <4> QED
        BY <2>8, <4>1, <4>2, <4>3, Zenon DEF Unmapped, Unmapping
    <3> QED
      BY <3>1, <3>2, Zenon DEF GoneSpan
  <2>10. QueueOf(t)'
    BY <1>0, <2>2, <2>3, Zenon DEF FreshInv, QueueOf
  <2>11. \A u \in Thread : Apart(t, u)' /\ Apart(u, t)'
    BY <2>2, <2>3, <2>8, Zenon DEF Apart, Unmapping, Others
  <2> QED
    BY <1>0, <2>1, <2>4, <2>5, <2>6, <2>7, <2>9, <2>10, <2>11, SameKept, KeptFresh, Zenon
<1>3. CASE gc_list # <<>>
  <2> DEFINE r == Head(gc_list)
  <2>1. r \in 1 .. Len(region) /\ UNCHANGED span
    BY <1>3 DEF CheckGcList, TypeInv
  <2>2. CASE region[r].reg
    <3>1. UNCHANGED region /\ at' = [at EXCEPT ![t] = "dereg"] /\ held' = [held EXCEPT ![t] = r]
      BY <1>3, <2>2, Zenon DEF CheckGcList, Goto
    <3>2. Others(t) /\ at'[t] = "dereg"
      BY <1>0, <2>1, <3>1, Zenon DEF Others, TypeInv
    <3>3. Quiet(t)
      BY <1>0, <3>2, Zenon DEF Quiet, Has, Getting, Unmapping, Unmapped
    <3> QED
      BY <1>0, <3>1, <3>2, <3>3, SameKept, QuietStep, Zenon DEF Scanning
  <2>3. CASE ~region[r].reg
    <3>1. Destroy(r) /\ UNCHANGED <<at, held>>
      BY <1>3, <2>3, Zenon DEF CheckGcList
    <3>2. Others(t)
      BY <1>0, <2>1, <3>1, Zenon DEF Others
    <3>3. Quiet(t)
      BY <1>0, <2>1, <3>1, Zenon DEF Quiet, Has
    <3>4. Kept
      BY <2>1, <3>1, DestroyKept, Zenon
    <3> QED
      BY <1>0, <2>1, <3>1, <3>2, <3>3, <3>4, QuietStep, Zenon
  <2> QED
    BY <2>2, <2>3, Zenon
<1> QED
  BY <1>1, <1>2, <1>3, Zenon

\* A region of the page table that covers the range is held.
LEMMA OverlapHoldFresh ==
    ASSUME TypeInv, LockInv, CountInv, FreshInv, NEW t \in Thread, t \in Threads, at[t] = "overlap",
           NEW r \in 1 .. Len(region), region[r].pgt, region[r].reg, Covers(region[r].range, span[t]),
           Kept, UNCHANGED <<gen, inv_q>>, Others(t), at'[t] = "idle", held'[t] = r,
           asked'[t] = asked[t]
    PROVE  FreshInv'
<1>1. /\ Covers(span[t], asked[t]) /\ region[r].range \in Ranges /\ span[t] \in Ranges
      /\ asked[t] \in Ranges
  BY RangeTypes, Zenon DEF FreshInv, SpanOf
<1>2. Covers(region[r].range, asked[t])
  BY <1>1, CoversTrans, Zenon
<1>3. PagesOf(asked[t]) \subseteq PagesOf(region[r].range)
  BY <1>1, <1>2, RangePages, Zenon
<1>4. ASSUME NEW p \in PagesOf(asked[t]), Pending(p) PROVE FALSE
  <2>1. \A v \in Threads : at[v] \notin Scanning
    <3>1. ASSUME NEW v \in Threads, at[v] \in Scanning PROVE v = t
      BY <3>1, Alone, Zenon DEF Scanning, Locked
    <3> QED
      BY <3>1, Zenon DEF Scanning
  <2>2. PICK i \in 1 .. Len(inv_q) : p \in PagesOf(inv_q[i])
    BY <1>4, <2>1, Zenon DEF Pending, Scanning
  <2>3. inv_q[i] \in Ranges
    BY RangeTypes, Zenon
  <2>4. Overlap(inv_q[i], asked[t])
    BY <1>1, <1>4, <2>2, <2>3, RangePages, Zenon
  <2> QED
    BY <2>4, Zenon DEF FreshInv, QueueOf
<1>5. \A p \in PagesOf(asked[t]) : region[r].gens[p] = gen[p]
  BY <1>3, <1>4, Zenon DEF FreshInv, StaleInv
<1>6. GoodOf(t)'
  <2>1. region'[r].range = region[r].range /\ region'[r].gens = region[r].gens
    BY Zenon DEF Kept
  <2> QED
    BY <1>2, <1>5, <2>1, Zenon DEF GoodOf
<1>7. \A u \in Thread : at[u] \in Unmapping => ~Overlap(asked'[t], asked[u])
  BY Zenon DEF FreshInv, Apart, Getting
<1> QED
  BY <1>6, <1>7, GetFresh, Zenon DEF Scanning

\* Another region that shares a page is merged.
LEMMA OverlapMergeFresh ==
    ASSUME TypeInv, LockInv, CountInv, FreshInv, NEW t \in Thread, t \in Threads, at[t] = "overlap",
           NEW r \in 1 .. Len(region), region[r].pgt, Overlap(region[r].range, asked[t]),
           Kept, UNCHANGED <<gen, inv_q>>, Others(t), at'[t] = at[t], asked'[t] = asked[t],
           span'[t] = Merge(span[t], region[r].range)
    PROVE  FreshInv'
<1>1. /\ Covers(span[t], asked[t]) /\ region[r].range \in Ranges /\ span[t] \in Ranges
      /\ asked[t] \in Ranges
  BY RangeTypes, Zenon DEF FreshInv, SpanOf
<1>2. Overlap(span[t], region[r].range)
  <2>1. Covers(span[t], span[t])
    BY <1>1, RangePages, Zenon
  <2>2. Overlap(region[r].range, span[t])
    BY <1>1, <2>1, CoversTrans, Zenon
  <2> QED
    BY <1>1, <2>2, RangePages, Zenon
<1>3. /\ Covers(span'[t], asked[t])
      /\ \A p \in PagesOf(span'[t]) : p \in PagesOf(span[t]) \/ p \in PagesOf(region[r].range)
      /\ \A x \in Ranges : Overlap(x, span'[t]) => Overlap(x, span[t]) \/ Overlap(x, region[r].range)
  BY <1>1, <1>2, MergeFacts, Zenon
<1>4. PendingKept /\ QueueKept
  BY PendingFrame, Zenon DEF Others, Scanning
<1>5. \A v \in Threads : v # t => Quiet(v)
  BY OthersQuiet, Zenon
<1>6. Thread \subseteq Threads
  BY Zenon DEF Threads
<1>7. \A v \in Thread : v # t => QueueOf(v)'
  BY <1>4, <1>5, <1>6, QuietQueue, Zenon DEF FreshInv
<1>8. SpanOf(t)'
  <2>1. ASSUME NEW s \in 1 .. Len(region), region[s].pgt, Overlap(region[s].range, span'[t])
        PROVE  Overlap(region[s].range, asked[t])
    <3>1. Overlap(region[s].range, span[t]) \/ Overlap(region[s].range, region[r].range)
      BY <1>3, <2>1, RangeTypes, Zenon
    <3>2. CASE Overlap(region[s].range, span[t])
      BY <2>1, <3>2, Zenon DEF FreshInv, SpanOf
    <3>3. CASE Overlap(region[s].range, region[r].range)
      BY <2>1, <3>3, Zenon DEF FreshInv, Disjoint
    <3> QED
      BY <3>1, <3>2, <3>3, Zenon
  <2> QED
    BY <1>3, <2>1, Zenon DEF SpanOf, Kept
<1>9. GoneReg(t)' /\ GoodOf(t)'
  BY Zenon DEF GoneReg, GoodOf, Unmapped, Has
<1>10. ASSUME NEW u \in Threads PROVE GoneSpan(t, u)' /\ GoneSpan(u, t)'
  <2>1. GoneSpan(t, u)'
    BY Zenon DEF GoneSpan, Unmapped
  <2>2. ASSUME at'[u] \in Unmapped, NEW p \in PagesOf(asked'[u]), p \in PagesOf(span'[t])
        PROVE  Pending(p)'
    <3>1. u # t /\ at[u] \in Unmapped /\ p \in PagesOf(asked[u])
      BY <2>2, Zenon DEF Unmapped, Others
    <3>2. p \in PagesOf(span[t]) \/ p \in PagesOf(region[r].range)
      BY <1>3, <2>2, Zenon
    <3>3. Pending(p)
      BY <3>1, <3>2, Zenon DEF FreshInv, GoneSpan, GoneReg
    <3> QED
      BY <1>4, <3>3, Zenon DEF PendingKept, Clear
  <2> QED
    BY <2>1, <2>2, Zenon DEF GoneSpan
<1>11. QueueOf(t)'
  BY Zenon DEF FreshInv, QueueOf
<1>12. \A u \in Thread : Apart(t, u)' /\ Apart(u, t)'
  <2>1. \A u \in Thread : at[u] \in Unmapping => ~Overlap(asked[t], asked[u])
    BY Zenon DEF FreshInv, Apart, Getting
  <2> QED
    BY <1>6, <2>1, Zenon DEF Apart, Unmapping, Others
<1> QED
  BY <1>4, <1>5, <1>7, <1>8, <1>9, <1>10, <1>11, <1>12, KeptFresh, Zenon

\* Nothing shares a page any longer: a region of the merged range is added.
LEMMA OverlapCreateFresh ==
    ASSUME TypeInv, LockInv, CountInv, FreshInv, NEW t \in Thread, t \in Threads, at[t] = "overlap",
           \A r \in 1 .. Len(region) : region[r].pgt => ~Overlap(region[r].range, asked[t]),
           NEW v \in Region, v.range = span[t], ~v.reg, NEW n, n = Len(region) + 1,
           region' = Append(region, v), UNCHANGED <<gen, inv_q>>, Others(t), at'[t] = "register",
           held'[t] = n, asked'[t] = asked[t]
    PROVE  FreshInv'
<1>1. /\ Covers(span[t], asked[t]) /\ span[t] \in Ranges
      /\ \A r \in 1 .. Len(region) : region[r].pgt => ~Overlap(region[r].range, span[t])
  BY RangeTypes, Zenon DEF FreshInv, SpanOf
<1>2. /\ Len(region') = n /\ region'[n] = v /\ Len(region) \in Nat
      /\ \A r \in 1 .. n : r = n \/ (r \in 1 .. Len(region) /\ region'[r] = region[r])
      /\ \A r \in 1 .. Len(region) : r \in 1 .. n /\ region'[r] = region[r]
  <2>1. region \in Seq(Region)
    BY Zenon DEF TypeInv
  <2> QED
    BY <2>1
<1>3. \A u \in Threads : u # t => at[u] \notin {"overlap", "register"} \cup Scanning
  BY Alone, Zenon DEF Locked, Scanning
<1>4. PendingKept /\ QueueKept
  BY PendingFrame, Zenon DEF Others, Scanning
<1>5. \A p : Pending(p) => Pending(p)'
  <2>1. ASSUME NEW p, NEW u \in Threads, at[u] \in Scanning, p \in PagesOf(span[u]) PROVE FALSE
    BY <1>3, <2>1, Zenon DEF Scanning
  <2> QED
    BY <2>1, Zenon DEF Pending, Scanning
<1>6. \A u \in Threads : u # t => Quiet(u)
  BY OthersQuiet, Zenon
<1>7. Thread \subseteq Threads
  BY Zenon DEF Threads
<1>8. Disjoint'
  <2>1. ASSUME NEW r \in 1 .. n, NEW s \in 1 .. n, region'[r].pgt, region'[s].pgt,
               Overlap(region'[r].range, region'[s].range)
        PROVE  r = s
    <3>1. CASE r = n /\ s # n
      <4>1. s \in 1 .. Len(region) /\ region[s].pgt /\ Overlap(span[t], region[s].range)
        BY <1>2, <2>1, <3>1, Zenon
      <4>2. Overlap(region[s].range, span[t])
        BY <1>1, <4>1, RangeTypes, RangePages, Zenon
      <4> QED
        BY <1>1, <4>1, <4>2, Zenon
    <3>2. CASE r # n /\ s = n
      BY <1>1, <1>2, <2>1, <3>2, Zenon
    <3>3. CASE r # n /\ s # n
      BY <1>2, <2>1, <3>3, Zenon DEF FreshInv, Disjoint
    <3> QED
      BY <3>1, <3>2, <3>3, Zenon
  <2> QED
    BY <1>2, <2>1, Zenon DEF Disjoint
<1>9. StaleInv'
  BY <1>2, <1>5 DEF FreshInv, StaleInv
<1>10. ASSUME NEW u \in Threads PROVE SpanOf(u)' /\ GoneReg(u)' /\ GoodOf(u)'
  <2>1. CASE u = t
    <3>1. SpanOf(t)'
      BY <1>1, <1>2, Zenon DEF SpanOf
    <3> QED
      BY <2>1, <3>1, Zenon DEF GoneReg, GoodOf, Unmapped, Has
  <2>2. CASE u # t
    <3>1. at'[u] = at[u] /\ held'[u] = held[u] /\ asked'[u] = asked[u] /\ Has(u)' = Has(u)
      BY <1>10, <2>2, OthersQuiet, Zenon DEF Others
    <3>2. SpanOf(u)'
      BY <1>3, <2>2, <3>1, Zenon DEF SpanOf
    <3>3. GoneReg(u)'
      <4>1. ASSUME at[u] \in Unmapped, NEW p \in PagesOf(asked[u]), NEW r \in 1 .. n,
                   region'[r].pgt, p \in PagesOf(region'[r].range)
            PROVE  Pending(p)
        <5>1. CASE r = n
          BY <1>2, <4>1, <5>1, Zenon DEF FreshInv, GoneSpan
        <5>2. CASE r # n
          BY <1>2, <4>1, <5>2, Zenon DEF FreshInv, GoneReg
        <5> QED
          BY <5>1, <5>2, Zenon
      <4> QED
        BY <1>2, <1>5, <3>1, <4>1, Zenon DEF GoneReg
    <3>4. GoodOf(u)'
      <4>1. Has(u) => region'[held[u]] = region[held[u]]
        BY <1>2, HasHeld, Zenon
      <4> QED
        BY <3>1, <4>1, Zenon DEF FreshInv, GoodOf
    <3> QED
      BY <3>2, <3>3, <3>4, Zenon
  <2> QED
    BY <2>1, <2>2, Zenon
<1>11. ASSUME NEW u \in Threads, NEW w \in Threads PROVE GoneSpan(u, w)'
  BY <1>3, Zenon DEF GoneSpan, Others
<1>12. ASSUME NEW u \in Thread PROVE QueueOf(u)'
  <2>1. CASE u = t
    BY <2>1, Zenon DEF QueueOf
  <2>2. CASE u # t
    BY <1>4, <1>6, <1>7, <2>2, QuietQueue, Zenon DEF FreshInv
  <2> QED
    BY <2>1, <2>2, Zenon
<1>13. ASSUME NEW u \in Thread, NEW w \in Thread PROVE Apart(u, w)'
  <2>1. \A x \in Thread : at[x] \in Unmapping => ~Overlap(asked[t], asked[x])
    BY Zenon DEF FreshInv, Apart, Getting
  <2>2. CASE u = t \/ w = t
    BY <1>7, <2>1, <2>2, Zenon DEF Apart, Unmapping, Others
  <2>3. CASE u # t /\ w # t
    BY <1>6, <1>7, <2>3, QuietApart, Zenon DEF FreshInv
  <2> QED
    BY <2>2, <2>3, Zenon
<1> QED
  BY <1>8, <1>9, <1>10, <1>11, <1>12, <1>13, Zenon DEF FreshInv

\* check_overlap: a region is held, or merged, or a new one is added.
LEMMA CheckOverlapFresh ==
    ASSUME TypeInv, LockInv, CountInv, FreshInv, NEW t \in Threads, CheckOverlap(t)
    PROVE  FreshInv'
<1>0. /\ at[t] = "overlap" /\ t # Async /\ t \in Thread
      /\ UNCHANGED <<inv_q, gen, asked, fresh>>
  BY Zenon DEF CheckOverlap, LockInv, Threads
<1>f. \A r \in FirstOf(Found(asked[t])) :
         r \in 1 .. Len(region) /\ region[r].pgt /\ Overlap(region[r].range, asked[t])
  BY DEF FirstOf, Found, InPgt, TypeInv
<1>r. region \in Seq(Region) /\ span[t] \in Ranges /\ gen \in [Page -> Nat]
  BY Zenon DEF TypeInv
<1>1. ASSUME NEW r \in FirstOf(Found(asked[t])), region[r].reg, Covers(region[r].range, span[t]),
             region' = [region EXCEPT ![r].ref = @ + 1],
             held' = [held EXCEPT ![t] = r], at' = [at EXCEPT ![t] = "idle"],
             span' = [span EXCEPT ![t] = NoRange]
      PROVE  FreshInv'
  <2>1. r \in 1 .. Len(region) /\ region[r].pgt /\ region[r].ref + 1 \in Nat
    BY <1>1, <1>f, <1>r, RegionFields
  <2>2. Upd(r, region[r].ref + 1, region[r].pgt, region[r].reg, region[r].freed, region[r].gens)
    BY <1>1, <1>r, <2>1, RefUpd, Zenon
  <2>3. Kept
    BY <2>2, Zenon DEF Upd, Kept
  <2>4. Others(t) /\ at'[t] = "idle" /\ held'[t] = r /\ asked'[t] = asked[t]
    BY <1>0, <1>1, Zenon DEF Others, TypeInv
  <2> QED
    BY <1>0, <1>1, <2>1, <2>3, <2>4, OverlapHoldFresh, Zenon
<1>2. ASSUME NEW r \in FirstOf(Found(asked[t])),
             InvalidateRegion(r, FALSE, region[r].waiting),
             span' = [span EXCEPT ![t] = Merge(span[t], region[r].range)], UNCHANGED <<at, held>>
      PROVE  FreshInv'
  <2>1. r \in 1 .. Len(region) /\ region[r].pgt /\ Overlap(region[r].range, asked[t])
    BY <1>2, <1>f, Zenon
  <2>2. region[r].waiting \in BOOLEAN /\ region[r].ref >= 1
    BY <1>r, <2>1, RegionFields, PgtRef, Zenon
  <2>3. Kept
    BY <1>2, <2>1, <2>2, InvalidateKept, Zenon
  <2>4. /\ Others(t) /\ at'[t] = at[t] /\ asked'[t] = asked[t]
        /\ span'[t] = Merge(span[t], region[r].range)
    BY <1>0, <1>2, Zenon DEF Others, TypeInv
  <2> QED
    BY <1>0, <2>1, <2>3, <2>4, OverlapMergeFresh, Zenon
<1>3. ASSUME Found(asked[t]) = {}, NEW v,
             v = [range |-> span[t], ref |-> 1, pgt |-> TRUE, reg |-> FALSE,
                  freed |-> FALSE, waiting |-> FALSE, gens |-> gen],
             region' = Append(region, v),
             held' = [held EXCEPT ![t] = Len(region) + 1], at' = [at EXCEPT ![t] = "register"],
             span' = [span EXCEPT ![t] = NoRange]
      PROVE  FreshInv'
  <2>1. v \in Region /\ v.range = span[t] /\ ~v.reg
    BY <1>3, <1>r, Zenon DEF Region
  <2>2. \A r \in 1 .. Len(region) : region[r].pgt => ~Overlap(region[r].range, asked[t])
    BY <1>3 DEF Found, InPgt, TypeInv
  <2>3. Others(t) /\ at'[t] = "register" /\ asked'[t] = asked[t]
    BY <1>0, <1>3, Zenon DEF Others, TypeInv
  <2>4. PICK n : n = Len(region) + 1
    BY Zenon
  <2>5. held'[t] = n
    BY <1>3, <2>4, Zenon DEF TypeInv
  <2> QED
    BY <1>0, <1>3, <2>1, <2>2, <2>3, <2>4, <2>5, OverlapCreateFresh, SMTT(30)
<1> QED
  BY <1>1, <1>2, <1>3, Zenon DEF CheckOverlap, Goto

\* mem_reg succeeded: the region is registered as the memory is now.
LEMMA RegisterFresh ==
    ASSUME TypeInv, LockInv, CountInv, FreshInv, NEW t \in Thread, t \in Threads,
           at[t] = "register", NEW r, r = held[t],
           region' = [region EXCEPT ![r].reg = TRUE, ![r].ref = 2, ![r].gens = gen],
           at' = [at EXCEPT ![t] = "evict"], UNCHANGED <<held, asked, fresh, inv_q, gen, span>>
    PROVE  FreshInv'
<1>r. /\ region \in Seq(Region) /\ gen \in [Page -> Nat] /\ r \in 1 .. Len(region)
      /\ region[r].pgt /\ r # NoRegion /\ ~region[r].reg
  BY SomethingHeld, Zenon DEF Full, TypeInv, CountInv, HeldInv, HeldOf
<1>1. Upd(r, 2, region[r].pgt, TRUE, region[r].freed, gen)
  BY <1>r, RegisterUpd, Zenon
<1>2. /\ Len(region') = Len(region) /\ region'[r].gens = gen
      /\ \A s \in 1 .. Len(region) :
            /\ region'[s].range = region[s].range /\ region'[s].pgt = region[s].pgt
            /\ s # r => region'[s].gens = region[s].gens /\ region'[s].reg = region[s].reg
  BY <1>r, <1>1, Zenon DEF Upd
<1>3. Others(t) /\ at'[t] = "evict"
  BY Zenon DEF Others, TypeInv
<1>4. PendingKept /\ QueueKept
  BY <1>3, PendingFrame, Zenon DEF Others, Scanning
<1>5. \A p : Pending(p) => Pending(p)'
  <2>1. ASSUME NEW p, NEW v \in Threads, at[v] \in Scanning, p \in PagesOf(span[v])
        PROVE  at'[v] \in Scanning /\ p \in PagesOf(span'[v])
    BY <1>3, <2>1, Zenon DEF Others, Scanning
  <2> QED
    BY <2>1, Zenon DEF Pending, Scanning
<1>6. \A u \in Threads : u # t => Quiet(u) /\ Has(u)' = Has(u)
  BY <1>3, OthersQuiet, Zenon
<1>7. Thread \subseteq Threads
  BY Zenon DEF Threads
<1>8. Disjoint'
  BY <1>2, SMTT(30) DEF FreshInv, Disjoint
<1>9. StaleInv'
  <2>1. ASSUME NEW s \in 1 .. Len(region'), region'[s].pgt, region'[s].reg,
               NEW p \in PagesOf(region'[s].range), region'[s].gens[p] # gen'[p]
        PROVE  Pending(p)'
    <3>1. s # r /\ s \in 1 .. Len(region) /\ region'[s].gens[p] # gen[p]
      BY <1>2, <2>1, Zenon
    <3> QED
      BY <1>2, <1>5, <2>1, <3>1, Zenon DEF FreshInv, StaleInv
  <2> QED
    BY <2>1, Zenon DEF StaleInv
<1>10. ASSUME NEW u \in Threads PROVE SpanOf(u)' /\ GoneReg(u)' /\ GoodOf(u)'
  <2>1. CASE u = t
    <3>1. Covers(region'[r].range, asked[t])
      BY <1>r, <1>2 DEF FreshInv, SpanOf
    <3>2. GoodOf(t)'
      BY <1>2, <3>1, Zenon DEF GoodOf
    <3> QED
      BY <1>3, <2>1, <3>2, Zenon DEF SpanOf, GoneReg, Unmapped
  <2>2. CASE u # t
    <3>1. at'[u] = at[u] /\ at[u] # "register"
      <4>1. at[u] # "register"
        BY <2>2, Alone, Zenon DEF Locked
      <4> QED
        BY <1>3, <2>2, <4>1, Zenon DEF Others
    <3>2. SpanOf(u)'
      BY <1>2, <3>1, Zenon DEF FreshInv, SpanOf
    <3>3. GoneReg(u)'
      BY <1>2, <1>5, <3>1, Zenon DEF FreshInv, GoneReg
    <3>4. GoodOf(u)'
      <4>1. ASSUME Has(u) PROVE held[u] \in 1 .. Len(region) /\ held[u] # r
        BY <1>r, <3>1, <4>1, HasHeld, Zenon DEF CountInv, HeldInv, HeldOf
      <4> QED
        BY <1>2, <1>6, <2>2, <4>1 DEF FreshInv, GoodOf
    <3> QED
      BY <3>2, <3>3, <3>4, Zenon
  <2> QED
    BY <2>1, <2>2, Zenon
<1>11. ASSUME NEW u \in Threads, NEW w \in Threads PROVE GoneSpan(u, w)'
  <2>1. w # t => at[w] # "overlap"
    BY Alone, Zenon DEF Locked
  <2> QED
    BY <1>3, <2>1, Zenon DEF GoneSpan, Others
<1>12. ASSUME NEW u \in Thread PROVE QueueOf(u)'
  <2>1. CASE u = t
    BY <1>3, <2>1, Zenon DEF QueueOf
  <2>2. CASE u # t
    BY <1>4, <1>6, <1>7, <2>2, QuietQueue, Zenon DEF FreshInv
  <2> QED
    BY <2>1, <2>2, Zenon
<1>13. ASSUME NEW u \in Thread, NEW w \in Thread PROVE Apart(u, w)'
  <2>1. \A x \in Thread : at[x] \in Unmapping => ~Overlap(asked[t], asked[x])
    BY Zenon DEF FreshInv, Apart, Getting
  <2>2. CASE u = t \/ w = t
    BY <1>3, <1>7, <2>1, <2>2, Zenon DEF Apart, Unmapping, Others
  <2>3. CASE u # t /\ w # t
    BY <1>6, <1>7, <2>3, QuietApart, Zenon DEF FreshInv
  <2> QED
    BY <2>2, <2>3, Zenon
<1> QED
  BY <1>8, <1>9, <1>10, <1>11, <1>12, <1>13, Zenon DEF FreshInv

\* mem_reg of a region: it may fail.
LEMMA MemRegFresh ==
    ASSUME TypeInv, LockInv, CountInv, FreshInv, NEW t \in Threads, NEW ok \in BOOLEAN, MemReg(t, ok)
    PROVE  FreshInv'
<1>p. PICK r : r = held[t]
  BY Zenon
<1>0. /\ at[t] = "register" /\ t # Async /\ t \in Thread /\ UNCHANGED <<inv_q, gen, span>>
  BY Zenon DEF MemReg, LockInv, Threads
<1>r. region \in Seq(Region) /\ r \in 1 .. Len(region) /\ region[r].pgt
  BY <1>0, <1>p, SomethingHeld, Zenon DEF Full, TypeInv, CountInv, HeldInv, HeldOf
<1>1. ASSUME region' = [region EXCEPT ![r].reg = TRUE, ![r].ref = 2, ![r].gens = gen],
             at' = [at EXCEPT ![t] = "evict"], UNCHANGED <<held, asked, fresh>>
      PROVE  FreshInv'
  BY <1>0, <1>p, <1>1, RegisterFresh, Zenon
<1>2. ASSUME InvalidateRegion(r, FALSE, region[r].waiting),
             held' = [held EXCEPT ![t] = NoRegion], at' = [at EXCEPT ![t] = "inv"],
             UNCHANGED <<asked, fresh>>
      PROVE  FreshInv'
  <2>1. region[r].waiting \in BOOLEAN /\ region[r].ref >= 1
    BY <1>r, RegionFields, PgtRef, Zenon
  <2>2. Kept
    BY <1>2, <1>r, <2>1, InvalidateKept, Zenon
  <2>3. Others(t) /\ at'[t] = "inv" /\ asked'[t] = asked[t]
    BY <1>0, <1>2, Zenon DEF Others, TypeInv
  <2>4. Quiet(t)
    BY <1>0, <2>3, Zenon DEF Quiet, Has, Getting, Unmapping, Unmapped
  <2> QED
    BY <1>0, <2>2, <2>3, <2>4, QuietStep, Zenon DEF Scanning
<1>3. ASSUME held' = [held EXCEPT ![t] = NoRegion], at' = [at EXCEPT ![t] = "idle"],
             asked' = [asked EXCEPT ![t] = NoRange], fresh' = [fresh EXCEPT ![t] = FALSE],
             UNCHANGED region
      PROVE  FreshInv'
  <2>1. Others(t) /\ at'[t] = "idle" /\ held'[t] = NoRegion
    BY <1>0, <1>3, Zenon DEF Others, TypeInv
  <2>2. Quiet(t)
    BY <1>0, <2>1, Zenon DEF Quiet, Has, Getting, Unmapping, Unmapped
  <2> QED
    BY <1>0, <1>3, <2>1, <2>2, SameKept, QuietStep, Zenon DEF Scanning
<1> QED
  BY <1>p, <1>1, <1>2, <1>3, Zenon DEF MemReg, Goto, cache

\* A thread begins to unmap memory that nobody gets: what others have of it is not to be used.
LEMMA StartUnmapFresh ==
    ASSUME TypeInv, CountInv, FreshInv, NEW t \in Thread, NEW g \in Ranges, StartUnmap(t, g)
    PROVE  FreshInv'
<1>0. /\ at[t] = "idle" /\ held[t] = NoRegion /\ t \in Threads /\ at' = [at EXCEPT ![t] = "unmap"]
      /\ ~InUse(Getting \cup Unmapping, g) /\ asked' = [asked EXCEPT ![t] = g]
      /\ fresh' = [u \in Threads |-> u # t /\ fresh[u] /\ ~Overlap(asked[u], g)]
      /\ UNCHANGED <<region, inv_q, gen, held, span>>
  BY Zenon DEF StartUnmap, Goto, cache, Threads
<1>1. /\ at'[t] = "unmap" /\ asked'[t] = g
      /\ \A u \in Threads : u # t => at'[u] = at[u] /\ asked'[u] = asked[u] /\ span'[u] = span[u]
      /\ \A u \in Threads : fresh'[u] => fresh[u] /\ ~Overlap(asked[u], g)
  <2>1. /\ at'[t] = "unmap" /\ asked'[t] = g
        /\ \A u \in Threads : u # t => at'[u] = at[u] /\ asked'[u] = asked[u] /\ span'[u] = span[u]
    BY <1>0, Zenon DEF TypeInv
  <2>2. ASSUME NEW u \in Threads, fresh'[u] PROVE fresh[u] /\ ~Overlap(asked[u], g)
    <3>1. fresh'[u] = (u # t /\ fresh[u] /\ ~Overlap(asked[u], g))
      BY <1>0, Zenon
    <3> QED
      BY <2>2, <3>1, Zenon
  <2> QED
    BY <2>1, <2>2, Zenon
<1>2. PendingKept /\ QueueKept
  BY <1>0, <1>1, PendingFrame, Zenon DEF Scanning
<1>3. ASSUME NEW v \in Threads, v # t PROVE Quiet(v)
  <2>1. Has(v)' => Has(v)
    BY <1>0, <1>1, <1>3, Zenon DEF Has
  <2> QED
    BY <1>0, <1>1, <1>3, <2>1, Zenon DEF Quiet
<1>4. Thread \subseteq Threads
  BY Zenon DEF Threads
<1>5. \A v \in Thread : v # t => QueueOf(v)'
  BY <1>2, <1>3, <1>4, QuietQueue, Zenon DEF FreshInv
<1>6. SpanOf(t)' /\ GoneReg(t)' /\ GoodOf(t)' /\ QueueOf(t)'
  BY <1>1, Zenon DEF SpanOf, GoneReg, GoodOf, QueueOf, Unmapped, Has
<1>7. \A u \in Threads : GoneSpan(t, u)' /\ GoneSpan(u, t)'
  BY <1>1, Zenon DEF GoneSpan, Unmapped
<1>8. ASSUME NEW u \in Thread PROVE Apart(t, u)' /\ Apart(u, t)'
  <2>1. at'[t] \notin Getting /\ ~Has(t)'
    BY <1>1, Zenon DEF Getting, Has
  <2>2. Apart(t, u)'
    BY <2>1, Zenon DEF Apart
  <2>3. ASSUME u # t, at'[u] \in Getting \/ Has(u)' PROVE ~Overlap(asked'[u], asked'[t])
    <3>1. at[u] \in Getting => ~Overlap(asked[u], g)
      BY <1>0, Zenon DEF InUse
    <3>2. at[u] \in Getting \/ fresh'[u]
      BY <1>1, <1>4, <2>3, Zenon DEF Has, Getting
    <3> QED
      BY <1>1, <1>4, <2>3, <3>1, <3>2, Zenon
  <2> QED
    BY <2>1, <2>2, <2>3, Zenon DEF Apart
<1> QED
  BY <1>0, <1>2, <1>3, <1>5, <1>6, <1>7, <1>8, SameKept, KeptFresh, Zenon

\* ucs_rcache_unmapped_callback: the event is worked off at once, or put into the queue.
LEMMA UnmappedCallbackFresh ==
    ASSUME TypeInv, LockInv, CountInv, FreshInv, NEW t \in Threads, UnmappedCallback(t)
    PROVE  FreshInv'
<1>0. /\ at[t] = "unmap" /\ t \in Thread /\ UNCHANGED <<region, gen, held, asked, fresh>>
  BY Zenon DEF UnmappedCallback, LockInv, Threads
<1>1. Kept
  BY <1>0, SameKept, Zenon
<1>2. Thread \subseteq Threads
  BY Zenon DEF Threads
<1>a. ASSUME NEW u \in Thread, at[u] \in Getting \/ Has(u) PROVE ~Overlap(asked[t], asked[u])
  <2>1. asked[u] \in Ranges /\ asked[t] \in Ranges
    BY <1>2, RangeTypes, Zenon
  <2>2. ~Overlap(asked[u], asked[t])
    BY <1>0, <1>a, Zenon DEF FreshInv, Apart, Unmapping
  <2> QED
    BY <2>1, <2>2, RangePages, Zenon
<1>b. ASSUME at'[t] \in Unmapped, Others(t), PendingKept, \A v \in Thread : v # t => QueueOf(v)',
             \A p \in PagesOf(asked[t]) : Pending(p)'
      PROVE  FreshInv'
  <2>1. \A v \in Threads : v # t => Quiet(v)
    BY <1>b, OthersQuiet, Zenon
  <2>2. SpanOf(t)' /\ GoodOf(t)' /\ QueueOf(t)'
    BY <1>b, Zenon DEF SpanOf, GoodOf, QueueOf, Unmapped, Has
  <2>3. GoneReg(t)'
    BY <1>0, <1>b, Zenon DEF GoneReg
  <2>4. \A u \in Threads : GoneSpan(t, u)' /\ GoneSpan(u, t)'
    <3>1. at'[t] # "overlap"
      BY <1>b, Zenon DEF Unmapped
    <3> QED
      BY <1>0, <1>b, <3>1, Zenon DEF GoneSpan
  <2>5. ASSUME NEW u \in Thread PROVE Apart(t, u)' /\ Apart(u, t)'
    <3>1. at'[t] \notin Getting /\ ~Has(t)'
      BY <1>b, Zenon DEF Getting, Has, Unmapped
    <3>2. u # t => (at'[u] = at[u] /\ Has(u)' = Has(u))
      BY <1>2, <1>b, OthersQuiet, Zenon DEF Others
    <3>3. Apart(u, t)'
      BY <1>0, <3>1, <3>2, Zenon DEF FreshInv, Apart, Unmapping
    <3> QED
      BY <3>1, <3>3, Zenon DEF Apart
  <2> QED
    BY <1>0, <1>1, <1>b, <2>1, <2>2, <2>3, <2>4, <2>5, KeptFresh, Zenon
<1>3. ASSUME span' = [span EXCEPT ![t] = asked[t]], at' = [at EXCEPT ![t] = "unmap_scan"],
             inv_q' = inv_q
      PROVE  FreshInv'
  <2>1. Others(t) /\ at'[t] = "unmap_scan" /\ span'[t] = asked[t]
    BY <1>0, <1>3, Zenon DEF Others, TypeInv
  <2>2. PendingKept /\ QueueKept
    BY <1>0, <1>3, <2>1, PendingFrame, Zenon DEF Others, Scanning
  <2>3. \A v \in Thread : v # t => QueueOf(v)'
    BY <1>2, <2>1, <2>2, OthersQuiet, QuietQueue, Zenon DEF FreshInv
  <2>4. \A p \in PagesOf(asked[t]) : Pending(p)'
    BY <2>1, Zenon DEF Pending
  <2> QED
    BY <1>b, <2>1, <2>2, <2>3, <2>4, Zenon DEF Unmapped
<1>4. ASSUME inv_q' = Append(inv_q, asked[t]), at' = [at EXCEPT ![t] = "munmap"], span' = span
      PROVE  FreshInv'
  <2>1. Others(t) /\ at'[t] = "munmap"
    BY <1>0, <1>4, Zenon DEF Others, TypeInv
  <2>2. /\ Len(inv_q) \in Nat /\ Len(inv_q') = Len(inv_q) + 1 /\ inv_q'[Len(inv_q')] = asked[t]
        /\ \A i \in 1 .. Len(inv_q) : i \in 1 .. Len(inv_q') /\ inv_q'[i] = inv_q[i]
        /\ Len(inv_q') \in 1 .. Len(inv_q')
        /\ \A i \in 1 .. Len(inv_q') : i \in 1 .. Len(inv_q) \/ i = Len(inv_q')
    <3>1. inv_q \in Seq(Ranges) /\ asked[t] \in Ranges
      BY RangeTypes, Zenon DEF TypeInv
    <3> QED
      BY <1>4, <3>1
  <2>3. PendingKept
    <3>1. ASSUME NEW p, NEW v \in Threads, at[v] \in Scanning, p \in PagesOf(span[v])
          PROVE  at'[v] \in Scanning /\ p \in PagesOf(span'[v])
      BY <1>0, <1>4, <2>1, <3>1, Zenon DEF Others, Scanning
    <3> QED
      BY <2>2, <3>1, Zenon DEF PendingKept, Pending, Scanning
  <2>4. ASSUME NEW v \in Thread, v # t PROVE QueueOf(v)'
    <3>1. ASSUME at[v] \in {"gc", "dereg", "overlap"}, NEW i \in 1 .. Len(inv_q')
          PROVE  ~Overlap(inv_q'[i], asked[v])
      <4>1. ~Overlap(asked[t], asked[v])
        BY <1>a, <3>1, Zenon DEF Getting
      <4>2. \A j \in 1 .. Len(inv_q) : ~Overlap(inv_q[j], asked[v])
        BY <3>1, Zenon DEF FreshInv, QueueOf
      <4> QED
        BY <2>2, <4>1, <4>2, Zenon
    <3> QED
      BY <1>0, <1>2, <2>1, <2>4, <3>1, Zenon DEF QueueOf, Others
  <2>5. \A p \in PagesOf(asked[t]) : Pending(p)'
    BY <2>2, Zenon DEF Pending
  <2> QED
    BY <1>b, <2>1, <2>3, <2>4, <2>5, Zenon DEF Unmapped
<1> QED
  BY <1>3, <1>4, Zenon DEF UnmappedCallback, Goto

\* The memory is unmapped: registrations with these pages are no longer good.
LEMMA MunmapFresh ==
    ASSUME TypeInv, LockInv, CountInv, FreshInv, NEW t \in Threads, Munmap(t)
    PROVE  FreshInv'
<1>0. /\ at[t] = "munmap" /\ t \in Thread /\ UNCHANGED <<region, inv_q, span>>
      /\ gen' = [p \in Page |-> IF p \in PagesOf(asked[t]) THEN gen[p] + 1 ELSE gen[p]]
  BY Zenon DEF Munmap, LockInv, Threads, cache
<1>1. Others(t) /\ at'[t] = "idle" /\ held'[t] = NoRegion
  BY Zenon DEF Munmap, Return, Others, Goto, TypeInv
<1>2. Kept
  BY <1>0, SameKept, Zenon
<1>3. PendingKept /\ QueueKept /\ \A p : Pending(p) => Pending(p)'
  <2>1. PendingKept /\ QueueKept
    BY <1>0, <1>1, PendingFrame, Zenon DEF Others, Scanning
  <2>2. ASSUME NEW p, NEW v \in Threads, at[v] \in Scanning, p \in PagesOf(span[v])
        PROVE  at'[v] \in Scanning /\ p \in PagesOf(span'[v])
    BY <1>0, <1>1, <2>2, Zenon DEF Others, Scanning
  <2> QED
    BY <1>0, <2>1, <2>2, Zenon DEF Pending, Scanning
<1>4. Thread \subseteq Threads
  BY Zenon DEF Threads
<1>5. \A u \in Threads : u # t => Quiet(u) /\ Has(u)' = Has(u) /\ held'[u] = held[u]
                                  /\ asked'[u] = asked[u]
  BY <1>1, OthersQuiet, Zenon DEF Others
<1>6. Disjoint'
  BY <1>0, Zenon DEF FreshInv, Disjoint
<1>7. StaleInv'
  <2>1. ASSUME NEW r \in 1 .. Len(region), region[r].pgt, region[r].reg,
               NEW p \in PagesOf(region[r].range), region[r].gens[p] # gen'[p]
        PROVE  Pending(p)
    <3>1. CASE p \in PagesOf(asked[t])
      BY <1>0, <2>1, <3>1, Zenon DEF FreshInv, GoneReg, Unmapped
    <3>2. CASE p \notin PagesOf(asked[t])
      <4>1. p \in Page
        BY <2>1, RangeTypes, RangePages, Zenon
      <4>2. gen'[p] = gen[p]
        BY <1>0, <3>2, <4>1, Zenon
      <4> QED
        BY <2>1, <4>2, Zenon DEF FreshInv, StaleInv
    <3> QED
      BY <3>1, <3>2, Zenon
  <2> QED
    BY <1>0, <1>3, <2>1, Zenon DEF StaleInv
<1>8. ASSUME NEW u \in Threads PROVE SpanOf(u)' /\ GoneReg(u)' /\ GoodOf(u)'
  <2>1. CASE u = t
    BY <1>1, <2>1, Zenon DEF SpanOf, GoneReg, GoodOf, Unmapped, Has
  <2>2. CASE u # t
    <3>1. SpanOf(u)' /\ GoneReg(u)'
      BY <1>2, <1>3, <1>5, <2>2, QuietSpan, QuietGone, Zenon DEF FreshInv
    <3>2. ASSUME Has(u) PROVE \A p \in PagesOf(asked[u]) : gen'[p] = gen[p]
      <4>1. u \in Thread
        BY <3>2, Zenon DEF Threads, LockInv, Has
      <4>2. ~Overlap(asked[u], asked[t])
        BY <1>0, <3>2, <4>1, Zenon DEF FreshInv, Apart, Unmapping
      <4>3. \A p \in PagesOf(asked[u]) : p \in Page /\ p \notin PagesOf(asked[t])
        BY <4>2, RangeTypes, RangePages, Zenon
      <4> QED
        BY <1>0, <4>3, Zenon
    <3>3. GoodOf(u)'
      BY <1>0, <1>5, <2>2, <3>2 DEF FreshInv, GoodOf
    <3> QED
      BY <3>1, <3>3, Zenon
  <2> QED
    BY <2>1, <2>2, Zenon
<1>9. ASSUME NEW u \in Threads, NEW w \in Threads PROVE GoneSpan(u, w)'
  <2>1. CASE u = t \/ w = t
    BY <1>1, <2>1, Zenon DEF GoneSpan, Unmapped
  <2>2. CASE u # t /\ w # t
    BY <1>3, <1>5, <2>2, QuietPair, Zenon DEF FreshInv
  <2> QED
    BY <2>1, <2>2, Zenon
<1>10. ASSUME NEW u \in Thread PROVE QueueOf(u)'
  <2>1. CASE u = t
    BY <1>1, <2>1, Zenon DEF QueueOf
  <2>2. CASE u # t
    BY <1>3, <1>4, <1>5, <2>2, QuietQueue, Zenon DEF FreshInv
  <2> QED
    BY <2>1, <2>2, Zenon
<1>11. ASSUME NEW u \in Thread, NEW w \in Thread PROVE Apart(u, w)'
  <2>1. CASE u = t \/ w = t
    BY <1>1, <2>1, Zenon DEF Apart, Getting, Has, Unmapping
  <2>2. CASE u # t /\ w # t
    BY <1>4, <1>5, <2>2, QuietApart, Zenon DEF FreshInv
  <2> QED
    BY <2>1, <2>2, Zenon
<1> QED
  BY <1>6, <1>7, <1>8, <1>9, <1>10, <1>11, Zenon DEF FreshInv

\* An empty cache.
LEMMA FreshInit == Init => FreshInv
<1> SUFFICES ASSUME Init PROVE FreshInv
  BY Zenon
<1>1. /\ Len(region) = 0 /\ \A t \in Threads : at[t] = "idle" /\ held[t] = NoRegion
      /\ Thread \subseteq Threads
  BY Zenon DEF Init, Threads
<1>2. Disjoint /\ StaleInv
  BY <1>1 DEF Disjoint, StaleInv
<1>3. \A t \in Threads : SpanOf(t) /\ GoneReg(t) /\ GoodOf(t)
  BY <1>1, Zenon DEF SpanOf, GoneReg, GoodOf, Unmapped, Has
<1>4. \A t, u \in Threads : GoneSpan(t, u)
  BY <1>1, Zenon DEF GoneSpan
<1>5. \A t \in Thread : QueueOf(t)
  BY <1>1, Zenon DEF QueueOf
<1>6. \A t, u \in Thread : Apart(t, u)
  BY <1>1, Zenon DEF Apart, Unmapping
<1> QED
  BY <1>2, <1>3, <1>4, <1>5, <1>6, Zenon DEF FreshInv

\* Every step keeps the invariant.
LEMMA FreshStep == Inv /\ FreshInv /\ [Next]_vars => FreshInv'
<1> SUFFICES ASSUME TypeInv, LockInv, CountInv, FreshInv, [Next]_vars PROVE FreshInv'
  BY DEF Inv
<1>1. ASSUME NEW t \in Threads, Proceed(t) PROVE FreshInv'
  BY <1>1, GetFastFresh, LruGetFresh, LockFresh, CheckInvQueueFresh, InvalidateRangeFresh,
     CheckGcListFresh, DeregDoneFresh, CheckOverlapFresh, LruEvictFresh, EvictFresh, PutFresh,
     PutLockFresh, PutDoneFresh, UnmappedCallbackFresh, MunmapFresh, MemRegFresh, Zenon
     DEF Proceed
<1>2. ASSUME NEW t \in Thread, NEW g \in Ranges, StartGet(t, g) \/ StartUnmap(t, g) PROVE FreshInv'
  BY <1>2, StartGetFresh, StartUnmapFresh, Zenon
<1>3. ASSUME NEW t \in Thread, StartPut(t) \/ Invalidate(t) \/ BeforeFork(t) PROVE FreshInv'
  BY <1>3, StartPutFresh, InvalidateFresh, BeforeForkFresh, Zenon
<1>4. CASE InvalidateHandler
  BY <1>4, InvalidateHandlerFresh, Zenon
<1>5. CASE UNCHANGED vars
  <2>1. UNCHANGED <<region, inv_q, gen, at, held, asked, fresh, span>>
    BY <1>5, Zenon DEF vars, cache, locals
  <2>2. \A v \in Threads : Quiet(v)
    BY <2>1, Zenon DEF Quiet, Has
  <2>3. PendingKept /\ QueueKept
    BY <2>1, Zenon DEF PendingKept, Pending, QueueKept
  <2> QED
    BY <2>1, <2>2, <2>3, SameKept, QuietFresh, Zenon
<1> QED
  BY <1>1, <1>2, <1>3, <1>4, <1>5, Zenon DEF Next

\* Stale registrations are pending, and what a thread may use is none, in every
\* reachable state.
THEOREM FreshInvHolds == Spec => []FreshInv
<1>1. Inv /\ FreshInv /\ [Next]_vars => FreshInv'
  BY FreshStep, Zenon
<1> QED
  BY <1>1, FreshInit, InvHolds, PTL DEF Spec

\* Regions in the page table never share a page: ucs_rcache_check_overlap invalidates
\* the regions that overlap the range asked for, and the merged range that
\* ucs_rcache_create_region then inserts meets no other.
THEOREM PgtDisjointTheorem == Spec => []PgtDisjoint
<1>1. Inv /\ FreshInv => PgtDisjoint
  <2> SUFFICES ASSUME TypeInv, Disjoint, NEW r \in InPgt, NEW s \in InPgt, r # s,
                      NEW p \in PagesOf(region[r].range), p \in PagesOf(region[s].range)
               PROVE  FALSE
    BY Zenon DEF Inv, FreshInv, PgtDisjoint
  <2>1. r \in 1 .. Len(region) /\ s \in 1 .. Len(region) /\ region[r].pgt /\ region[s].pgt
    BY DEF InPgt, TypeInv
  <2>2. Overlap(region[r].range, region[s].range)
    BY <2>1, RangeTypes, RangePages, Zenon
  <2> QED
    BY <2>1, <2>2, Zenon DEF Disjoint
<1> QED
  BY <1>1, InvHolds, FreshInvHolds, PTL

\* A region that ucs_rcache_get returned, and whose memory was not unmapped since, is
\* registered, covers the range asked for, and every page of it is registered as it
\* is mapped now, however gets, puts, evictions and unmap events interleave.
THEOREM FreshRegistrationTheorem == Spec => []FreshRegistration
<1>1. Inv /\ FreshInv => FreshRegistration
  <2> SUFFICES ASSUME Inv, FreshInv, NEW t \in Thread, at[t] = "idle", held[t] # NoRegion, fresh[t]
               PROVE  /\ region[held[t]].reg /\ Covers(region[held[t]].range, asked[t])
                      /\ \A p \in PagesOf(asked[t]) : region[held[t]].gens[p] = gen[p]
    BY Zenon DEF FreshRegistration
  <2>1. t \in Threads
    BY Zenon DEF Threads
  <2>2. region[held[t]].reg
    BY <2>1, Zenon DEF Inv, CountInv, HeldInv, HeldOf
  <2> QED
    BY <2>1, <2>2, Zenon DEF FreshInv, GoodOf, Has
<1> QED
  BY <1>1, InvHolds, FreshInvHolds, PTL
=============================================================================
