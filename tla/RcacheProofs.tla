----------------------------- MODULE RcacheProofs -----------------------------
(***************************************************************************)
(* Reference counts and lifetimes of the regions of Rcache, for any number *)
(* of threads, pages, regions and operations: the counts are exact, a      *)
(* region is destroyed once, and nothing leads to a freed one.             *)
(***************************************************************************)
EXTENDS Rcache, FiniteSetTheorems, TLAPS

(* The inductive invariant. *)

\* The types the proofs use.  That unreleased stays a natural number is the
\* sum in CountsExact.
TypeInv ==
    /\ region \in Seq(Region)
    /\ inv_q \in Seq(Ranges) /\ gc_list \in Seq(Nat) /\ lru \in Seq(Nat)
    /\ \A i \in 1 .. Len(gc_list) : gc_list[i] \in 1 .. Len(region)
    /\ \A i \in 1 .. Len(lru) : lru[i] \in 1 .. Len(region)
    /\ writer \in Threads \cup {NoThread} /\ readers \subseteq Threads
    /\ gen \in [Page -> Nat]
    /\ at \in [Threads -> Places]
    /\ held \in [Threads -> Nat \cup {NoRegion}]
    /\ \A t \in Threads : held[t] # NoRegion => held[t] \in 1 .. Len(region)
    /\ asked \in [Threads -> Ranges] /\ fresh \in [Threads -> BOOLEAN]
    /\ span \in [Threads -> Ranges] /\ merged \in [Threads -> BOOLEAN]

\* Where a thread has the lock for writing.
Locked == {"inv", "inv_scan", "gc", "overlap", "register", "evict", "evicting",
           "unmap_scan", "unmap_inv", "fork_scan"}

\* Who has the lock, and what the async thread does.
LockInv ==
    /\ \A t \in Threads : (writer = t <=> at[t] \in Locked) /\ (t \in readers <=> at[t] = "fast")
    /\ writer # NoThread => readers = {}
    /\ at[Async] \in {"idle", "lock", "inv", "inv_scan", "gc", "dereg"}
    /\ at[Async] = "idle" => held[Async] = NoRegion

\* Where a thread has no region, and where it has one.
Empty == {"get", "lock", "inv", "inv_scan", "gc", "overlap"} \cup Unmapping
Full == {"fast", "register", "evict", "evicting", "put"} \cup Destroying

\* The region a thread has is live and registered, or being registered by it; what a
\* thread destroys nobody else has.
HeldOf(t) ==
    /\ at[t] \in Empty => held[t] = NoRegion
    /\ at[t] \in Full => held[t] # NoRegion
    /\ held[t] # NoRegion =>
          /\ Live(held[t])
          /\ region[held[t]].reg <=> at[t] # "register"
          /\ at[t] = "register" => region[held[t]].pgt
          /\ at[t] \in Destroying =>
                /\ ~region[held[t]].pgt /\ region[held[t]].ref = 0
                /\ \A u \in Threads : held[u] = held[t] => u = t

HeldInv == \A t \in Threads : HeldOf(t)

\* A list has no region twice.
Once(q) == \A i, j \in 1 .. Len(q) : q[i] = q[j] => i = j

\* Regions on the garbage list are live, and nobody references or has them.
GcInv ==
    /\ Once(gc_list)
    /\ \A i \in 1 .. Len(gc_list) :
          /\ Live(gc_list[i]) /\ ~region[gc_list[i]].pgt /\ region[gc_list[i]].ref = 0
          /\ \A t \in Threads : held[t] # gc_list[i]

\* A live region nobody references waits for its destruction; the page table has
\* live regions only.
ZeroInv ==
    \A r \in 1 .. Len(region) :
        /\ Live(r) /\ region[r].ref = 0 =>
              On(gc_list, r) \/ \E t \in Threads : held[t] = r /\ at[t] \in Destroying
        /\ region[r].pgt => Live(r)

LruInv ==
    /\ Once(lru)
    /\ \A i \in 1 .. Len(lru) : Live(lru[i])
    /\ \A t \in Threads : at[t] = "evicting" =>
          lru # <<>> /\ region[lru[1]].pgt /\ region[lru[1]].ref = 1

RefInv ==
    \A r \in 1 .. Len(region) :
        Live(r) => region[r].ref = Cardinality(Holders(r)) + (IF region[r].pgt THEN 1 ELSE 0)

CountInv == HeldInv /\ GcInv /\ ZeroInv /\ LruInv /\ RefInv

-----------------------------------------------------------------------------
(* Lists, ranges and counts. *)

\* What is left of a list without one region.
LEMMA WithoutFacts ==
    ASSUME NEW q \in Seq(Nat), NEW r
    PROVE  /\ Without(q, r) \in Seq(Nat)
           /\ \A i \in 1 .. Len(Without(q, r)) : \E j \in 1 .. Len(q) : Without(q, r)[i] = q[j]
           /\ Once(q) => Once(Without(q, r)) /\ ~On(Without(q, r), r)
<1>1. CASE ~On(q, r)
  BY <1>1, Zenon DEF Without
<1>2. CASE On(q, r)
  <2> DEFINE n == CHOOSE i \in 1 .. Len(q) : q[i] = r
  <2> DEFINE w == [i \in 1 .. Len(q) - 1 |-> IF i < n THEN q[i] ELSE q[i + 1]]
  <2>1. n \in 1 .. Len(q) /\ q[n] = r
    BY <1>2, Zenon DEF On
  <2>2. Without(q, r) = w
    BY <1>2, Zenon DEF Without
  <2> HIDE DEF n
  <2>3. Len(q) \in Nat /\ Len(q) > 0
    BY <2>1
  <2>4. w \in Seq(Nat) /\ Len(w) = Len(q) - 1
    BY <2>3
  <2> DEFINE from(i) == IF i < n THEN i ELSE i + 1
  <2>5. \A i \in 1 .. Len(w) : w[i] = q[from(i)]
    BY <2>4, Zenon
  <2> HIDE DEF w
  <2>8. \A i \in 1 .. Len(w) : from(i) \in 1 .. Len(q) /\ from(i) # n
    BY <2>1, <2>3, <2>4
  <2>9. \A i, j \in 1 .. Len(w) : from(i) = from(j) => i = j
    BY <2>1, <2>3, <2>4
  <2> HIDE DEF from
  <2>6. \A i \in 1 .. Len(w) : \E j \in 1 .. Len(q) : w[i] = q[j]
    BY <2>5, <2>8, Zenon
  <2>7. ASSUME Once(q) PROVE Once(w) /\ ~On(w, r)
    BY <2>1, <2>5, <2>7, <2>8, <2>9, Zenon DEF Once, On
  <2> QED
    BY <2>2, <2>4, <2>6, <2>7, Zenon
<1> QED
  BY <1>1, <1>2, Zenon

\* Region r is changed: its range stays, the rest is as given; no other region is.
Upd(r, ref, pgt, reg, freed, gens) ==
    /\ region' \in Seq(Region) /\ Len(region') = Len(region)
    /\ \A q \in 1 .. Len(region) : q # r => region'[q] = region[q]
    /\ region'[r].range = region[r].range /\ region'[r].ref = ref /\ region'[r].pgt = pgt
    /\ region'[r].reg = reg /\ region'[r].freed = freed /\ region'[r].gens = gens

\* Upd says which fields of region r change, and that no other region does.
LEMMA UpdHolds ==
    ASSUME region \in Seq(Region), NEW r \in 1 .. Len(region), NEW v \in Region,
           v.range = region[r].range, region' = [region EXCEPT ![r] = v]
    PROVE  Upd(r, v.ref, v.pgt, v.reg, v.freed, v.gens)
<1>1. /\ region' \in Seq(Region) /\ Len(region') = Len(region) /\ region'[r] = v
      /\ \A q \in 1 .. Len(region) : q # r => region'[q] = region[q]
  OBVIOUS
<1> QED
  BY <1>1, Zenon DEF Upd

\* The fields of a region.
LEMMA RegionFields ==
    ASSUME region \in Seq(Region), NEW r \in 1 .. Len(region)
    PROVE  /\ region[r] \in Region /\ region[r].range \in Ranges /\ region[r].ref \in Nat
           /\ region[r].pgt \in BOOLEAN /\ region[r].reg \in BOOLEAN
           /\ region[r].freed \in BOOLEAN /\ region[r].waiting \in BOOLEAN
           /\ region[r].gens \in [Page -> Nat]
<1>1. region[r] \in Region
  OBVIOUS
<1> QED
  BY <1>1, Zenon DEF Region

\* A reference more or less.
LEMMA RefUpd ==
    ASSUME region \in Seq(Region), NEW r \in 1 .. Len(region), NEW n \in Nat,
           region' = [region EXCEPT ![r].ref = n]
    PROVE  Upd(r, n, region[r].pgt, region[r].reg, region[r].freed, region[r].gens)
<1> DEFINE v == [region[r] EXCEPT !.ref = n]
<1>1. v \in Region /\ v.range = region[r].range /\ v.ref = n /\ v.pgt = region[r].pgt
      /\ v.reg = region[r].reg /\ v.freed = region[r].freed /\ v.gens = region[r].gens
  BY RegionFields, Zenon DEF Region
<1>2. region' = [region EXCEPT ![r] = v]
  BY Zenon
<1> HIDE DEF v
<1> QED
  BY <1>1, <1>2, UpdHolds, Zenon

\* Destroy frees the region and touches nothing else of it.
LEMMA FreeUpd ==
    ASSUME region \in Seq(Region), NEW r \in 1 .. Len(region), Destroy(r)
    PROVE  Upd(r, region[r].ref, region[r].pgt, region[r].reg, TRUE, region[r].gens)
<1> DEFINE v == [region[r] EXCEPT !.freed = TRUE, !.waiting = FALSE]
<1>1. region' = [region EXCEPT ![r] = v]
  BY Zenon DEF Destroy
<1>2. v \in Region /\ v.range = region[r].range /\ v.ref = region[r].ref /\ v.pgt = region[r].pgt
      /\ v.reg = region[r].reg /\ v.freed = TRUE /\ v.gens = region[r].gens
  BY RegionFields, Zenon DEF Region
<1> HIDE DEF v
<1> QED
  BY <1>1, <1>2, UpdHolds, Zenon

\* A successful mem_reg marks the region registered, with two references.
LEMMA RegisterUpd ==
    ASSUME region \in Seq(Region), NEW r \in 1 .. Len(region), gen \in [Page -> Nat],
           region' = [region EXCEPT ![r].reg = TRUE, ![r].ref = 2, ![r].gens = gen]
    PROVE  Upd(r, 2, region[r].pgt, TRUE, region[r].freed, gen)
<1> DEFINE v == [region[r] EXCEPT !.reg = TRUE, !.ref = 2, !.gens = gen]
<1>1. region' = [region EXCEPT ![r] = v]
  BY Zenon
<1>2. v \in Region /\ v.range = region[r].range /\ v.ref = 2 /\ v.pgt = region[r].pgt
      /\ v.reg = TRUE /\ v.freed = region[r].freed /\ v.gens = gen
  <2>1. 2 \in Nat /\ TRUE \in BOOLEAN
    BY Zenon
  <2> QED
    BY <2>1, RegionFields, Zenon DEF Region
<1> HIDE DEF v
<1>3. Upd(r, v.ref, v.pgt, v.reg, v.freed, v.gens)
  BY <1>1, <1>2, UpdHolds, Zenon
<1> QED
  BY <1>2, <1>3, Zenon

\* What an invalidation does: nothing but to the callback of a region that is not in the
\* page table; else the reference of the page table goes, and with the last
\* reference the region is put aside or destroyed.
LEMMA InvalidateUpd ==
    ASSUME region \in Seq(Region), NEW r \in 1 .. Len(region), NEW toGc, NEW w \in BOOLEAN,
           region[r].pgt => region[r].ref >= 1, InvalidateRegion(r, toGc, w)
    PROVE  \/ /\ Upd(r, region[r].ref, region[r].pgt, region[r].reg, region[r].freed, region[r].gens)
              /\ ~region[r].pgt /\ UNCHANGED <<gc_list, lru>>
           \/ /\ Upd(r, region[r].ref - 1, FALSE, region[r].reg, region[r].freed, region[r].gens)
              /\ region[r].pgt /\ region[r].ref # 1 /\ UNCHANGED <<gc_list, lru>>
           \/ /\ Upd(r, 0, FALSE, region[r].reg, region[r].freed, region[r].gens)
              /\ region[r].pgt /\ region[r].ref = 1
              /\ toGc /\ gc_list' = Append(gc_list, r) /\ UNCHANGED lru
           \/ /\ Upd(r, 0, FALSE, region[r].reg, TRUE, region[r].gens)
              /\ region[r].pgt /\ region[r].ref = 1
              /\ ~toGc /\ lru' = Without(lru, r) /\ UNCHANGED gc_list
<1>t. /\ region[r].ref \in Nat /\ 0 \in Nat /\ FALSE \in BOOLEAN /\ TRUE \in BOOLEAN
      /\ region[r].pgt => region[r].ref - 1 \in Nat
  BY RegionFields
<1>1. CASE ~region[r].pgt
  <2> DEFINE v == [region[r] EXCEPT !.waiting = w]
  <2>1. region' = [region EXCEPT ![r] = v] /\ UNCHANGED <<gc_list, lru>>
    BY <1>1, Zenon DEF InvalidateRegion
  <2>2. /\ v \in Region /\ v.range = region[r].range /\ v.ref = region[r].ref
        /\ v.pgt = region[r].pgt /\ v.reg = region[r].reg /\ v.freed = region[r].freed
        /\ v.gens = region[r].gens
    BY RegionFields, Zenon DEF Region
  <2> HIDE DEF v
  <2> QED
    BY <1>1, <2>1, <2>2, UpdHolds, Zenon
<1>2. CASE region[r].pgt /\ region[r].ref # 1
  <2> DEFINE n == region[r].ref - 1
  <2> DEFINE v == [region[r] EXCEPT !.pgt = FALSE, !.ref = n, !.waiting = w]
  <2>1. region' = [region EXCEPT ![r] = v] /\ UNCHANGED <<gc_list, lru>>
    BY <1>2, Zenon DEF InvalidateRegion
  <2> HIDE DEF n
  <2>2. /\ v \in Region /\ v.range = region[r].range /\ v.ref = n /\ v.pgt = FALSE
        /\ v.reg = region[r].reg /\ v.freed = region[r].freed /\ v.gens = region[r].gens
    <3>1. n \in Nat
      BY <1>2, <1>t, Zenon DEF n
    <3> QED
      BY <1>t, <3>1, RegionFields, Zenon DEF Region
  <2> HIDE DEF v
  <2> QED
    BY <1>2, <2>1, <2>2, UpdHolds, Zenon DEF n
<1>3. CASE region[r].pgt /\ region[r].ref = 1 /\ toGc
  <2> DEFINE v == [region[r] EXCEPT !.pgt = FALSE, !.ref = 0, !.waiting = w]
  <2>1. region' = [region EXCEPT ![r] = v] /\ gc_list' = Append(gc_list, r) /\ UNCHANGED lru
    BY <1>3, Zenon DEF InvalidateRegion
  <2>2. /\ v \in Region /\ v.range = region[r].range /\ v.ref = 0 /\ v.pgt = FALSE
        /\ v.reg = region[r].reg /\ v.freed = region[r].freed /\ v.gens = region[r].gens
    BY <1>t, RegionFields, Zenon DEF Region
  <2> HIDE DEF v
  <2> QED
    BY <1>3, <2>1, <2>2, UpdHolds, Zenon
<1>4. CASE region[r].pgt /\ region[r].ref = 1 /\ ~toGc
  <2> DEFINE v == [region[r] EXCEPT !.pgt = FALSE, !.ref = 0, !.freed = TRUE, !.waiting = FALSE]
  <2>1. region' = [region EXCEPT ![r] = v] /\ lru' = Without(lru, r) /\ UNCHANGED gc_list
    BY <1>4, Zenon DEF InvalidateRegion
  <2>2. /\ v \in Region /\ v.range = region[r].range /\ v.ref = 0 /\ v.pgt = FALSE
        /\ v.reg = region[r].reg /\ v.freed = TRUE /\ v.gens = region[r].gens
    BY <1>t, RegionFields, Zenon DEF Region
  <2> HIDE DEF v
  <2> QED
    BY <1>4, <2>1, <2>2, UpdHolds, Zenon
<1> QED
  BY <1>1, <1>2, <1>3, <1>4, Zenon

\* Sets of threads are finite, and grow and shrink by one.
LEMMA ThreadSets ==
    ASSUME NEW S \in SUBSET Threads
    PROVE  /\ IsFiniteSet(S) /\ Cardinality(S) \in Nat
           /\ Cardinality(S) = 0 <=> S = {}
           /\ \A t : t \notin S => Cardinality(S \cup {t}) = Cardinality(S) + 1
           /\ \A t \in S : Cardinality(S \ {t}) = Cardinality(S) - 1
<1>1. IsFiniteSet(Threads)
  BY RcacheAssumption, FS_AddElement, Zenon DEF Threads
<1>2. IsFiniteSet(S)
  BY <1>1, FS_Subset, Zenon
<1> QED
  BY <1>2, FS_CardinalityType, FS_EmptySet, FS_AddElement, FS_RemoveElement, Zenon

\* What threads and lists name are regions.
LEMMA Bounds ==
    ASSUME TypeInv
    PROVE  /\ region \in Seq(Region) /\ Len(region) \in Nat /\ \A r \in 1 .. Len(region) : r # NoRegion
           /\ \A t \in Threads : held[t] # NoRegion => held[t] \in 1 .. Len(region)
           /\ \A i \in 1 .. Len(gc_list) : gc_list[i] \in 1 .. Len(region)
           /\ \A i \in 1 .. Len(lru) : lru[i] \in 1 .. Len(region)
           /\ lru # <<>> => 1 \in 1 .. Len(lru)
  BY RcacheAssumption DEF TypeInv

\* Whoever is not counted has no region, registers it, or destroys it.
LEMMA PlaceKinds ==
    ASSUME TypeInv, NEW t \in Threads
    PROVE  at[t] \in Empty \/ at[t] \in Using \/ at[t] = "register" \/ at[t] \in Destroying
  BY Zenon DEF TypeInv, Places, Getting, Unmapping, Empty, Using, Destroying

\* A region that is held is live and its count shows it.
LEMMA HeldRef ==
    ASSUME TypeInv, CountInv, NEW t \in Threads, held[t] # NoRegion, at[t] \in Using
    PROVE  /\ held[t] \in 1 .. Len(region) /\ Live(held[t])
           /\ region[held[t]].ref >= 1
           /\ region[held[t]].pgt => region[held[t]].ref >= 2
<1> DEFINE r == held[t]
<1>1. r \in 1 .. Len(region) /\ Live(r)
  BY Zenon DEF TypeInv, CountInv, HeldInv, HeldOf
<1>2. Holders(r) \in SUBSET Threads /\ Holders(r) # {}
  BY Zenon DEF Holders
<1>3. Cardinality(Holders(r)) \in Nat /\ Cardinality(Holders(r)) # 0
  BY <1>2, ThreadSets, Zenon
<1>4. region[r].ref = Cardinality(Holders(r)) + (IF region[r].pgt THEN 1 ELSE 0)
  BY <1>1, Zenon DEF CountInv, RefInv
<1> HIDE DEF r
<1> QED
  BY <1>1, <1>3, <1>4 DEF r

\* A region of the page table is live and its count shows it; when it is in use
\* by the page table only, nobody has it but who registers it.
LEMMA PgtRef ==
    ASSUME TypeInv, CountInv, NEW r \in 1 .. Len(region), region[r].pgt
    PROVE  /\ Live(r) /\ region[r].ref >= 1
           /\ region[r].ref = 1 =>
                 \A t \in Threads : held[t] = r => at[t] = "register"
<1>1. Live(r)
  BY Zenon DEF CountInv, ZeroInv
<1>2. Holders(r) \in SUBSET Threads
  BY Zenon DEF Holders
<1>3. Cardinality(Holders(r)) \in Nat /\ (Cardinality(Holders(r)) = 0 => Holders(r) = {})
  BY <1>2, ThreadSets, Zenon
<1>4. region[r].ref = Cardinality(Holders(r)) + 1
  BY <1>1, Zenon DEF CountInv, RefInv
<1>5. ASSUME region[r].ref = 1, NEW t \in Threads, held[t] = r PROVE at[t] = "register"
  <2>1. t \notin Holders(r)
    BY <1>3, <1>4, <1>5
  <2>2. r # NoRegion
    BY RcacheAssumption
  <2> QED
    BY <1>5, <2>1, <2>2, PlaceKinds, Zenon DEF Holders, CountInv, HeldInv, HeldOf
<1> QED
  BY <1>1, <1>3, <1>4, <1>5

\* The counts depend on who holds what only.
LEMMA HoldersSame ==
    ASSUME NEW r,
           \A t \in Threads : (held'[t] = r /\ at'[t] \in Using) <=> (held[t] = r /\ at[t] \in Using)
    PROVE  Cardinality(Holders(r))' = Cardinality(Holders(r))
<1>1. Holders(r)' = Holders(r)
  BY Zenon DEF Holders
<1> QED
  BY <1>1, Zenon

\* A thread that takes region r is one holder of it more.
LEMMA HoldersMore ==
    ASSUME NEW r, NEW t \in Threads, ~(held[t] = r /\ at[t] \in Using),
           held'[t] = r /\ at'[t] \in Using,
           \A u \in Threads \ {t} :
               (held'[u] = r /\ at'[u] \in Using) <=> (held[u] = r /\ at[u] \in Using)
    PROVE  Cardinality(Holders(r))' = Cardinality(Holders(r)) + 1
<1>1. Holders(r)' = Holders(r) \cup {t} /\ t \notin Holders(r) /\ Holders(r) \in SUBSET Threads
  BY Zenon DEF Holders
<1> QED
  BY <1>1, ThreadSets

\* A thread that gives region r up is one holder of it less.
LEMMA HoldersLess ==
    ASSUME NEW r, NEW t \in Threads, held[t] = r /\ at[t] \in Using,
           ~(held'[t] = r /\ at'[t] \in Using),
           \A u \in Threads \ {t} :
               (held'[u] = r /\ at'[u] \in Using) <=> (held[u] = r /\ at[u] \in Using)
    PROVE  Cardinality(Holders(r))' = Cardinality(Holders(r)) - 1
<1>1. Holders(r)' = Holders(r) \ {t} /\ t \in Holders(r) /\ Holders(r) \in SUBSET Threads
  BY DEF Holders
<1> QED
  BY <1>1, ThreadSets

\* Thread t goes to place a, with region h; no other thread does.
Moves(t, a, h) ==
    /\ at'[t] = a /\ held'[t] = h
    /\ \A u \in Threads : u # t => at'[u] = at[u] /\ held'[u] = held[u]

-----------------------------------------------------------------------------
(* What the kinds of steps do to the counts. *)

\* Thread t goes on to place a; the regions and who has them stay as they are.
LEMMA ControlCount ==
    ASSUME TypeInv, CountInv, NEW t \in Threads, NEW a \in Places,
           UNCHANGED <<region, gc_list>>, Moves(t, a, held[t]),
           \/ held[t] = NoRegion /\ a \notin Full
           \/ held[t] # NoRegion /\ at[t] \in Using /\ a \in Using
           \/ held[t] # NoRegion /\ at[t] \in Destroying /\ a \in Destroying
    PROVE  HeldInv' /\ GcInv' /\ ZeroInv' /\ RefInv'
<1>1. HeldInv /\ GcInv /\ ZeroInv /\ RefInv
  BY Zenon DEF CountInv, TypeInv
<1>2. HeldInv'
  BY <1>1 DEF HeldInv, HeldOf, Live, Empty, Full, Using, Destroying, Unmapping, Moves
<1>3. GcInv'
  BY <1>1 DEF GcInv, Live, Moves
<1>4. ZeroInv'
  BY <1>1, RcacheAssumption DEF ZeroInv, Live, Using, Destroying, Moves
<1>5. RefInv'
  <2> SUFFICES ASSUME NEW r \in 1 .. Len(region)
               PROVE  Cardinality(Holders(r))' = Cardinality(Holders(r))
    BY <1>1, Zenon DEF RefInv, Live
  <2> QED
    BY <1>1, HoldersSame, RcacheAssumption DEF Using, Destroying, Moves
<1> QED
  BY <1>2, <1>3, <1>4, <1>5, Zenon

\* The LRU list stays too.
LEMMA LruSame ==
    ASSUME TypeInv, LruInv, NEW t \in Threads, NEW a, a # "evicting",
           UNCHANGED <<region, lru>>, NEW h, Moves(t, a, h)
    PROVE  LruInv'
  BY Zenon DEF LruInv, Live, Moves

\* Thread t holds region r of the page table; nobody evicts.
LEMMA HoldCount ==
    ASSUME TypeInv, CountInv, NEW t \in Threads, NEW a \in {"fast", "idle"},
           NEW r \in 1 .. Len(region), region[r].pgt, region[r].reg, held[t] = NoRegion,
           \A u \in Threads : at[u] # "evicting",
           Upd(r, region[r].ref + 1, region[r].pgt, region[r].reg, region[r].freed, region[r].gens),
           Moves(t, a, r), UNCHANGED <<gc_list, lru>>
    PROVE  CountInv'
<1>1. /\ HeldInv /\ GcInv /\ ZeroInv /\ LruInv /\ RefInv
      /\ region[r].ref \in Nat
      /\ \A u \in Threads : held[u] # NoRegion => held[u] \in 1 .. Len(region)
  BY RegionFields, Zenon DEF CountInv, TypeInv
<1>2. HeldInv'
  <2>1. r # NoRegion
    BY RcacheAssumption
  <2>2. HeldOf(t)'
    BY <1>1, <2>1, PgtRef, Zenon DEF HeldOf, Upd, Live, Empty, Destroying, Unmapping, Moves
  <2>3. ASSUME NEW u \in Threads, u # t PROVE HeldOf(u)'
    <3>1. HeldOf(u) /\ held'[u] = held[u] /\ at'[u] = at[u]
      BY <1>1, <2>3, Zenon DEF HeldInv, Moves
    <3>2. CASE held[u] = r
      BY <1>1, <2>1, <3>1, <3>2, Zenon DEF HeldOf, Upd, Live
    <3>3. CASE held[u] # r
      BY <3>1, <3>3, Bounds DEF HeldOf, Upd, Live, Moves
    <3> QED
      BY <3>2, <3>3, Zenon
  <2> QED
    BY <2>2, <2>3, Zenon DEF HeldInv
<1>3. GcInv'
  <2>1. \A i \in 1 .. Len(gc_list) : gc_list[i] # r
    BY <1>1, Zenon DEF GcInv
  <2> QED
    BY <1>1, <2>1, Bounds DEF GcInv, Upd, Live, Moves
<1>4. ZeroInv'
  <2>1. \A n \in Nat : n + 1 # 0
    OBVIOUS
  <2>2. Len(region') = Len(region) /\ region'[r].ref # 0
    BY <1>1, <2>1, Zenon DEF Upd
  <2>3. ASSUME NEW q \in 1 .. Len(region)
        PROVE  region'[q].freed = region[q].freed /\ region'[q].pgt = region[q].pgt
               /\ (q # r => region'[q].ref = region[q].ref)
    BY Zenon DEF Upd
  <2>4. ASSUME NEW q \in 1 .. Len(region), NEW u \in Threads, held[u] = q, at[u] \in Destroying
        PROVE  held'[u] = q /\ at'[u] \in Destroying
    <3>1. u # t
      BY <2>4, Bounds, Zenon
    <3> QED
      BY <2>4, <3>1, Zenon DEF Moves
  <2>5. ASSUME NEW q \in 1 .. Len(region), Live(q)', region'[q].ref = 0
        PROVE  On(gc_list, q) \/ \E u \in Threads : held[u] = q /\ at[u] \in Destroying
    <3>1. Live(q) /\ region[q].ref = 0
      BY <2>2, <2>3, <2>5, Zenon DEF Live
    <3> QED
      BY <1>1, <3>1, Zenon DEF ZeroInv
  <2>6. ASSUME NEW q \in 1 .. Len(region), region'[q].pgt PROVE Live(q)'
    BY <1>1, <2>3, <2>6, Zenon DEF ZeroInv, Live
  <2> QED
    BY <2>2, <2>4, <2>5, <2>6, Zenon DEF ZeroInv, On
<1>5. LruInv'
  <2>1. \A q \in 1 .. Len(region) : Live(q)' = Live(q)
    BY <1>1, Zenon DEF Upd, Live
  <2>2. \A u \in Threads : at'[u] # "evicting"
    BY <1>1, Zenon DEF Moves
  <2> QED
    BY <1>1, <2>1, <2>2, Bounds, Zenon DEF LruInv
<1>6. RefInv'
  <2>1. Live(r) /\ Len(region') = Len(region) /\ \A q \in 1 .. Len(region) : Live(q)' = Live(q)
    BY PgtRef, Zenon DEF Upd, Live
  <2>2. Cardinality(Holders(r))' = Cardinality(Holders(r)) + 1
    BY <1>1, HoldersMore, RcacheAssumption DEF Using, Moves
  <2>3. \A q \in 1 .. Len(region) : q # r => Cardinality(Holders(q))' = Cardinality(Holders(q))
    BY <1>1, HoldersSame, RcacheAssumption DEF Moves
  <2>4. Cardinality(Holders(r)) \in Nat
    BY ThreadSets, Zenon DEF Holders
  <2> QED
    BY <1>1, <2>1, <2>2, <2>3, <2>4, Zenon DEF RefInv, Upd
<1> QED
  BY <1>2, <1>3, <1>4, <1>5, <1>6, Zenon DEF CountInv

\* Thread t creates a region, which it registers next.
LEMMA CreateCount ==
    ASSUME TypeInv, CountInv, NEW t \in Threads, NEW v \in Region, held[t] = NoRegion,
           v.ref = 1, v.pgt, ~v.reg, ~v.freed, NEW n, n = Len(region) + 1,
           region' = Append(region, v), Moves(t, "register", n), UNCHANGED <<gc_list, lru>>
    PROVE  CountInv'
<1>1. /\ HeldInv /\ GcInv /\ ZeroInv /\ LruInv /\ RefInv
      /\ Len(region) \in Nat
      /\ \A u \in Threads : held[u] # NoRegion => held[u] \in 1 .. Len(region)
      /\ \A i \in 1 .. Len(gc_list) : gc_list[i] \in 1 .. Len(region)
      /\ \A i \in 1 .. Len(lru) : lru[i] \in 1 .. Len(region)
  BY DEF CountInv, TypeInv
<1>2. /\ region' \in Seq(Region) /\ Len(region') = n /\ region'[n] = v
      /\ \A q \in 1 .. Len(region) : region'[q] = region[q]
  BY DEF TypeInv
<1>3. n \in Nat /\ n # NoRegion /\ n \notin 1 .. Len(region) /\ n \in 1 .. n
      /\ \A q \in 1 .. n : q = n \/ q \in 1 .. Len(region)
  BY <1>1, RcacheAssumption
<1>4. held'[t] = n /\ at'[t] = "register"
      /\ \A u \in Threads : u # t => held'[u] = held[u] /\ at'[u] = at[u]
  BY Zenon DEF Moves
<1>5. HeldInv'
  <2>1. HeldOf(t)'
    BY <1>2, <1>3, <1>4, Zenon DEF HeldOf, Live, Empty, Destroying, Unmapping
  <2>2. ASSUME NEW u \in Threads, u # t PROVE HeldOf(u)'
    BY <1>1, <1>2, <1>3, <1>4, <2>2 DEF HeldInv, HeldOf, Live
  <2> QED
    BY <2>1, <2>2, Zenon DEF HeldInv
<1>6. GcInv'
  BY <1>1, <1>2, <1>3, <1>4 DEF GcInv, Live
<1>7. ZeroInv'
  BY <1>1, <1>2, <1>3, <1>4, RcacheAssumption DEF ZeroInv, Live, Destroying
<1>8. LruInv'
  <2>1. lru # <<>> => 1 \in 1 .. Len(lru)
    BY DEF TypeInv
  <2> QED
    BY <1>1, <1>2, <1>3, <1>4, <2>1 DEF LruInv, Live
<1>9. RefInv'
  <2>1. \A q \in 1 .. Len(region) : Cardinality(Holders(q))' = Cardinality(Holders(q))
    BY <1>1, <1>3, <1>4, HoldersSame, RcacheAssumption DEF Using
  <2>2. Holders(n)' = {}
    BY <1>1, <1>3, <1>4 DEF Holders, Using
  <2>3. Cardinality(Holders(n))' = 0
    BY <2>2, FS_EmptySet, Zenon
  <2> QED
    BY <1>1, <1>2, <1>3, <2>1, <2>3 DEF RefInv, Live
<1> QED
  BY <1>5, <1>6, <1>7, <1>8, <1>9, Zenon DEF CountInv

\* Thread t has registered its region, which it holds now; nobody else registers one,
\* and nobody evicts.
LEMMA RegisterCount ==
    ASSUME TypeInv, CountInv, NEW t \in Threads, NEW r, held[t] = r, at[t] = "register",
           \A u \in Threads : at[u] # "evicting", \A u \in Threads : at[u] = "register" => u = t,
           Upd(r, 2, region[r].pgt, TRUE, region[r].freed, gen),
           Moves(t, "evict", r), UNCHANGED <<gc_list, lru>>
    PROVE  CountInv'
<1>1. /\ HeldInv /\ GcInv /\ ZeroInv /\ LruInv /\ RefInv
      /\ \A u \in Threads : held[u] # NoRegion => held[u] \in 1 .. Len(region)
  BY Zenon DEF CountInv, TypeInv
<1>2. r # NoRegion /\ r \in 1 .. Len(region) /\ Live(r) /\ region[r].pgt /\ ~region[r].reg
  BY <1>1, Zenon DEF HeldInv, HeldOf, Full, Destroying
<1>3. \A u \in Threads : u # t => held[u] # r /\ held'[u] = held[u] /\ at'[u] = at[u]
  BY <1>1, <1>2, Zenon DEF HeldInv, HeldOf, Moves
<1>a. held'[t] = r /\ at'[t] = "evict"
  BY Zenon DEF Moves
<1>4. HeldInv'
  <2>1. HeldOf(t)'
    BY <1>1, <1>2, <1>a, Zenon DEF HeldOf, Upd, Live, Empty, Destroying, Unmapping
  <2>2. ASSUME NEW u \in Threads, u # t PROVE HeldOf(u)'
    BY <1>1, <1>3, <1>a, <2>2, Bounds DEF HeldInv, HeldOf, Upd, Live
  <2> QED
    BY <2>1, <2>2, Zenon DEF HeldInv
<1>5. GcInv'
  BY <1>1, <1>2, <1>3, <1>a, Bounds DEF GcInv, Upd, Live
<1>6. ZeroInv'
  BY <1>1, <1>2, <1>3, <1>a DEF ZeroInv, Upd, Live, Destroying
<1>7. LruInv'
  BY <1>1, <1>2, <1>3, <1>a, Bounds, Zenon DEF LruInv, Upd, Live
<1>8. RefInv'
  <2>1. Holders(r) = {}
    BY <1>3, Zenon DEF Holders, Using
  <2>2. Cardinality(Holders(r)) = 0
    BY <2>1, FS_EmptySet, Zenon
  <2>3. Cardinality(Holders(r))' = Cardinality(Holders(r)) + 1
    BY <1>1, <1>3, <1>a, HoldersMore, Zenon DEF Using
  <2>4. \A q \in 1 .. Len(region) : q # r => Cardinality(Holders(q))' = Cardinality(Holders(q))
    BY <1>1, <1>3, <1>a, HoldersSame, Zenon
  <2>5. /\ region'[r].ref = 2 /\ region'[r].pgt /\ Len(region') = Len(region)
        /\ \A q \in 1 .. Len(region) : q # r => region'[q] = region[q]
    BY <1>2, Zenon DEF Upd
  <2> QED
    BY <1>1, <1>2, <2>2, <2>3, <2>4, <2>5 DEF RefInv, Live
<1> QED
  BY <1>4, <1>5, <1>6, <1>7, <1>8, Zenon DEF CountInv

\* Who puts a region holds it.
LEMMA PutHolds ==
    ASSUME TypeInv, CountInv, NEW t \in Threads, NEW r, held[t] = r, at[t] = "put"
    PROVE  /\ r # NoRegion /\ r \in 1 .. Len(region) /\ Live(r) /\ region[r].reg
           /\ region[r].ref \in Nat /\ region[r].ref >= 1 /\ (region[r].pgt => region[r].ref >= 2)
           /\ region[r].ref = Cardinality(Holders(r)) + (IF region[r].pgt THEN 1 ELSE 0)
           /\ Cardinality(Holders(r)) \in Nat
           /\ \A u \in Threads : held[u] = r => at[u] \notin Destroying
           /\ \A i \in 1 .. Len(gc_list) : gc_list[i] # NoRegion /\ gc_list[i] # r
<1>1. HeldInv /\ GcInv /\ RefInv
  BY Zenon DEF CountInv
<1>2. r # NoRegion /\ at[t] \in Using
  BY <1>1, Zenon DEF HeldInv, HeldOf, Full, Using
<1>3. /\ r \in 1 .. Len(region) /\ Live(r)
      /\ region[r].ref >= 1 /\ (region[r].pgt => region[r].ref >= 2)
  BY <1>2, HeldRef, Zenon
<1>4. region[r].ref \in Nat /\ region[r].reg
  BY <1>1, <1>2, <1>3, RegionFields, Bounds, Zenon DEF HeldInv, HeldOf
<1>5. Cardinality(Holders(r)) \in Nat
  BY ThreadSets, Zenon DEF Holders
<1>6. region[r].ref = Cardinality(Holders(r)) + (IF region[r].pgt THEN 1 ELSE 0)
  BY <1>1, <1>3, Zenon DEF RefInv
<1>7. \A u \in Threads : held[u] = r => at[u] \notin Destroying
  BY <1>1, <1>2, Zenon DEF HeldInv, HeldOf, Using, Destroying
<1>8. \A i \in 1 .. Len(gc_list) : gc_list[i] # NoRegion /\ gc_list[i] # r
  BY <1>1, RcacheAssumption, Bounds, Zenon DEF GcInv
<1> QED
  BY <1>2, <1>3, <1>4, <1>5, <1>6, <1>7, <1>8, Zenon

\* Thread t drops a reference of region r which is not the last.
LEMMA PutMoreCount ==
    ASSUME TypeInv, CountInv, NEW t \in Threads, NEW r, held[t] = r, at[t] = "put",
           Upd(r, region[r].ref - 1, region[r].pgt, region[r].reg, region[r].freed, region[r].gens),
           region[r].ref # 1, Moves(t, "idle", NoRegion), UNCHANGED <<gc_list, lru>>
    PROVE  CountInv'
<1>1. HeldInv /\ GcInv /\ ZeroInv /\ LruInv /\ RefInv
  BY Zenon DEF CountInv
<1>2. HeldInv'
  <2>1. HeldOf(t)'
    BY Zenon DEF HeldOf, Full, Destroying, Moves
  <2>2. ASSUME NEW u \in Threads, u # t PROVE HeldOf(u)'
    <3>1. HeldOf(u) /\ held'[u] = held[u] /\ at'[u] = at[u]
      BY <1>1, <2>2, Zenon DEF HeldInv, Moves
    <3>2. CASE held[u] = r
      BY <3>1, <3>2, PutHolds, Zenon DEF HeldOf, Upd, Live
    <3>3. CASE held[u] # r
      BY <2>2, <3>1, <3>3, Bounds DEF HeldOf, Upd, Live, Moves
    <3> QED
      BY <3>2, <3>3, Zenon
  <2> QED
    BY <2>1, <2>2, Zenon DEF HeldInv
<1>3. GcInv'
  BY <1>1, PutHolds, Bounds DEF GcInv, Upd, Live, Moves
<1>4. ZeroInv'
  <2>1. /\ region'[r].ref # 0 /\ (region'[r].pgt => Live(r)') /\ Len(region') = Len(region)
        /\ \A q \in 1 .. Len(region) : q # r => region'[q] = region[q]
    BY PutHolds DEF Upd, Live
  <2> QED
    BY <1>1, <2>1 DEF ZeroInv, Live, Destroying, Moves
<1>5. LruInv'
  <2>1. Live(r)' /\ ~(region[r].pgt /\ region[r].ref = 1)
    BY PutHolds, Zenon DEF Upd, Live
  <2> QED
    BY <1>1, <2>1, Bounds DEF LruInv, Upd, Live, Moves
<1>6. RefInv'
  <2>1. Cardinality(Holders(r))' = Cardinality(Holders(r)) - 1
    BY PutHolds, HoldersLess DEF Using, Moves
  <2>2. \A q \in 1 .. Len(region) : q # r => Cardinality(Holders(q))' = Cardinality(Holders(q))
    BY HoldersSame, RcacheAssumption DEF Moves
  <2>3. /\ region'[r].ref = region[r].ref - 1 /\ region'[r].pgt = region[r].pgt
        /\ Len(region') = Len(region)
        /\ \A q \in 1 .. Len(region) : q # r => region'[q] = region[q]
    BY Zenon DEF Upd
  <2> QED
    BY <1>1, <2>1, <2>2, <2>3, PutHolds DEF RefInv, Live
<1> QED
  BY <1>2, <1>3, <1>4, <1>5, <1>6, Zenon DEF CountInv

\* Thread t drops the last reference of region r, which it destroys next.
LEMMA PutLastCount ==
    ASSUME TypeInv, CountInv, NEW t \in Threads, NEW r, held[t] = r, at[t] = "put",
           Upd(r, region[r].ref - 1, region[r].pgt, region[r].reg, region[r].freed, region[r].gens),
           region[r].ref = 1, Moves(t, "destroy", r), UNCHANGED <<gc_list, lru>>
    PROVE  CountInv'
<1>1. HeldInv /\ GcInv /\ ZeroInv /\ LruInv /\ RefInv
  BY Zenon DEF CountInv
<1>2. \A u \in Threads : held[u] = r => u = t
  <2> SUFFICES ASSUME NEW u \in Threads, held[u] = r, u # t PROVE FALSE
    BY Zenon
  <2>1. Holders(r) \in SUBSET Threads /\ t \in Holders(r)
    BY Zenon DEF Holders, Using
  <2>2. Cardinality(Holders(r) \ {t}) = 0
    BY <2>1, PutHolds, ThreadSets
  <2>3. Holders(r) \ {t} = {}
    BY <2>1, <2>2, ThreadSets, Zenon
  <2>4. at[u] \notin Using
    BY <2>3, Zenon DEF Holders
  <2> QED
    BY <1>1, <2>4, PutHolds, PlaceKinds DEF HeldInv, HeldOf
<1>3. /\ region'[r].ref = 0 /\ ~region'[r].pgt /\ region'[r].reg /\ ~region'[r].freed
      /\ Len(region') = Len(region)
      /\ \A q \in 1 .. Len(region) : q # r => region'[q] = region[q]
  BY PutHolds DEF Upd, Live
<1>4. HeldInv'
  <2>1. HeldOf(t)'
    BY <1>2, <1>3, PutHolds DEF HeldOf, Live, Empty, Destroying, Unmapping, Moves
  <2>2. ASSUME NEW u \in Threads, u # t PROVE HeldOf(u)'
    BY <1>1, <1>2, <1>3, <2>2, Bounds DEF HeldInv, HeldOf, Live, Moves
  <2> QED
    BY <2>1, <2>2, Zenon DEF HeldInv
<1>5. GcInv'
  BY <1>1, <1>3, PutHolds, Bounds DEF GcInv, Live, Moves
<1>6. ZeroInv'
  BY <1>1, <1>3, PutHolds DEF ZeroInv, Live, Destroying, Moves
<1>7. LruInv'
  <2>1. Live(r)' /\ ~(region[r].pgt /\ region[r].ref = 1)
    BY <1>3, PutHolds DEF Live
  <2> QED
    BY <1>1, <1>3, <2>1, Bounds DEF LruInv, Live, Moves
<1>8. RefInv'
  <2>1. Cardinality(Holders(r))' = Cardinality(Holders(r)) - 1
    BY PutHolds, HoldersLess DEF Using, Moves
  <2>2. \A q \in 1 .. Len(region) : q # r => Cardinality(Holders(q))' = Cardinality(Holders(q))
    BY HoldersSame, RcacheAssumption, Zenon DEF Moves
  <2>3. Cardinality(Holders(r))' = 0
    BY <2>1, PutHolds
  <2> QED
    BY <1>1, <1>3, <2>2, <2>3 DEF RefInv, Live
<1> QED
  BY <1>4, <1>5, <1>6, <1>7, <1>8, Zenon DEF CountInv

\* The garbage list loses its head, or gets one region more.
LEMMA TailFacts ==
    ASSUME NEW q \in Seq(Nat), q # <<>>, Once(q)
    PROVE  /\ Tail(q) \in Seq(Nat) /\ 1 \in 1 .. Len(q) /\ Head(q) = q[1]
           /\ \A i \in 1 .. Len(Tail(q)) : \E j \in 1 .. Len(q) : Tail(q)[i] = q[j]
           /\ Once(Tail(q)) /\ \A i \in 1 .. Len(Tail(q)) : Tail(q)[i] # Head(q)
           /\ \A x : On(q, x) => x = Head(q) \/ On(Tail(q), x)
<1> SUFFICES ASSUME NEW s, s = Tail(q)
             PROVE  /\ s \in Seq(Nat) /\ 1 \in 1 .. Len(q) /\ Head(q) = q[1]
                    /\ \A i \in 1 .. Len(s) : \E j \in 1 .. Len(q) : s[i] = q[j]
                    /\ Once(s) /\ \A i \in 1 .. Len(s) : s[i] # Head(q)
                    /\ \A x : On(q, x) => x = Head(q) \/ On(s, x)
  BY Zenon
<1>1. /\ s \in Seq(Nat) /\ 1 \in 1 .. Len(q) /\ Head(q) = q[1] /\ Len(s) = Len(q) - 1
      /\ \A i \in 1 .. Len(s) : s[i] = q[i + 1] /\ i + 1 \in 1 .. Len(q)
  OBVIOUS
<1>2. \A i \in 1 .. Len(q) : i = 1 \/ (i - 1 \in 1 .. Len(s) /\ s[i - 1] = q[i])
  BY <1>1
<1>3. Once(s) /\ \A i \in 1 .. Len(s) : s[i] # Head(q)
  BY <1>1 DEF Once
<1> QED
  BY <1>1, <1>2, <1>3 DEF On

\* A region at the end of a list: the others keep their places.
LEMMA AppendFacts ==
    ASSUME NEW q \in Seq(Nat), NEW r \in Nat, Once(q), ~On(q, r)
    PROVE  /\ Append(q, r) \in Seq(Nat) /\ Append(q, r) # <<>>
           /\ \A i \in 1 .. Len(Append(q, r)) :
                 Append(q, r)[i] = r \/ \E j \in 1 .. Len(q) : Append(q, r)[i] = q[j]
           /\ q # <<>> => Append(q, r)[1] = q[1]
           /\ Once(Append(q, r)) /\ On(Append(q, r), r)
           /\ \A x : On(q, x) => On(Append(q, r), x)
<1> SUFFICES ASSUME NEW s, s = Append(q, r)
             PROVE  /\ s \in Seq(Nat) /\ s # <<>>
                    /\ \A i \in 1 .. Len(s) : s[i] = r \/ \E j \in 1 .. Len(q) : s[i] = q[j]
                    /\ q # <<>> => s[1] = q[1]
                    /\ Once(s) /\ On(s, r) /\ \A x : On(q, x) => On(s, x)
  BY Zenon
<1>1. /\ s \in Seq(Nat) /\ Len(s) = Len(q) + 1 /\ s[Len(q) + 1] = r /\ Len(q) \in Nat
      /\ \A i \in 1 .. Len(q) : s[i] = q[i]
  OBVIOUS
<1>2. s # <<>> /\ (q # <<>> => 1 \in 1 .. Len(q))
  BY <1>1
<1>3. \A i \in 1 .. Len(s) : i = Len(q) + 1 \/ i \in 1 .. Len(q)
  BY <1>1
<1>4. Once(s)
  BY <1>1, <1>3 DEF Once, On
<1>5. On(s, r) /\ \A x : On(q, x) => On(s, x)
  BY <1>1 DEF On
<1> QED
  BY <1>1, <1>2, <1>3, <1>4, <1>5, Zenon

\* A destroyed region is taken off the LRU list.
LEMMA LruDestroyed ==
    ASSUME TypeInv, LruInv, NEW r \in 1 .. Len(region), NEW n, NEW p, NEW g, NEW f, NEW k,
           Upd(r, n, p, g, f, k), lru' = Without(lru, r), \A t \in Threads : at'[t] # "evicting"
    PROVE  LruInv'
<1>1. /\ lru \in Seq(Nat) /\ Once(lru)
      /\ \A i \in 1 .. Len(lru) : Live(lru[i]) /\ lru[i] \in 1 .. Len(region)
  BY Bounds, Zenon DEF TypeInv, LruInv
<1>2. /\ Once(lru') /\ ~On(lru', r)
      /\ \A i \in 1 .. Len(lru') : \E j \in 1 .. Len(lru) : lru'[i] = lru[j]
  <2>1. Once(Without(lru, r)) /\ ~On(Without(lru, r), r)
    BY <1>1, WithoutFacts, Zenon
  <2>2. \A i \in 1 .. Len(Without(lru, r)) : \E j \in 1 .. Len(lru) : Without(lru, r)[i] = lru[j]
    BY <1>1, WithoutFacts
  <2> QED
    BY <2>1, <2>2, Zenon
<1>3. \A i \in 1 .. Len(lru') : ~region'[lru'[i]].freed
  BY <1>1, <1>2 DEF On, Upd, Live
<1> QED
  BY <1>2, <1>3, Zenon DEF LruInv, Live

\* Thread t ends the destruction of region r; nobody evicts.
LEMMA DestroyCount ==
    ASSUME TypeInv, CountInv, NEW t \in Threads, NEW r, held[t] = r, at[t] \in Destroying,
           \A u \in Threads : at[u] # "evicting", NEW a \in {"gc", "idle"},
           Upd(r, region[r].ref, region[r].pgt, region[r].reg, TRUE, region[r].gens),
           lru' = Without(lru, r), Moves(t, a, NoRegion), gc_list' = gc_list
    PROVE  CountInv'
<1>1. HeldInv /\ GcInv /\ ZeroInv /\ LruInv /\ RefInv
  BY Zenon DEF CountInv
<1>2. /\ r # NoRegion /\ r \in 1 .. Len(region) /\ ~region[r].pgt
      /\ \A u \in Threads : held[u] = r => u = t
  BY <1>1, Bounds, Zenon DEF HeldInv, HeldOf, Full
<1>3. HeldInv'
  <2>1. HeldOf(t)'
    BY Zenon DEF HeldOf, Full, Destroying, Moves
  <2>2. ASSUME NEW u \in Threads, u # t PROVE HeldOf(u)'
    BY <1>1, <1>2, <2>2, Bounds DEF HeldInv, HeldOf, Upd, Live, Moves
  <2> QED
    BY <2>1, <2>2, Zenon DEF HeldInv
<1>4. GcInv'
  BY <1>1, <1>2, Bounds DEF GcInv, Upd, Live, Moves
<1>5. ZeroInv'
  BY <1>1, <1>2 DEF ZeroInv, Upd, Live, Moves
<1>6. LruInv'
  BY <1>1, <1>2, LruDestroyed, Zenon DEF Moves
<1>7. RefInv'
  <2>1. \A q \in 1 .. Len(region) : q # r => Cardinality(Holders(q))' = Cardinality(Holders(q))
    BY HoldersSame, RcacheAssumption DEF Moves
  <2> QED
    BY <1>1, <1>2, <2>1 DEF RefInv, Upd, Live
<1> QED
  BY <1>3, <1>4, <1>5, <1>6, <1>7, Zenon DEF CountInv

\* Thread t takes the first region of the garbage list and deregisters it.
LEMMA GcTakeCount ==
    ASSUME TypeInv, CountInv, NEW t \in Threads, held[t] = NoRegion,
           gc_list # <<>>, NEW r, r = Head(gc_list), region[r].reg, gc_list' = Tail(gc_list),
           Moves(t, "dereg", r), UNCHANGED <<region, lru>>
    PROVE  CountInv'
<1>1. HeldInv /\ GcInv /\ ZeroInv /\ LruInv /\ RefInv /\ gc_list \in Seq(Nat) /\ Once(gc_list)
  BY Zenon DEF CountInv, TypeInv, GcInv
<1>2. /\ r = gc_list[1] /\ 1 \in 1 .. Len(gc_list)
      /\ \A i \in 1 .. Len(gc_list') : \E j \in 1 .. Len(gc_list) : gc_list'[i] = gc_list[j]
      /\ Once(gc_list') /\ \A i \in 1 .. Len(gc_list') : gc_list'[i] # r
      /\ \A x : On(gc_list, x) => x = r \/ On(gc_list', x)
  BY <1>1, TailFacts
<1>3. /\ r \in 1 .. Len(region) /\ r # NoRegion /\ Live(r) /\ ~region[r].pgt /\ region[r].ref = 0
      /\ \A u \in Threads : held[u] # r
  BY <1>1, <1>2, Bounds DEF GcInv
<1>4. HeldInv'
  <2>1. HeldOf(t)'
    BY <1>3, Zenon DEF HeldOf, Live, Empty, Destroying, Unmapping, Moves
  <2>2. ASSUME NEW u \in Threads, u # t PROVE HeldOf(u)'
    BY <1>1, <1>3, <2>2 DEF HeldInv, HeldOf, Live, Moves
  <2> QED
    BY <2>1, <2>2, Zenon DEF HeldInv
<1>5. GcInv'
  <2>1. \A i \in 1 .. Len(gc_list') :
           /\ ~region[gc_list'[i]].freed /\ ~region[gc_list'[i]].pgt /\ region[gc_list'[i]].ref = 0
           /\ \A u \in Threads : held[u] # gc_list'[i]
    BY <1>1, <1>2 DEF GcInv, Live
  <2> QED
    BY <1>2, <2>1 DEF GcInv, Live, Moves
<1>6. ZeroInv'
  <2>1. held'[t] = r /\ at'[t] \in Destroying
    BY Zenon DEF Moves, Destroying
  <2> QED
    <3> SUFFICES ASSUME NEW q \in 1 .. Len(region), ~region[q].freed, region[q].ref = 0
                 PROVE  On(gc_list', q) \/ \E u \in Threads : held'[u] = q /\ at'[u] \in Destroying
      BY <1>1, Zenon DEF ZeroInv, Live
    <3>1. On(gc_list, q) \/ \E u \in Threads : held[u] = q /\ at[u] \in Destroying
      BY <1>1, Zenon DEF ZeroInv, Live
    <3>2. \A u \in Threads : held[u] = q => u # t
      BY Bounds, Zenon
    <3> QED
      BY <1>2, <2>1, <3>1, <3>2 DEF Moves
<1>7. LruInv'
  BY <1>1, LruSame, Zenon
<1>8. RefInv'
  <2>1. \A q \in 1 .. Len(region) : Cardinality(Holders(q))' = Cardinality(Holders(q))
    BY <1>3, HoldersSame, Bounds, Zenon DEF Moves, Using
  <2> QED
    BY <1>1, <2>1, Zenon DEF RefInv, Live
<1> QED
  BY <1>4, <1>5, <1>6, <1>7, <1>8, Zenon DEF CountInv

\* The first region of the garbage list was never registered: it is destroyed at once.
LEMMA GcDestroyCount ==
    ASSUME TypeInv, CountInv, \A u \in Threads : at[u] # "evicting",
           gc_list # <<>>, NEW r, r = Head(gc_list), gc_list' = Tail(gc_list),
           Upd(r, region[r].ref, region[r].pgt, region[r].reg, TRUE, region[r].gens),
           lru' = Without(lru, r), UNCHANGED <<at, held>>
    PROVE  CountInv'
<1>1. HeldInv /\ GcInv /\ ZeroInv /\ LruInv /\ RefInv /\ gc_list \in Seq(Nat) /\ Once(gc_list)
  BY Zenon DEF CountInv, TypeInv, GcInv
<1>2. /\ r = gc_list[1] /\ 1 \in 1 .. Len(gc_list)
      /\ \A i \in 1 .. Len(gc_list') : \E j \in 1 .. Len(gc_list) : gc_list'[i] = gc_list[j]
      /\ Once(gc_list') /\ \A i \in 1 .. Len(gc_list') : gc_list'[i] # r
      /\ \A x : On(gc_list, x) => x = r \/ On(gc_list', x)
  BY <1>1, TailFacts, Zenon
<1>3. /\ r \in 1 .. Len(region) /\ r # NoRegion /\ ~region[r].pgt
      /\ \A u \in Threads : held[u] # r
  BY <1>1, <1>2, Bounds, Zenon DEF GcInv
<1>4. HeldInv'
  BY <1>1, <1>3, Bounds DEF HeldInv, HeldOf, Live, Upd
<1>5. GcInv'
  BY <1>1, <1>2, Bounds DEF GcInv, Live, Upd
<1>6. ZeroInv'
  <2> SUFFICES ASSUME NEW q \in 1 .. Len(region), q # r, ~region[q].freed, region[q].ref = 0
               PROVE  On(gc_list', q) \/ \E u \in Threads : held[u] = q /\ at[u] \in Destroying
    BY <1>1, <1>3, SMTT(30) DEF ZeroInv, Live, Upd
  <2>1. On(gc_list, q) \/ \E u \in Threads : held[u] = q /\ at[u] \in Destroying
    BY <1>1, Zenon DEF ZeroInv, Live
  <2> QED
    BY <1>2, <2>1, Zenon
<1>7. LruInv'
  BY <1>1, <1>3, LruDestroyed, Zenon
<1>8. RefInv'
  <2>1. \A q \in 1 .. Len(region) : Cardinality(Holders(q))' = Cardinality(Holders(q))
    BY HoldersSame, Zenon
  <2> QED
    BY <1>1, <1>3, <2>1, Zenon DEF RefInv, Live, Upd
<1> QED
  BY <1>4, <1>5, <1>6, <1>7, <1>8, Zenon DEF CountInv

\* Thread t invalidates region r.  It goes to place a, where it has the same region, or
\* none when it could not register r.  Nobody evicts any longer, and nobody else
\* registers r.
LEMMA InvalidateCount ==
    ASSUME TypeInv, CountInv, NEW t \in Threads, NEW a, NEW h, Moves(t, a, h),
           NEW r \in 1 .. Len(region), NEW toGc, NEW w \in BOOLEAN, InvalidateRegion(r, toGc, w),
           \A u \in Threads : at'[u] # "evicting",
           \A u \in Threads : at'[u] = "register" => held'[u] # r,
           \/ h = held[t] /\ (a = at[t] \/ (at[t] = "evicting" /\ a = "evict"))
           \/ h = NoRegion /\ at[t] = "register" /\ a = "inv"
    PROVE  CountInv'
<1>1. HeldInv /\ GcInv /\ ZeroInv /\ LruInv /\ RefInv
  BY Zenon DEF CountInv
<1>2. /\ region[r].pgt => Live(r) /\ region[r].ref >= 1
      /\ region[r].pgt /\ region[r].ref = 1 => \A u \in Threads : held[u] = r => at[u] = "register"
  BY PgtRef, Zenon
<1>3. \A u \in Threads :
         \/ held'[u] = held[u] /\ (at'[u] = at[u] \/ (at[u] = "evicting" /\ at'[u] = "evict"))
         \/ held'[u] = NoRegion /\ at[u] = "register" /\ at'[u] = "inv"
  BY Zenon DEF Moves
<1>4. \A q \in 1 .. Len(region) : Cardinality(Holders(q))' = Cardinality(Holders(q))
  BY <1>3, HoldersSame, Bounds, Zenon DEF Using
<1>5. \A q \in 1 .. Len(region), u \in Threads :
         (held'[u] = q /\ at'[u] \in Destroying) <=> (held[u] = q /\ at[u] \in Destroying)
  BY <1>3, Bounds, Zenon DEF Destroying
<1>6. region[r].pgt /\ region[r].ref = 1 => \A u \in Threads : held'[u] # r
  <2> SUFFICES ASSUME region[r].pgt, region[r].ref = 1, NEW u \in Threads, held'[u] = r PROVE FALSE
    BY Zenon
  <2>1. r # NoRegion
    BY Bounds, Zenon
  <2> QED
    BY <1>2, <1>3, <2>1, Zenon
<1>7. region[r].pgt => /\ \A u \in Threads : held[u] = r => at[u] \notin Destroying
                       /\ ~On(gc_list, r)
  <2> SUFFICES ASSUME region[r].pgt
               PROVE  /\ \A u \in Threads : held[u] = r => at[u] \notin Destroying
                      /\ ~On(gc_list, r)
    BY Zenon
  <2>1. ~On(gc_list, r)
    BY <1>1, Zenon DEF GcInv, On
  <2> QED
    BY <1>1, <2>1, Bounds, Zenon DEF HeldInv, HeldOf
\* Threads that keep their region keep what they know of it.
<1>8. ASSUME \A q \in 1 .. Len(region) : q # r => region'[q] = region[q],
             region'[r].reg = region[r].reg,
             \A u \in Threads : held'[u] = r => ~region'[r].freed,
             \A u \in Threads : held'[u] = r /\ at'[u] \in Destroying =>
                                   ~region'[r].pgt /\ region'[r].ref = 0
      PROVE  HeldInv'
  <2> SUFFICES ASSUME NEW u \in Threads PROVE HeldOf(u)'
    BY Zenon DEF HeldInv
  <2>1. HeldOf(u)
    BY <1>1, Zenon DEF HeldInv
  <2>2. CASE held'[u] = NoRegion
    <3>1. at'[u] \notin Full
      BY <1>3, <2>1, <2>2, Zenon DEF HeldOf, Full, Destroying
    <3> QED
      BY <2>2, <3>1, Zenon DEF HeldOf
  <2>3. CASE held'[u] # NoRegion
    <3>1. held'[u] = held[u] /\ (at'[u] = at[u] \/ (at[u] = "evicting" /\ at'[u] = "evict"))
      BY <1>3, <2>3, Zenon
    <3>2. /\ held[u] \in 1 .. Len(region) /\ at'[u] \notin Empty /\ Live(held[u])
          /\ region[held[u]].reg <=> at'[u] # "register"
          /\ at'[u] = "register" => region[held[u]].pgt
      BY <2>1, <2>3, <3>1, Bounds, Zenon DEF HeldOf, Empty, Unmapping
    <3>3. at'[u] \in Destroying =>
             /\ ~region'[held[u]].pgt /\ region'[held[u]].ref = 0
             /\ \A v \in Threads : held'[v] = held[u] => v = u
      <4> SUFFICES ASSUME at'[u] \in Destroying
                   PROVE  /\ ~region'[held[u]].pgt /\ region'[held[u]].ref = 0
                          /\ \A v \in Threads : held'[v] = held[u] => v = u
        BY Zenon
      <4>1. at[u] \in Destroying /\ \A v \in Threads : held'[v] = held[u] => held[v] = held[u]
        BY <1>3, <2>3, <3>1, Zenon DEF Destroying
      <4> QED
        BY <1>8, <2>1, <2>3, <3>1, <3>2, <4>1, Zenon DEF HeldOf
    <3>4. ~region'[held[u]].freed /\ (region'[held[u]].reg <=> at'[u] # "register")
          /\ (at'[u] = "register" => region'[held[u]].pgt)
      BY <1>8, <3>1, <3>2, Zenon DEF Live
    <3> QED
      BY <2>3, <3>1, <3>2, <3>3, <3>4, Zenon DEF HeldOf, Live
  <2> QED
    BY <2>2, <2>3, Zenon
<1>9. CASE /\ Upd(r, region[r].ref, region[r].pgt, region[r].reg, region[r].freed, region[r].gens)
           /\ ~region[r].pgt /\ UNCHANGED <<gc_list, lru>>
  <2>1. /\ Len(region') = Len(region)
        /\ \A q \in 1 .. Len(region) :
              /\ region'[q].ref = region[q].ref /\ region'[q].pgt = region[q].pgt
              /\ region'[q].freed = region[q].freed
    BY <1>9, Zenon DEF Upd
  <2>2. HeldInv'
    <3>1. \A u \in Threads : held'[u] = r => held[u] = r /\ ~region[r].freed
      BY <1>1, <1>3, Bounds DEF HeldInv, HeldOf, Live
    <3>2. \A u \in Threads : held'[u] = r /\ at'[u] \in Destroying => region[r].ref = 0
      BY <1>1, <1>5, Bounds DEF HeldInv, HeldOf
    <3> QED
      BY <1>8, <1>9, <2>1, <3>1, <3>2, Zenon DEF Upd
  <2>3. GcInv'
    BY <1>1, <1>3, <1>9, <2>1, Bounds DEF GcInv, Live
  <2>4. ZeroInv'
    BY <1>1, <1>5, <1>9, <2>1 DEF ZeroInv, Live
  <2>5. LruInv'
    BY <1>1, <1>9, <2>1, Bounds, Zenon DEF LruInv, Live
  <2>6. RefInv'
    BY <1>1, <1>4, <2>1 DEF RefInv, Live
  <2> QED
    BY <2>2, <2>3, <2>4, <2>5, <2>6, Zenon DEF CountInv
<1>10. CASE /\ Upd(r, region[r].ref - 1, FALSE, region[r].reg, region[r].freed, region[r].gens)
            /\ region[r].pgt /\ region[r].ref # 1 /\ UNCHANGED <<gc_list, lru>>
  <2>1. /\ Len(region') = Len(region) /\ \A q \in 1 .. Len(region) : q # r => region'[q] = region[q]
        /\ region'[r].ref = region[r].ref - 1 /\ region'[r].ref # 0 /\ ~region'[r].pgt
        /\ ~region'[r].freed /\ region'[r].reg = region[r].reg /\ region[r].ref \in Nat
    BY <1>2, <1>10, RegionFields, Bounds DEF Upd, Live
  <2>2. HeldInv'
    BY <1>5, <1>7, <1>8, <1>10, <2>1, Zenon
  <2>3. GcInv'
    <3>1. \A i \in 1 .. Len(gc_list) : gc_list[i] # r
      BY <1>7, <1>10, Zenon DEF On
    <3> QED
      BY <1>1, <1>3, <1>10, <2>1, <3>1, Bounds DEF GcInv, Live
  <2>4. ZeroInv'
    BY <1>1, <1>5, <1>10, <2>1 DEF ZeroInv, Live
  <2>5. LruInv'
    BY <1>1, <1>10, <2>1, Bounds, Zenon DEF LruInv, Live
  <2>6. RefInv'
    <3>1. region[r].ref = Cardinality(Holders(r)) + 1
      BY <1>1, <1>2, <1>10, Zenon DEF RefInv
    <3>2. Cardinality(Holders(r)) \in Nat
      BY ThreadSets, Zenon DEF Holders
    <3> QED
      BY <1>1, <1>4, <2>1, <3>1, <3>2 DEF RefInv, Live
  <2> QED
    BY <2>2, <2>3, <2>4, <2>5, <2>6, Zenon DEF CountInv
\* The page table had the last reference.
<1>11. ASSUME region[r].pgt, region[r].ref = 1
       PROVE  Cardinality(Holders(r)) = 0
  <2>1. region[r].ref = Cardinality(Holders(r)) + 1 /\ Cardinality(Holders(r)) \in Nat
    BY <1>1, <1>2, <1>11, ThreadSets, Zenon DEF RefInv, Holders
  <2> QED
    BY <1>11, <2>1
<1>12. CASE /\ Upd(r, 0, FALSE, region[r].reg, region[r].freed, region[r].gens)
            /\ region[r].pgt /\ region[r].ref = 1
            /\ toGc /\ gc_list' = Append(gc_list, r) /\ UNCHANGED lru
  <2>1. /\ Len(region') = Len(region) /\ \A q \in 1 .. Len(region) : q # r => region'[q] = region[q]
        /\ region'[r].ref = 0 /\ ~region'[r].pgt
        /\ ~region'[r].freed /\ region'[r].reg = region[r].reg
    BY <1>2, <1>12, Zenon DEF Upd, Live
  <2>2. HeldInv'
    BY <1>6, <1>8, <1>12, <2>1, Zenon
  <2>3. /\ \A i \in 1 .. Len(gc_list') :
              gc_list'[i] = r \/ \E j \in 1 .. Len(gc_list) : gc_list'[i] = gc_list[j]
        /\ Once(gc_list') /\ On(gc_list', r) /\ \A x : On(gc_list, x) => On(gc_list', x)
    <3>1. gc_list \in Seq(Nat) /\ r \in Nat /\ Once(gc_list) /\ ~On(gc_list, r)
      BY <1>1, <1>7, <1>12 DEF TypeInv, GcInv
    <3> QED
      BY <1>12, <3>1, AppendFacts
  <2>4. GcInv'
    <3>1. \A i \in 1 .. Len(gc_list) :
             /\ gc_list[i] \in 1 .. Len(region) /\ gc_list[i] # r /\ gc_list[i] # NoRegion
             /\ ~region[gc_list[i]].freed /\ ~region[gc_list[i]].pgt /\ region[gc_list[i]].ref = 0
             /\ \A u \in Threads : held[u] # gc_list[i]
      BY <1>1, <1>12, Bounds, Zenon DEF GcInv, Live
    <3>2. \A i \in 1 .. Len(gc_list') :
             /\ ~region'[gc_list'[i]].freed /\ ~region'[gc_list'[i]].pgt
             /\ region'[gc_list'[i]].ref = 0
      BY <2>1, <2>3, <3>1
    <3>3. \A i \in 1 .. Len(gc_list'), u \in Threads : held'[u] # gc_list'[i]
      BY <1>3, <1>6, <1>12, <2>3, <3>1
    <3> QED
      BY <2>3, <3>2, <3>3, Zenon DEF GcInv, Live
  <2>5. ZeroInv'
    <3> SUFFICES ASSUME NEW q \in 1 .. Len(region), q # r
                 PROVE  /\ ~region[q].freed /\ region[q].ref = 0 =>
                              \/ On(gc_list', q)
                              \/ \E u \in Threads : held'[u] = q /\ at'[u] \in Destroying
                        /\ region[q].pgt => ~region[q].freed
      BY <2>1, <2>3 DEF ZeroInv, Live
    <3>1. /\ ~region[q].freed /\ region[q].ref = 0 =>
                On(gc_list, q) \/ \E u \in Threads : held[u] = q /\ at[u] \in Destroying
          /\ region[q].pgt => ~region[q].freed
      BY <1>1, Zenon DEF ZeroInv, Live
    <3> QED
      BY <1>5, <2>3, <3>1, Zenon
  <2>6. LruInv'
    BY <1>1, <1>12, <2>1, Bounds, Zenon DEF LruInv, Live
  <2>7. RefInv'
    BY <1>1, <1>4, <1>11, <1>12, <2>1 DEF RefInv, Live
  <2> QED
    BY <2>2, <2>4, <2>5, <2>6, <2>7, Zenon DEF CountInv
<1>13. CASE /\ Upd(r, 0, FALSE, region[r].reg, TRUE, region[r].gens)
            /\ region[r].pgt /\ region[r].ref = 1
            /\ ~toGc /\ lru' = Without(lru, r) /\ UNCHANGED gc_list
  <2>1. /\ Len(region') = Len(region) /\ \A q \in 1 .. Len(region) : q # r => region'[q] = region[q]
        /\ ~region'[r].pgt /\ region'[r].freed /\ region'[r].reg = region[r].reg
    BY <1>13, Zenon DEF Upd
  <2>2. HeldInv'
    BY <1>6, <1>8, <1>13, <2>1, Zenon
  <2>3. GcInv'
    <3>1. \A i \in 1 .. Len(gc_list) : gc_list[i] # r
      BY <1>7, <1>13, Zenon DEF On
    <3> QED
      BY <1>1, <1>3, <1>13, <2>1, <3>1, Bounds DEF GcInv, Live
  <2>4. ZeroInv'
    BY <1>1, <1>5, <1>13, <2>1 DEF ZeroInv, Live
  <2>5. LruInv'
    BY <1>1, <1>13, LruDestroyed, Zenon
  <2>6. RefInv'
    BY <1>1, <1>4, <2>1, Zenon DEF RefInv, Live
  <2> QED
    BY <2>2, <2>3, <2>4, <2>5, <2>6, Zenon DEF CountInv
<1> QED
  BY <1>2, <1>9, <1>10, <1>12, <1>13, InvalidateUpd, Bounds, Zenon

Inv == TypeInv /\ LockInv /\ CountInv

\* Who has the lock for writing is alone; with nobody having it, nobody evicts.
LEMMA Alone ==
    ASSUME TypeInv, LockInv
    PROVE  /\ \A t, u \in Threads : at[t] \in Locked /\ at[u] \in Locked => t = u
           /\ writer = NoThread => \A t \in Threads : at[t] \notin Locked
           /\ \A t \in Threads : at[t] \in Locked => \A u \in Threads : at[u] # "fast"
  BY RcacheAssumption DEF LockInv, NoThread, TypeInv

\* Where the async thread may be.
AsyncPlaces == {"idle", "lock", "inv", "inv_scan", "gc", "dereg"}

\* A step that leaves the locks.
LEMMA LockStays ==
    ASSUME LockInv, NEW t \in Threads, NEW a, NEW h, Moves(t, a, h), UNCHANGED <<writer, readers>>,
           at[t] \in Locked <=> a \in Locked, at[t] = "fast" <=> a = "fast",
           t = Async => a \in AsyncPlaces /\ (a = "idle" => h = NoRegion)
    PROVE  LockInv'
<1>1. Async \in Threads
  BY Zenon DEF Threads
<1> QED
  BY <1>1, Zenon DEF LockInv, Moves, AsyncPlaces

\* The lock for writing is taken.
LEMMA LockTaken ==
    ASSUME LockInv, NEW t \in Threads, NEW a \in Locked, NEW h, Moves(t, a, h),
           Unlocked, writer' = t, readers' = readers,
           t = Async => a \in AsyncPlaces /\ (a = "idle" => h = NoRegion)
    PROVE  LockInv'
<1>1. Async \in Threads /\ a # "fast"
  BY Zenon DEF Threads, Locked
<1>2. \A u \in Threads : at[u] \notin Locked /\ u \notin readers /\ at[u] # "fast"
  BY RcacheAssumption, Zenon DEF LockInv, Unlocked, NoThread
<1> QED
  BY <1>1, <1>2, Zenon DEF LockInv, Moves, AsyncPlaces, Unlocked

\* The lock for writing is released.
LEMMA LockReleased ==
    ASSUME LockInv, NEW t \in Threads, NEW a, NEW h, Moves(t, a, h), at[t] \in Locked,
           a \notin Locked, a # "fast",
           writer' = NoThread, readers' = readers,
           t = Async => a \in AsyncPlaces /\ (a = "idle" => h = NoRegion)
    PROVE  LockInv'
<1>1. Async \in Threads /\ NoThread \notin Threads
  BY RcacheAssumption, Zenon DEF Threads, NoThread
<1>2. writer = t /\ \A u \in Threads : u \notin readers /\ at[u] # "fast"
  BY <1>1, Zenon DEF LockInv
<1> QED
  BY <1>1, <1>2, Zenon DEF LockInv, Moves, AsyncPlaces

\* A control step without the LRU list.
LEMMA ControlStep ==
    ASSUME TypeInv, CountInv, NEW t \in Threads, NEW a \in Places, a # "evicting",
           UNCHANGED <<region, gc_list, lru>>, Moves(t, a, held[t]),
           \/ held[t] = NoRegion /\ a \notin Full
           \/ held[t] # NoRegion /\ at[t] \in Using /\ a \in Using
           \/ held[t] # NoRegion /\ at[t] \in Destroying /\ a \in Destroying
    PROVE  CountInv'
<1>1. HeldInv' /\ GcInv' /\ ZeroInv' /\ RefInv'
  BY ControlCount, Zenon
<1>2. LruInv'
  BY LruSame, Zenon DEF CountInv
<1> QED
  BY <1>1, <1>2, Zenon DEF CountInv

\* A thread at one of the places without a region has none.
LEMMA NothingHeld ==
    ASSUME CountInv, NEW t \in Threads, at[t] \in Empty
    PROVE  held[t] = NoRegion
  BY Zenon DEF CountInv, HeldInv, HeldOf

\* A thread at one of the places with a region has one.
LEMMA SomethingHeld ==
    ASSUME TypeInv, CountInv, NEW t \in Threads, at[t] \in Full
    PROVE  held[t] # NoRegion /\ held[t] \in 1 .. Len(region)
  BY Zenon DEF CountInv, HeldInv, HeldOf, TypeInv

\* ucs_rcache_get is entered: nothing of the cache changes.
LEMMA StartGetStep ==
    ASSUME TypeInv, LockInv, CountInv, NEW t \in Thread, NEW g \in Ranges, StartGet(t, g)
    PROVE  Inv'
<1>1. t \in Threads /\ t # Async
  BY RcacheAssumption, Zenon DEF Threads
<1>2. TypeInv'
  BY <1>1, Zenon DEF StartGet, cache, locks, Goto, TypeInv, Places, Getting
<1>3. Moves(t, "get", held[t]) /\ held[t] = NoRegion
  BY <1>1, Zenon DEF StartGet, Goto, Moves, TypeInv
<1>4. LockInv'
  BY <1>1, <1>3, LockStays, Zenon DEF StartGet, locks, Locked
<1>5. CountInv'
  BY <1>1, <1>3, ControlStep, Zenon DEF StartGet, cache, Places, Getting, Full, Destroying
<1> QED
  BY <1>2, <1>4, <1>5, Zenon DEF Inv

\* ucs_rcache_create_region takes the lock for writing; so does the handler.
LEMMA LockStep ==
    ASSUME TypeInv, LockInv, CountInv, NEW t \in Threads, Lock(t)
    PROVE  Inv'
<1>2. TypeInv'
  BY Zenon DEF Lock, cache, locks, Goto, TypeInv, Places, Getting
<1>3. Moves(t, "inv", held[t]) /\ held[t] = NoRegion
  BY NothingHeld, Zenon DEF Lock, Goto, Moves, TypeInv, Empty
<1>4. LockInv'
  BY <1>3, LockTaken, Zenon DEF Lock, locks, Locked, AsyncPlaces
<1>5. CountInv'
  BY <1>3, ControlStep, Zenon DEF Lock, cache, Places, Getting, Full, Destroying
<1> QED
  BY <1>2, <1>4, <1>5, Zenon DEF Inv

\* ucs_rcache_check_inv_queue takes a range off the queue, or ends.
LEMMA CheckInvQueueStep ==
    ASSUME TypeInv, LockInv, CountInv, NEW t \in Threads, CheckInvQueue(t)
    PROVE  Inv'
<1>0. held[t] = NoRegion /\ (t = Async => at[t] = "inv") /\ at[t] \in {"inv", "unmap_inv"}
  BY NothingHeld, Zenon DEF CheckInvQueue, Empty, Unmapping, LockInv
<1>2. TypeInv'
  <2>1. inv_q # <<>> => Tail(inv_q) \in Seq(Ranges) /\ Head(inv_q) \in Ranges
    BY DEF TypeInv
  <2> QED
    BY <1>0, <2>1, Zenon DEF CheckInvQueue, Goto, TypeInv, Places, Getting, Unmapping
<1>3. CASE inv_q # <<>>
  <2> DEFINE a == IF at[t] = "inv" THEN "inv_scan" ELSE "unmap_scan"
  <2>1. Moves(t, a, held[t]) /\ UNCHANGED <<writer, readers, region, gc_list, lru>>
    BY <1>0, <1>3, Zenon DEF CheckInvQueue, Goto, Moves, TypeInv
  <2>2. a \in {"inv_scan", "unmap_scan"} /\ (t = Async => a = "inv_scan")
    BY <1>0, Zenon
  <2> HIDE DEF a
  <2>3. LockInv'
    BY <1>0, <2>1, <2>2, LockStays, Zenon DEF Locked, AsyncPlaces
  <2>4. CountInv'
    BY <1>0, <2>1, <2>2, ControlStep, Zenon DEF Places, Getting, Unmapping, Full, Destroying
  <2> QED
    BY <1>2, <2>3, <2>4, Zenon DEF Inv
<1>4. CASE inv_q = <<>> /\ at[t] = "inv"
  <2>1. Moves(t, "gc", held[t]) /\ UNCHANGED <<writer, readers, region, gc_list, lru>>
    BY <1>4, Zenon DEF CheckInvQueue, Goto, Moves, TypeInv
  <2>3. LockInv'
    BY <1>4, <2>1, LockStays, Zenon DEF Locked, AsyncPlaces
  <2>4. CountInv'
    BY <1>0, <2>1, ControlStep, Zenon DEF Places, Getting, Full, Destroying
  <2> QED
    BY <1>2, <2>3, <2>4, Zenon DEF Inv
<1>5. CASE inv_q = <<>> /\ at[t] = "unmap_inv"
  <2>1. Moves(t, "munmap", held[t]) /\ UNCHANGED <<readers, region, gc_list, lru>> /\ writer' = NoThread
    BY <1>5, Zenon DEF CheckInvQueue, Goto, Moves, TypeInv
  <2>3. LockInv'
    BY <1>0, <1>5, <2>1, LockReleased, Zenon DEF Locked
  <2>4. CountInv'
    BY <1>0, <2>1, ControlStep, Zenon DEF Places, Unmapping, Full, Destroying
  <2> QED
    BY <1>2, <2>3, <2>4, Zenon DEF Inv
<1> QED
  BY <1>0, <1>3, <1>4, <1>5, Zenon

\* Lists of numbers up to n.
LEMMA ListTypes ==
    ASSUME NEW q \in Seq(Nat), NEW n \in Nat, NEW r, \A i \in 1 .. Len(q) : q[i] \in 1 .. n
    PROVE  /\ Without(q, r) \in Seq(Nat)
           /\ \A i \in 1 .. Len(Without(q, r)) : Without(q, r)[i] \in 1 .. n
           /\ r \in 1 .. n =>
                 /\ Append(q, r) \in Seq(Nat)
                 /\ \A i \in 1 .. Len(Append(q, r)) : Append(q, r)[i] \in 1 .. n
           /\ q # <<>> =>
                 /\ Tail(q) \in Seq(Nat) /\ Head(q) \in 1 .. n
                 /\ \A i \in 1 .. Len(Tail(q)) : Tail(q)[i] \in 1 .. n
<1>1. Without(q, r) \in Seq(Nat)
  BY WithoutFacts, Zenon
<1>2. \A i \in 1 .. Len(Without(q, r)) : \E j \in 1 .. Len(q) : Without(q, r)[i] = q[j]
  BY WithoutFacts
<1>3. \A i \in 1 .. Len(Without(q, r)) : Without(q, r)[i] \in 1 .. n
  BY <1>2, Zenon
<1>4. ASSUME r \in 1 .. n
      PROVE  /\ Append(q, r) \in Seq(Nat)
             /\ \A i \in 1 .. Len(Append(q, r)) : Append(q, r)[i] \in 1 .. n
  BY <1>4
<1>5. ASSUME q # <<>>
      PROVE  /\ Tail(q) \in Seq(Nat) /\ Head(q) \in 1 .. n
             /\ \A i \in 1 .. Len(Tail(q)) : Tail(q)[i] \in 1 .. n
  BY <1>5
<1> QED
  BY <1>1, <1>3, <1>4, <1>5, Zenon

\* What an invalidation leaves of the types.
LEMMA InvalidateTypes ==
    ASSUME TypeInv, NEW r \in 1 .. Len(region), NEW toGc, NEW w \in BOOLEAN,
           region[r].pgt => region[r].ref >= 1, InvalidateRegion(r, toGc, w)
    PROVE  /\ region' \in Seq(Region) /\ Len(region') = Len(region)
           /\ gc_list' \in Seq(Nat) /\ lru' \in Seq(Nat)
           /\ \A i \in 1 .. Len(gc_list') : gc_list'[i] \in 1 .. Len(region)
           /\ \A i \in 1 .. Len(lru') : lru'[i] \in 1 .. Len(region)
<1>1. /\ region \in Seq(Region) /\ r \in Nat /\ gc_list \in Seq(Nat) /\ lru \in Seq(Nat)
      /\ \A i \in 1 .. Len(gc_list) : gc_list[i] \in 1 .. Len(region)
      /\ \A i \in 1 .. Len(lru) : lru[i] \in 1 .. Len(region)
  BY DEF TypeInv
<1>2. /\ region' \in Seq(Region) /\ Len(region') = Len(region)
      /\ gc_list' = gc_list \/ gc_list' = Append(gc_list, r)
      /\ lru' = lru \/ lru' = Without(lru, r)
  BY <1>1, InvalidateUpd, Zenon DEF Upd
<1>3. Len(region) \in Nat
  BY <1>1
<1>4. gc_list' \in Seq(Nat) /\ \A i \in 1 .. Len(gc_list') : gc_list'[i] \in 1 .. Len(region)
  BY <1>1, <1>2, <1>3, ListTypes, Zenon
<1>5. lru' \in Seq(Nat) /\ \A i \in 1 .. Len(lru') : lru'[i] \in 1 .. Len(region)
  BY <1>1, <1>2, <1>3, ListTypes, Zenon
<1> QED
  BY <1>2, <1>4, <1>5, Zenon

\* A step of a thread that changes no list of regions and no region.
LEMMA InvalidateRangeStep ==
    ASSUME TypeInv, LockInv, CountInv, NEW t \in Threads, InvalidateRange(t)
    PROVE  Inv'
<1>0. at[t] \in {"inv_scan", "unmap_scan", "fork_scan"} /\ (t = Async => at[t] = "inv_scan")
  BY Zenon DEF InvalidateRange, LockInv
<1>1. ASSUME NEW r \in FirstOf(Found(span[t])),
             InvalidateRegion(r, at[t] = "unmap_scan", region[r].waiting),
             UNCHANGED <<at, span, writer>>
      PROVE  Inv'
  <2>0. r \in 1 .. Len(region) /\ region[r].pgt /\ region \in Seq(Region)
    BY <1>1 DEF FirstOf, Found, InPgt, TypeInv
  <2>1. region[r].waiting \in BOOLEAN /\ region[r].ref >= 1
    BY <2>0, RegionFields, PgtRef, Zenon
  <2>2. UNCHANGED <<inv_q, readers, gen, held, asked, fresh, merged, at, span, writer>>
    BY <1>1, Zenon DEF InvalidateRange
  <2>3. TypeInv'
    <3>1. /\ region' \in Seq(Region) /\ Len(region') = Len(region)
          /\ gc_list' \in Seq(Nat) /\ lru' \in Seq(Nat)
          /\ \A i \in 1 .. Len(gc_list') : gc_list'[i] \in 1 .. Len(region)
          /\ \A i \in 1 .. Len(lru') : lru'[i] \in 1 .. Len(region)
      BY <1>1, <2>0, <2>1, InvalidateTypes, Zenon
    <3> QED
      BY <2>2, <3>1, Zenon DEF TypeInv
  <2>4. LockInv'
    BY <2>2, Zenon DEF LockInv
  <2>5. CountInv'
    <3>1. Moves(t, at[t], held[t])
      BY <2>2, Zenon DEF Moves
    <3>2. \A u \in Threads : at'[u] # "evicting" /\ at'[u] # "register"
      BY <1>0, <2>2, Alone, Zenon DEF Locked
    <3> QED
      BY <1>1, <2>0, <2>1, <3>1, <3>2, InvalidateCount, Zenon
  <2> QED
    BY <2>3, <2>4, <2>5, Zenon DEF Inv
<1>2. ASSUME Found(span[t]) = {}, FirstOf(Found(span[t])) = {}
      PROVE  Inv'
  <2> DEFINE a == CASE at[t] = "inv_scan" -> "inv"
                    [] at[t] = "unmap_scan" -> "unmap_inv"
                    [] at[t] = "fork_scan" -> "idle"
  <2>1. /\ at' = [at EXCEPT ![t] = a] /\ span' = [span EXCEPT ![t] = NoRange]
        /\ writer' = IF at[t] = "fork_scan" THEN NoThread ELSE writer
        /\ UNCHANGED <<region, gc_list, lru, inv_q, readers, gen, held, asked, fresh, merged>>
    BY <1>2, Zenon DEF InvalidateRange, Goto, cache
  <2>2. /\ at[t] = "inv_scan" => a = "inv"
        /\ at[t] = "unmap_scan" => a = "unmap_inv"
        /\ at[t] = "fork_scan" => a = "idle"
    BY Zenon
  <2> HIDE DEF a
  <2>3. a \in Places /\ a \notin Full /\ a # "evicting" /\ a # "fast"
    BY <1>0, <2>2, Zenon DEF Places, Getting, Unmapping, Full, Destroying
  <2>4. NoRange \in Ranges
    BY RcacheAssumption DEF NoRange, Ranges, Page
  <2>5. TypeInv'
    BY <2>1, <2>3, <2>4, Zenon DEF TypeInv
  <2>6. Moves(t, a, held[t])
    BY <2>1, Zenon DEF Moves, TypeInv
  <2>7. LockInv'
    <3>1. CASE at[t] = "fork_scan"
      BY <1>0, <2>1, <2>2, <2>6, <3>1, LockReleased, Zenon DEF Locked
    <3>2. CASE at[t] # "fork_scan"
      BY <1>0, <2>1, <2>2, <2>6, <3>2, LockStays, Zenon DEF Locked, AsyncPlaces
    <3> QED
      BY <3>1, <3>2, Zenon
  <2>8. CountInv'
    <3>1. CASE at[t] = "fork_scan"
      BY <2>1, <2>2, <2>3, <2>6, <3>1, ControlStep, Zenon DEF Using
    <3>2. CASE at[t] # "fork_scan"
      BY <1>0, <2>1, <2>3, <2>6, <3>2, ControlStep, NothingHeld, Zenon DEF Empty, Unmapping
    <3> QED
      BY <3>1, <3>2, Zenon
  <2> QED
    BY <2>5, <2>7, <2>8, Zenon DEF Inv
<1> QED
  BY <1>1, <1>2, Zenon DEF InvalidateRange, FirstOf

\* ucs_rcache_check_gc_list takes a region off the list to destroy, or ends.
LEMMA CheckGcListStep ==
    ASSUME TypeInv, LockInv, CountInv, NEW t \in Threads, CheckGcList(t)
    PROVE  Inv'
<1>0. at[t] = "gc" /\ held[t] = NoRegion /\ \A u \in Threads : at[u] # "evicting"
  BY NothingHeld, Alone, Zenon DEF CheckGcList, Empty, Locked
<1>1. CASE gc_list = <<>>
  <2> DEFINE a == IF t = Async THEN "idle" ELSE "overlap"
  <2>1. /\ at' = [at EXCEPT ![t] = a] /\ span' = [span EXCEPT ![t] = asked[t]]
        /\ writer' = IF t = Async THEN NoThread ELSE writer
        /\ UNCHANGED <<region, gc_list, lru, inv_q, readers, gen, held, asked, fresh, merged>>
    BY <1>1, Zenon DEF CheckGcList, Goto, cache
  <2>2. (t = Async => a = "idle") /\ (t # Async => a = "overlap")
    BY Zenon
  <2> HIDE DEF a
  <2>3. a \in Places /\ a \notin Full /\ a # "evicting" /\ a # "fast"
    BY <2>2, Zenon DEF Places, Getting, Unmapping, Full, Destroying
  <2>5. TypeInv'
    BY <2>1, <2>3, Zenon DEF TypeInv
  <2>6. Moves(t, a, held[t])
    BY <2>1, Zenon DEF Moves, TypeInv
  <2>7. LockInv'
    <3>1. CASE t = Async
      BY <1>0, <2>1, <2>2, <2>6, <3>1, LockReleased, Zenon DEF Locked, AsyncPlaces
    <3>2. CASE t # Async
      BY <1>0, <2>1, <2>2, <2>6, <3>2, LockStays, Zenon DEF Locked
    <3> QED
      BY <3>1, <3>2, Zenon
  <2>8. CountInv'
    BY <1>0, <2>1, <2>3, <2>6, ControlStep, Zenon
  <2> QED
    BY <2>5, <2>7, <2>8, Zenon DEF Inv
<1>2. CASE gc_list # <<>>
  <2> DEFINE r == Head(gc_list)
  <2>0. /\ gc_list' = Tail(gc_list) /\ UNCHANGED <<span, inv_q, readers, gen, asked, fresh, merged>>
        /\ r \in 1 .. Len(region) /\ region \in Seq(Region) /\ r \in Nat
        /\ gc_list' \in Seq(Nat) /\ \A i \in 1 .. Len(gc_list') : gc_list'[i] \in 1 .. Len(region)
    <3>1. gc_list' = Tail(gc_list) /\ UNCHANGED <<span, inv_q, readers, gen, asked, fresh, merged>>
      BY <1>2, Zenon DEF CheckGcList
    <3>2. /\ region \in Seq(Region) /\ Len(region) \in Nat /\ gc_list \in Seq(Nat)
          /\ \A i \in 1 .. Len(gc_list) : gc_list[i] \in 1 .. Len(region)
      BY DEF TypeInv
    <3>3. r \in 1 .. Len(region) /\ Tail(gc_list) \in Seq(Nat)
          /\ \A i \in 1 .. Len(Tail(gc_list)) : Tail(gc_list)[i] \in 1 .. Len(region)
      BY <1>2, <3>2, ListTypes, Zenon
    <3>4. r \in Nat
      BY <3>3
    <3> QED
      BY <3>1, <3>2, <3>3, <3>4, Zenon
  <2>1. CASE region[r].reg
    <3>1. /\ held' = [held EXCEPT ![t] = r] /\ at' = [at EXCEPT ![t] = "dereg"]
          /\ writer' = NoThread /\ UNCHANGED <<region, lru>>
      BY <1>2, <2>1, Zenon DEF CheckGcList, Goto
    <3> HIDE DEF r
    <3>2. TypeInv'
      BY <2>0, <3>1, Zenon DEF TypeInv, Places, Getting
    <3>3. Moves(t, "dereg", r)
      BY <3>1, Zenon DEF Moves, TypeInv
    <3>4. LockInv'
      BY <1>0, <2>0, <3>1, <3>3, LockReleased, Zenon DEF Locked, AsyncPlaces
    <3>5. CountInv'
      BY <1>0, <1>2, <2>0, <2>1, <3>1, <3>3, GcTakeCount, Zenon DEF r
    <3> QED
      BY <3>2, <3>4, <3>5, Zenon DEF Inv
  <2>2. CASE ~region[r].reg
    <3>1. Destroy(r) /\ UNCHANGED <<at, held, writer>>
      BY <1>2, <2>2, Zenon DEF CheckGcList
    <3> HIDE DEF r
    <3>2. Upd(r, region[r].ref, region[r].pgt, region[r].reg, TRUE, region[r].gens)
      BY <2>0, <3>1, FreeUpd, Zenon
    <3>3. TypeInv'
      <4>1. /\ Len(region) \in Nat /\ lru \in Seq(Nat) /\ lru' = Without(lru, r)
            /\ \A i \in 1 .. Len(lru) : lru[i] \in 1 .. Len(region)
        BY <3>1 DEF Destroy, TypeInv
      <4>2. region' \in Seq(Region) /\ Len(region') = Len(region)
        BY <3>2, Zenon DEF Upd
      <4>3. lru' \in Seq(Nat) /\ \A i \in 1 .. Len(lru') : lru'[i] \in 1 .. Len(region')
        BY <4>1, <4>2, ListTypes, Zenon
      <4> QED
        BY <2>0, <3>1, <4>2, <4>3, Zenon DEF TypeInv
    <3>4. LockInv'
      BY <2>0, <3>1, Zenon DEF LockInv
    <3>5. CountInv'
      BY <1>0, <1>2, <2>0, <3>1, <3>2, GcDestroyCount, Zenon DEF r, Destroy
    <3> QED
      BY <3>3, <3>4, <3>5, Zenon DEF Inv
  <2> QED
    BY <2>1, <2>2, Zenon
<1> QED
  BY <1>1, <1>2, Zenon

\* What a destruction leaves of the types.
LEMMA DestroyTypes ==
    ASSUME TypeInv, NEW r \in 1 .. Len(region), Destroy(r)
    PROVE  /\ region' \in Seq(Region) /\ Len(region') = Len(region) /\ lru' \in Seq(Nat)
           /\ \A i \in 1 .. Len(lru') : lru'[i] \in 1 .. Len(region)
<1>1. /\ region \in Seq(Region) /\ Len(region) \in Nat /\ lru \in Seq(Nat) /\ lru' = Without(lru, r)
      /\ \A i \in 1 .. Len(lru) : lru[i] \in 1 .. Len(region)
  BY DEF Destroy, TypeInv
<1>2. region' \in Seq(Region) /\ Len(region') = Len(region)
  BY <1>1, FreeUpd, Zenon DEF Upd
<1>3. lru' \in Seq(Nat) /\ \A i \in 1 .. Len(lru') : lru'[i] \in 1 .. Len(region)
  BY <1>1, ListTypes, Zenon
<1> QED
  BY <1>2, <1>3, Zenon

\* With the lock free nobody registers or evicts.
LEMMA NobodyLocked ==
    ASSUME TypeInv, LockInv, Unlocked
    PROVE  \A u \in Threads : at[u] # "evicting" /\ at[u] # "register"
  BY Alone, Zenon DEF Unlocked, Locked

\* The region of the gc list is deregistered and freed, without the lock.
LEMMA DeregDoneStep ==
    ASSUME TypeInv, LockInv, CountInv, NEW t \in Threads, DeregDone(t)
    PROVE  Inv'
<1>0. /\ at[t] = "dereg" /\ Unlocked /\ at' = [at EXCEPT ![t] = "gc"] /\ writer' = t
      /\ held' = [held EXCEPT ![t] = NoRegion] /\ Destroy(held[t])
      /\ UNCHANGED <<inv_q, gc_list, readers, gen, asked, fresh, span, merged>>
  BY Zenon DEF DeregDone, Goto
<1>1. held[t] \in 1 .. Len(region) /\ \A u \in Threads : at[u] # "evicting"
  BY <1>0, SomethingHeld, NobodyLocked, Zenon DEF Full, Destroying
<1>2. TypeInv'
  <2>1. /\ region' \in Seq(Region) /\ Len(region') = Len(region) /\ lru' \in Seq(Nat)
        /\ \A i \in 1 .. Len(lru') : lru'[i] \in 1 .. Len(region)
    BY <1>0, <1>1, DestroyTypes, Zenon
  <2> QED
    BY <1>0, <2>1, Zenon DEF TypeInv, Places, Getting
<1>3. Moves(t, "gc", NoRegion)
  BY <1>0, Zenon DEF Moves, TypeInv
<1>4. LockInv'
  BY <1>0, <1>3, LockTaken, Zenon DEF Locked, AsyncPlaces
<1>5. CountInv'
  <2>1. PICK r : r = held[t]
    BY Zenon
  <2>2. region \in Seq(Region) /\ r \in 1 .. Len(region) /\ Destroy(r) /\ lru' = Without(lru, r)
    BY <1>0, <1>1, <2>1, Zenon DEF TypeInv, Destroy
  <2>3. Upd(r, region[r].ref, region[r].pgt, region[r].reg, TRUE, region[r].gens)
    BY <2>2, FreeUpd, Zenon
  <2> QED
    BY <1>0, <1>1, <1>3, <2>1, <2>2, <2>3, DestroyCount, Zenon DEF Destroying
<1> QED
  BY <1>2, <1>4, <1>5, Zenon DEF Inv

\* The region of the last put is deregistered and freed.
LEMMA PutDoneStep ==
    ASSUME TypeInv, LockInv, CountInv, NEW t \in Threads, PutDone(t)
    PROVE  Inv'
<1>0. /\ at[t] = "put_dereg" /\ Unlocked /\ at' = [at EXCEPT ![t] = "idle"]
      /\ held' = [held EXCEPT ![t] = NoRegion] /\ Destroy(held[t])
      /\ asked' = [asked EXCEPT ![t] = NoRange] /\ fresh' = [fresh EXCEPT ![t] = FALSE]
      /\ UNCHANGED <<inv_q, gc_list, readers, writer, gen, span, merged>>
  BY Zenon DEF PutDone, Return, Goto, locks
<1>1. held[t] \in 1 .. Len(region) /\ \A u \in Threads : at[u] # "evicting"
  BY <1>0, SomethingHeld, NobodyLocked, Zenon DEF Full, Destroying
<1>2. TypeInv'
  <2>1. /\ region' \in Seq(Region) /\ Len(region') = Len(region) /\ lru' \in Seq(Nat)
        /\ \A i \in 1 .. Len(lru') : lru'[i] \in 1 .. Len(region)
    BY <1>0, <1>1, DestroyTypes, Zenon
  <2>2. NoRange \in Ranges
    BY RcacheAssumption DEF NoRange, Ranges, Page
  <2> QED
    BY <1>0, <2>1, <2>2, Zenon DEF TypeInv, Places
<1>3. Moves(t, "idle", NoRegion)
  BY <1>0, Zenon DEF Moves, TypeInv
<1>4. LockInv'
  BY <1>0, <1>3, LockStays, Zenon DEF Locked, AsyncPlaces
<1>5. CountInv'
  <2>1. PICK r : r = held[t]
    BY Zenon
  <2>2. region \in Seq(Region) /\ r \in 1 .. Len(region) /\ Destroy(r) /\ lru' = Without(lru, r)
    BY <1>0, <1>1, <2>1, Zenon DEF TypeInv, Destroy
  <2>3. Upd(r, region[r].ref, region[r].pgt, region[r].reg, TRUE, region[r].gens)
    BY <2>2, FreeUpd, Zenon
  <2> QED
    BY <1>0, <1>1, <1>3, <2>1, <2>2, <2>3, DestroyCount, Zenon DEF Destroying
<1> QED
  BY <1>2, <1>4, <1>5, Zenon DEF Inv

\* The last put waits for the lock, to destroy the region.
LEMMA PutLockStep ==
    ASSUME TypeInv, LockInv, CountInv, NEW t \in Threads, PutLock(t)
    PROVE  Inv'
<1>2. TypeInv'
  BY Zenon DEF PutLock, cache, locks, Goto, TypeInv, Places
<1>3. Moves(t, "put_dereg", held[t]) /\ held[t] # NoRegion /\ at[t] = "destroy" /\ t # Async
  BY SomethingHeld, Zenon DEF PutLock, Goto, Moves, TypeInv, Full, Destroying, LockInv
<1>4. LockInv'
  BY <1>3, LockStays, Zenon DEF PutLock, locks, Locked
<1>5. CountInv'
  BY <1>3, ControlStep, Zenon DEF PutLock, cache, Places, Destroying
<1> QED
  BY <1>2, <1>4, <1>5, Zenon DEF Inv

\* ucs_rcache_region_put_internal drops a reference; the last one destroys.
LEMMA PutStep ==
    ASSUME TypeInv, LockInv, CountInv, NEW t \in Threads, Put(t)
    PROVE  Inv'
<1>1. PICK r : r = held[t]
  BY Zenon
<1>2. /\ at[t] = "put" /\ t # Async /\ region' = [region EXCEPT ![r].ref = region[r].ref - 1]
      /\ UNCHANGED <<inv_q, gc_list, lru, writer, readers, gen, span, merged>>
  BY <1>1, Zenon DEF Put, LockInv, locks
<1>3. /\ r \in 1 .. Len(region) /\ region \in Seq(Region) /\ r # NoRegion
      /\ region[r].ref - 1 \in Nat
  BY <1>1, <1>2, PutHolds DEF TypeInv
<1>4. Upd(r, region[r].ref - 1, region[r].pgt, region[r].reg, region[r].freed, region[r].gens)
  BY <1>2, <1>3, RefUpd, Zenon
<1>5. region' \in Seq(Region) /\ Len(region') = Len(region)
  BY <1>4, Zenon DEF Upd
<1>6. CASE region[r].ref = 1
  <2>1. at' = [at EXCEPT ![t] = "destroy"] /\ UNCHANGED <<held, asked, fresh>>
    BY <1>1, <1>6, Zenon DEF Put, Goto
  <2>2. TypeInv'
    BY <1>2, <1>5, <2>1, Zenon DEF TypeInv, Places
  <2>3. Moves(t, "destroy", r)
    BY <1>1, <2>1, Zenon DEF Moves, TypeInv
  <2>4. LockInv'
    BY <1>2, <2>3, LockStays, Zenon DEF Locked
  <2>5. CountInv'
    BY <1>1, <1>2, <1>4, <1>6, <2>3, PutLastCount, Zenon
  <2> QED
    BY <2>2, <2>4, <2>5, Zenon DEF Inv
<1>7. CASE region[r].ref # 1
  <2>1. /\ at' = [at EXCEPT ![t] = "idle"] /\ held' = [held EXCEPT ![t] = NoRegion]
        /\ asked' = [asked EXCEPT ![t] = NoRange] /\ fresh' = [fresh EXCEPT ![t] = FALSE]
    BY <1>1, <1>7, Zenon DEF Put, Return, Goto
  <2>2. TypeInv'
    <3>1. NoRange \in Ranges
      BY RcacheAssumption DEF NoRange, Ranges, Page
    <3> QED
      BY <1>2, <1>5, <2>1, <3>1, Zenon DEF TypeInv, Places
  <2>3. Moves(t, "idle", NoRegion)
    BY <2>1, Zenon DEF Moves, TypeInv
  <2>4. LockInv'
    BY <1>2, <2>3, LockStays, Zenon DEF Locked
  <2>5. CountInv'
    BY <1>1, <1>2, <1>4, <1>7, <2>3, PutMoreCount, Zenon
  <2> QED
    BY <2>2, <2>4, <2>5, Zenon DEF Inv
<1> QED
  BY <1>6, <1>7, Zenon

\* The regions of the LRU list.
LEMMA LruFacts ==
    ASSUME TypeInv, CountInv
    PROVE  /\ Len(region) \in Nat /\ lru \in Seq(Nat) /\ Once(lru)
           /\ \A i \in 1 .. Len(lru) : lru[i] \in 1 .. Len(region) /\ Live(lru[i])
<1>1. Once(lru) /\ \A i \in 1 .. Len(lru) : Live(lru[i])
  BY Zenon DEF CountInv, LruInv
<1> QED
  BY <1>1 DEF TypeInv

\* The LRU list changes and no region does.
LEMMA LruList ==
    ASSUME TypeInv, LruInv, region' = region, lru' \in Seq(Nat), Once(lru'),
           \A i \in 1 .. Len(lru') : Live(lru'[i]),
           \A t \in Threads : at'[t] = "evicting" =>
               at[t] = "evicting" /\ lru' # <<>> /\ lru'[1] = lru[1]
    PROVE  LruInv'
<1>1. Once(lru)' /\ \A i \in 1 .. Len(lru') : ~region'[lru'[i]].freed
  BY Zenon DEF Once, Live
<1>2. \A t \in Threads : at'[t] = "evicting" =>
          lru' # <<>> /\ region'[lru'[1]].pgt /\ region'[lru'[1]].ref = 1
  BY Zenon DEF LruInv
<1> QED
  BY <1>1, <1>2, Zenon DEF LruInv, Live

\* The fast path takes the region off the LRU list and releases the lock.
LEMMA LruGetStep ==
    ASSUME TypeInv, LockInv, CountInv, NEW t \in Threads, LruGet(t)
    PROVE  Inv'
<1>0. /\ at[t] = "fast" /\ t # Async /\ at' = [at EXCEPT ![t] = "idle"] /\ readers' = readers \ {t}
      /\ lru' = Without(lru, held[t])
      /\ UNCHANGED <<region, inv_q, gc_list, writer, gen, held, asked, fresh, span, merged>>
  BY Zenon DEF LruGet, Goto, LockInv
<1>1. /\ Len(region) \in Nat /\ lru \in Seq(Nat) /\ Once(lru)
      /\ \A i \in 1 .. Len(lru) : lru[i] \in 1 .. Len(region) /\ Live(lru[i])
  BY LruFacts, Zenon
<1>2. lru' \in Seq(Nat) /\ \A i \in 1 .. Len(lru') : lru'[i] \in 1 .. Len(region)
  BY <1>0, <1>1, ListTypes, Zenon
<1>3. TypeInv'
  BY <1>0, <1>2, Zenon DEF TypeInv, Places
<1>4. Moves(t, "idle", held[t]) /\ held[t] # NoRegion
  BY <1>0, SomethingHeld, Zenon DEF Moves, TypeInv, Full
<1>5. LockInv'
  <2>1. Async \in Threads
    BY Zenon DEF Threads
  <2> QED
    BY <1>0, <1>4, <2>1, Zenon DEF LockInv, Moves, Locked
<1>6. HeldInv' /\ GcInv' /\ ZeroInv' /\ RefInv'
  BY <1>0, <1>4, ControlCount, Zenon DEF Places, Using
<1>7. LruInv'
  <2>1. \A u \in Threads : at'[u] # "evicting"
    BY <1>0, <1>4, Alone, Zenon DEF Locked, Moves
  <2>2. Once(lru')
    BY <1>0, <1>1, WithoutFacts, Zenon
  <2>3. \A i \in 1 .. Len(lru') : \E j \in 1 .. Len(lru) : lru'[i] = lru[j]
    BY <1>0, <1>1, WithoutFacts
  <2>4. \A i \in 1 .. Len(lru') : Live(lru'[i])
    BY <1>1, <2>3, Zenon
  <2> QED
    BY <1>0, <1>2, <2>1, <2>2, <2>4, LruList, Zenon DEF CountInv
<1> QED
  BY <1>3, <1>5, <1>6, <1>7, Zenon DEF Inv, CountInv

\* ucs_rcache_region_put is entered: the region is on the LRU list again.
LEMMA StartPutStep ==
    ASSUME TypeInv, LockInv, CountInv, NEW t \in Thread, StartPut(t)
    PROVE  Inv'
<1>0. /\ t \in Threads /\ t # Async /\ at[t] = "idle" /\ held[t] # NoRegion
      /\ at' = [at EXCEPT ![t] = "put"]
      /\ lru' = IF On(lru, held[t]) THEN lru ELSE Append(lru, held[t])
      /\ UNCHANGED <<region, inv_q, gc_list, writer, readers, gen, held, asked, fresh, span, merged>>
  BY RcacheAssumption, Zenon DEF StartPut, Goto, locks, Threads
<1>1. /\ Len(region) \in Nat /\ lru \in Seq(Nat) /\ Once(lru)
      /\ \A i \in 1 .. Len(lru) : lru[i] \in 1 .. Len(region) /\ Live(lru[i])
  BY LruFacts, Zenon
<1>2. held[t] \in 1 .. Len(region) /\ held[t] \in Nat /\ Live(held[t])
  BY <1>0, HeldRef DEF Using
<1>3. lru' \in Seq(Nat) /\ \A i \in 1 .. Len(lru') : lru'[i] \in 1 .. Len(region)
  BY <1>0, <1>1, <1>2, ListTypes, Zenon
<1>4. TypeInv'
  BY <1>0, <1>3, Zenon DEF TypeInv, Places
<1>5. Moves(t, "put", held[t])
  BY <1>0, Zenon DEF Moves, TypeInv
<1>6. LockInv'
  BY <1>0, <1>5, LockStays, Zenon DEF Locked
<1>7. HeldInv' /\ GcInv' /\ ZeroInv' /\ RefInv'
  BY <1>0, <1>5, ControlCount, Zenon DEF Places, Using
<1>8. LruInv'
  <2>0. \A u \in Threads : at'[u] = "evicting" => at[u] = "evicting" /\ lru # <<>>
    BY <1>0, <1>5, Zenon DEF Moves, CountInv, LruInv
  <2>1. CASE On(lru, held[t])
    BY <1>0, <1>1, <2>0, <2>1, LruList, Zenon DEF CountInv
  <2>2. CASE ~On(lru, held[t])
    <3>1. /\ Once(Append(lru, held[t])) /\ Append(lru, held[t]) # <<>>
          /\ lru # <<>> => Append(lru, held[t])[1] = lru[1]
      BY <1>1, <1>2, <2>2, AppendFacts, Zenon
    <3>2. \A i \in 1 .. Len(Append(lru, held[t])) : Append(lru, held[t])[i] = held[t]
              \/ \E j \in 1 .. Len(lru) : Append(lru, held[t])[i] = lru[j]
      BY <1>1, <1>2, <2>2, AppendFacts, Zenon
    <3>3. lru' = Append(lru, held[t])
      BY <1>0, <2>2, Zenon
    <3>4. Once(lru') /\ lru' # <<>> /\ (lru # <<>> => lru'[1] = lru[1])
      BY <3>1, <3>3, Zenon
    <3>5. \A i \in 1 .. Len(lru') : Live(lru'[i])
      BY <1>1, <1>2, <3>2, <3>3, Zenon
    <3> QED
      BY <1>0, <1>3, <2>0, <3>4, <3>5, LruList, Zenon DEF CountInv
  <2> QED
    BY <2>1, <2>2, Zenon
<1> QED
  BY <1>4, <1>6, <1>7, <1>8, Zenon DEF Inv, CountInv

\* ucs_rcache_lru_evict picks an unused region, or the get returns.
LEMMA LruEvictStep ==
    ASSUME TypeInv, LockInv, CountInv, NEW t \in Threads, LruEvict(t)
    PROVE  Inv'
<1>0. /\ at[t] = "evict" /\ t # Async /\ held[t] # NoRegion
      /\ UNCHANGED <<region, inv_q, gc_list, readers, gen, held, asked, fresh, span, merged>>
  BY SomethingHeld, Zenon DEF LruEvict, LockInv, Full
<1>n. \A u \in Threads : at[u] # "evicting"
  BY <1>0, Alone, Zenon DEF Locked
<1>1. /\ Len(region) \in Nat /\ lru \in Seq(Nat) /\ Once(lru)
      /\ \A i \in 1 .. Len(lru) : lru[i] \in 1 .. Len(region) /\ Live(lru[i])
  BY LruFacts, Zenon
<1>2. CASE /\ lru # <<>> /\ region[Head(lru)].pgt /\ region[Head(lru)].ref = 1
           /\ at' = [at EXCEPT ![t] = "evicting"] /\ UNCHANGED <<lru, writer>>
  <2>1. TypeInv'
    BY <1>0, <1>2, Zenon DEF TypeInv, Places, Getting
  <2>2. Moves(t, "evicting", held[t])
    BY <1>0, <1>2, Zenon DEF Moves, TypeInv
  <2>3. LockInv'
    BY <1>0, <1>2, <2>2, LockStays, Zenon DEF Locked
  <2>4. HeldInv' /\ GcInv' /\ ZeroInv' /\ RefInv'
    BY <1>0, <2>2, ControlCount, Zenon DEF Places, Getting, Using
  <2>5. LruInv'
    <3>1. Head(lru) = lru[1]
      BY <1>1, <1>2
    <3>2. UNCHANGED <<lru, region>> /\ lru # <<>> /\ region[lru[1]].pgt /\ region[lru[1]].ref = 1
      BY <1>0, <1>2, <3>1, Zenon
    <3> QED
      BY <1>1, <3>2, Zenon DEF LruInv, Once, Live
  <2> QED
    BY <2>1, <2>3, <2>4, <2>5, Zenon DEF Inv, CountInv
<1>3. CASE lru # <<>> /\ lru' = Tail(lru) /\ UNCHANGED <<at, writer>>
  <2>0. lru' \in Seq(Nat) /\ \A i \in 1 .. Len(lru') : lru'[i] \in 1 .. Len(region)
    BY <1>1, <1>3, ListTypes, Zenon
  <2>1. TypeInv'
    BY <1>0, <1>3, <2>0, Zenon DEF TypeInv
  <2>2. Moves(t, "evict", held[t])
    BY <1>0, <1>3, Zenon DEF Moves
  <2>3. LockInv'
    BY <1>0, <1>3, <2>2, LockStays, Zenon
  <2>4. HeldInv' /\ GcInv' /\ ZeroInv' /\ RefInv'
    BY <1>0, <2>2, ControlCount, Zenon DEF Places, Getting, Using
  <2>5. LruInv'
    <3>1. Once(Tail(lru)) /\ \A i \in 1 .. Len(Tail(lru)) : \E j \in 1 .. Len(lru) : Tail(lru)[i] = lru[j]
      BY <1>1, <1>3, TailFacts, Zenon
    <3>2. Once(lru') /\ \A i \in 1 .. Len(lru') : Live(lru'[i])
      BY <1>1, <1>3, <3>1, Zenon
    <3> QED
      BY <1>0, <1>n, <1>3, <2>0, <3>2, LruList, Zenon DEF CountInv
  <2> QED
    BY <2>1, <2>3, <2>4, <2>5, Zenon DEF Inv, CountInv
<1>4. CASE at' = [at EXCEPT ![t] = "idle"] /\ writer' = NoThread /\ UNCHANGED lru
  <2>1. TypeInv'
    BY <1>0, <1>4, Zenon DEF TypeInv, Places
  <2>2. Moves(t, "idle", held[t])
    BY <1>0, <1>4, Zenon DEF Moves, TypeInv
  <2>3. LockInv'
    BY <1>0, <1>4, <2>2, LockReleased, Zenon DEF Locked
  <2>4. CountInv'
    BY <1>0, <1>4, <2>2, ControlStep, Zenon DEF Places, Using
  <2> QED
    BY <2>1, <2>3, <2>4, Zenon DEF Inv
<1> QED
  BY <1>2, <1>3, <1>4, Zenon DEF LruEvict, Goto

\* The same, of the places after the step.
LEMMA Invalidates ==
    ASSUME TypeInv, CountInv, NEW t \in Threads, Moves(t, at'[t], held'[t]),
           NEW r \in 1 .. Len(region), NEW toGc \in BOOLEAN, NEW w \in BOOLEAN,
           InvalidateRegion(r, toGc, w),
           \A u \in Threads : at'[u] # "evicting" /\ at'[u] # "register",
           \/ /\ held'[t] = held[t]
              /\ at'[t] = at[t] \/ (at[t] = "evicting" /\ at'[t] = "evict")
           \/ held'[t] = NoRegion /\ at[t] = "register" /\ at'[t] = "inv"
    PROVE  CountInv'
  BY InvalidateCount, Zenon

\* ucs_rcache_lru_evict invalidates the region that it picked.
LEMMA EvictStep ==
    ASSUME TypeInv, LockInv, CountInv, NEW t \in Threads, Evict(t)
    PROVE  Inv'
<1>1. PICK r : r = Head(lru)
  BY Zenon
<1>2. /\ at[t] = "evicting" /\ t # Async /\ at' = [at EXCEPT ![t] = "evict"]
      /\ InvalidateRegion(r, FALSE, region[r].waiting)
      /\ UNCHANGED <<inv_q, writer, readers, gen, held, asked, fresh, span, merged>>
  BY <1>1, Zenon DEF Evict, Goto, locks, LockInv
<1>3. lru # <<>> /\ region[lru[1]].pgt
  BY <1>2, Zenon DEF CountInv, LruInv
<1>4. r \in 1 .. Len(region) /\ region[r].pgt
  BY <1>1, <1>3, LruFacts
<1>5. region \in Seq(Region) /\ region[r].waiting \in BOOLEAN /\ region[r].ref >= 1
  BY <1>4, RegionFields, PgtRef, Zenon DEF TypeInv
<1>6. TypeInv'
  <2>1. /\ region' \in Seq(Region) /\ Len(region') = Len(region)
        /\ gc_list' \in Seq(Nat) /\ lru' \in Seq(Nat)
        /\ \A i \in 1 .. Len(gc_list') : gc_list'[i] \in 1 .. Len(region)
        /\ \A i \in 1 .. Len(lru') : lru'[i] \in 1 .. Len(region)
    BY <1>2, <1>4, <1>5, InvalidateTypes, Zenon
  <2> QED
    BY <1>2, <2>1, Zenon DEF TypeInv, Places, Getting
<1>7. Moves(t, "evict", held[t])
  BY <1>2, Zenon DEF Moves, TypeInv
<1>8. LockInv'
  BY <1>2, <1>7, LockStays, Zenon DEF Locked
<1>9. CountInv'
  <2>1. \A u \in Threads : at'[u] # "evicting" /\ at'[u] # "register"
    BY <1>2, <1>7, Alone, Zenon DEF Locked, Moves
  <2>2. Moves(t, at'[t], held'[t]) /\ held'[t] = held[t] /\ at'[t] = "evict"
    BY <1>7, Zenon DEF Moves
  <2> QED
    BY <1>2, <1>4, <1>5, <2>1, <2>2, Invalidates, Zenon
<1> QED
  BY <1>6, <1>8, <1>9, Zenon DEF Inv

\* ucs_rcache_region_invalidate by a holder drops two references.
LEMMA InvalidateStep ==
    ASSUME TypeInv, LockInv, CountInv, NEW t \in Thread, Invalidate(t)
    PROVE  Inv'
<1>1. PICK r : r = held[t]
  BY Zenon
<1>2. /\ at[t] = "idle" /\ t \in Threads /\ r # NoRegion /\ Unlocked
      /\ InvalidateRegion(r, FALSE, TRUE)
      /\ UNCHANGED <<inv_q, writer, readers, gen, at, held, asked, fresh, span, merged>>
  BY <1>1, Zenon DEF Invalidate, locks, locals, Threads
<1>3. r \in 1 .. Len(region) /\ region[r].ref >= 1
  BY <1>1, <1>2, HeldRef, Zenon DEF Using
<1>4. TypeInv'
  <2>1. /\ region' \in Seq(Region) /\ Len(region') = Len(region)
        /\ gc_list' \in Seq(Nat) /\ lru' \in Seq(Nat)
        /\ \A i \in 1 .. Len(gc_list') : gc_list'[i] \in 1 .. Len(region)
        /\ \A i \in 1 .. Len(lru') : lru'[i] \in 1 .. Len(region)
    BY <1>2, <1>3, InvalidateTypes, Zenon
  <2> QED
    BY <1>2, <2>1, Zenon DEF TypeInv
<1>5. LockInv'
  BY <1>2, Zenon DEF LockInv
<1>6. CountInv'
  <2>1. \A u \in Threads : at'[u] # "evicting" /\ at'[u] # "register"
    BY <1>2, NobodyLocked, Zenon
  <2>2. Moves(t, at[t], held[t])
    BY <1>2, Zenon DEF Moves
  <2> QED
    BY <1>2, <1>3, <2>1, <2>2, InvalidateCount, Zenon
<1> QED
  BY <1>4, <1>5, <1>6, Zenon DEF Inv

\* The fast path of ucs_rcache_get holds a region, or goes to the slow one.
LEMMA GetFastStep ==
    ASSUME TypeInv, LockInv, CountInv, NEW t \in Threads, GetFast(t)
    PROVE  Inv'
<1>0. /\ at[t] = "get" /\ t # Async /\ writer = NoThread /\ held[t] = NoRegion
      /\ UNCHANGED <<inv_q, gc_list, lru, writer, gen, asked, fresh, span, merged>>
  BY NothingHeld, Zenon DEF GetFast, LockInv, Empty
<1>1. ASSUME NEW r \in InPgt, region[r].reg,
             region' = [region EXCEPT ![r].ref = @ + 1],
             held' = [held EXCEPT ![t] = r], at' = [at EXCEPT ![t] = "fast"],
             readers' = readers \cup {t}
      PROVE  Inv'
  <2>1. r \in 1 .. Len(region) /\ region \in Seq(Region) /\ region[r].pgt
    BY <1>1 DEF InPgt, TypeInv
  <2>2. region[r].ref + 1 \in Nat /\ r \in Nat
    BY <2>1, RegionFields
  <2>3. Upd(r, region[r].ref + 1, region[r].pgt, region[r].reg, region[r].freed, region[r].gens)
    BY <1>1, <2>1, <2>2, RefUpd, Zenon
  <2>4. TypeInv'
    <3>1. region' \in Seq(Region) /\ Len(region') = Len(region)
      BY <2>3, Zenon DEF Upd
    <3> QED
      BY <1>0, <1>1, <2>1, <2>2, <3>1, Zenon DEF TypeInv, Places, Getting
  <2>5. Moves(t, "fast", r)
    BY <1>1, Zenon DEF Moves, TypeInv
  <2>6. \A u \in Threads : at[u] \notin Locked
    BY <1>0, Alone, Zenon
  <2>7. LockInv'
    <3>1. Async \in Threads /\ "fast" \notin Locked
      BY Zenon DEF Threads, Locked
    <3> QED
      BY <1>0, <1>1, <2>5, <3>1, Zenon DEF LockInv, Moves, Locked
  <2>8. CountInv'
    <3>1. \A u \in Threads : at[u] # "evicting"
      BY <2>6, Zenon DEF Locked
    <3> QED
      BY <1>0, <1>1, <2>1, <2>3, <2>5, <3>1, HoldCount, Zenon
  <2> QED
    BY <2>4, <2>7, <2>8, Zenon DEF Inv
<1>2. ASSUME at' = [at EXCEPT ![t] = "lock"], UNCHANGED <<region, held, readers>>
      PROVE  Inv'
  <2>1. TypeInv'
    BY <1>0, <1>2, Zenon DEF TypeInv, Places, Getting
  <2>2. Moves(t, "lock", held[t])
    BY <1>2, Zenon DEF Moves, TypeInv
  <2>3. LockInv'
    BY <1>0, <1>2, <2>2, LockStays, Zenon DEF Locked
  <2>4. CountInv'
    BY <1>0, <1>2, <2>2, ControlStep, Zenon DEF Places, Getting, Full, Destroying
  <2> QED
    BY <2>1, <2>3, <2>4, Zenon DEF Inv
<1> QED
  BY <1>1, <1>2, Zenon DEF GetFast, Goto

\* A range, and what a merge makes of two.
LEMMA RangeFacts ==
    /\ NoRange \in Ranges /\ <<1, Pages>> \in Ranges
    /\ \A g, h \in Ranges : Merge(g, h) \in Ranges
<1>1. Pages \in Nat /\ Pages > 0
  BY RcacheAssumption, Zenon
<1> QED
  BY <1>1 DEF NoRange, Ranges, Page, Merge

\* A thread gives up the region it could not register, which stays in the page table.
LEMMA FailCount ==
    ASSUME TypeInv, CountInv, NEW t \in Threads, at[t] = "register",
           UNCHANGED <<region, gc_list, lru>>, Moves(t, "idle", NoRegion)
    PROVE  CountInv'
<1>1. HeldInv /\ GcInv /\ ZeroInv /\ LruInv /\ RefInv
  BY Zenon DEF CountInv
<1>2. HeldInv'
  <2>1. ASSUME NEW u \in Threads, u # t PROVE HeldOf(u)'
    BY <1>1, <2>1 DEF HeldInv, HeldOf, Moves, Live
  <2>2. HeldOf(t)'
    BY Zenon DEF HeldOf, Moves, Empty, Full, Unmapping, Destroying
  <2> QED
    BY <2>1, <2>2, Zenon DEF HeldInv
<1>3. GcInv'
  <2>1. \A i \in 1 .. Len(gc_list) : gc_list[i] # NoRegion
    BY Bounds, Zenon
  <2> QED
    BY <1>1, <2>1 DEF GcInv, Once, Moves, Live
<1>4. ZeroInv'
  BY <1>1 DEF ZeroInv, On, Moves, Live, Destroying
<1>5. LruInv'
  BY <1>1, LruSame, Zenon
<1>6. RefInv'
  <2>1. ASSUME NEW r \in 1 .. Len(region) PROVE Cardinality(Holders(r))' = Cardinality(Holders(r))
    <3>1. r # NoRegion
      BY Bounds, Zenon
    <3>2. \A u \in Threads : (held'[u] = r /\ at'[u] \in Using) <=> (held[u] = r /\ at[u] \in Using)
      BY <3>1, Zenon DEF Moves, Using
    <3> QED
      BY <3>2, HoldersSame, Zenon
  <2> QED
    BY <1>1, <2>1, Zenon DEF RefInv, Live
<1> QED
  BY <1>2, <1>3, <1>4, <1>5, <1>6, Zenon DEF CountInv

\* ucs_rcache_check_overlap holds a region, merges one, or adds one.
LEMMA CheckOverlapStep ==
    ASSUME TypeInv, LockInv, CountInv, NEW t \in Threads, CheckOverlap(t)
    PROVE  Inv'
<1>0. /\ at[t] = "overlap" /\ t # Async /\ held[t] = NoRegion
      /\ UNCHANGED <<inv_q, readers, gen, asked, fresh>>
  BY NothingHeld, Zenon DEF CheckOverlap, LockInv, Empty
<1>n. \A u \in Threads : at[u] # "evicting" /\ at[u] # "register"
  BY <1>0, Alone, Zenon DEF Locked
<1>f. \A r \in FirstOf(Found(asked[t])) : r \in 1 .. Len(region) /\ region[r].pgt
  BY DEF FirstOf, Found, InPgt, TypeInv
<1>r. region \in Seq(Region) /\ span[t] \in Ranges /\ gen \in [Page -> Nat]
  BY Zenon DEF TypeInv
<1>1. ASSUME NEW r \in FirstOf(Found(asked[t])), region[r].reg,
             region' = [region EXCEPT ![r].ref = @ + 1],
             held' = [held EXCEPT ![t] = r], at' = [at EXCEPT ![t] = "idle"], writer' = NoThread,
             span' = [span EXCEPT ![t] = NoRange], merged' = [merged EXCEPT ![t] = FALSE],
             UNCHANGED <<gc_list, lru>>
      PROVE  Inv'
  <2>1. r \in 1 .. Len(region) /\ region[r].pgt /\ region[r].ref + 1 \in Nat /\ r \in Nat
    BY <1>1, <1>f, <1>r, RegionFields
  <2>3. Upd(r, region[r].ref + 1, region[r].pgt, region[r].reg, region[r].freed, region[r].gens)
    BY <1>1, <1>r, <2>1, RefUpd, Zenon
  <2>4. TypeInv'
    <3>1. region' \in Seq(Region) /\ Len(region') = Len(region)
      BY <2>3, Zenon DEF Upd
    <3> QED
      BY <1>0, <1>1, <2>1, <3>1, RangeFacts, Zenon DEF TypeInv, Places
  <2>5. Moves(t, "idle", r)
    BY <1>1, Zenon DEF Moves, TypeInv
  <2>7. LockInv'
    BY <1>0, <1>1, <2>5, LockReleased, Zenon DEF Locked
  <2>8. CountInv'
    BY <1>0, <1>n, <1>1, <2>1, <2>3, <2>5, HoldCount, Zenon
  <2> QED
    BY <2>4, <2>7, <2>8, Zenon DEF Inv
<1>2. ASSUME NEW r \in FirstOf(Found(asked[t])),
             InvalidateRegion(r, FALSE, region[r].waiting),
             span' = [span EXCEPT ![t] = Merge(span[t], region[r].range)],
             merged' = [merged EXCEPT ![t] = TRUE], UNCHANGED <<at, held, writer>>
      PROVE  Inv'
  <2>1. r \in 1 .. Len(region) /\ region[r].pgt
    BY <1>2, <1>f, Zenon
  <2>2. region[r].waiting \in BOOLEAN /\ region[r].range \in Ranges
    BY <1>r, <2>1, RegionFields, Zenon
  <2>3. region[r].ref >= 1
    BY <2>1, PgtRef, Zenon
  <2>4. TypeInv'
    <3>1. /\ region' \in Seq(Region) /\ Len(region') = Len(region)
          /\ gc_list' \in Seq(Nat) /\ lru' \in Seq(Nat)
          /\ \A i \in 1 .. Len(gc_list') : gc_list'[i] \in 1 .. Len(region)
          /\ \A i \in 1 .. Len(lru') : lru'[i] \in 1 .. Len(region)
      BY <1>2, <2>1, <2>2, <2>3, InvalidateTypes, Zenon
    <3>2. Merge(span[t], region[r].range) \in Ranges
      BY <1>r, <2>2, RangeFacts, Zenon
    <3> QED
      BY <1>0, <1>2, <3>1, <3>2, Zenon DEF TypeInv
  <2>5. LockInv'
    BY <1>0, <1>2, Zenon DEF LockInv
  <2>6. CountInv'
    <3>1. Moves(t, at'[t], held'[t]) /\ held'[t] = held[t] /\ at'[t] = at[t]
      BY <1>2, Zenon DEF Moves
    <3>2. \A u \in Threads : at'[u] # "evicting" /\ at'[u] # "register"
      BY <1>n, <1>2, Zenon
    <3> QED
      BY <1>2, <2>1, <2>2, <3>1, <3>2, Invalidates, Zenon
  <2> QED
    BY <2>4, <2>5, <2>6, Zenon DEF Inv
<1>3. ASSUME NEW v, v = [range |-> span[t], ref |-> 1, pgt |-> TRUE, reg |-> FALSE,
                         freed |-> FALSE, waiting |-> FALSE, gens |-> gen],
             region' = Append(region, v),
             held' = [held EXCEPT ![t] = Len(region) + 1], at' = [at EXCEPT ![t] = "register"],
             span' = [span EXCEPT ![t] = NoRange], UNCHANGED <<gc_list, lru, writer, merged>>
      PROVE  Inv'
  <2>1. v \in Region /\ v.ref = 1 /\ v.pgt /\ ~v.reg /\ ~v.freed
    BY <1>3, <1>r, Zenon DEF Region
  <2>2. region' \in Seq(Region) /\ Len(region') = Len(region) + 1 /\ Len(region) \in Nat
    BY <1>3, <1>r, <2>1
  <2>4. TypeInv'
    BY <1>0, <1>3, <2>2, RangeFacts DEF TypeInv, Places, Getting
  <2>5. Moves(t, "register", Len(region) + 1)
    BY <1>3, Zenon DEF Moves, TypeInv
  <2>7. LockInv'
    BY <1>0, <1>3, <2>5, LockStays, Zenon DEF Locked
  <2>8. CountInv'
    BY <1>0, <1>3, <2>1, <2>5, CreateCount, Zenon
  <2> QED
    BY <2>4, <2>7, <2>8, Zenon DEF Inv
<1> QED
  BY <1>1, <1>2, <1>3, Zenon DEF CheckOverlap, Goto

\* mem_reg of the new region succeeds or fails.
LEMMA MemRegStep ==
    ASSUME TypeInv, LockInv, CountInv, NEW t \in Threads, NEW ok \in BOOLEAN, MemReg(t, ok)
    PROVE  Inv'
<1>p. PICK r : r = held[t]
  BY Zenon
<1>0. /\ at[t] = "register" /\ t # Async /\ merged' = [merged EXCEPT ![t] = FALSE]
      /\ UNCHANGED <<inv_q, readers, gen, span>>
  BY Zenon DEF MemReg, LockInv
<1>n. /\ \A u \in Threads : at[u] # "evicting"
      /\ \A u \in Threads : at[u] = "register" => u = t
  BY <1>0, Alone, Zenon DEF Locked
<1>r. /\ region \in Seq(Region) /\ gen \in [Page -> Nat] /\ r \in 1 .. Len(region)
      /\ region[r].pgt /\ r # NoRegion
  BY <1>0, <1>p, SomethingHeld, Zenon DEF Full, TypeInv, CountInv, HeldInv, HeldOf
<1>1. ASSUME region' = [region EXCEPT ![r].reg = TRUE, ![r].ref = 2, ![r].gens = gen],
             at' = [at EXCEPT ![t] = "evict"],
             UNCHANGED <<gc_list, lru, held, asked, fresh, writer>>
      PROVE  Inv'
  <2>1. Upd(r, 2, region[r].pgt, TRUE, region[r].freed, gen)
    BY <1>1, <1>r, RegisterUpd, Zenon
  <2>2. TypeInv'
    <3>1. region' \in Seq(Region) /\ Len(region') = Len(region)
      BY <2>1, Zenon DEF Upd
    <3> QED
      BY <1>0, <1>1, <3>1, Zenon DEF TypeInv, Places, Getting
  <2>3. Moves(t, "evict", r)
    BY <1>1, <1>p, Zenon DEF Moves, TypeInv
  <2>4. LockInv'
    BY <1>0, <1>1, <2>3, LockStays, Zenon DEF Locked
  <2>5. CountInv'
    BY <1>0, <1>p, <1>n, <1>1, <2>1, <2>3, RegisterCount, Zenon
  <2> QED
    BY <2>2, <2>4, <2>5, Zenon DEF Inv
<1>2. ASSUME InvalidateRegion(r, FALSE, region[r].waiting),
             held' = [held EXCEPT ![t] = NoRegion], at' = [at EXCEPT ![t] = "inv"],
             UNCHANGED <<asked, fresh, writer>>
      PROVE  Inv'
  <2>1. region[r].waiting \in BOOLEAN /\ region[r].ref >= 1
    BY <1>r, RegionFields, PgtRef, Zenon
  <2>2. TypeInv'
    <3>1. /\ region' \in Seq(Region) /\ Len(region') = Len(region)
          /\ gc_list' \in Seq(Nat) /\ lru' \in Seq(Nat)
          /\ \A i \in 1 .. Len(gc_list') : gc_list'[i] \in 1 .. Len(region)
          /\ \A i \in 1 .. Len(lru') : lru'[i] \in 1 .. Len(region)
      BY <1>2, <1>r, <2>1, InvalidateTypes, Zenon
    <3> QED
      BY <1>0, <1>2, <3>1, Zenon DEF TypeInv, Places, Getting
  <2>3. Moves(t, "inv", NoRegion)
    BY <1>2, Zenon DEF Moves, TypeInv
  <2>4. LockInv'
    BY <1>0, <1>2, <2>3, LockStays, Zenon DEF Locked
  <2>5. CountInv'
    <3>1. Moves(t, at'[t], held'[t]) /\ held'[t] = NoRegion /\ at'[t] = "inv"
      BY <2>3, Zenon DEF Moves
    <3>2. \A u \in Threads : at'[u] # "evicting" /\ at'[u] # "register"
      BY <1>n, <2>3, Zenon DEF Moves
    <3> QED
      BY <1>0, <1>2, <1>r, <2>1, <3>1, <3>2, Invalidates, Zenon
  <2> QED
    BY <2>2, <2>4, <2>5, Zenon DEF Inv
<1>3. ASSUME held' = [held EXCEPT ![t] = NoRegion], at' = [at EXCEPT ![t] = "idle"],
             asked' = [asked EXCEPT ![t] = NoRange], fresh' = [fresh EXCEPT ![t] = FALSE],
             writer' = NoThread, UNCHANGED <<region, gc_list, lru>>
      PROVE  Inv'
  <2>1. TypeInv'
    BY <1>0, <1>3, RangeFacts, Zenon DEF TypeInv, Places
  <2>2. Moves(t, "idle", NoRegion)
    BY <1>3, Zenon DEF Moves, TypeInv
  <2>3. LockInv'
    BY <1>0, <1>3, <2>2, LockReleased, Zenon DEF Locked
  <2>4. CountInv'
    BY <1>0, <1>n, <1>3, <2>2, FailCount, Zenon
  <2> QED
    BY <2>1, <2>3, <2>4, Zenon DEF Inv
<1> QED
  BY <1>p, <1>1, <1>2, <1>3, Zenon DEF MemReg, Goto, cache

\* ucs_rcache_before_fork begins to look for regions to invalidate.
LEMMA BeforeForkStep ==
    ASSUME TypeInv, LockInv, CountInv, NEW t \in Thread, BeforeFork(t)
    PROVE  Inv'
<1>1. t \in Threads /\ t # Async /\ at[t] = "idle"
  BY RcacheAssumption, Zenon DEF Threads, BeforeFork
<1>2. TypeInv'
  BY <1>1, RangeFacts, Zenon DEF BeforeFork, cache, Goto, TypeInv, Places
<1>3. Moves(t, "fork_scan", held[t])
  BY <1>1, Zenon DEF BeforeFork, Goto, Moves, TypeInv
<1>4. LockInv'
  BY <1>1, <1>3, LockTaken, Zenon DEF BeforeFork, Locked
<1>5. CountInv'
  BY <1>1, <1>3, ControlStep, Zenon DEF BeforeFork, cache, Places, Full, Using, Destroying
<1> QED
  BY <1>2, <1>4, <1>5, Zenon DEF Inv

\* Memory begins to be unmapped: no region is affected yet.
LEMMA StartUnmapStep ==
    ASSUME TypeInv, LockInv, CountInv, NEW t \in Thread, NEW g \in Ranges, StartUnmap(t, g)
    PROVE  Inv'
<1>1. t \in Threads /\ t # Async
  BY RcacheAssumption, Zenon DEF Threads
<1>2. TypeInv'
  <2>1. fresh' \in [Threads -> BOOLEAN]
    BY Zenon DEF StartUnmap
  <2> QED
    BY <1>1, <2>1, Zenon DEF StartUnmap, cache, locks, Goto, TypeInv, Places, Unmapping
<1>3. Moves(t, "unmap", held[t]) /\ held[t] = NoRegion /\ at[t] = "idle"
  BY <1>1, Zenon DEF StartUnmap, Goto, Moves, TypeInv
<1>4. LockInv'
  BY <1>1, <1>3, LockStays, Zenon DEF StartUnmap, locks, Locked
<1>5. CountInv'
  BY <1>1, <1>3, ControlStep, Zenon DEF StartUnmap, cache, Places, Unmapping, Full, Destroying
<1> QED
  BY <1>2, <1>4, <1>5, Zenon DEF Inv

\* ucs_rcache_unmapped_callback has the lock, or queues the range.
LEMMA UnmappedCallbackStep ==
    ASSUME TypeInv, LockInv, CountInv, NEW t \in Threads, UnmappedCallback(t)
    PROVE  Inv'
<1>0. /\ at[t] = "unmap" /\ t # Async /\ held[t] = NoRegion
      /\ UNCHANGED <<region, gc_list, lru, readers, gen, held, asked, fresh, merged>>
  BY NothingHeld, Zenon DEF UnmappedCallback, LockInv, Empty, Unmapping
<1>1. CASE Unlocked
  <2>1. /\ at' = [at EXCEPT ![t] = "unmap_scan"] /\ writer' = t
        /\ span' = [span EXCEPT ![t] = asked[t]] /\ UNCHANGED inv_q
    BY <1>1, Zenon DEF UnmappedCallback, Goto
  <2>2. TypeInv'
    BY <1>0, <2>1, Zenon DEF TypeInv, Places, Unmapping
  <2>3. Moves(t, "unmap_scan", held[t])
    BY <1>0, <2>1, Zenon DEF Moves, TypeInv
  <2>4. LockInv'
    BY <1>0, <1>1, <2>1, <2>3, LockTaken, Zenon DEF Locked
  <2>5. CountInv'
    BY <1>0, <2>3, ControlStep, Zenon DEF Places, Unmapping, Full, Destroying
  <2> QED
    BY <2>2, <2>4, <2>5, Zenon DEF Inv
<1>2. CASE ~Unlocked
  <2>1. /\ at' = [at EXCEPT ![t] = "munmap"] /\ inv_q' = Append(inv_q, asked[t])
        /\ UNCHANGED <<writer, span>>
    BY <1>2, Zenon DEF UnmappedCallback, Goto
  <2>2. TypeInv'
    <3>1. inv_q' \in Seq(Ranges)
      BY <2>1 DEF TypeInv
    <3> QED
      BY <1>0, <2>1, <3>1, Zenon DEF TypeInv, Places, Unmapping
  <2>3. Moves(t, "munmap", held[t])
    BY <1>0, <2>1, Zenon DEF Moves, TypeInv
  <2>4. LockInv'
    BY <1>0, <2>1, <2>3, LockStays, Zenon DEF Locked
  <2>5. CountInv'
    BY <1>0, <2>3, ControlStep, Zenon DEF Places, Unmapping, Full, Destroying
  <2> QED
    BY <2>2, <2>4, <2>5, Zenon DEF Inv
<1> QED
  BY <1>1, <1>2, Zenon

\* The memory is unmapped.
LEMMA MunmapStep ==
    ASSUME TypeInv, LockInv, CountInv, NEW t \in Threads, Munmap(t)
    PROVE  Inv'
<1>0. /\ at[t] = "munmap" /\ t # Async /\ held[t] = NoRegion
      /\ at' = [at EXCEPT ![t] = "idle"] /\ held' = [held EXCEPT ![t] = NoRegion]
      /\ asked' = [asked EXCEPT ![t] = NoRange] /\ fresh' = [fresh EXCEPT ![t] = FALSE]
      /\ gen' = [p \in Page |-> IF p \in PagesOf(asked[t]) THEN gen[p] + 1 ELSE gen[p]]
      /\ UNCHANGED <<region, gc_list, lru, inv_q, writer, readers, span, merged>>
  BY NothingHeld, Zenon DEF Munmap, LockInv, Empty, Unmapping, Return, Goto, cache, locks
<1>1. TypeInv'
  <2>1. gen' \in [Page -> Nat]
    <3>1. \A p \in Page : gen[p] \in Nat /\ gen[p] + 1 \in Nat
      BY DEF TypeInv
    <3> QED
      BY <1>0, <3>1, Zenon
  <2> QED
    BY <1>0, <2>1, RangeFacts, Zenon DEF TypeInv, Places
<1>2. Moves(t, "idle", held[t])
  BY <1>0, Zenon DEF Moves, TypeInv
<1>3. LockInv'
  BY <1>0, <1>2, LockStays, Zenon DEF Locked
<1>4. CountInv'
  BY <1>0, <1>2, ControlStep, Zenon DEF Places, Full, Destroying
<1> QED
  BY <1>1, <1>3, <1>4, Zenon DEF Inv

\* ucs_rcache_invalidate_handler begins.
LEMMA InvalidateHandlerStep ==
    ASSUME TypeInv, LockInv, CountInv, InvalidateHandler
    PROVE  Inv'
<1>0. Async \in Threads /\ at[Async] = "idle" /\ held[Async] = NoRegion
  BY Zenon DEF Threads, InvalidateHandler, LockInv
<1>1. TypeInv'
  BY Zenon DEF InvalidateHandler, cache, locks, Goto, TypeInv, Places, Getting
<1>2. Moves(Async, "lock", held[Async])
  BY <1>0, Zenon DEF InvalidateHandler, Goto, Moves, TypeInv
<1>3. LockInv'
  BY <1>0, <1>2, LockStays, Zenon DEF InvalidateHandler, locks, Locked, AsyncPlaces
<1>4. CountInv'
  BY <1>0, <1>2, ControlStep, Zenon DEF InvalidateHandler, cache, Places, Getting, Full, Destroying
<1> QED
  BY <1>1, <1>3, <1>4, Zenon DEF Inv

-----------------------------------------------------------------------------
(* The results. *)

\* An empty cache satisfies the invariant.
LEMMA InvInit == Init => Inv
<1> SUFFICES ASSUME Init PROVE Inv
  BY Zenon
<1>1. region = <<>> /\ gc_list = <<>> /\ lru = <<>> /\ Len(<<>>) = 0 /\ 1 .. 0 = {}
  BY DEF Init
<1>2. \A t \in Threads : at[t] = "idle" /\ held[t] = NoRegion
  BY Zenon DEF Init
<1>3. TypeInv
  <2>1. \A p \in Page : 0 \in Nat
    BY Zenon
  <2> QED
    BY <1>1, <1>2, <2>1, RangeFacts DEF Init, TypeInv, Places
<1>4. LockInv
  <2>1. Async \in Threads /\ NoThread \notin Threads
    BY RcacheAssumption, Zenon DEF Threads, NoThread
  <2> QED
    BY <1>2, <2>1, Zenon DEF Init, LockInv, Locked
<1>5. HeldInv
  BY <1>2, Zenon DEF HeldInv, HeldOf, Full, Destroying
<1>6. GcInv /\ ZeroInv /\ LruInv /\ RefInv
  BY <1>1, <1>2, Zenon DEF GcInv, ZeroInv, LruInv, RefInv, Once
<1> QED
  BY <1>3, <1>4, <1>5, <1>6, Zenon DEF Inv, CountInv

\* Every step of any thread keeps the invariant.
LEMMA InvStep == Inv /\ [Next]_vars => Inv'
<1> SUFFICES ASSUME TypeInv, LockInv, CountInv, [Next]_vars PROVE Inv'
  BY Zenon DEF Inv
<1>1. ASSUME NEW t \in Threads, Proceed(t) PROVE Inv'
  BY <1>1, GetFastStep, LruGetStep, LockStep, CheckInvQueueStep, InvalidateRangeStep,
     CheckGcListStep, DeregDoneStep, CheckOverlapStep, LruEvictStep, EvictStep, PutStep,
     PutLockStep, PutDoneStep, UnmappedCallbackStep, MunmapStep, MemRegStep, Zenon
     DEF Proceed
<1>2. ASSUME NEW t \in Thread, NEW g \in Ranges, StartGet(t, g) \/ StartUnmap(t, g) PROVE Inv'
  BY <1>2, StartGetStep, StartUnmapStep, Zenon
<1>3. ASSUME NEW t \in Thread, StartPut(t) \/ Invalidate(t) \/ BeforeFork(t) PROVE Inv'
  BY <1>3, StartPutStep, InvalidateStep, BeforeForkStep, Zenon
<1>4. CASE InvalidateHandler
  BY <1>4, InvalidateHandlerStep, Zenon
<1>5. CASE UNCHANGED vars
  <2>1. UNCHANGED <<region, gc_list, lru, inv_q, writer, readers, gen, at, held, asked, fresh, span,
                    merged>>
    BY <1>5, Zenon DEF vars, cache, locks, locals
  <2>2. TypeInv'
    BY <2>1, Zenon DEF TypeInv
  <2>3. LockInv'
    BY <2>1, Zenon DEF LockInv
  <2>4. HeldInv' /\ GcInv' /\ ZeroInv' /\ LruInv'
    BY <2>1 DEF CountInv, HeldInv, HeldOf, GcInv, ZeroInv, LruInv, Once, On, Live
  <2>5. RefInv'
    BY <2>1, Zenon DEF CountInv, RefInv, Holders, Live
  <2> QED
    BY <2>2, <2>3, <2>4, <2>5, Zenon DEF Inv, CountInv
<1> QED
  BY <1>1, <1>2, <1>3, <1>4, <1>5, Zenon DEF Next

\* Types, lock, holders, lists and reference counts of every reachable state.
THEOREM InvHolds == Spec => []Inv
  BY InvInit, InvStep, PTL DEF Spec

\* The first half of CountsExact: the reference count of a live region is the number
\* of its users, and one more while it is in the page table (ucs_rcache_region_hold,
\* ucs_rcache_region_put_internal), with any number of threads and regions.
THEOREM RefsExactTheorem == Spec => []RefsExact
<1>1. ASSUME Inv PROVE RefsExact
  <2>1. DOMAIN region = 1 .. Len(region) /\ RefInv
    BY <1>1, SMTT(30) DEF Inv, TypeInv, CountInv
  <2> QED
    BY <2>1, Zenon DEF RefInv, RefsExact
<1> QED
  BY <1>1, InvHolds, PTL

\* Neither the page table, nor the LRU or gc list, nor a thread has a region that
\* ucs_mem_region_destroy_internal freed.
THEOREM NoDanglingRegionTheorem == Spec => []NoDanglingRegion
<1>1. ASSUME Inv PROVE NoDanglingRegion
  <2>1. TypeInv /\ HeldInv /\ GcInv /\ ZeroInv /\ LruInv
    BY <1>1, Zenon DEF Inv, CountInv
  <2>2. DOMAIN region = 1 .. Len(region) /\ \A r \in 1 .. Len(region) : r # NoRegion
    BY <2>1, Bounds
  <2> QED
    BY <2>1, <2>2, SMTT(30) DEF NoDanglingRegion, HeldInv, HeldOf, GcInv, ZeroInv, LruInv, On
<1> QED
  BY <1>1, InvHolds, PTL

\* A region whose last reference is gone is destroyed by exactly one: it is once on
\* the gc list or one thread deregisters it (ucs_rcache_region_put_internal).
THEOREM OneDestroyerTheorem == Spec => []OneDestroyer
<1>1. ASSUME Inv PROVE OneDestroyer
  <2>1. TypeInv /\ HeldInv /\ GcInv /\ ZeroInv /\ LruInv
    BY <1>1, Zenon DEF Inv, CountInv
  <2>2. /\ DOMAIN region = 1 .. Len(region) /\ \A r \in 1 .. Len(region) : r # NoRegion
        /\ DOMAIN gc_list = 1 .. Len(gc_list)
    BY <2>1, Bounds DEF TypeInv
  <2>3. \A t \in Threads :
            at[t] = "evicting" => region[Head(lru)].pgt /\ region[Head(lru)].ref = 1
    BY <2>1 DEF TypeInv, LruInv
  <2>4. ASSUME NEW r \in DOMAIN region
        PROVE  Cardinality({i \in DOMAIN gc_list : gc_list[i] = r}) + Cardinality(Destroyers(r)) =
                   IF Live(r) /\ region[r].ref = 0 THEN 1 ELSE 0
    <3> DEFINE Q == {i \in DOMAIN gc_list : gc_list[i] = r}
    <3> DEFINE D == Destroyers(r)
    <3>1. /\ \A i \in Q : /\ Live(r) /\ region[r].ref = 0 /\ Q = {i}
                          /\ \A t \in Threads : held[t] # r
          /\ \A t \in D : /\ Live(r) /\ region[r].ref = 0 /\ t \in Threads /\ held[t] = r
                          /\ \A u \in Threads : held[u] = r => u = t
      BY <2>1, <2>2 DEF GcInv, Once, HeldInv, HeldOf, Destroyers
    <3>2. Live(r) /\ region[r].ref = 0 => Q # {} \/ D # {}
      BY <2>1, <2>2, <2>4, Zenon DEF ZeroInv, On, Destroyers
    <3>3. D \subseteq Threads
      BY Zenon DEF Destroyers
    <3> HIDE DEF Q, D
    <3>4. \A t \in D : D = {t} /\ Q = {}
      BY <3>1, <3>3, Zenon
    <3>5. \A x : Cardinality({x}) = 1
      BY FS_Singleton, Zenon
    <3>6. Cardinality({}) = 0
      BY FS_EmptySet, Zenon
    <3>7. \A i \in Q : D = {} /\ Q = {i}
      BY <3>1, <3>3, Zenon
    <3> DEFINE n == IF Live(r) /\ region[r].ref = 0 THEN 1 ELSE 0
    <3>8. ASSUME Q # {} PROVE Cardinality(Q) + Cardinality(D) = n
      <4>1. PICK i : i \in Q
        BY <3>8, Zenon
      <4>2. Cardinality(Q) = 1 /\ Cardinality(D) = 0
        BY <3>5, <3>6, <3>7, <4>1, Zenon
      <4> QED
        BY <3>1, <4>1, <4>2
    <3>9. ASSUME D # {} PROVE Cardinality(Q) + Cardinality(D) = n
      BY <3>1, <3>4, <3>5, <3>6, <3>9
    <3>10. ASSUME Q = {} /\ D = {} PROVE Cardinality(Q) + Cardinality(D) = n
      BY <3>2, <3>6, <3>10
    <3>11. Cardinality(Q) + Cardinality(D) = n
      BY <3>8, <3>9, <3>10, Zenon
    <3> QED
      BY <3>11, Zenon DEF Q, D
  <2> QED
    BY <2>3, <2>4, Zenon DEF OneDestroyer
<1> QED
  BY <1>1, InvHolds, PTL
=============================================================================
