----------------------------- MODULE UdEpWindow -----------------------------
(***************************************************************************)
(* The window of UdEp. First, the circular comparison of wrapped counters  *)
(* is the comparison of the unwrapped ones, as long as they are less than  *)
(* half of the counter's range apart. Then the inductive invariant of      *)
(* UdEp, and what every change of the window keeps of it: the numbers, the *)
(* position of the retransmission and the control packets that are out.    *)
(***************************************************************************)
EXTENDS UdEp, FiniteSetTheorems, WellFoundedInduction, TLAPS

\* The remainder and the quotient are determined by the division equation.
LEMMA ModUnique ==
    ASSUME NEW M \in Nat, M > 0, NEW x \in Int, NEW q \in Int,
           NEW r \in 0 .. M - 1, x = M * q + r
    PROVE  x % M = r /\ x \div M = q
  OBVIOUS

\* The division equation holds.
LEMMA DivMod ==
    ASSUME NEW M \in Nat, M > 0, NEW x \in Int
    PROVE  /\ x \div M \in Int
           /\ x % M \in 0 .. M - 1
           /\ x = M * (x \div M) + (x % M)
  OBVIOUS

\* The difference of two wrapped counters wraps to the difference of the counters.
LEMMA WrapDiff ==
    ASSUME NEW a \in Int, NEW b \in Int
    PROVE  Wrap(Wrap(a) - Wrap(b)) = Wrap(a - b)
<1> DEFINE M == SnMod
<1>0. M \in Nat /\ M > 0
  BY SnModAssumption
<1>a. /\ a \div M \in Int /\ a % M \in 0 .. M - 1
      /\ a = M * (a \div M) + (a % M)
  BY <1>0, DivMod, Zenon
<1>b. /\ b \div M \in Int /\ b % M \in 0 .. M - 1
      /\ b = M * (b \div M) + (b % M)
  BY <1>0, DivMod, Zenon
<1> DEFINE d == (a % M) - (b % M)
           qa == a \div M
           qb == b \div M
<1>d. /\ d \in Int
      /\ d \div M \in Int /\ d % M \in 0 .. M - 1
      /\ d = M * (d \div M) + (d % M)
  <2>1. d \in Int
    BY <1>a, <1>b, <1>0
  <2> HIDE DEF d
  <2> QED
    BY <1>0, <2>1, DivMod, Zenon
<1>1. a - b = M * ((qa - qb) + (d \div M)) + (d % M)
  <2> DEFINE ra == a % M
             rb == b % M
             qd == d \div M
             rd == d % M
  <2>1. /\ qa \in Int /\ qb \in Int /\ qd \in Int /\ ra \in Int /\ rb \in Int
        /\ rd \in Int /\ M \in Int
        /\ a = M * qa + ra /\ b = M * qb + rb /\ ra - rb = M * qd + rd
    BY <1>0, <1>a, <1>b, <1>d
  <2> HIDE DEF M, qa, qb, ra, rb, qd, rd, d
  <2>2. M * ((qa - qb) + qd) = M * qa - M * qb + M * qd
    BY <2>1
  <2>3. a - b = M * ((qa - qb) + qd) + rd
    BY <2>1, <2>2
  <2> QED
    BY <2>3, Zenon DEF qd, rd
<1>2. (a - b) % M = d % M
  <2> DEFINE q == (qa - qb) + (d \div M)
             r == d % M
  <2>1. q \in Int /\ r \in 0 .. M - 1 /\ a - b \in Int /\ a - b = M * q + r
    BY <1>0, <1>a, <1>b, <1>d, <1>1
  <2> HIDE DEF q, r, M
  <2>2. (a - b) % M = r
    BY <1>0, <2>1, ModUnique, Zenon
  <2> QED
    BY <2>2, Zenon DEF r
<1> QED
  BY <1>2, Zenon DEF Wrap

\* A difference of less than half the range survives the cast.
LEMMA SignedExact ==
    ASSUME NEW d \in Int, -(SnMod \div 2) < d, d < SnMod \div 2
    PROVE  Signed(d) = d
<1>0. SnMod \in Nat /\ SnMod > 0 /\ SnMod = 2 * (SnMod \div 2) /\ SnMod \div 2 \in Nat
  BY SnModAssumption
<1>1. CASE d >= 0
  <2>1. d % SnMod = d
    BY <1>0, <1>1
  <2> QED
    BY <2>1, <1>0, <1>1 DEF Signed, Wrap
<1>2. CASE d < 0
  <2>1. d % SnMod = d + SnMod
    <3>1. d + SnMod \in 0 .. SnMod - 1 /\ d = SnMod * (-1) + (d + SnMod)
      BY <1>0, <1>2
    <3> DEFINE r == d + SnMod
    <3> HIDE DEF r
    <3>2. r \in 0 .. SnMod - 1 /\ d = SnMod * (-1) + r
      BY <3>1, Zenon DEF r
    <3>3. d % SnMod = r
      BY <1>0, <3>2, ModUnique
    <3> QED
      BY <3>3, Zenon DEF r
  <2> QED
    BY <2>1, <1>0, <1>2 DEF Signed, Wrap
<1> QED
  BY <1>1, <1>2

\* UCS_CIRCULAR_COMPARE16 on wrapped counters decides <, <= and = of the
\* unwrapped ones when they differ by less than half of the range.
THEOREM CircularExact ==
    ASSUME NEW a \in Int, NEW b \in Int,
           -(SnMod \div 2) < a - b, a - b < SnMod \div 2
    PROVE  /\ SnLt(Wrap(a), Wrap(b)) <=> a < b
           /\ SnLe(Wrap(a), Wrap(b)) <=> a <= b
           /\ SnEq(Wrap(a), Wrap(b)) <=> a = b
<1>1. Wrap(Wrap(a) - Wrap(b)) = Wrap(a - b)
  BY WrapDiff, Zenon
<1>2. Signed(Wrap(a) - Wrap(b)) = Signed(a - b)
  BY <1>1, Zenon DEF Signed
<1>3. Signed(a - b) = a - b
  <2> DEFINE d == a - b
  <2>1. d \in Int /\ -(SnMod \div 2) < d /\ d < SnMod \div 2
    OBVIOUS
  <2> HIDE DEF d
  <2>2. Signed(d) = d
    BY <2>1, SignedExact, Zenon
  <2> QED
    BY <2>2, Zenon DEF d
<1> QED
  BY <1>2, <1>3 DEF SnLt, SnLe, SnEq

-----------------------------------------------------------------------------
Half == SnMod \div 2

-----------------------------------------------------------------------------
(* The inductive invariant *)

Fields ==
    {"psn", "acked", "max_psn", "cwnd", "window", "gone", "ops", "resend_pos",
     "resend_psn", "resend_max", "resend_count", "nacked", "outstanding",
     "head_sn", "rx_acked", "async_comps", "pending_rx", "got", "done",
     "flushes", "timed_out", "state"}

IsEp(r) == r = [f \in Fields |-> r[f]]

EpType(r) ==
    /\ r.psn \in Int /\ r.acked \in Int /\ r.max_psn \in Int
    /\ r.head_sn \in Int /\ r.rx_acked \in Int
    /\ r.resend_psn \in Int /\ r.resend_max \in Int /\ r.resend_count \in Int
    /\ r.cwnd \in MinWindow .. MaxWindow
    /\ r.window \in Seq(Skb) /\ r.outstanding \in Seq(Nat)
    /\ r.got \in Seq(Int) /\ r.pending_rx \in Seq(Int)
    /\ r.gone \in Nat /\ r.resend_pos \in Nat
    /\ r.ops \subseteq CtlOps
    /\ r.state \in {"open", "cancelled", "cancelling", "failed", "closed"}

\* The window holds, in the order of their numbers, every message that is not
\* acknowledged; a flush waits behind the message it follows.
WinInv(w, acked, psn) ==
    /\ FirstPsn - 1 <= acked /\ acked < psn
    /\ \A i \in 1 .. Len(w) : FirstPsn - 1 <= w[i].psn /\ w[i].psn < psn
    /\ \A i, j \in 1 .. Len(w) : i < j =>
           /\ w[i].psn <= w[j].psn
           /\ ~w[j].flush => w[i].psn < w[j].psn
    /\ \A n \in acked + 1 .. psn - 1 :
           \E i \in 1 .. Len(w) : w[i].psn = n /\ ~w[i].flush

\* The packets that have a control packet without send completion, and the
\* packets of the window that are marked RESENDING.
Sent(out) == {out[k] : k \in 1 .. Len(out)} \ {0}
Marked(w, gone) == {gone + i : i \in {j \in 1 .. Len(w) : w[j].resending}}

OutInv(out, count, w, gone) ==
    /\ \A j, k \in 1 .. Len(out) : j < k /\ out[j] # 0 => out[j] # out[k]
    /\ IsFiniteSet(Sent(out)) /\ count = Cardinality(Sent(out))
    /\ Sent(out) = Marked(w, gone)

(***************************************************************************)
(* The resend position is at, or at a released packet.  While something up *)
(* to resend_max is not acknowledged, either resend_psn is beyond          *)
(* resend_max and the position is the packet with that number, or it is    *)
(* before that packet, which is not RESENDING, and what the position is at *)
(* is released only when resend_psn is acknowledged.                       *)
(***************************************************************************)
PosAt(w, pos, at, rpsn, rmax, psn, acked) ==
    /\ FirstPsn - 1 <= rmax /\ rmax < psn
    /\ rmax - rpsn < Half /\ rpsn - rmax < Half
    /\ pos > 0 => pos <= Len(w) /\ w[pos].psn <= rmax
    /\ acked < rmax /\ rpsn <= rmax =>
         /\ at = 0 \/ pos > 0
         /\ rpsn <= acked + 1 \/ (pos > 0 /\ rpsn <= w[pos].psn)
         /\ \A i \in 1 .. Len(w) : w[i].psn = rmax /\ ~w[i].flush =>
                pos < i /\ ~w[i].resending
    /\ acked < rmax /\ rmax < rpsn =>
         pos > 0 /\ w[pos].psn = rmax

PosInv(w, gone, at, rpsn, rmax, psn, acked) ==
    PosAt(w, at - gone, at, rpsn, rmax, psn, acked)

\* A resend that is scheduled, while something up to resend_max is not
\* acknowledged, has not reached resend_max.
ResendInv(r) ==
    r.acked < r.resend_max /\ "RESEND" \in r.ops => r.resend_psn <= r.resend_max

\* What is taken for acknowledged, and how far sending may go beyond it.
StInv(r) ==
    /\ r.psn - 1 - r.acked <= MaxWindow
    /\ r.state # "open" => r.acked = r.psn - 1
    /\ r.state = "open" =>
         /\ r.acked < r.max_psn /\ r.max_psn <= r.acked + 1 + MaxWindow
         /\ r.acked < r.resend_max \/ r.resend_max < r.resend_psn

\* What the user was given, then what waits for its main thread, are the
\* numbers up to head_sn.
RxInv(rx_acked, head_sn, got, pending_rx) ==
    /\ FirstPsn - 1 <= rx_acked /\ rx_acked <= head_sn
    /\ Len(got) + Len(pending_rx) = head_sn - FirstPsn + 1
    /\ \A i \in 1 .. Len(got) : got[i] = FirstPsn + i - 1
    /\ \A i \in 1 .. Len(pending_rx) : pending_rx[i] = FirstPsn + Len(got) + i - 1

CancelInv(r) ==
    r.state = "cancelling" /\ r.window # <<>> =>
        r.outstanding # <<>> \/ "ACK_REQ" \in r.ops

\* The part of the invariant that also holds in the middle of a step.
Core(r) ==
    /\ IsEp(r) /\ EpType(r)
    /\ WinInv(r.window, r.acked, r.psn)
    /\ OutInv(r.outstanding, r.resend_count, r.window, r.gone)
    /\ PosInv(r.window, r.gone, r.resend_pos, r.resend_psn, r.resend_max, r.psn, r.acked)
    /\ RxInv(r.rx_acked, r.head_sn, r.got, r.pending_rx)

EpInv(r) == Core(r) /\ ResendInv(r) /\ StInv(r) /\ CancelInv(r)

\* An endpoint r and its peer q: r accepted only what q sent, q is never more
\* than a window ahead, and q accepted what r takes for acknowledged.
LinkInv(r, q) ==
    /\ r.head_sn < q.psn /\ q.psn <= r.head_sn + 1 + MaxWindow
    /\ r.state = "open" => r.acked <= q.head_sn

\* A packet in the network and its sender q.
PacketInv(p, q) ==
    /\ p \in Packet
    /\ FirstPsn - 1 <= p.ack /\ p.ack <= q.head_sn
    /\ p.am => FirstPsn - 1 <= p.psn /\ p.psn < q.psn

UdInv ==
    /\ ep = [e \in Ep |-> ep[e]]
    /\ \A e \in Ep : /\ EpInv(ep[e]) /\ LinkInv(ep[e], ep[Peer(e)])
                     /\ ep[e].psn <= FirstPsn + MaxMsg[e]
    /\ \A p \in net : PacketInv(p, ep[Peer(p.dst)])

Young(w, psn) == \A i \in 1 .. Len(w) : psn - w[i].psn < Half

\* No packet in the network or in a window, and no scheduled resend, is so old
\* that half of the sequence numbers were used since.
NothingIsOld ==
    /\ \A p \in net : /\ ep[p.dst].acked - p.ack < Half
                      /\ p.am => ep[p.dst].head_sn + 1 - p.psn < Half
    /\ \A e \in Ep :
        /\ Young(ep[e].window, ep[e].psn)
        /\ "RESEND" \in ep[e].ops => ep[e].psn - ep[e].resend_max < Half

-----------------------------------------------------------------------------
(* Numbers *)

\* Half is a natural number and a window is smaller.
LEMMA HalfFacts ==
    /\ SnMod \in Nat /\ SnMod > 0 /\ Half \in Nat
    /\ FirstPsn \in Nat /\ MinWindow \in Nat /\ MaxWindow \in Nat
    /\ 2 <= MinWindow /\ MinWindow <= MaxWindow /\ MaxWindow < Half
  BY SnModAssumption, UdEpAssumption DEF Half

\* UCS_CIRCULAR_COMPARE16 of two numbers less than half of the range apart.
LEMMA SnExact ==
    ASSUME NEW a \in Int, NEW b \in Int, a - b < Half, b - a < Half
    PROVE  /\ SnLt(a, b) <=> a < b
           /\ SnLe(a, b) <=> a <= b
           /\ SnEq(a, b) <=> a = b
<1> DEFINE d == a - b
<1>1. d \in Int /\ -(SnMod \div 2) < d /\ d < SnMod \div 2
  BY HalfFacts DEF Half
<1>2. Signed(d) = d
  <2> HIDE DEF d
  <2> QED
    BY <1>1, SignedExact, Zenon
<1> QED
  BY <1>2 DEF SnLt, SnLe, SnEq

-----------------------------------------------------------------------------
(* The completed packets at the front of the window *)

\* The loop of uct_ud_ep_window_release_inline ends at the first packet that
\* is not completed.
LEMMA PrefixFacts ==
    ASSUME NEW w \in Seq(Skb), NEW ack \in Int
    PROVE  LET n == CompletedPrefix(w, ack)
           IN  /\ n \in 0 .. Len(w)
               /\ \A i \in 1 .. n : IsCompleted(w[i], ack)
               /\ n < Len(w) => ~IsCompleted(w[n + 1], ack)
<1> DEFINE S == {k \in Nat : k < Len(w) /\ ~IsCompleted(w[k + 1], ack)}
           Ends(n) == /\ \A i \in 1 .. n : IsCompleted(w[i], ack)
                      /\ n < Len(w) => ~IsCompleted(w[n + 1], ack)
<1>0. Len(w) \in Nat
  OBVIOUS
<1>1. \E n \in 0 .. Len(w) : Ends(n)
  <2>1. CASE S = {}
    <3>1. \A i \in 1 .. Len(w) : IsCompleted(w[i], ack)
      <4> TAKE i \in 1 .. Len(w)
      <4>1. i - 1 \in Nat /\ i - 1 < Len(w) /\ (i - 1) + 1 = i
        BY <1>0
      <4> QED
        BY <2>1, <4>1, Zenon
    <3> QED
      BY <1>0, <3>1
  <2>2. CASE S # {}
    <3>1. PICK n \in S : \A k \in S : <<k, n>> \notin OpToRel(<, Nat)
      BY <2>2, NatLessThanWellFounded, WFMin, Zenon
    <3>n. n \in Nat /\ n < Len(w) /\ ~IsCompleted(w[n + 1], ack)
      BY Zenon
    <3>2. \A i \in 1 .. n : IsCompleted(w[i], ack)
      <4> TAKE i \in 1 .. n
      <4>1. i - 1 \in Nat /\ i - 1 < n /\ i - 1 < Len(w) /\ (i - 1) + 1 = i
        BY <1>0, <3>n
      <4>2. <<i - 1, n>> \in OpToRel(<, Nat)
        BY <3>n, <4>1, Zenon DEF OpToRel
      <4>3. i - 1 \notin S
        BY <3>1, <4>2, Zenon
      <4> QED
        BY <4>1, <4>3, Zenon
    <3> QED
      BY <1>0, <3>n, <3>2
  <2> QED
    BY <2>1, <2>2, Zenon
<1>2. CompletedPrefix(w, ack) = CHOOSE n \in 0 .. Len(w) : Ends(n)
  BY Zenon DEF CompletedPrefix
<1> HIDE DEF Ends
<1>3. CompletedPrefix(w, ack) \in 0 .. Len(w) /\ Ends(CompletedPrefix(w, ack))
  BY <1>1, <1>2, Zenon
<1> QED
  BY <1>3, Zenon DEF Ends

\* The packets of a window.
LEMMA SkbFacts ==
    ASSUME NEW w \in Seq(Skb)
    PROVE  /\ Len(w) \in Nat /\ DOMAIN w = 1 .. Len(w)
           /\ \A i \in 1 .. Len(w) : w[i] \in Skb /\ w[i].psn \in Int
<1>1. Len(w) \in Nat /\ DOMAIN w = 1 .. Len(w)
  OBVIOUS
<1>2. ASSUME NEW i \in 1 .. Len(w) PROVE w[i] \in Skb /\ w[i].psn \in Int
  <2>1. w[i] \in Skb
    OBVIOUS
  <2> QED
    BY <2>1, Zenon DEF Skb
<1> QED
  BY <1>1, <1>2, Zenon

\* What is left of the window when its first n packets are released.
LEMMA RestFacts ==
    ASSUME NEW w \in Seq(Skb), NEW n \in 0 .. Len(w)
    PROVE  LET v == SubSeq(w, n + 1, Len(w))
           IN  /\ v \in Seq(Skb) /\ Len(v) \in Nat /\ Len(v) = Len(w) - n
               /\ \A i \in 1 .. Len(v) : n + i \in 1 .. Len(w) /\ v[i] = w[n + i]
<1> DEFINE v == SubSeq(w, n + 1, Len(w))
<1>1. v \in Seq(Skb) /\ Len(v) = Len(w) - n /\ Len(w) \in Nat
  OBVIOUS
<1>2. \A i \in 1 .. Len(v) : v[i] = w[n + i]
  BY <1>1
<1> HIDE DEF v
<1>3. Len(v) \in Nat /\ \A i \in 1 .. Len(v) : n + i \in 1 .. Len(w)
  BY <1>1
<1> QED
  BY <1>1, <1>2, <1>3, Zenon DEF v

-----------------------------------------------------------------------------
(* Releasing packets keeps the invariant of the window *)

\* Messages that are released are acknowledged.
LEMMA WinRelease ==
    ASSUME NEW w \in Seq(Skb), NEW acked \in Int, NEW psn \in Int, NEW ack \in Int,
           WinInv(w, acked, psn), acked <= ack, ack < psn,
           NEW n \in 0 .. Len(w), \A i \in 1 .. n : w[i].psn <= ack
    PROVE  WinInv(SubSeq(w, n + 1, Len(w)), ack, psn)
<1> DEFINE v == SubSeq(w, n + 1, Len(w))
<1>v. /\ v \in Seq(Skb) /\ Len(v) \in Nat /\ Len(v) = Len(w) - n
      /\ \A i \in 1 .. Len(v) : n + i \in 1 .. Len(w) /\ v[i] = w[n + i]
  BY RestFacts, Zenon
<1> HIDE DEF v
<1>w. Len(w) \in Nat /\ FirstPsn \in Int
  BY HalfFacts
<1>1. FirstPsn - 1 <= ack /\ ack < psn
  BY <1>w DEF WinInv
<1>2. \A i \in 1 .. Len(v) : FirstPsn - 1 <= v[i].psn /\ v[i].psn < psn
  BY <1>v, Zenon DEF WinInv
<1>3. ASSUME NEW i \in 1 .. Len(v), NEW j \in 1 .. Len(v), i < j
      PROVE  v[i].psn <= v[j].psn /\ (~v[j].flush => v[i].psn < v[j].psn)
  <2>1. n + i \in 1 .. Len(w) /\ n + j \in 1 .. Len(w) /\ n + i < n + j
    BY <1>3, <1>v
  <2> QED
    BY <1>v, <2>1, Zenon DEF WinInv
<1>4. ASSUME NEW m \in ack + 1 .. psn - 1
      PROVE  \E i \in 1 .. Len(v) : v[i].psn = m /\ ~v[i].flush
  <2>1. m \in acked + 1 .. psn - 1 /\ ack < m
    OBVIOUS
  <2>2. PICK k \in 1 .. Len(w) : w[k].psn = m /\ ~w[k].flush
    BY <2>1, Zenon DEF WinInv
  <2>3. k > n
    BY <2>1, <2>2, <1>w
  <2>4. k - n \in 1 .. Len(v) /\ n + (k - n) = k
    BY <1>v, <1>w, <2>3
  <2>5. v[k - n] = w[k]
    BY <1>v, <2>4, Zenon
  <2> QED
    BY <2>2, <2>4, <2>5, Zenon
<1>5. WinInv(v, ack, psn)
  BY <1>1, <1>2, <1>3, <1>4, Zenon DEF WinInv
<1> QED
  BY <1>5, Zenon DEF v

\* No packet that is released is RESENDING.
LEMMA OutRelease ==
    ASSUME NEW w \in Seq(Skb), NEW gone \in Nat, NEW out, NEW count,
           OutInv(out, count, w, gone),
           NEW n \in 0 .. Len(w), \A i \in 1 .. n : ~w[i].resending
    PROVE  OutInv(out, count, SubSeq(w, n + 1, Len(w)), gone + n)
<1> DEFINE v == SubSeq(w, n + 1, Len(w))
<1>v. /\ v \in Seq(Skb) /\ Len(v) \in Nat /\ Len(v) = Len(w) - n
      /\ \A i \in 1 .. Len(v) : n + i \in 1 .. Len(w) /\ v[i] = w[n + i]
  BY RestFacts, Zenon
<1> HIDE DEF v
<1>w. Len(w) \in Nat
  OBVIOUS
<1>1. ASSUME NEW x \in Marked(w, gone) PROVE x \in Marked(v, gone + n)
  <2>1. PICK i \in 1 .. Len(w) : w[i].resending /\ x = gone + i
    BY Zenon DEF Marked
  <2>2. i > n
    BY <1>w, <2>1
  <2>3. i - n \in 1 .. Len(v) /\ n + (i - n) = i /\ x = (gone + n) + (i - n)
    BY <1>v, <1>w, <2>1, <2>2
  <2>4. v[i - n].resending
    BY <1>v, <2>1, <2>3, Zenon
  <2> QED
    BY <2>3, <2>4, Zenon DEF Marked
<1>2. ASSUME NEW x \in Marked(v, gone + n) PROVE x \in Marked(w, gone)
  <2>1. PICK i \in 1 .. Len(v) : v[i].resending /\ x = (gone + n) + i
    BY Zenon DEF Marked
  <2>2. n + i \in 1 .. Len(w) /\ w[n + i].resending /\ x = gone + (n + i)
    BY <1>v, <1>w, <2>1
  <2> QED
    BY <2>2, Zenon DEF Marked
<1>3. Marked(v, gone + n) = Marked(w, gone)
  BY <1>1, <1>2, Zenon
<1>4. OutInv(out, count, v, gone + n)
  BY <1>3, Zenon DEF OutInv
<1> QED
  BY <1>4, Zenon DEF v

\* uct_ud_ep_resend_ack after an acknowledgement up to ack released n packets.
LEMMA PosAck ==
    ASSUME NEW w \in Seq(Skb), NEW gone \in Nat, NEW at \in Nat, NEW rpsn \in Int,
           NEW rmax \in Int, NEW psn \in Int, NEW acked \in Int, NEW ack \in Int,
           PosInv(w, gone, at, rpsn, rmax, psn, acked),
           acked < ack, psn - 1 - ack <= MaxWindow,
           NEW n \in 0 .. Len(w), \A i \in 1 .. n : w[i].psn <= ack
    PROVE  LET v == SubSeq(w, n + 1, Len(w))
           IN  /\ ack < rmax /\ rpsn <= rmax /\ rpsn <= ack
                    => PosInv(v, gone + n, 0, ack + 1, rmax, psn, ack)
               /\ ack < rmax /\ rpsn <= rmax /\ ~(rpsn <= ack)
                    => PosInv(v, gone + n, at, rpsn, rmax, psn, ack)
               /\ rmax < rpsn => PosInv(v, gone + n, at, rpsn, rmax, psn, ack)
               /\ rpsn <= rmax /\ rmax <= ack
                    => PosInv(v, gone + n, at, rmax + 1, rmax, psn, ack)
<1> DEFINE v == SubSeq(w, n + 1, Len(w))
<1>v. /\ v \in Seq(Skb) /\ Len(v) \in Nat /\ Len(v) = Len(w) - n
      /\ \A i \in 1 .. Len(v) : n + i \in 1 .. Len(w) /\ v[i] = w[n + i]
  BY RestFacts, Zenon
<1> HIDE DEF v
<1>w. Len(w) \in Nat /\ FirstPsn \in Int /\ Half \in Nat /\ MaxWindow < Half /\ MaxWindow \in Nat
  BY HalfFacts
<1>t. \A i \in 1 .. Len(w) : w[i].psn \in Int
  BY SkbFacts, Zenon
<1> DEFINE pos == at - gone
           pnew == at - (gone + n)
           home == 0 - (gone + n)
<1>p. pos \in Int /\ pnew \in Int /\ pnew = pos - n /\ home \in Int /\ home <= 0
      /\ (at = 0 => pos <= 0)
  OBVIOUS
<1>old. PosAt(w, pos, at, rpsn, rmax, psn, acked)
  BY Zenon DEF PosInv
<1> HIDE DEF pos, pnew, home
<1>q. pnew > 0 => pnew \in 1 .. Len(v) /\ v[pnew] = w[pos] /\ v[pnew].psn <= rmax
  <2> SUFFICES ASSUME pnew > 0
               PROVE  pnew \in 1 .. Len(v) /\ v[pnew] = w[pos] /\ v[pnew].psn <= rmax
    BY Zenon
  <2>0. pos > 0 => pos <= Len(w)
    BY <1>old, Zenon DEF PosAt
  <2>1. pos > 0 /\ pnew \in 1 .. Len(v) /\ n + pnew = pos
    <3>1. Len(v) \in Nat /\ Len(v) = Len(w) - n /\ Len(w) \in Nat
      BY <1>v, <1>w, Zenon
    <3> QED
      BY <1>p, <2>0, <3>1
  <2> QED
    BY <1>old, <1>v, <2>1, Zenon DEF PosAt
\* A packet beyond the acknowledgement is still there.
<1>kept. pos > 0 /\ ack < w[pos].psn => pnew > 0 /\ v[pnew] = w[pos]
  <2> SUFFICES ASSUME pos > 0, ack < w[pos].psn PROVE pnew > 0 /\ v[pnew] = w[pos]
    BY Zenon
  <2>1. pos \in 1 .. Len(w)
    BY <1>old, <1>p, <1>w DEF PosAt
  <2>2. pos > n
    BY <1>p, <1>t, <2>1
  <2> QED
    BY <1>p, <1>q, <2>2
<1>max. acked < rmax /\ rpsn <= rmax =>
            \A i \in 1 .. Len(v) : v[i].psn = rmax /\ ~v[i].flush =>
                pnew < i /\ ~v[i].resending
  <2> SUFFICES ASSUME acked < rmax, rpsn <= rmax, NEW i \in 1 .. Len(v),
                      v[i].psn = rmax, ~v[i].flush
               PROVE  pnew < i /\ ~v[i].resending
    BY Zenon
  <2>1. n + i \in 1 .. Len(w) /\ v[i] = w[n + i]
    BY <1>v, <1>w, Zenon
  <2>2. pos < n + i /\ ~w[n + i].resending
    BY <1>old, <2>1, Zenon DEF PosAt
  <2> QED
    BY <1>p, <2>1, <2>2, SMTT(40)
<1>1. ASSUME ack < rmax, rpsn <= rmax, rpsn <= ack
      PROVE  PosAt(v, home, 0, ack + 1, rmax, psn, ack)
  <2>1. \A i \in 1 .. Len(v) : v[i].psn = rmax /\ ~v[i].flush =>
            home < i /\ ~v[i].resending
    BY <1>max, <1>1, <1>p, SMTT(40)
  <2>2. /\ rmax - (ack + 1) < Half /\ (ack + 1) - rmax < Half /\ ack + 1 <= rmax
    BY <1>old, <1>w, <1>1 DEF PosAt
  <2> QED
    BY <1>old, <1>p, <2>1, <2>2 DEF PosAt
<1>2. ASSUME ack < rmax, rpsn <= rmax, ~(rpsn <= ack)
      PROVE  PosAt(v, pnew, at, rpsn, rmax, psn, ack)
  <2>0. acked < rmax
    BY <1>2
  <2>1. rpsn <= ack + 1 \/ (pnew > 0 /\ rpsn <= v[pnew].psn)
    <3>1. CASE pos > 0 /\ rpsn <= w[pos].psn
      <4>1. w[pos].psn \in Int
        BY <1>old, <1>t, <1>p, <1>w, <3>1, SMTT(40) DEF PosAt
      <4> QED
        BY <1>2, <1>kept, <3>1, <4>1, SMTT(40)
    <3> QED
      BY <1>old, <1>2, <2>0, <3>1 DEF PosAt
  <2>2. at = 0 \/ pnew > 0
    <3>1. CASE pos > 0 /\ rpsn <= w[pos].psn
      <4>1. w[pos].psn \in Int
        BY <1>old, <1>t, <1>p, <1>w, <3>1 DEF PosAt
      <4> QED
        BY <1>2, <1>kept, <3>1, <4>1, SMTT(40)
    <3>2. CASE rpsn <= acked + 1
      BY <1>2, <3>2
    <3> QED
      BY <1>old, <1>2, <2>0, <3>1, <3>2, Zenon DEF PosAt
  <2> QED
    BY <1>old, <1>q, <1>max, <1>2, <2>0, <2>1, <2>2 DEF PosAt
<1>3. ASSUME rmax < rpsn
      PROVE  PosAt(v, pnew, at, rpsn, rmax, psn, ack)
  <2>1. ack < rmax => pnew > 0 /\ v[pnew].psn = rmax
    BY <1>old, <1>kept, <1>3, SMTT(40) DEF PosAt
  <2> QED
    BY <1>old, <1>q, <1>3, <2>1 DEF PosAt
<1>4. ASSUME rpsn <= rmax, rmax <= ack
      PROVE  PosAt(v, pnew, at, rmax + 1, rmax, psn, ack)
  <2>1. rmax - (rmax + 1) < Half /\ (rmax + 1) - rmax < Half
    BY <1>w, HalfFacts
  <2> QED
    BY <1>old, <1>q, <1>4, <2>1 DEF PosAt
<1> QED
  BY <1>1, <1>2, <1>3, <1>4, Zenon DEF v, pnew, home, PosInv

\* Completed packets are released when nothing new was acknowledged: the
\* resend position starts again if it was at one of them.
LEMMA PosRelease ==
    ASSUME NEW w \in Seq(Skb), NEW gone \in Nat, NEW at \in Nat, NEW rpsn \in Int,
           NEW rmax \in Int, NEW psn \in Int, NEW acked \in Int,
           PosInv(w, gone, at, rpsn, rmax, psn, acked), Young(w, psn),
           acked < psn, psn - 1 - acked <= MaxWindow,
           NEW n \in 0 .. Len(w), \A i \in 1 .. n : w[i].psn <= acked
    PROVE  LET v == SubSeq(w, n + 1, Len(w))
           IN  /\ at \in gone + 1 .. gone + n
                    => PosInv(v, gone + n, 0, acked + 1, rmax, psn, acked)
               /\ at \notin gone + 1 .. gone + n \/ rmax <= acked
                    => PosInv(v, gone + n, at, rpsn, rmax, psn, acked)
<1> DEFINE v == SubSeq(w, n + 1, Len(w))
<1>v. /\ v \in Seq(Skb) /\ Len(v) \in Nat /\ Len(v) = Len(w) - n
      /\ \A i \in 1 .. Len(v) : n + i \in 1 .. Len(w) /\ v[i] = w[n + i]
  BY RestFacts, Zenon
<1> HIDE DEF v
<1>w. Len(w) \in Nat /\ FirstPsn \in Int /\ Half \in Nat /\ MaxWindow < Half /\ MaxWindow \in Nat
  BY HalfFacts
<1>t. \A i \in 1 .. Len(w) : w[i].psn \in Int
  BY SkbFacts, Zenon
<1> DEFINE pos == at - gone
           pnew == at - (gone + n)
           home == 0 - (gone + n)
<1>p. pos \in Int /\ pnew \in Int /\ pnew = pos - n /\ home \in Int /\ home <= 0
      /\ (at = 0 => pos <= 0)
      /\ (at \in gone + 1 .. gone + n <=> pos \in 1 .. n)
  OBVIOUS
<1>old. PosAt(w, pos, at, rpsn, rmax, psn, acked)
  BY Zenon DEF PosInv
<1> HIDE DEF pos, pnew, home
<1>q. pnew > 0 => pnew \in 1 .. Len(v) /\ v[pnew] = w[pos] /\ v[pnew].psn <= rmax
  <2> SUFFICES ASSUME pnew > 0
               PROVE  pnew \in 1 .. Len(v) /\ v[pnew] = w[pos] /\ v[pnew].psn <= rmax
    BY Zenon
  <2>0. pos > 0 => pos <= Len(w)
    BY <1>old, Zenon DEF PosAt
  <2>1. pos > 0 /\ pnew \in 1 .. Len(v) /\ n + pnew = pos
    <3>1. Len(v) \in Nat /\ Len(v) = Len(w) - n /\ Len(w) \in Nat
      BY <1>v, <1>w, Zenon
    <3> QED
      BY <1>p, <2>0, <3>1
  <2> QED
    BY <1>old, <1>v, <2>1, Zenon DEF PosAt
<1>max. acked < rmax /\ rpsn <= rmax =>
            \A i \in 1 .. Len(v) : v[i].psn = rmax /\ ~v[i].flush =>
                pnew < i /\ ~v[i].resending
  <2> SUFFICES ASSUME acked < rmax, rpsn <= rmax, NEW i \in 1 .. Len(v),
                      v[i].psn = rmax, ~v[i].flush
               PROVE  pnew < i /\ ~v[i].resending
    BY Zenon
  <2>1. n + i \in 1 .. Len(w) /\ v[i] = w[n + i]
    BY <1>v, <1>w, Zenon
  <2>2. pos < n + i /\ ~w[n + i].resending
    BY <1>old, <2>1, Zenon DEF PosAt
  <2> QED
    BY <1>p, <2>1, <2>2
<1>1. ASSUME at \in gone + 1 .. gone + n
      PROVE  PosAt(v, home, 0, acked + 1, rmax, psn, acked)
  <2>1. pos \in 1 .. n /\ pos \in 1 .. Len(w)
    BY <1>1, <1>p, <1>w
  <2>2. w[pos].psn \in Int /\ w[pos].psn <= acked /\ w[pos].psn <= rmax /\ psn - w[pos].psn < Half
    BY <1>old, <1>t, <2>1 DEF Young, PosAt
  <2>3. acked < rmax => rpsn <= rmax
    BY <1>old, <2>2, SMTT(40) DEF PosAt
  <2>4. rmax - (acked + 1) < Half /\ (acked + 1) - rmax < Half
    BY <1>old, <1>w, <2>2, SMTT(40) DEF PosAt
  <2>5. acked < rmax => \A i \in 1 .. Len(v) : v[i].psn = rmax /\ ~v[i].flush =>
            home < i /\ ~v[i].resending
    BY <1>max, <1>p, <2>3, SMTT(40)
  <2> QED
    BY <1>old, <1>p, <2>4, <2>5 DEF PosAt
<1>2. ASSUME at \notin gone + 1 .. gone + n \/ rmax <= acked
      PROVE  PosAt(v, pnew, at, rpsn, rmax, psn, acked)
  <2>1. acked < rmax => pos <= 0 \/ pnew > 0
    BY <1>2, <1>p
  <2>2. acked < rmax /\ rpsn <= rmax =>
          /\ at = 0 \/ pnew > 0
          /\ rpsn <= acked + 1 \/ (pnew > 0 /\ rpsn <= v[pnew].psn)
    BY <1>old, <1>p, <1>q, <2>1, SMTT(40) DEF PosAt
  <2>3. ASSUME acked < rmax, rmax < rpsn PROVE pnew > 0 /\ v[pnew].psn = rmax
    <3>1. pos > 0 /\ w[pos].psn = rmax
      BY <1>old, <2>3, Zenon DEF PosAt
    <3>2. pnew > 0
      BY <1>p, <2>1, <2>3, <3>1
    <3> QED
      BY <1>q, <3>1, <3>2, Zenon
  <2> QED
    BY <1>old, <1>q, <1>max, <2>2, <2>3 DEF PosAt
<1> QED
  BY <1>1, <1>2, Zenon DEF v, pnew, home, PosInv

-----------------------------------------------------------------------------
(* Other changes of the window and of the outstanding control packets *)

\* Two windows of the same packets, but for the marks on them.
SameNumbers(w, v) ==
    /\ Len(v) = Len(w)
    /\ \A i \in 1 .. Len(w) : v[i].psn = w[i].psn /\ v[i].flush = w[i].flush

\* The marks on packets do not matter for the order of the window.
LEMMA WinSame ==
    ASSUME NEW w \in Seq(Skb), NEW v \in Seq(Skb), SameNumbers(w, v),
           NEW acked, NEW psn, WinInv(w, acked, psn)
    PROVE  WinInv(v, acked, psn)
<1>1. FirstPsn - 1 <= acked /\ acked < psn
  BY Zenon DEF WinInv
<1>2. \A i \in 1 .. Len(v) : FirstPsn - 1 <= v[i].psn /\ v[i].psn < psn
  BY Zenon DEF WinInv, SameNumbers
<1>3. \A i, j \in 1 .. Len(v) : i < j =>
          v[i].psn <= v[j].psn /\ (~v[j].flush => v[i].psn < v[j].psn)
  BY Zenon DEF WinInv, SameNumbers
<1>4. ASSUME NEW n \in acked + 1 .. psn - 1
      PROVE  \E i \in 1 .. Len(v) : v[i].psn = n /\ ~v[i].flush
  <2>1. PICK i \in 1 .. Len(w) : w[i].psn = n /\ ~w[i].flush
    BY Zenon DEF WinInv
  <2> QED
    BY <2>1, Zenon DEF SameNumbers
<1> QED
  BY <1>1, <1>2, <1>3, <1>4, Zenon DEF WinInv

\* Nor do they for the age of the packets.
LEMMA YoungSame ==
    ASSUME NEW w, NEW v, SameNumbers(w, v), NEW psn, Young(w, psn)
    PROVE  Young(v, psn)
  BY Zenon DEF Young, SameNumbers

\* The resend position stays right when no other packet becomes RESENDING.
LEMMA PosSame ==
    ASSUME NEW w \in Seq(Skb), NEW v \in Seq(Skb), SameNumbers(w, v),
           \A i \in 1 .. Len(w) : v[i].resending => w[i].resending,
           NEW gone \in Nat, NEW at \in Nat, NEW rpsn \in Int,
           NEW rmax \in Int, NEW psn \in Int, NEW acked \in Int,
           PosInv(w, gone, at, rpsn, rmax, psn, acked)
    PROVE  PosInv(v, gone, at, rpsn, rmax, psn, acked)
<1> DEFINE pos == at - gone
<1>0. pos \in Int /\ Len(w) \in Nat /\ Len(v) = Len(w)
  BY DEF SameNumbers
<1>1. pos > 0 /\ pos <= Len(w) => v[pos].psn = w[pos].psn
  BY <1>0 DEF SameNumbers
<1> HIDE DEF pos
<1>2. PosAt(w, pos, at, rpsn, rmax, psn, acked)
  BY Zenon DEF PosInv, pos
<1>3. acked < rmax /\ rpsn <= rmax =>
        \A i \in 1 .. Len(v) : v[i].psn = rmax /\ ~v[i].flush =>
            pos < i /\ ~v[i].resending
  BY <1>0, <1>2, Zenon DEF SameNumbers, PosAt
<1>4. PosAt(v, pos, at, rpsn, rmax, psn, acked)
  BY <1>0, <1>1, <1>2, <1>3, Zenon DEF PosAt
<1> QED
  BY <1>4, Zenon DEF PosInv, pos

\* The n + 1-st packet of the window is the new one.
LEMMA AppendFacts ==
    ASSUME NEW w \in Seq(Skb), NEW s \in Skb
    PROVE  LET v == Append(w, s)
           IN  /\ v \in Seq(Skb) /\ Len(w) \in Nat /\ Len(v) = Len(w) + 1
               /\ v[Len(w) + 1] = s
               /\ \A i \in 1 .. Len(w) : v[i] = w[i]
               /\ v # <<>>
  OBVIOUS

\* A new message, or a flush behind the last one.
LEMMA WinAppend ==
    ASSUME NEW w \in Seq(Skb), NEW s \in Skb, NEW acked \in Int, NEW psn \in Int,
           WinInv(w, acked, psn)
    PROVE  /\ s.psn = psn /\ ~s.flush => WinInv(Append(w, s), acked, psn + 1)
           /\ s.psn = psn - 1 /\ s.flush => WinInv(Append(w, s), acked, psn)
<1> DEFINE v == Append(w, s)
<1>v. /\ v \in Seq(Skb) /\ Len(w) \in Nat /\ Len(v) = Len(w) + 1
      /\ v[Len(w) + 1] = s
      /\ \A i \in 1 .. Len(w) : v[i] = w[i]
  BY AppendFacts, Zenon
<1> HIDE DEF v
<1>t. FirstPsn \in Int /\ \A i \in 1 .. Len(w) : w[i].psn \in Int
  BY HalfFacts, SkbFacts
<1>old. /\ FirstPsn - 1 <= acked /\ acked < psn
        /\ \A i \in 1 .. Len(w) : FirstPsn - 1 <= w[i].psn /\ w[i].psn < psn
        /\ \A i, j \in 1 .. Len(w) : i < j =>
              /\ w[i].psn <= w[j].psn
              /\ ~w[j].flush => w[i].psn < w[j].psn
        /\ \A n \in acked + 1 .. psn - 1 :
              \E i \in 1 .. Len(w) : w[i].psn = n /\ ~w[i].flush
  BY Zenon DEF WinInv
<1>i. \A i \in 1 .. Len(v) : i \in 1 .. Len(w) \/ i = Len(w) + 1
  BY <1>v
<1>1. ASSUME s.psn = psn, ~s.flush PROVE WinInv(v, acked, psn + 1)
  <2>1. \A i \in 1 .. Len(v) : FirstPsn - 1 <= v[i].psn /\ v[i].psn < psn + 1
    BY <1>old, <1>t, <1>v, <1>i, <1>1
  <2>2. \A i, j \in 1 .. Len(v) : i < j =>
            v[i].psn <= v[j].psn /\ (~v[j].flush => v[i].psn < v[j].psn)
    BY <1>old, <1>t, <1>v, <1>i, <1>1, SMTT(40)
  <2>3. ASSUME NEW n \in acked + 1 .. (psn + 1) - 1
        PROVE  \E i \in 1 .. Len(v) : v[i].psn = n /\ ~v[i].flush
    <3>1. CASE n = psn
      <4>1. Len(w) + 1 \in 1 .. Len(v)
        BY <1>v
      <4> QED
        BY <1>v, <1>1, <3>1, <4>1, Zenon
    <3>2. CASE n # psn
      <4>1. n \in acked + 1 .. psn - 1
        BY <3>2
      <4>2. PICK i \in 1 .. Len(w) : w[i].psn = n /\ ~w[i].flush
        BY <1>old, <4>1, Zenon
      <4>3. i \in 1 .. Len(v) /\ v[i] = w[i]
        BY <1>v
      <4> QED
        BY <4>2, <4>3, Zenon
    <3> QED
      BY <3>1, <3>2, Zenon
  <2>4. FirstPsn - 1 <= acked /\ acked < psn + 1
    BY <1>old
  <2> QED
    BY <2>1, <2>2, <2>3, <2>4, Zenon DEF WinInv
<1>2. ASSUME s.psn = psn - 1, s.flush PROVE WinInv(v, acked, psn)
  <2>1. \A i \in 1 .. Len(v) : FirstPsn - 1 <= v[i].psn /\ v[i].psn < psn
    BY <1>old, <1>t, <1>v, <1>i, <1>2, SMTT(40)
  <2>2. \A i, j \in 1 .. Len(v) : i < j =>
            v[i].psn <= v[j].psn /\ (~v[j].flush => v[i].psn < v[j].psn)
    BY <1>old, <1>t, <1>v, <1>i, <1>2, SMTT(40)
  <2>3. ASSUME NEW n \in acked + 1 .. psn - 1
        PROVE  \E i \in 1 .. Len(v) : v[i].psn = n /\ ~v[i].flush
    <3>1. PICK i \in 1 .. Len(w) : w[i].psn = n /\ ~w[i].flush
      BY <1>old, Zenon
    <3>2. i \in 1 .. Len(v) /\ v[i] = w[i]
      BY <1>v
    <3> QED
      BY <3>1, <3>2, Zenon
  <2> QED
    BY <1>old, <2>1, <2>2, <2>3, Zenon DEF WinInv
<1> QED
  BY <1>1, <1>2, Zenon DEF v

\* The new packet is behind the resend position and not up to be resent.
LEMMA PosAppend ==
    ASSUME NEW w \in Seq(Skb), NEW s \in Skb, NEW gone \in Nat, NEW at \in Nat,
           NEW rpsn \in Int, NEW rmax \in Int, NEW psn \in Int, NEW acked \in Int,
           NEW next \in Int, psn <= next,
           PosInv(w, gone, at, rpsn, rmax, psn, acked), s.flush \/ s.psn = psn
    PROVE  PosInv(Append(w, s), gone, at, rpsn, rmax, next, acked)
<1> DEFINE v == Append(w, s)
           pos == at - gone
<1>v. /\ v \in Seq(Skb) /\ Len(w) \in Nat /\ Len(v) = Len(w) + 1
      /\ v[Len(w) + 1] = s
      /\ \A i \in 1 .. Len(w) : v[i] = w[i]
  BY AppendFacts, Zenon
<1>p. pos \in Int
  OBVIOUS
<1> HIDE DEF v, pos
<1>t. FirstPsn \in Int /\ \A i \in 1 .. Len(w) : w[i].psn \in Int
  BY HalfFacts, SkbFacts
<1>1. PosAt(w, pos, at, rpsn, rmax, psn, acked)
  BY Zenon DEF PosInv, pos
<1>2. pos > 0 => pos <= Len(v) /\ v[pos] = w[pos]
  BY <1>v, <1>p, <1>1 DEF PosAt
<1>3. acked < rmax /\ rpsn <= rmax =>
        \A i \in 1 .. Len(v) : v[i].psn = rmax /\ ~v[i].flush =>
            pos < i /\ ~v[i].resending
  <2> SUFFICES ASSUME acked < rmax, rpsn <= rmax, NEW i \in 1 .. Len(v),
                      v[i].psn = rmax, ~v[i].flush
               PROVE  pos < i /\ ~v[i].resending
    BY Zenon
  <2>1. i # Len(w) + 1
    BY <1>v, <1>1 DEF PosAt
  <2>2. i \in 1 .. Len(w) /\ v[i] = w[i]
    BY <1>v, <2>1
  <2> QED
    BY <1>1, <2>2, Zenon DEF PosAt
<1>4. rmax < next
  BY <1>1 DEF PosAt
<1>5. PosAt(v, pos, at, rpsn, rmax, next, acked)
  BY <1>1, <1>2, <1>3, <1>4, Zenon DEF PosAt
<1> QED
  BY <1>5, Zenon DEF v, pos, PosInv

\* The new packet is not RESENDING.
LEMMA OutAppend ==
    ASSUME NEW w \in Seq(Skb), NEW s \in Skb, ~s.resending, NEW gone \in Nat,
           NEW out, NEW count, OutInv(out, count, w, gone)
    PROVE  OutInv(out, count, Append(w, s), gone)
<1> DEFINE v == Append(w, s)
<1>v. /\ v \in Seq(Skb) /\ Len(w) \in Nat /\ Len(v) = Len(w) + 1
      /\ v[Len(w) + 1] = s
      /\ \A i \in 1 .. Len(w) : v[i] = w[i]
  BY AppendFacts, Zenon
<1> HIDE DEF v
<1>1. {j \in 1 .. Len(v) : v[j].resending} = {j \in 1 .. Len(w) : w[j].resending}
  <2>1. ASSUME NEW j \in 1 .. Len(v), v[j].resending
        PROVE  j \in 1 .. Len(w) /\ w[j].resending
    <3>1. j # Len(w) + 1
      BY <1>v, <2>1, Zenon
    <3>2. j \in 1 .. Len(w)
      BY <1>v, <3>1
    <3> QED
      BY <1>v, <2>1, <3>2, Zenon
  <2>2. ASSUME NEW j \in 1 .. Len(w), w[j].resending
        PROVE  j \in 1 .. Len(v) /\ v[j].resending
    BY <1>v, <2>2
  <2> QED
    BY <2>1, <2>2, Zenon
<1>2. OutInv(out, count, v, gone)
  BY <1>1, Zenon DEF OutInv, Marked
<1> QED
  BY <1>2, Zenon DEF v

\* A window with the same marks.
LEMMA OutSame ==
    ASSUME NEW w \in Seq(Skb), NEW v \in Seq(Skb), Len(v) = Len(w),
           \A i \in 1 .. Len(w) : v[i].resending = w[i].resending,
           NEW gone, NEW out, NEW count, OutInv(out, count, w, gone)
    PROVE  OutInv(out, count, v, gone)
<1>1. {j \in 1 .. Len(v) : v[j].resending} = {j \in 1 .. Len(w) : w[j].resending}
  BY Zenon
<1> QED
  BY <1>1, Zenon DEF OutInv, Marked

\* A control packet that resends nothing is sent or completed.
LEMMA OutZero ==
    ASSUME NEW out \in Seq(Nat), NEW count, NEW w, NEW gone, OutInv(out, count, w, gone)
    PROVE  /\ OutInv(Append(out, 0), count, w, gone)
           /\ out # <<>> /\ Head(out) = 0 => OutInv(Tail(out), count, w, gone)
<1>0. Len(out) \in Nat /\ \A k \in 1 .. Len(out) : out[k] \in Nat
  OBVIOUS
<1>1. OutInv(Append(out, 0), count, w, gone)
  <2> DEFINE o == Append(out, 0)
  <2>1. /\ Len(o) = Len(out) + 1 /\ o[Len(out) + 1] = 0
        /\ \A k \in 1 .. Len(out) : o[k] = out[k]
    BY <1>0
  <2> HIDE DEF o
  <2>2. Sent(o) = Sent(out)
    <3>1. \A x : x \in Sent(o) => x \in Sent(out)
      BY <1>0, <2>1 DEF Sent
    <3>2. \A x : x \in Sent(out) => x \in Sent(o)
      BY <1>0, <2>1 DEF Sent
    <3> QED
      BY <3>1, <3>2, Zenon
  <2>3. \A j, k \in 1 .. Len(o) : j < k /\ o[j] # 0 => o[j] # o[k]
    BY <1>0, <2>1 DEF OutInv
  <2>4. OutInv(o, count, w, gone)
    BY <2>2, <2>3, Zenon DEF OutInv
  <2> QED
    BY <2>4, Zenon DEF o
<1>2. ASSUME out # <<>>, Head(out) = 0 PROVE OutInv(Tail(out), count, w, gone)
  <2> DEFINE o == Tail(out)
  <2>1. /\ Len(o) = Len(out) - 1 /\ Len(o) \in Nat /\ out[1] = 0
        /\ \A k \in 1 .. Len(o) : o[k] = out[k + 1]
    BY <1>0, <1>2
  <2> HIDE DEF o
  <2>2. Sent(o) = Sent(out)
    <3>1. ASSUME NEW x \in Sent(o) PROVE x \in Sent(out)
      <4>1. PICK k \in 1 .. Len(o) : x = o[k] /\ x # 0
        BY DEF Sent
      <4>2. k + 1 \in 1 .. Len(out) /\ out[k + 1] = x
        BY <1>0, <2>1, <4>1
      <4> QED
        BY <4>1, <4>2, Zenon DEF Sent
    <3>2. ASSUME NEW x \in Sent(out) PROVE x \in Sent(o)
      <4>1. PICK k \in 1 .. Len(out) : x = out[k] /\ x # 0
        BY Zenon DEF Sent
      <4>2. k - 1 \in 1 .. Len(o) /\ (k - 1) + 1 = k
        BY <1>0, <2>1, <4>1
      <4> QED
        BY <2>1, <4>1, <4>2, ZenonT(40) DEF Sent
    <3> QED
      BY <3>1, <3>2, Zenon
  <2>3. ASSUME NEW j \in 1 .. Len(o), NEW k \in 1 .. Len(o), j < k, o[j] # 0
        PROVE  o[j] # o[k]
    <3>1. j + 1 \in 1 .. Len(out) /\ k + 1 \in 1 .. Len(out) /\ j + 1 < k + 1
      BY <1>0, <2>1, <2>3
    <3> QED
      BY <2>1, <2>3, <3>1, Zenon DEF OutInv
  <2>4. OutInv(o, count, w, gone)
    BY <2>2, <2>3, Zenon DEF OutInv
  <2> QED
    BY <2>4, Zenon DEF o
<1> QED
  BY <1>1, <1>2, Zenon

\* A packet of the window is resent.
LEMMA OutMark ==
    ASSUME NEW out \in Seq(Nat), NEW count \in Int, NEW gone \in Nat,
           NEW w \in Seq(Skb), NEW i \in 1 .. Len(w), ~w[i].resending,
           OutInv(out, count, w, gone),
           NEW v, Len(v) = Len(w), v[i].resending,
           \A j \in 1 .. Len(w) : j # i => v[j] = w[j]
    PROVE  OutInv(Append(out, gone + i), count + 1, v, gone)
<1> DEFINE o == Append(out, gone + i)
<1>0. Len(out) \in Nat /\ \A k \in 1 .. Len(out) : out[k] \in Nat
  OBVIOUS
<1>1. /\ Len(o) = Len(out) + 1 /\ o[Len(out) + 1] = gone + i
      /\ \A k \in 1 .. Len(out) : o[k] = out[k]
  BY <1>0
<1>i. Len(w) \in Nat /\ gone + i # 0
  OBVIOUS
<1> HIDE DEF o
<1>k. \A k \in 1 .. Len(o) : k \in 1 .. Len(out) \/ k = Len(out) + 1
  BY <1>0, <1>1
<1>2. gone + i \notin Sent(out)
  <2>1. gone + i \notin Marked(w, gone)
    BY <1>i DEF Marked
  <2> QED
    BY <2>1, Zenon DEF OutInv
<1>3. Sent(o) = Sent(out) \cup {gone + i}
  <2>1. ASSUME NEW x \in Sent(o) PROVE x \in Sent(out) \cup {gone + i}
    <3>1. PICK k \in 1 .. Len(o) : x = o[k] /\ x # 0
      BY DEF Sent
    <3> QED
      BY <1>1, <1>k, <3>1, Zenon DEF Sent
  <2>2. ASSUME NEW x \in Sent(out) PROVE x \in Sent(o)
    BY <1>0, <1>1 DEF Sent
  <2>3. gone + i \in Sent(o)
    <3>1. Len(out) + 1 \in 1 .. Len(o)
      BY <1>0, <1>1
    <3> QED
      BY <1>1, <1>i, <3>1, Zenon DEF Sent
  <2> QED
    BY <2>1, <2>2, <2>3, Zenon
<1>4. Marked(v, gone) = Marked(w, gone) \cup {gone + i}
  <2>1. ASSUME NEW x \in Marked(v, gone) PROVE x \in Marked(w, gone) \cup {gone + i}
    <3>1. PICK j \in 1 .. Len(v) : v[j].resending /\ x = gone + j
      BY Zenon DEF Marked
    <3>2. CASE j = i
      BY <3>1, <3>2, Zenon
    <3>3. CASE j # i
      BY <3>1, <3>3, Zenon DEF Marked
    <3> QED
      BY <3>2, <3>3, Zenon
  <2>2. ASSUME NEW x \in Marked(w, gone) PROVE x \in Marked(v, gone)
    <3>1. PICK j \in 1 .. Len(w) : w[j].resending /\ x = gone + j
      BY Zenon DEF Marked
    <3> QED
      BY <3>1, Zenon DEF Marked
  <2>3. gone + i \in Marked(v, gone)
    BY Zenon DEF Marked
  <2> QED
    BY <2>1, <2>2, <2>3, Zenon
<1>5. \A j, k \in 1 .. Len(o) : j < k /\ o[j] # 0 => o[j] # o[k]
  <2> SUFFICES ASSUME NEW j \in 1 .. Len(o), NEW k \in 1 .. Len(o), j < k, o[j] # 0
               PROVE  o[j] # o[k]
    BY Zenon
  <2>1. j \in 1 .. Len(out) /\ o[j] = out[j] /\ out[j] \in Sent(out)
    BY <1>0, <1>1 DEF Sent
  <2>2. CASE k = Len(out) + 1
    BY <1>1, <1>2, <2>1, <2>2, Zenon
  <2>3. CASE k \in 1 .. Len(out)
    BY <1>1, <2>1, <2>3 DEF OutInv
  <2> QED
    BY <1>k, <2>2, <2>3
<1>6. IsFiniteSet(Sent(o)) /\ Cardinality(Sent(o)) = count + 1
  <2>1. IsFiniteSet(Sent(out)) /\ count = Cardinality(Sent(out))
    BY Zenon DEF OutInv
  <2> QED
    BY <1>2, <1>3, <2>1, FS_AddElement, SMTT(40)
<1>7. OutInv(o, count + 1, v, gone)
  BY <1>3, <1>4, <1>5, <1>6, Zenon DEF OutInv
<1> QED
  BY <1>7, Zenon DEF o

\* The oldest control packet, which resends a packet, is completed.
LEMMA OutUnmark ==
    ASSUME NEW out \in Seq(Nat), NEW count \in Int, NEW gone \in Nat,
           NEW w \in Seq(Skb), out # <<>>, Head(out) # 0,
           OutInv(out, count, w, gone)
    PROVE  LET i == Head(out) - gone
           IN  /\ i \in 1 .. Len(w) /\ w[i].resending
               /\ \A v : /\ Len(v) = Len(w) /\ ~v[i].resending
                         /\ \A j \in 1 .. Len(w) : j # i => v[j] = w[j]
                         => OutInv(Tail(out), count - 1, v, gone)
<1> DEFINE i == Head(out) - gone
           o == Tail(out)
<1>0. /\ Len(out) \in Nat /\ \A k \in 1 .. Len(out) : out[k] \in Nat
      /\ Head(out) = out[1] /\ Len(w) \in Nat /\ 1 \in 1 .. Len(out)
  OBVIOUS
<1>1. /\ Len(o) = Len(out) - 1 /\ Len(o) \in Nat
      /\ \A k \in 1 .. Len(o) : o[k] = out[k + 1]
  BY <1>0
<1> HIDE DEF o
<1>2. Head(out) \in Sent(out)
  BY <1>0, Zenon DEF Sent
<1>3. PICK m \in 1 .. Len(w) : w[m].resending /\ Head(out) = gone + m
  BY <1>2 DEF OutInv, Marked
<1>i. i = m /\ Head(out) = gone + i
  BY <1>0, <1>3
<1> HIDE DEF i
<1>4. Sent(o) = Sent(out) \ {Head(out)}
  <2>1. ASSUME NEW x \in Sent(o) PROVE x \in Sent(out) \ {Head(out)}
    <3>1. PICK k \in 1 .. Len(o) : x = o[k] /\ x # 0
      BY Zenon DEF Sent
    <3>2. k + 1 \in 1 .. Len(out) /\ out[k + 1] = x /\ 1 < k + 1
      BY <1>0, <1>1, <3>1
    <3>3. out[1] # out[k + 1]
      BY <1>0, <3>2, Zenon DEF OutInv
    <3> QED
      BY <1>0, <3>1, <3>2, <3>3, Zenon DEF Sent
  <2>2. ASSUME NEW x \in Sent(out), x # Head(out) PROVE x \in Sent(o)
    <3>1. PICK k \in 1 .. Len(out) : x = out[k] /\ x # 0
      BY Zenon DEF Sent
    <3>2. k # 1
      BY <1>0, <2>2, <3>1, Zenon
    <3>3. k - 1 \in 1 .. Len(o) /\ (k - 1) + 1 = k
      BY <1>0, <1>1, <3>2
    <3> QED
      BY <1>1, <3>1, <3>3, Zenon DEF Sent
  <2> QED
    BY <2>1, <2>2, Zenon
<1>5. \A j, k \in 1 .. Len(o) : j < k /\ o[j] # 0 => o[j] # o[k]
  <2> SUFFICES ASSUME NEW j \in 1 .. Len(o), NEW k \in 1 .. Len(o), j < k, o[j] # 0
               PROVE  o[j] # o[k]
    BY Zenon
  <2>1. j + 1 \in 1 .. Len(out) /\ k + 1 \in 1 .. Len(out) /\ j + 1 < k + 1
    BY <1>0, <1>1
  <2> QED
    BY <1>1, <2>1, Zenon DEF OutInv
<1>6. IsFiniteSet(Sent(o)) /\ Cardinality(Sent(o)) = count - 1
  <2>1. IsFiniteSet(Sent(out)) /\ count = Cardinality(Sent(out))
    BY Zenon DEF OutInv
  <2> QED
    BY <1>2, <1>4, <2>1, FS_RemoveElement, SMTT(40)
<1>7. ASSUME NEW v, Len(v) = Len(w), ~v[i].resending,
             \A j \in 1 .. Len(w) : j # i => v[j] = w[j]
      PROVE  OutInv(o, count - 1, v, gone)
  <2>1. ASSUME NEW x \in Marked(v, gone) PROVE x \in Marked(w, gone) \ {Head(out)}
    <3>1. PICK j \in 1 .. Len(v) : v[j].resending /\ x = gone + j
      BY Zenon DEF Marked
    <3>2. j # i
      BY <1>7, <3>1, Zenon
    <3>3. w[j].resending /\ x # gone + i
      BY <1>7, <1>i, <3>1, <3>2
    <3> QED
      BY <1>7, <1>i, <3>1, <3>3, Zenon DEF Marked
  <2>2. ASSUME NEW x \in Marked(w, gone), x # Head(out) PROVE x \in Marked(v, gone)
    <3>1. PICK j \in 1 .. Len(w) : w[j].resending /\ x = gone + j
      BY Zenon DEF Marked
    <3>2. j # i
      BY <1>i, <2>2, <3>1, Zenon
    <3> QED
      BY <1>7, <3>1, <3>2, Zenon DEF Marked
  <2>3. Marked(v, gone) = Marked(w, gone) \ {Head(out)}
    BY <2>1, <2>2, Zenon
  <2>4. Sent(o) = Marked(v, gone)
    BY <1>4, <2>3, Zenon DEF OutInv
  <2> QED
    BY <1>5, <1>6, <2>4, Zenon DEF OutInv
<1>8. /\ i \in 1 .. Len(w) /\ w[i].resending
      /\ \A v : /\ Len(v) = Len(w) /\ ~v[i].resending
                /\ \A j \in 1 .. Len(w) : j # i => v[j] = w[j]
                => OutInv(o, count - 1, v, gone)
  BY <1>3, <1>i, <1>7, Zenon
<1> QED
  BY <1>8, Zenon DEF i, o

\* No control packet is outstanding: no packet is RESENDING.
LEMMA OutNone ==
    ASSUME NEW count, NEW w, NEW gone \in Nat, Len(w) \in Nat
    PROVE  /\ OutInv(<<>>, count, w, gone)
                => count = 0 /\ \A i \in 1 .. Len(w) : ~w[i].resending
           /\ (\A i \in 1 .. Len(w) : ~w[i].resending) => OutInv(<<>>, 0, w, gone)
<1>1. Sent(<<>>) = {}
  BY DEF Sent
<1>2. IsFiniteSet({}) /\ Cardinality({}) = 0
  BY FS_EmptySet, Zenon
<1>3. (\A i \in 1 .. Len(w) : ~w[i].resending) <=> Marked(w, gone) = {}
  BY Zenon DEF Marked
<1>4. Len(<<>>) = 0
  BY Zenon
<1>5. ASSUME OutInv(<<>>, count, w, gone) PROVE count = 0 /\ Marked(w, gone) = {}
  BY <1>1, <1>2, <1>5, Zenon DEF OutInv
<1>6. ASSUME Marked(w, gone) = {} PROVE OutInv(<<>>, 0, w, gone)
  <2>1. \A j, k \in 1 .. Len(<<>>) :
            j < k /\ <<>>[j] # 0 => <<>>[j] # <<>>[k]
    BY <1>4
  <2> QED
    BY <1>1, <1>2, <1>6, <2>1, Zenon DEF OutInv
<1> QED
  BY <1>3, <1>5, <1>6

\* resend_count is zero: likewise.
LEMMA OutZeroCount ==
    ASSUME NEW out, NEW w, NEW gone, OutInv(out, 0, w, gone)
    PROVE  \A i \in 1 .. Len(w) : ~w[i].resending
<1>1. Sent(out) = {}
  BY FS_EmptySet, Zenon DEF OutInv
<1>2. Marked(w, gone) = {}
  BY <1>1, Zenon DEF OutInv
<1> QED
  BY <1>2, Zenon DEF Marked

\* A mark of a packet of the window changes.
LEMMA PutFacts ==
    ASSUME NEW w \in Seq(Skb), NEW k \in 1 .. Len(w), NEW s \in Skb
    PROVE  LET v == [w EXCEPT ![k] = s]
           IN  /\ v \in Seq(Skb) /\ Len(v) = Len(w) /\ v[k] = s
               /\ \A j \in 1 .. Len(w) : j # k => v[j] = w[j]
  OBVIOUS

\* A packet is marked as being resent, or is so no more.
LEMMA MarkFacts ==
    ASSUME NEW w \in Seq(Skb), NEW k \in 1 .. Len(w), NEW b \in BOOLEAN
    PROVE  LET v == [w EXCEPT ![k].resending = b]
           IN  /\ v \in Seq(Skb) /\ Len(v) = Len(w) /\ v[k].resending = b
               /\ v[k].psn = w[k].psn /\ v[k].flush = w[k].flush
               /\ \A j \in 1 .. Len(w) : j # k => v[j] = w[j]
<1> DEFINE s == [w[k] EXCEPT !.resending = b]
<1>1. w[k] \in Skb
  OBVIOUS
<1>2. s \in Skb /\ s.resending = b /\ s.psn = w[k].psn /\ s.flush = w[k].flush
  BY <1>1, Zenon DEF Skb
<1>3. [w EXCEPT ![k].resending = b] = [w EXCEPT ![k] = s]
  OBVIOUS
<1> HIDE DEF s
<1>4. LET v == [w EXCEPT ![k] = s]
      IN  /\ v \in Seq(Skb) /\ Len(v) = Len(w) /\ v[k] = s
          /\ \A j \in 1 .. Len(w) : j # k => v[j] = w[j]
  BY <1>2, PutFacts
<1> QED
  BY <1>2, <1>3, <1>4, Zenon

\* An acknowledgement of a packet is asked for.
LEMMA AskFacts ==
    ASSUME NEW w \in Seq(Skb), NEW k \in 1 .. Len(w)
    PROVE  LET v == [w EXCEPT ![k].ack_req = TRUE]
           IN  /\ v \in Seq(Skb) /\ Len(v) = Len(w) /\ v[k].resending = w[k].resending
               /\ v[k].psn = w[k].psn /\ v[k].flush = w[k].flush
               /\ \A j \in 1 .. Len(w) : j # k => v[j] = w[j]
<1> DEFINE s == [w[k] EXCEPT !.ack_req = TRUE]
<1>1. w[k] \in Skb
  OBVIOUS
<1>2. s \in Skb /\ s.resending = w[k].resending /\ s.psn = w[k].psn /\ s.flush = w[k].flush
  BY <1>1, Zenon DEF Skb
<1>3. [w EXCEPT ![k].ack_req = TRUE] = [w EXCEPT ![k] = s]
  BY Zenon
<1> HIDE DEF s
<1>4. LET v == [w EXCEPT ![k] = s]
      IN  /\ v \in Seq(Skb) /\ Len(v) = Len(w) /\ v[k] = s
          /\ \A j \in 1 .. Len(w) : j # k => v[j] = w[j]
  BY <1>2, PutFacts
<1> QED
  BY <1>2, <1>3, <1>4, Zenon
=============================================================================
