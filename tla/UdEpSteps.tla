----------------------------- MODULE UdEpSteps ------------------------------
(***************************************************************************)
(* An endpoint of UdEp keeps its invariant whatever it does: when it       *)
(* releases packets, takes an acknowledgement, receives a message,         *)
(* acknowledges, asks for an acknowledgement, completes a control packet,  *)
(* resends, sends, times out, is cancelled or purged.                      *)
(***************************************************************************)
EXTENDS UdEpWindow

-----------------------------------------------------------------------------
(* Releasing, acknowledging *)

\* What releasing packets, and requesting an acknowledgement, leave alone.
Kept(r, q) ==
    /\ q.psn = r.psn /\ q.acked = r.acked /\ q.max_psn = r.max_psn
    /\ q.cwnd = r.cwnd /\ q.resend_max = r.resend_max /\ q.state = r.state
    /\ q.head_sn = r.head_sn /\ q.got = r.got /\ q.pending_rx = r.pending_rx

\* q is r after the packets that ack completes are released; the resend position
\* is reset when it is at one of them, unless nothing is left to be resent.
Released(r, q, ack) ==
    LET n  == CompletedPrefix(r.window, ack)
        at == r.resend_pos \in r.gone + 1 .. r.gone + n
    IN  /\ IsEp(q) /\ Kept(r, q)
        /\ q.window = SubSeq(r.window, n + 1, Len(r.window))
        /\ q.gone = r.gone + n
        /\ \/ at /\ q.resend_pos = 0 /\ q.resend_psn = r.acked + 1
           \/ /\ ~at \/ r.resend_max <= r.acked
              /\ q.resend_pos = r.resend_pos /\ q.resend_psn = r.resend_psn
        /\ q.ops = r.ops /\ q.rx_acked = r.rx_acked
        /\ q.outstanding = r.outstanding /\ q.resend_count = r.resend_count

\* uct_ud_ep_window_release_completed.
LEMMA ReleaseCompleted ==
    ASSUME NEW r, IsEp(r), NEW async \in BOOLEAN
    PROVE  Released(r, WindowReleaseCompleted(r, async), r.acked)
  BY ZenonT(40) DEF Released, WindowReleaseCompleted, WindowRelease, IsEp, Fields, Kept

\* The release of uct_ud_ep_purge, when the last packet counts as acknowledged.
LEMMA ReleasePurged ==
    ASSUME NEW r, IsEp(r), r.resend_max <= r.acked
    PROVE  Released(r, WindowRelease(r, r.acked, FALSE, FALSE, FALSE), r.acked)
  BY ZenonT(40) DEF Released, WindowRelease, IsEp, Fields, Kept

\* The release of uct_ud_ep_process_ack_inline, which leaves the resend position
\* alone, and what follows it.
ReleaseAcked(r, ack, async) == WindowRelease(r, ack, TRUE, async, FALSE)

AckNew(r, ack, async) == ResendAck(CaAck(ReleaseAcked([r EXCEPT !.acked = ack], ack, async)))

\* A release that leaves the resend position alone takes the acknowledged packets off the
\* front of the window and keeps everything else of the endpoint.
LEMMA ReleaseNoPos ==
    ASSUME NEW r, IsEp(r), NEW ack, NEW async \in BOOLEAN
    PROVE  LET n == CompletedPrefix(r.window, ack)
               q == ReleaseAcked(r, ack, async)
           IN  /\ IsEp(q) /\ Kept(r, q)
               /\ q.window = SubSeq(r.window, n + 1, Len(r.window))
               /\ q.gone = r.gone + n
               /\ q.resend_pos = r.resend_pos /\ q.resend_psn = r.resend_psn
               /\ q.ops = r.ops /\ q.rx_acked = r.rx_acked
               /\ q.outstanding = r.outstanding /\ q.resend_count = r.resend_count
  BY ZenonT(40) DEF ReleaseAcked, WindowRelease, IsEp, Fields, Kept

\* A packet counts as completed just when its number is acknowledged and no
\* copy of it is being sent.
LEMMA CompletedExact ==
    ASSUME NEW w \in Seq(Skb), NEW psn \in Int, NEW acked \in Int, NEW ack \in Int,
           WinInv(w, acked, psn), Young(w, psn), acked <= ack, ack < psn,
           psn - 1 - acked <= MaxWindow, NEW i \in 1 .. Len(w)
    PROVE  IsCompleted(w[i], ack) <=> w[i].psn <= ack /\ ~w[i].resending
<1>1. w[i].psn \in Int
  BY SkbFacts, Zenon
<1>2. w[i].psn < psn /\ psn - w[i].psn < Half
  BY Zenon DEF WinInv, Young
<1>3. w[i].psn - ack < Half /\ ack - w[i].psn < Half
  BY <1>1, <1>2, HalfFacts
<1>4. SnLe(w[i].psn, ack) <=> w[i].psn <= ack
  BY <1>1, <1>3, SnExact, Zenon
<1> QED
  BY <1>4, Zenon DEF IsCompleted

\* Packets that are completed are released: the invariant is kept, and if all
\* is acknowledged and nothing is being resent then all are released.
LEMMA Release ==
    ASSUME NEW r, Core(r), Young(r.window, r.psn), r.psn - 1 - r.acked <= MaxWindow,
           NEW q, Released(r, q, r.acked)
    PROVE  /\ Core(q) /\ Kept(r, q) /\ Young(q.window, q.psn)
           /\ q.ops = r.ops /\ q.outstanding = r.outstanding
           /\ ResendInv(r) => ResendInv(q)
           /\ r.acked < r.resend_max \/ r.resend_max < r.resend_psn
                => r.acked < r.resend_max \/ r.resend_max < q.resend_psn
           /\ q.window # <<>> => r.window # <<>>
           /\ r.outstanding = <<>> /\ r.acked = r.psn - 1 => q.window = <<>>
<1> DEFINE w == r.window
           n == CompletedPrefix(w, r.acked)
           at == r.resend_pos \in r.gone + 1 .. r.gone + n
           v == SubSeq(w, n + 1, Len(w))
<1>c. /\ IsEp(r) /\ EpType(r) /\ WinInv(w, r.acked, r.psn)
      /\ OutInv(r.outstanding, r.resend_count, w, r.gone)
      /\ PosInv(w, r.gone, r.resend_pos, r.resend_psn, r.resend_max, r.psn, r.acked)
      /\ RxInv(r.rx_acked, r.head_sn, r.got, r.pending_rx)
  BY Zenon DEF Core
<1>t. /\ w \in Seq(Skb) /\ r.psn \in Int /\ r.acked \in Int /\ r.gone \in Nat
      /\ r.resend_pos \in Nat /\ r.resend_psn \in Int /\ r.resend_max \in Int
      /\ Len(w) \in Nat
  BY <1>c DEF EpType
<1>q. /\ IsEp(q) /\ Kept(r, q)
      /\ q.window = v /\ q.gone = r.gone + n
      /\ \/ at /\ q.resend_pos = 0 /\ q.resend_psn = r.acked + 1
         \/ /\ ~at \/ r.resend_max <= r.acked
            /\ q.resend_pos = r.resend_pos /\ q.resend_psn = r.resend_psn
      /\ q.ops = r.ops /\ q.rx_acked = r.rx_acked
      /\ q.outstanding = r.outstanding /\ q.resend_count = r.resend_count
  BY Zenon DEF Released
<1>n. /\ n \in 0 .. Len(w)
      /\ \A i \in 1 .. n : IsCompleted(w[i], r.acked)
      /\ n < Len(w) => ~IsCompleted(w[n + 1], r.acked)
  BY <1>t, PrefixFacts, Zenon
<1> HIDE DEF w, n, at
<1>a. r.acked < r.psn
  BY <1>c, Zenon DEF WinInv
<1>y. Young(w, r.psn)
  BY Zenon DEF w
<1>e. \A i \in 1 .. Len(w) : IsCompleted(w[i], r.acked) <=> w[i].psn <= r.acked /\ ~w[i].resending
  BY <1>a, <1>c, <1>t, <1>y, CompletedExact
<1>k. n \in 0 .. Len(w) /\ n \in Nat
  BY <1>n, <1>t
<1>f. /\ \A i \in 1 .. n : w[i].psn <= r.acked
      /\ \A i \in 1 .. n : ~w[i].resending
  BY <1>e, <1>n, <1>t
<1>v. /\ v \in Seq(Skb) /\ Len(v) \in Nat /\ Len(v) = Len(w) - n
      /\ \A i \in 1 .. Len(v) : n + i \in 1 .. Len(w) /\ v[i] = w[n + i]
  BY <1>k, <1>t, RestFacts, Zenon
<1>z. v \in Seq(Skb)
  BY <1>v, Zenon
<1>1. WinInv(v, r.acked, r.psn)
  <2>1. r.acked <= r.acked
    BY <1>t
  <2> QED
    BY <1>a, <1>c, <1>t, <1>k, <1>f, <2>1, WinRelease, Zenon
<1>2. OutInv(r.outstanding, r.resend_count, v, r.gone + n)
  BY <1>c, <1>t, <1>k, <1>f, OutRelease, ZenonT(40)
<1>3. PosInv(v, q.gone, q.resend_pos, q.resend_psn, r.resend_max, r.psn, r.acked)
  <2>1. /\ r.resend_pos \in r.gone + 1 .. r.gone + n
             => PosInv(v, r.gone + n, 0, r.acked + 1, r.resend_max, r.psn, r.acked)
        /\ r.resend_pos \notin r.gone + 1 .. r.gone + n \/ r.resend_max <= r.acked
             => PosInv(v, r.gone + n, r.resend_pos, r.resend_psn, r.resend_max, r.psn, r.acked)
    BY <1>a, <1>c, <1>t, <1>k, <1>f, <1>y, PosRelease, Zenon
  <2> QED
    BY <1>q, <2>1, Zenon DEF at
<1> HIDE DEF v
<1>4. EpType(q)
  <2>1. q.resend_pos \in Nat /\ q.resend_psn \in Int /\ q.gone \in Nat /\ q.window \in Seq(Skb)
    <3>1. r.acked + 1 \in Int /\ r.gone + n \in Nat /\ 0 \in Nat
      BY <1>t, <1>k, SMTT(40)
    <3> QED
      BY <1>q, <1>t, <1>z, <3>1, Zenon
  <2> QED
    BY <1>c, <1>q, <2>1, Zenon DEF EpType, Kept
<1>5. Core(q)
  BY <1>c, <1>q, <1>1, <1>2, <1>3, <1>4, Zenon DEF Core, Kept
<1>6. Young(v, r.psn)
  <2> SUFFICES ASSUME NEW i \in 1 .. Len(v) PROVE r.psn - v[i].psn < Half
    BY Zenon DEF Young
  <2> QED
    BY <1>v, <1>y, Zenon DEF Young
<1>7. ResendInv(r) => ResendInv(q)
  BY <1>q, <1>t DEF ResendInv, Kept
<1>8. r.acked < r.resend_max \/ r.resend_max < r.resend_psn
        => r.acked < r.resend_max \/ r.resend_max < q.resend_psn
  BY <1>q, <1>t
<1>9. v # <<>> => w # <<>>
  <2>1. v # <<>> => Len(v) # 0
    BY <1>v
  <2> QED
    BY <1>n, <1>t, <1>v, <2>1
<1>10. ASSUME r.outstanding = <<>>, r.acked = r.psn - 1 PROVE v = <<>>
  <2>1. \A i \in 1 .. Len(w) : ~w[i].resending
    BY <1>c, <1>t, <1>10, OutNone, Zenon
  <2>2. \A i \in 1 .. Len(w) : w[i].psn <= r.acked
    <3> TAKE i \in 1 .. Len(w)
    <3>1. w[i].psn \in Int /\ w[i].psn < r.psn
      BY <1>c, <1>t, SkbFacts, Zenon DEF WinInv
    <3> QED
      BY <1>10, <1>t, <3>1, SMTT(40)
  <2>3. n = Len(w)
    <3>1. n < Len(w) => n + 1 \in 1 .. Len(w)
      BY <1>n, <1>t
    <3>2. ~(n < Len(w))
      BY <1>e, <1>n, <2>1, <2>2, <3>1, Zenon
    <3> QED
      BY <1>n, <1>t, <3>2
  <2> QED
    BY <1>v, <2>3
<1>11. /\ Core(q) /\ Kept(r, q) /\ Young(q.window, q.psn)
       /\ q.ops = r.ops /\ q.outstanding = r.outstanding
       /\ q.window # <<>> => r.window # <<>>
       /\ r.outstanding = <<>> /\ r.acked = r.psn - 1 => q.window = <<>>
  BY <1>5, <1>6, <1>9, <1>10, <1>q, Zenon DEF Kept, w
<1> QED
  BY <1>7, <1>8, <1>11, Zenon

\* uct_ud_ep_process_ack: an acknowledgement of something new.
LEMMA AckStep ==
    ASSUME NEW r, EpInv(r), Young(r.window, r.psn), r.state = "open",
           NEW ack \in Int, r.acked < ack, ack < r.psn, NEW async \in BOOLEAN
    PROVE  LET q == AckNew(r, ack, async)
           IN  /\ EpInv(q) /\ q.acked = ack /\ q.psn = r.psn /\ q.state = "open"
               /\ q.head_sn = r.head_sn /\ q.pending_rx = r.pending_rx
<1> DEFINE w == r.window
           n == CompletedPrefix(w, ack)
           a == [r EXCEPT !.acked = ack]
           b == ReleaseAcked(a, ack, async)
           c == CaAck(b)
           q == ResendAck(c)
           v == SubSeq(w, n + 1, Len(w))
           rpsn == r.resend_psn
           rmax == r.resend_max
<1> SUFFICES /\ EpInv(q) /\ q.acked = ack /\ q.psn = r.psn /\ q.state = "open"
             /\ q.head_sn = r.head_sn /\ q.pending_rx = r.pending_rx
  BY Zenon DEF AckNew
<1>r. /\ IsEp(r) /\ EpType(r) /\ WinInv(w, r.acked, r.psn)
      /\ OutInv(r.outstanding, r.resend_count, w, r.gone)
      /\ PosInv(w, r.gone, r.resend_pos, r.resend_psn, r.resend_max, r.psn, r.acked)
      /\ RxInv(r.rx_acked, r.head_sn, r.got, r.pending_rx)
      /\ ResendInv(r) /\ StInv(r)
  BY Zenon DEF EpInv, Core
<1>t. /\ w \in Seq(Skb) /\ r.psn \in Int /\ r.acked \in Int /\ r.gone \in Nat
      /\ r.resend_pos \in Nat /\ rpsn \in Int /\ rmax \in Int
      /\ Len(w) \in Nat /\ r.cwnd \in MinWindow .. MaxWindow
      /\ MinWindow \in Nat /\ MaxWindow \in Nat /\ Half \in Nat
      /\ 2 <= MinWindow /\ MinWindow <= MaxWindow /\ MaxWindow < Half
  BY <1>r, HalfFacts, SMTT(40) DEF EpType
<1>s. /\ r.psn - 1 - r.acked <= MaxWindow
      /\ r.acked < rmax \/ rmax < rpsn
      /\ rmax < r.psn /\ rmax - rpsn < Half /\ rpsn - rmax < Half
  BY <1>r, Zenon DEF StInv, PosInv, PosAt
<1>a. /\ IsEp(a) /\ a.acked = ack
      /\ a.psn = r.psn /\ a.cwnd = r.cwnd /\ a.resend_max = rmax /\ a.state = "open"
      /\ a.head_sn = r.head_sn /\ a.got = r.got /\ a.pending_rx = r.pending_rx
      /\ a.window = w /\ a.gone = r.gone /\ a.resend_pos = r.resend_pos
      /\ a.resend_psn = rpsn /\ a.ops = r.ops /\ a.rx_acked = r.rx_acked
      /\ a.outstanding = r.outstanding /\ a.resend_count = r.resend_count
  BY <1>r, Zenon DEF IsEp, Fields
<1>b. /\ IsEp(b) /\ b.acked = ack /\ b.psn = r.psn /\ b.cwnd = r.cwnd
      /\ b.resend_max = rmax /\ b.state = "open"
      /\ b.head_sn = r.head_sn /\ b.got = r.got /\ b.pending_rx = r.pending_rx
      /\ b.window = v /\ b.gone = r.gone + n /\ b.resend_pos = r.resend_pos
      /\ b.resend_psn = rpsn /\ b.ops = r.ops /\ b.rx_acked = r.rx_acked
      /\ b.outstanding = r.outstanding /\ b.resend_count = r.resend_count
  <2> HIDE DEF a
  <2>1. /\ IsEp(b) /\ Kept(a, b)
        /\ b.window = SubSeq(a.window, CompletedPrefix(a.window, ack) + 1, Len(a.window))
        /\ b.gone = a.gone + CompletedPrefix(a.window, ack)
        /\ b.resend_pos = a.resend_pos /\ b.resend_psn = a.resend_psn
        /\ b.ops = a.ops /\ b.rx_acked = a.rx_acked
        /\ b.outstanding = a.outstanding /\ b.resend_count = a.resend_count
    <3>1. IsEp(a)
      BY <1>a, Zenon
    <3> QED
      BY <3>1, ReleaseNoPos, Zenon
  <2> HIDE DEF b
  <2> QED
    BY <1>a, <2>1, Zenon DEF Kept
<1>n. /\ n \in 0 .. Len(w)
      /\ \A i \in 1 .. n : IsCompleted(w[i], ack)
  BY <1>t, PrefixFacts, Zenon
<1> HIDE DEF b, n, w
<1>c. /\ IsEp(c) /\ c.acked = ack /\ c.psn = r.psn /\ c.cwnd \in MinWindow .. MaxWindow
      /\ c.max_psn = ack + c.cwnd
      /\ c.resend_max = rmax /\ c.state = "open"
      /\ c.head_sn = r.head_sn /\ c.got = r.got /\ c.pending_rx = r.pending_rx
      /\ c.window = v /\ c.gone = r.gone + n /\ c.resend_pos = r.resend_pos
      /\ c.resend_psn = rpsn /\ c.ops = r.ops /\ c.rx_acked = r.rx_acked
      /\ c.outstanding = r.outstanding /\ c.resend_count = r.resend_count
  <2> HIDE DEF v, rpsn, rmax
  <2>1. IsEp(c)
    BY <1>b, Zenon DEF CaAck, IsEp, Fields
  <2>2. c.cwnd \in MinWindow .. MaxWindow /\ c.max_psn = ack + c.cwnd
    BY <1>b, <1>t, SMTT(40) DEF CaAck, IsEp, Fields
  <2>3. /\ c.acked = ack /\ c.psn = r.psn
        /\ c.resend_max = rmax /\ c.state = "open"
        /\ c.head_sn = r.head_sn /\ c.got = r.got /\ c.pending_rx = r.pending_rx
        /\ c.window = v /\ c.gone = r.gone + n /\ c.resend_pos = r.resend_pos
        /\ c.resend_psn = rpsn /\ c.ops = r.ops /\ c.rx_acked = r.rx_acked
        /\ c.outstanding = r.outstanding /\ c.resend_count = r.resend_count
    BY <1>b, Zenon DEF CaAck, IsEp, Fields
  <2> QED
    BY <2>1, <2>2, <2>3, Zenon
<1> HIDE DEF a, c
<1>y. Young(w, r.psn)
  BY Zenon DEF w
<1>k. n \in 0 .. Len(w) /\ n \in Nat /\ r.acked <= ack
  BY <1>n, <1>t
<1>e. \A i \in 1 .. Len(w) : IsCompleted(w[i], ack) <=> w[i].psn <= ack /\ ~w[i].resending
  BY <1>k, <1>r, <1>s, <1>t, <1>y, CompletedExact, Zenon
<1>f. /\ \A i \in 1 .. n : w[i].psn <= ack
      /\ \A i \in 1 .. n : ~w[i].resending
  BY <1>e, <1>n, <1>t, SMTT(40)
<1>1. WinInv(v, ack, r.psn)
  BY <1>r, <1>t, <1>k, <1>f, WinRelease, Zenon
<1>2. OutInv(r.outstanding, r.resend_count, v, r.gone + n)
  BY <1>r, <1>t, <1>k, <1>f, OutRelease, Zenon
<1>3. /\ ack < rmax /\ rpsn <= rmax /\ rpsn <= ack
           => PosInv(v, r.gone + n, 0, ack + 1, rmax, r.psn, ack)
      /\ ack < rmax /\ rpsn <= rmax /\ ~(rpsn <= ack)
           => PosInv(v, r.gone + n, r.resend_pos, rpsn, rmax, r.psn, ack)
      /\ rmax < rpsn => PosInv(v, r.gone + n, r.resend_pos, rpsn, rmax, r.psn, ack)
      /\ rpsn <= rmax /\ rmax <= ack
           => PosInv(v, r.gone + n, r.resend_pos, rmax + 1, rmax, r.psn, ack)
  <2>1. r.psn - 1 - ack <= MaxWindow
    BY <1>s, <1>t, SMTT(40)
  <2> QED
    BY <1>r, <1>t, <1>k, <1>f, <2>1, PosAck, Zenon
<1>v. v \in Seq(Skb)
  BY <1>k, <1>t, RestFacts, Zenon
<1> HIDE DEF v, q
<1>g. /\ r.gone + n \in Nat /\ ack + c.cwnd \in Int
      /\ ack < ack + c.cwnd /\ ack + c.cwnd <= ack + 1 + MaxWindow
  <2>1. c.cwnd \in MinWindow .. MaxWindow
    BY <1>c, Zenon
  <2>2. /\ r.gone \in Nat /\ n \in Nat /\ MinWindow \in Nat /\ MaxWindow \in Nat
        /\ 2 <= MinWindow
    BY <1>k, <1>t, Zenon
  <2> QED
    BY <2>1, <2>2
<1>h. r.psn - 1 - ack <= MaxWindow
  <2>1. r.psn \in Int /\ r.acked \in Int /\ MaxWindow \in Nat
    BY <1>t, Zenon
  <2>2. r.psn - 1 - r.acked <= MaxWindow
    BY <1>s, Zenon
  <2> QED
    BY <2>1, <2>2
\* Whatever uct_ud_ep_resend_ack does with the resend position.
<1>4. ASSUME IsEp(q), Kept(c, q), q.window = v, q.gone = r.gone + n, q.rx_acked = r.rx_acked,
             q.outstanding = r.outstanding, q.resend_count = r.resend_count,
             q.resend_pos \in Nat, q.resend_psn \in Int, q.ops \subseteq CtlOps,
             PosInv(v, r.gone + n, q.resend_pos, q.resend_psn, rmax, r.psn, ack),
             ack < rmax /\ "RESEND" \in q.ops => q.resend_psn <= rmax,
             ack < rmax \/ rmax < q.resend_psn
      PROVE  /\ EpInv(q) /\ q.acked = ack /\ q.psn = r.psn /\ q.state = "open"
             /\ q.head_sn = r.head_sn /\ q.pending_rx = r.pending_rx
  <2>1. /\ q.acked = ack /\ q.psn = r.psn /\ q.state = "open" /\ q.resend_max = rmax
        /\ q.head_sn = r.head_sn /\ q.got = r.got /\ q.pending_rx = r.pending_rx
        /\ q.cwnd = c.cwnd /\ q.max_psn = ack + c.cwnd /\ q.cwnd \in MinWindow .. MaxWindow
    BY <1>4, <1>c, Zenon DEF Kept
  <2>2. EpType(q)
    BY <1>4, <1>r, <1>g, <1>v, <2>1, ZenonT(40) DEF EpType
  <2>3. Core(q)
    BY <1>4, <1>r, <1>1, <1>2, <2>1, <2>2, Zenon DEF Core
  <2>4. ResendInv(q)
    BY <1>4, <2>1, Zenon DEF ResendInv
  <2>5. StInv(q)
    BY <1>4, <1>g, <1>h, <2>1, Zenon DEF StInv
  <2>6. CancelInv(q)
    BY <2>1, Zenon DEF CancelInv
  <2> QED
    BY <2>1, <2>3, <2>4, <2>5, <2>6, Zenon DEF EpInv
<1> HIDE DEF rmax, rpsn
<1>u. rmax \in Int /\ rpsn \in Int /\ Half \in Nat /\ MaxWindow \in Nat /\ MaxWindow < Half
  BY <1>t, Zenon
<1>w. rmax < r.psn /\ rmax - rpsn < Half /\ rpsn - rmax < Half /\ r.psn \in Int
  BY <1>s, <1>t, Zenon
<1>x. /\ SnLt(rmax, rpsn) <=> rmax < rpsn
      /\ SnLe(rpsn, rmax) <=> rpsn <= rmax
  BY <1>u, <1>w, SnExact, Zenon
<1>5. ASSUME rmax < rpsn
      PROVE  /\ EpInv(q) /\ q.acked = ack /\ q.psn = r.psn /\ q.state = "open"
             /\ q.head_sn = r.head_sn /\ q.pending_rx = r.pending_rx
  <2>1. q = c
    <3>1. SnLt(c.resend_max, c.resend_psn) /\ ~SnLe(c.resend_psn, c.resend_max)
      <4>1. ~(rpsn <= rmax)
        BY <1>u, <1>5
      <4> QED
        BY <1>5, <1>x, <1>c, <4>1, Zenon
    <3> QED
      BY <3>1, Zenon DEF q, ResendAck
  <2>2. r.acked < rmax /\ "RESEND" \in r.ops => rpsn <= rmax
    BY <1>r, Zenon DEF ResendInv, rmax, rpsn
  <2>3. ack < rmax => r.acked < rmax
    BY <1>t, <1>u
  <2>4. r.ops \subseteq CtlOps
    BY <1>r, Zenon DEF EpType
  <2>5. PosInv(v, r.gone + n, r.resend_pos, rpsn, rmax, r.psn, ack)
    BY <1>3, <1>5, Zenon
  <2>6. Kept(c, c)
    BY Zenon DEF Kept
  <2>7. /\ IsEp(q) /\ Kept(c, q) /\ q.window = v /\ q.gone = r.gone + n
        /\ q.rx_acked = r.rx_acked
        /\ q.outstanding = r.outstanding /\ q.resend_count = r.resend_count
        /\ q.resend_pos = r.resend_pos /\ q.resend_psn = rpsn /\ q.ops = r.ops
    BY <1>c, <2>1, <2>6, Zenon
  <2>8. r.resend_pos \in Nat
    BY <1>t, Zenon
  <2> QED
    BY <1>4, <1>u, <1>5, <2>2, <2>3, <2>4, <2>5, <2>7, <2>8, Zenon
<1>6. ASSUME rpsn <= rmax, ack < rmax
      PROVE  /\ EpInv(q) /\ q.acked = ack /\ q.psn = r.psn /\ q.state = "open"
             /\ q.head_sn = r.head_sn /\ q.pending_rx = r.pending_rx
  <2>a. ack - rmax < Half /\ rmax - ack < Half
    BY <1>h, <1>u, <1>w, <1>6
  <2>b. ack - rpsn < Half /\ rpsn - ack < Half
    BY <1>u, <1>w, <1>6, <2>a
  <2>x. SnLt(ack, rmax) /\ SnLe(rpsn, rmax) /\ ~SnLt(rmax, rpsn)
    BY <1>u, <1>x, <1>6, <2>a, SnExact
  <2>y. SnLe(rpsn, ack) <=> rpsn <= ack
    BY <1>u, <2>b, SnExact, Zenon
  <2> DEFINE z == IF SnLe(rpsn, ack) THEN 0 ELSE r.resend_pos
             s == IF SnLe(rpsn, ack) THEN ack + 1 ELSE rpsn
  <2>1. q = [c EXCEPT !.resend_pos = IF SnLe(c.resend_psn, c.acked) THEN 0 ELSE @,
                      !.resend_psn = IF SnLe(c.resend_psn, c.acked) THEN c.acked + 1 ELSE @,
                      !.ops = @ \cup {"RESEND"}]
    <3>1. /\ ~SnLt(c.resend_max, c.resend_psn) /\ SnLe(c.resend_psn, c.resend_max)
          /\ SnLt(c.acked, c.resend_max)
      BY <1>c, <2>x, Zenon
    <3> QED
      BY <3>1, Zenon DEF q, ResendAck
  <2>2. /\ IsEp(q) /\ Kept(c, q) /\ q.window = c.window /\ q.gone = c.gone
        /\ q.rx_acked = c.rx_acked
        /\ q.outstanding = c.outstanding /\ q.resend_count = c.resend_count
        /\ q.ops = c.ops \cup {"RESEND"}
        /\ q.resend_pos = (IF SnLe(c.resend_psn, c.acked) THEN 0 ELSE c.resend_pos)
        /\ q.resend_psn = (IF SnLe(c.resend_psn, c.acked) THEN c.acked + 1 ELSE c.resend_psn)
    BY <1>c, <2>1, ZenonT(40) DEF IsEp, Fields, Kept
  <2>3. /\ q.window = v /\ q.gone = r.gone + n /\ q.rx_acked = r.rx_acked
        /\ q.outstanding = r.outstanding /\ q.resend_count = r.resend_count
        /\ q.ops = r.ops \cup {"RESEND"} /\ q.resend_pos = z /\ q.resend_psn = s
    BY <1>c, <2>2, Zenon
  <2>4. r.resend_pos \in Nat
    BY <1>t, Zenon
  <2>5. z \in Nat /\ s \in Int /\ s <= rmax
    BY <1>u, <1>6, <2>4
  <2>6. PosInv(v, r.gone + n, z, s, rmax, r.psn, ack)
    BY <1>3, <1>6, <2>y, Zenon
  <2>7. q.ops \subseteq CtlOps
    BY <1>r, <2>3, Zenon DEF EpType, CtlOps
  <2> HIDE DEF z, s
  <2> QED
    BY <1>4, <1>6, <2>2, <2>3, <2>5, <2>6, <2>7, Zenon
<1>7. ASSUME rpsn <= rmax, rmax <= ack
      PROVE  /\ EpInv(q) /\ q.acked = ack /\ q.psn = r.psn /\ q.state = "open"
             /\ q.head_sn = r.head_sn /\ q.pending_rx = r.pending_rx
  <2>a. ~(rmax < rpsn) /\ ~(ack < rmax) /\ rmax < rmax + 1 /\ rmax + 1 \in Int
    BY <1>u, <1>7
  <2>b. ack - rmax < Half /\ rmax - ack < Half
    <3>1. r.acked < rmax /\ r.acked \in Int
      BY <1>s, <1>t, <1>u, <2>a, Zenon DEF rmax, rpsn
    <3>2. r.psn - 1 - r.acked <= MaxWindow
      BY <1>s, Zenon
    <3> QED
      BY <1>u, <1>w, <1>7, <3>1, <3>2
  <2>x. ~SnLt(rmax, rpsn) /\ ~SnLt(ack, rmax)
    BY <1>u, <1>x, <2>a, <2>b, SnExact, Zenon
  <2>1. q = ResendEnd([c EXCEPT !.resend_psn = c.resend_max + 1])
    <3>1. ~SnLt(c.resend_max, c.resend_psn) /\ ~SnLt(c.acked, c.resend_max)
      BY <1>c, <2>x, Zenon
    <3> QED
      BY <3>1, Zenon DEF q, ResendAck
  <2>2. /\ IsEp(q) /\ Kept(c, q) /\ q.window = c.window /\ q.gone = c.gone
        /\ q.rx_acked = c.rx_acked
        /\ q.outstanding = c.outstanding /\ q.resend_count = c.resend_count
        /\ q.ops = c.ops \ {"RESEND"}
        /\ q.resend_pos = c.resend_pos /\ q.resend_psn = c.resend_max + 1
    BY <1>c, <2>1, ZenonT(40) DEF IsEp, Fields, Kept, ResendEnd
  <2>3. /\ q.window = v /\ q.gone = r.gone + n /\ q.rx_acked = r.rx_acked
        /\ q.outstanding = r.outstanding /\ q.resend_count = r.resend_count
        /\ q.ops = r.ops \ {"RESEND"}
        /\ q.resend_pos = r.resend_pos /\ q.resend_psn = rmax + 1
    BY <1>c, <2>2, Zenon
  <2>4. r.resend_pos \in Nat
    BY <1>t, Zenon
  <2>6. PosInv(v, r.gone + n, r.resend_pos, rmax + 1, rmax, r.psn, ack)
    BY <1>3, <1>7, Zenon
  <2>7. q.ops \subseteq CtlOps
    BY <1>r, <2>3, Zenon DEF EpType
  <2> QED
    BY <1>4, <2>2, <2>3, <2>4, <2>6, <2>7, <2>a, Zenon
<1> QED
  <2>1. rmax < rpsn \/ (rpsn <= rmax /\ ack < rmax) \/ (rpsn <= rmax /\ rmax <= ack)
    BY <1>u
  <2> QED
    BY <1>5, <1>6, <1>7, <2>1, Zenon

-----------------------------------------------------------------------------
(* Receiving *)

\* All that was accepted may be acknowledged.
LEMMA RxStays ==
    ASSUME NEW k \in Int, NEW h \in Int, NEW got, NEW pend, RxInv(k, h, got, pend)
    PROVE  RxInv(h, h, got, pend)
<1>1. FirstPsn \in Int
  BY HalfFacts
<1>2. FirstPsn - 1 <= k /\ k <= h
  BY Zenon DEF RxInv
<1>3. FirstPsn - 1 <= h /\ h <= h
  BY <1>1, <1>2
<1> QED
  BY <1>3, Zenon DEF RxInv

\* The next message goes to the user at once.
LEMMA RxGiven ==
    ASSUME NEW k \in Int, NEW h \in Int, NEW got \in Seq(Int), RxInv(k, h, got, <<>>)
    PROVE  RxInv(k, h + 1, Append(got, h + 1), <<>>)
<1>1. FirstPsn \in Int /\ Len(got) \in Nat /\ Len(<<>>) = 0
  BY HalfFacts
<1>2. FirstPsn - 1 <= k /\ k <= h /\ Len(got) = h - FirstPsn + 1
  BY <1>1 DEF RxInv
<1>3. \A i \in 1 .. Len(got) : got[i] = FirstPsn + i - 1
  BY Zenon DEF RxInv
<1>4. /\ Len(Append(got, h + 1)) = Len(got) + 1
      /\ \A i \in 1 .. Len(got) : Append(got, h + 1)[i] = got[i]
      /\ Append(got, h + 1)[Len(got) + 1] = h + 1
  BY <1>1
<1> DEFINE s == Append(got, h + 1)
<1> HIDE DEF s
<1>5. Len(s) + 0 = h + 1 - FirstPsn + 1 /\ k <= h + 1
  BY <1>1, <1>2, <1>4 DEF s
<1>6. ASSUME NEW i \in 1 .. Len(s) PROVE s[i] = FirstPsn + i - 1
  <2>1. CASE i \in 1 .. Len(got)
    BY <1>3, <1>4, <2>1, Zenon DEF s
  <2>2. CASE i = Len(got) + 1
    <3>1. s[i] = h + 1
      BY <1>4, <2>2, Zenon DEF s
    <3> QED
      BY <1>1, <1>2, <2>2, <3>1
  <2> QED
    BY <1>1, <1>4, <2>1, <2>2 DEF s
<1> QED
  BY <1>1, <1>2, <1>5, <1>6 DEF RxInv, s

\* The next message waits for the main thread.
LEMMA RxWaits ==
    ASSUME NEW k \in Int, NEW h \in Int, NEW got \in Seq(Int), NEW pend \in Seq(Int),
           RxInv(k, h, got, pend)
    PROVE  RxInv(k, h + 1, got, Append(pend, h + 1))
<1> DEFINE s == Append(pend, h + 1)
<1>1. FirstPsn \in Int /\ Len(got) \in Nat /\ Len(pend) \in Nat
  BY HalfFacts
<1>2. FirstPsn - 1 <= k /\ k <= h /\ Len(got) + Len(pend) = h - FirstPsn + 1
  BY Zenon DEF RxInv
<1>3. /\ \A i \in 1 .. Len(got) : got[i] = FirstPsn + i - 1
      /\ \A i \in 1 .. Len(pend) : pend[i] = FirstPsn + Len(got) + i - 1
  BY Zenon DEF RxInv
<1>4. /\ Len(s) = Len(pend) + 1
      /\ \A i \in 1 .. Len(pend) : s[i] = pend[i]
      /\ s[Len(pend) + 1] = h + 1
  BY <1>1
<1> HIDE DEF s
<1>5. Len(got) + Len(s) = h + 1 - FirstPsn + 1 /\ k <= h + 1
  BY <1>1, <1>2, <1>4
<1>6. ASSUME NEW i \in 1 .. Len(s) PROVE s[i] = FirstPsn + Len(got) + i - 1
  <2>1. CASE i \in 1 .. Len(pend)
    BY <1>3, <1>4, <2>1, Zenon
  <2>2. CASE i = Len(pend) + 1
    <3>1. s[i] = h + 1
      BY <1>4, <2>2, Zenon
    <3> QED
      BY <1>1, <1>2, <2>2, <3>1
  <2> QED
    BY <1>1, <1>4, <2>1, <2>2
<1> QED
  BY <1>1, <1>2, <1>3, <1>5, <1>6 DEF RxInv, s

\* A change of the scheduled operations, of the number last acknowledged to the
\* peer and of what no invariant is about.
LEMMA OpsStep ==
    ASSUME NEW r, NEW q, Core(r), IsEp(q), Kept(r, q),
           q.window = r.window, q.gone = r.gone, q.resend_pos = r.resend_pos,
           q.resend_psn = r.resend_psn, q.outstanding = r.outstanding,
           q.resend_count = r.resend_count, q.ops \subseteq CtlOps,
           q.rx_acked = r.rx_acked \/ q.rx_acked = r.head_sn
    PROVE  /\ Core(q) /\ StInv(q) = StInv(r)
           /\ ("RESEND" \in q.ops => "RESEND" \in r.ops) /\ ResendInv(r) => ResendInv(q)
<1>1. EpType(q)
  BY Zenon DEF Core, EpType, Kept
<1>2. RxInv(q.rx_acked, q.head_sn, q.got, q.pending_rx)
  <2>1. /\ r.rx_acked \in Int /\ r.head_sn \in Int
        /\ RxInv(r.rx_acked, r.head_sn, r.got, r.pending_rx)
    BY Zenon DEF Core, EpType
  <2>2. RxInv(r.head_sn, r.head_sn, r.got, r.pending_rx)
    BY <2>1, RxStays, Zenon
  <2> QED
    BY <2>1, <2>2, Zenon DEF Kept
<1>3. Core(q)
  BY <1>1, <1>2, Zenon DEF Core, Kept
<1>4. StInv(q) = StInv(r)
  BY Zenon DEF StInv, Kept
<1>5. ("RESEND" \in q.ops => "RESEND" \in r.ops) /\ ResendInv(r) => ResendInv(q)
  BY Zenon DEF ResendInv, Kept
<1> QED
  BY <1>3, <1>4, <1>5, Zenon

\* uct_ud_ep_process_rx accepts the next message.
LEMMA DeliverStep ==
    ASSUME NEW r, EpInv(r), NEW psn \in Int, NEW async \in BOOLEAN,
           SnEq(psn, r.head_sn + 1) => psn = r.head_sn + 1,
           async \/ r.pending_rx = <<>>
    PROVE  LET q == Deliver(r, psn, async)
           IN  /\ EpInv(q) /\ q.psn = r.psn /\ q.acked = r.acked /\ q.state = r.state
               /\ \/ q.head_sn = r.head_sn
                  \/ q.head_sn = r.head_sn + 1 /\ psn = r.head_sn + 1
<1> DEFINE q == Deliver(r, psn, async)
<1>1. CASE ~SnEq(psn, r.head_sn + 1)
  BY <1>1, Zenon DEF Deliver
<1>2. CASE SnEq(psn, r.head_sn + 1)
  <2>r. Core(r) /\ IsEp(r) /\ EpType(r) /\ ResendInv(r) /\ StInv(r) /\ CancelInv(r)
        /\ RxInv(r.rx_acked, r.head_sn, r.got, r.pending_rx)
    BY Zenon DEF EpInv, Core
  <2>q. q = [r EXCEPT !.head_sn    = r.head_sn + 1,
                      !.pending_rx = IF async THEN Append(@, psn) ELSE @,
                      !.got        = IF async THEN @ ELSE Append(@, psn)]
    BY <1>2, Zenon DEF Deliver
  <2> HIDE DEF q
  <2>1. /\ IsEp(q) /\ q.head_sn = r.head_sn + 1
        /\ q.pending_rx = (IF async THEN Append(r.pending_rx, psn) ELSE r.pending_rx)
        /\ q.got = (IF async THEN r.got ELSE Append(r.got, psn))
        /\ q.psn = r.psn /\ q.acked = r.acked /\ q.max_psn = r.max_psn
        /\ q.cwnd = r.cwnd /\ q.resend_max = r.resend_max /\ q.state = r.state
        /\ q.window = r.window /\ q.gone = r.gone /\ q.resend_pos = r.resend_pos
        /\ q.resend_psn = r.resend_psn /\ q.outstanding = r.outstanding
        /\ q.resend_count = r.resend_count /\ q.ops = r.ops /\ q.rx_acked = r.rx_acked
    BY <2>r, <2>q, ZenonT(40) DEF IsEp, Fields
  <2>t. /\ r.got \in Seq(Int) /\ r.pending_rx \in Seq(Int) /\ r.head_sn \in Int
        /\ r.rx_acked \in Int /\ psn = r.head_sn + 1 /\ r.head_sn + 1 \in Int
    BY <1>2, <2>r, Zenon DEF EpType
  <2>2. EpType(q)
    <3>1. Append(r.pending_rx, psn) \in Seq(Int) /\ Append(r.got, psn) \in Seq(Int)
      BY <2>t
    <3>2. q.pending_rx \in Seq(Int) /\ q.got \in Seq(Int) /\ q.head_sn \in Int
      BY <2>1, <2>t, <3>1, Zenon
    <3> QED
      BY <2>r, <2>1, <3>2, Zenon DEF EpType
  <2>3. RxInv(q.rx_acked, q.head_sn, q.got, q.pending_rx)
    <3>1. CASE async
      <4>1. /\ q.pending_rx = Append(r.pending_rx, r.head_sn + 1) /\ q.got = r.got
            /\ q.head_sn = r.head_sn + 1 /\ q.rx_acked = r.rx_acked
        BY <2>1, <2>t, <3>1, Zenon
      <4>2. RxInv(r.rx_acked, r.head_sn + 1, r.got, Append(r.pending_rx, r.head_sn + 1))
        BY <2>r, <2>t, RxWaits, Zenon
      <4> QED
        BY <4>1, <4>2, Zenon
    <3>2. CASE ~async
      <4>1. /\ q.pending_rx = <<>> /\ q.got = Append(r.got, r.head_sn + 1)
            /\ q.head_sn = r.head_sn + 1 /\ q.rx_acked = r.rx_acked
            /\ r.pending_rx = <<>>
        BY <2>1, <2>t, <3>2, Zenon
      <4>2. RxInv(r.rx_acked, r.head_sn + 1, Append(r.got, r.head_sn + 1), <<>>)
        BY <2>r, <2>t, <4>1, RxGiven, Zenon
      <4> QED
        BY <4>1, <4>2, Zenon
    <3> QED
      BY <3>1, <3>2, Zenon
  <2>4. Core(q)
    BY <2>r, <2>1, <2>2, <2>3, Zenon DEF Core
  <2>5. ResendInv(q) /\ StInv(q) /\ CancelInv(q)
    BY <2>r, <2>1, Zenon DEF ResendInv, StInv, CancelInv
  <2> QED
    BY <1>2, <2>1, <2>4, <2>5, Zenon DEF EpInv, q
<1> QED
  BY <1>1, <1>2, Zenon

\* A number less than half the space from the one expected next.
LEMMA AheadFacts ==
    ASSUME NEW n \in Int, NEW h \in Int, NEW p \in Int, n < p,
           p <= h + 1 + MaxWindow, h + 1 - n < Half
    PROVE  n - (h + 1) < Half /\ (h + 1) - n < Half /\ h + 1 \in Int
<1>1. Half \in Nat /\ MaxWindow \in Nat /\ MaxWindow < Half
  BY HalfFacts, Zenon
<1> QED
  BY <1>1

\* uct_ud_ep_process_rx: a packet of the peer q that is not too old.
LEMMA RxStep ==
    ASSUME NEW r, EpInv(r), Young(r.window, r.psn),
           NEW q, LinkInv(r, q), LinkInv(q, r),
           q.head_sn \in Int, q.psn \in Int, q.acked \in Int,
           NEW p, PacketInv(p, q), r.acked - p.ack < Half,
           p.am => r.head_sn + 1 - p.psn < Half,
           NEW async \in BOOLEAN, async \/ r.pending_rx = <<>>
    PROVE  LET x == ProcessRx(r, p, async)
           IN  /\ EpInv(x) /\ x.psn = r.psn /\ r.head_sn <= x.head_sn
               /\ LinkInv(x, q) /\ LinkInv(q, x)
<1> DEFINE a == ProcessAck(r, p.ack, async)
           ops == (IF p.ack_req THEN {"ACK"} ELSE {})
                    \cup (IF SnLt(r.head_sn + 1, p.psn) THEN {"NACK"} ELSE {})
           b == [a EXCEPT !.ops = @ \cup ops, !.nacked = @ \/ p.nack]
           x == ProcessRx(r, p, async)
<1>r. Core(r) /\ IsEp(r) /\ EpType(r) /\ StInv(r)
  BY Zenon DEF EpInv, Core
<1>t. /\ r.psn \in Int /\ r.acked \in Int /\ r.head_sn \in Int
      /\ Half \in Nat /\ MaxWindow \in Nat /\ MaxWindow < Half
  BY <1>r, HalfFacts, Zenon DEF EpType
<1>p. /\ p.psn \in Int /\ p.ack \in Int /\ p.ack <= q.head_sn /\ p.am \in BOOLEAN
      /\ p.am => p.psn < q.psn
  BY Zenon DEF PacketInv, Packet
<1>l. /\ r.head_sn < q.psn /\ q.psn <= r.head_sn + 1 + MaxWindow
      /\ r.state = "open" => r.acked <= q.head_sn
      /\ q.head_sn < r.psn /\ r.psn <= q.head_sn + 1 + MaxWindow
      /\ q.state = "open" => q.acked <= r.head_sn
  BY Zenon DEF LinkInv
<1>s. r.psn - 1 - r.acked <= MaxWindow /\ (r.state # "open" => r.acked = r.psn - 1)
  BY <1>r, Zenon DEF StInv
<1>x. SnLe(p.ack, r.acked) <=> p.ack <= r.acked
  <2>1. p.ack - r.acked < Half
    BY <1>l, <1>p, <1>s, <1>t, SMTT(40)
  <2> QED
    BY <1>p, <1>t, <2>1, SnExact, Zenon
<1>1. /\ EpInv(a) /\ a.psn = r.psn /\ a.state = r.state
      /\ a.head_sn = r.head_sn /\ a.pending_rx = r.pending_rx
      /\ a.state = "open" => a.acked <= q.head_sn
  <2>1. CASE p.ack <= r.acked
    <3>1. a = r
      BY <1>x, <2>1, Zenon DEF ProcessAck
    <3> QED
      BY <1>l, <3>1, Zenon
  <2>2. CASE ~(p.ack <= r.acked)
    <3>0. p.ack <= q.head_sn /\ q.head_sn < r.psn
      BY <1>l, <1>p, Zenon
    <3>1. r.state = "open"
      <4>1. r.acked # r.psn - 1
        BY <1>p, <1>t, <2>2, <3>0
      <4> QED
        BY <1>s, <4>1, Zenon
    <3>2. a = AckNew(r, p.ack, async)
      BY <1>x, <2>2, Zenon DEF ProcessAck, AckNew, ReleaseAcked
    <3>3. r.acked < p.ack /\ p.ack < r.psn
      BY <1>l, <1>p, <1>t, <2>2, SMTT(40)
    <3> HIDE DEF a
    <3>4. /\ EpInv(a) /\ a.acked = p.ack /\ a.psn = r.psn /\ a.state = "open"
          /\ a.head_sn = r.head_sn /\ a.pending_rx = r.pending_rx
      BY <1>p, <3>1, <3>2, <3>3, AckStep, ZenonT(40)
    <3> QED
      BY <1>p, <3>1, <3>4, Zenon
  <2> QED
    BY <2>1, <2>2, Zenon
<1> HIDE DEF a
<1>2. /\ IsEp(b) /\ Kept(a, b)
      /\ b.window = a.window /\ b.gone = a.gone /\ b.resend_pos = a.resend_pos
      /\ b.resend_psn = a.resend_psn /\ b.outstanding = a.outstanding
      /\ b.resend_count = a.resend_count /\ b.rx_acked = a.rx_acked
      /\ b.ops = a.ops \cup ops
  BY <1>1, ZenonT(40) DEF EpInv, Core, IsEp, Fields, Kept
<1>3. /\ ops \subseteq CtlOps /\ "RESEND" \notin ops
  BY Zenon DEF CtlOps
<1> HIDE DEF ops, b
<1>4. EpInv(b)
  <2>0. a.ops \subseteq CtlOps /\ Core(a) /\ ResendInv(a) /\ StInv(a) /\ CancelInv(a)
    BY <1>1, Zenon DEF EpInv, Core, EpType
  <2>1. b.ops \subseteq CtlOps /\ ("RESEND" \in b.ops => "RESEND" \in a.ops)
    BY <1>2, <1>3, <2>0, Zenon
  <2>2. Core(b) /\ StInv(b) /\ ResendInv(b)
    BY <1>2, <2>0, <2>1, OpsStep, Zenon
  <2>3. CancelInv(b)
    BY <1>2, <2>0, Zenon DEF CancelInv, Kept
  <2> QED
    BY <2>2, <2>3, Zenon DEF EpInv
<1>5. /\ b.psn = r.psn /\ b.state = r.state /\ b.head_sn = r.head_sn
      /\ b.acked = a.acked /\ b.pending_rx = r.pending_rx
  BY <1>1, <1>2, Zenon DEF Kept
<1>6. x = IF p.am THEN Deliver(b, p.psn, async) ELSE b
  BY Zenon DEF ProcessRx, a, b, ops
<1> HIDE DEF x
<1>7. /\ EpInv(x) /\ x.psn = r.psn /\ x.acked = a.acked /\ x.state = r.state
      /\ r.head_sn <= x.head_sn /\ x.head_sn < q.psn /\ x.head_sn \in Int
  <2>1. CASE ~p.am
    BY <1>1, <1>4, <1>5, <1>6, <1>l, <1>t, <2>1, SMTT(40)
  <2>2. CASE p.am
    <3>1. p.psn - (b.head_sn + 1) < Half /\ (b.head_sn + 1) - p.psn < Half /\ b.head_sn + 1 \in Int
      <4>1. p.psn < q.psn /\ q.psn <= r.head_sn + 1 + MaxWindow /\ r.head_sn + 1 - p.psn < Half
        BY <1>l, <1>p, <2>2, Zenon
      <4> QED
        <5>1. b.head_sn = r.head_sn
          BY <1>5, Zenon
        <5>2. /\ p.psn \in Int /\ r.head_sn \in Int /\ q.psn \in Int
              /\ Half \in Nat /\ MaxWindow \in Nat /\ MaxWindow < Half
          BY <1>p, <1>t, Zenon
        <5> QED
          BY <4>1, <5>1, <5>2, AheadFacts, Zenon
    <3>2. SnEq(p.psn, b.head_sn + 1) => p.psn = b.head_sn + 1
      BY <1>p, <3>1, SnExact
    <3>3. x = Deliver(b, p.psn, async)
      BY <1>6, <2>2, Zenon
    <3>4. async \/ b.pending_rx = <<>>
      BY <1>5, Zenon
    <3>5. /\ EpInv(x) /\ x.psn = b.psn /\ x.acked = b.acked /\ x.state = b.state
          /\ \/ x.head_sn = b.head_sn
             \/ x.head_sn = b.head_sn + 1 /\ p.psn = b.head_sn + 1
      BY <1>4, <1>p, <3>2, <3>3, <3>4, DeliverStep
    <3> QED
      BY <1>5, <1>l, <1>p, <1>t, <2>2, <3>5, SMTT(40)
  <2> QED
    BY <1>p, <2>1, <2>2, Zenon
<1>8. LinkInv(x, q)
  BY <1>1, <1>7, <1>l, <1>t, SMTT(40) DEF LinkInv
<1>9. LinkInv(q, x)
  <2>1. q.state = "open" => q.acked <= x.head_sn
    BY <1>7, <1>l, <1>t DEF LinkInv
  <2> QED
    BY <1>7, <1>l, <2>1, Zenon DEF LinkInv
<1> QED
  BY <1>7, <1>8, <1>9, Zenon DEF x

-----------------------------------------------------------------------------
(* Control packets *)

\* uct_ud_ep_send_ack: the packet is outstanding if it requests an acknowledgement.
LEMMA SendAckStep ==
    ASSUME NEW r, Core(r)
    PROVE  LET q == SendAck(r)
           IN  /\ Core(q) /\ Kept(r, q) /\ StInv(q) = StInv(r)
               /\ q.window = r.window
               /\ ResendInv(r) => ResendInv(q)
               /\ "ACK_REQ" \in r.ops \/ r.outstanding # <<>> => q.outstanding # <<>>
<1> DEFINE q == SendAck(r)
           s == [r EXCEPT !.rx_acked = r.head_sn, !.ops = @ \ {"ACK", "ACK_REQ", "NACK"}]
<1>r. IsEp(r) /\ EpType(r) /\ OutInv(r.outstanding, r.resend_count, r.window, r.gone)
  BY Zenon DEF Core
<1>s. /\ IsEp(s) /\ Kept(r, s) /\ s.rx_acked = r.head_sn
      /\ s.window = r.window /\ s.gone = r.gone /\ s.resend_pos = r.resend_pos
      /\ s.resend_psn = r.resend_psn /\ s.outstanding = r.outstanding
      /\ s.resend_count = r.resend_count /\ s.ops = r.ops \ {"ACK", "ACK_REQ", "NACK"}
  BY <1>r, Zenon DEF IsEp, Fields, Kept
<1>q. /\ IsEp(q) /\ Kept(s, q) /\ q.rx_acked = s.rx_acked
      /\ q.window = s.window /\ q.gone = s.gone /\ q.resend_pos = s.resend_pos
      /\ q.resend_psn = s.resend_psn /\ q.resend_count = s.resend_count /\ q.ops = s.ops
      /\ q.outstanding = (IF "ACK_REQ" \in r.ops THEN Append(r.outstanding, 0) ELSE r.outstanding)
  BY <1>r, Zenon DEF IsEp, Fields, Kept, SendAck
<1> HIDE DEF s, q
<1>1. r.ops \subseteq CtlOps /\ r.outstanding \in Seq(Nat)
  BY <1>r, Zenon DEF EpType
<1>2. Core(s) /\ StInv(s) = StInv(r) /\ (ResendInv(r) => ResendInv(s))
  <2>1. s.ops \subseteq CtlOps /\ ("RESEND" \in s.ops => "RESEND" \in r.ops)
    BY <1>1, <1>s, Zenon
  <2> QED
    BY <1>s, <2>1, OpsStep, Zenon
<1>3. OutInv(q.outstanding, r.resend_count, r.window, r.gone)
  BY <1>1, <1>q, <1>r, OutZero, Zenon
<1>4. /\ q.outstanding \in Seq(Nat)
      /\ "ACK_REQ" \in r.ops \/ r.outstanding # <<>> => q.outstanding # <<>>
  BY <1>1, <1>q
<1>5. EpType(q)
  BY <1>2, <1>4, <1>q, Zenon DEF Core, EpType, Kept
<1>6. Core(q)
  BY <1>2, <1>3, <1>5, <1>q, <1>s, Zenon DEF Core, Kept
<1>7. StInv(q) = StInv(s) /\ (ResendInv(s) => ResendInv(q))
  BY <1>q, Zenon DEF StInv, ResendInv, Kept
<1>8. Kept(r, q) /\ q.window = r.window
  BY <1>q, <1>s, Zenon DEF Kept
<1> QED
  BY <1>2, <1>4, <1>6, <1>7, <1>8, Zenon DEF q

\* uct_ud_ep_ctl_op_schedule of an acknowledgement request: it is sent at once or scheduled.
LEMMA AckReqStep ==
    ASSUME NEW r, Core(r)
    PROVE  LET q == AckReqDo(r)
           IN  /\ Core(q) /\ Kept(r, q) /\ StInv(q) = StInv(r)
               /\ q.window = r.window
               /\ ResendInv(r) => ResendInv(q)
               /\ q.outstanding # <<>> \/ "ACK_REQ" \in q.ops
<1> DEFINE q == AckReqDo(r)
           a == [r EXCEPT !.ops = @ \cup {"ACK_REQ"}]
<1>r. IsEp(r) /\ r.ops \subseteq CtlOps
  BY Zenon DEF Core, EpType
<1>a. /\ IsEp(a) /\ Kept(r, a) /\ a.rx_acked = r.rx_acked
      /\ a.window = r.window /\ a.gone = r.gone /\ a.resend_pos = r.resend_pos
      /\ a.resend_psn = r.resend_psn /\ a.outstanding = r.outstanding
      /\ a.resend_count = r.resend_count /\ a.ops = r.ops \cup {"ACK_REQ"}
  BY <1>r, Zenon DEF IsEp, Fields, Kept
<1>q. q = IF a.ops = {"ACK_REQ"} THEN SendAck(a) ELSE a
  BY Zenon DEF AckReqDo
<1> HIDE DEF a, q
<1>1. Core(a) /\ StInv(a) = StInv(r) /\ (ResendInv(r) => ResendInv(a)) /\ "ACK_REQ" \in a.ops
  <2>1. a.ops \subseteq CtlOps /\ ("RESEND" \in a.ops => "RESEND" \in r.ops) /\ "ACK_REQ" \in a.ops
    BY <1>a, <1>r, Zenon DEF CtlOps
  <2> QED
    BY <1>a, <2>1, OpsStep, Zenon
<1>2. CASE a.ops = {"ACK_REQ"}
  <2>1. /\ Core(q) /\ Kept(a, q) /\ StInv(q) = StInv(a)
        /\ q.window = a.window
        /\ ResendInv(a) => ResendInv(q)
        /\ q.outstanding # <<>>
    BY <1>1, <1>2, <1>q, SendAckStep, Zenon
  <2>2. Kept(r, q)
    BY <1>a, <2>1, Zenon DEF Kept
  <2> QED
    BY <1>1, <1>a, <2>1, <2>2, Zenon DEF q
<1>3. CASE a.ops # {"ACK_REQ"}
  BY <1>1, <1>3, <1>a, <1>q, Zenon DEF q
<1> QED
  BY <1>2, <1>3, Zenon

\* uct_ud_ep_comp_skb_add: a flush waits in the window, or for the main thread.
LEMMA CompSkbAddStep ==
    ASSUME NEW r, Core(r)
    PROVE  LET q == CompSkbAdd(r)
           IN  /\ Core(q) /\ Kept(r, q) /\ StInv(q) = StInv(r)
               /\ ResendInv(r) => ResendInv(q)
               /\ q.outstanding = r.outstanding /\ q.ops = r.ops
<1> DEFINE q == CompSkbAdd(r)
           s == [psn |-> r.psn - 1, comp |-> TRUE, big |-> FALSE, flush |-> TRUE,
                 ack_req |-> TRUE, resending |-> FALSE]
<1>r. /\ IsEp(r) /\ EpType(r) /\ WinInv(r.window, r.acked, r.psn)
      /\ OutInv(r.outstanding, r.resend_count, r.window, r.gone)
      /\ PosInv(r.window, r.gone, r.resend_pos, r.resend_psn, r.resend_max, r.psn, r.acked)
      /\ RxInv(r.rx_acked, r.head_sn, r.got, r.pending_rx)
  BY Zenon DEF Core
<1>t. /\ r.window \in Seq(Skb) /\ r.psn \in Int /\ r.acked \in Int /\ r.gone \in Nat
      /\ r.resend_pos \in Nat /\ r.resend_psn \in Int /\ r.resend_max \in Int
  BY <1>r, Zenon DEF EpType
<1>s. s \in Skb /\ s.psn = r.psn - 1 /\ s.flush /\ ~s.resending
  BY <1>t DEF Skb
<1>q. /\ IsEp(q) /\ Kept(r, q) /\ q.rx_acked = r.rx_acked
      /\ q.gone = r.gone /\ q.resend_pos = r.resend_pos
      /\ q.resend_psn = r.resend_psn /\ q.outstanding = r.outstanding
      /\ q.resend_count = r.resend_count /\ q.ops = r.ops
      /\ q.window = r.window \/ q.window = Append(r.window, s)
  <2>1. CASE r.window # <<>>
    <3>1. q = [[r EXCEPT !.flushes = @ + 1] EXCEPT !.window = Append(@, s)]
      BY <2>1, <1>r, Zenon DEF CompSkbAdd, IsEp, Fields
    <3> HIDE DEF q, s
    <3> QED
      BY <3>1, <1>r, Zenon DEF IsEp, Fields, Kept
  <2>2. CASE r.window = <<>>
    <3>1. q = [[r EXCEPT !.flushes = @ + 1]
                 EXCEPT !.async_comps = @ \o CompletionsOf(<<s>>, TRUE)]
      BY <2>2, <1>r, Zenon DEF CompSkbAdd, IsEp, Fields
    <3> HIDE DEF q, s
    <3> QED
      BY <3>1, <1>r, ZenonT(40) DEF IsEp, Fields, Kept
  <2> QED
    BY <2>1, <2>2, Zenon
<1> HIDE DEF q, s
<1>1. /\ q.window \in Seq(Skb) /\ WinInv(q.window, r.acked, r.psn)
      /\ OutInv(r.outstanding, r.resend_count, q.window, r.gone)
      /\ PosInv(q.window, r.gone, r.resend_pos, r.resend_psn, r.resend_max, r.psn, r.acked)
  <2>1. CASE q.window = r.window
    BY <1>r, <1>t, <2>1, Zenon
  <2>2. CASE q.window = Append(r.window, s)
    <3>1. Append(r.window, s) \in Seq(Skb) /\ WinInv(Append(r.window, s), r.acked, r.psn)
      BY <1>r, <1>t, <1>s, AppendFacts, WinAppend, Zenon
    <3>2. OutInv(r.outstanding, r.resend_count, Append(r.window, s), r.gone)
      BY <1>r, <1>t, <1>s, OutAppend, Zenon
    <3>3. PosInv(Append(r.window, s), r.gone, r.resend_pos, r.resend_psn, r.resend_max,
                 r.psn, r.acked)
      <4>1. r.psn <= r.psn
        BY <1>t
      <4> QED
        BY <1>r, <1>t, <1>s, <4>1, PosAppend, Zenon
    <3> QED
      BY <2>2, <3>1, <3>2, <3>3, Zenon
  <2> QED
    BY <1>q, <2>1, <2>2, Zenon
<1>2. EpType(q)
  BY <1>1, <1>q, <1>r, Zenon DEF EpType, Kept
<1>3. Core(q)
  BY <1>1, <1>2, <1>q, <1>r, Zenon DEF Core, Kept
<1>4. StInv(q) = StInv(r) /\ (ResendInv(r) => ResendInv(q))
  BY <1>q, Zenon DEF StInv, ResendInv, Kept
<1> QED
  BY <1>3, <1>4, <1>q, Zenon DEF q

\* uct_ud_iface_ctl_skb_complete: the packet is not RESENDING any more.
LEMMA CompleteStep ==
    ASSUME NEW r, EpInv(r), Young(r.window, r.psn), r.outstanding # <<>>,
           NEW async \in BOOLEAN
    PROVE  LET q == CtlSkbComplete(r, async)
           IN  /\ EpInv(q) /\ Kept(r, q)
<1> DEFINE q == CtlSkbComplete(r, async)
           n == Head(r.outstanding)
           k == n - r.gone
           w == r.window
           rest == [r EXCEPT !.outstanding = Tail(@)]
           unmarked == [rest EXCEPT !.window[n - r.gone].resending = FALSE,
                                    !.resend_count = @ - 1]
           m == IF n = 0 THEN rest ELSE unmarked
<1>r. /\ IsEp(r) /\ EpType(r) /\ WinInv(w, r.acked, r.psn)
      /\ OutInv(r.outstanding, r.resend_count, w, r.gone)
      /\ PosInv(w, r.gone, r.resend_pos, r.resend_psn, r.resend_max, r.psn, r.acked)
      /\ RxInv(r.rx_acked, r.head_sn, r.got, r.pending_rx)
      /\ ResendInv(r) /\ StInv(r) /\ CancelInv(r)
  BY Zenon DEF Core, EpInv
<1>t. /\ w \in Seq(Skb) /\ r.psn \in Int /\ r.acked \in Int /\ r.gone \in Nat
      /\ r.resend_pos \in Nat /\ r.resend_psn \in Int /\ r.resend_max \in Int
      /\ r.outstanding \in Seq(Nat) /\ r.resend_count \in Int
      /\ Tail(r.outstanding) \in Seq(Nat)
  BY <1>r DEF EpType
\* What the completion leaves, before packets are released.
<1>1. /\ Core(m) /\ Kept(r, m) /\ Young(m.window, m.psn)
      /\ m.ops = r.ops /\ m.resend_psn = r.resend_psn
      /\ m.window # <<>> => r.window # <<>>
  <2>1. CASE n = 0
    <3>0. m = rest
      BY <2>1, Zenon
    <3> HIDE DEF m
    <3>1. /\ IsEp(m) /\ Kept(r, m) /\ m.rx_acked = r.rx_acked /\ m.window = w
          /\ m.gone = r.gone /\ m.resend_pos = r.resend_pos
          /\ m.resend_psn = r.resend_psn /\ m.outstanding = Tail(r.outstanding)
          /\ m.resend_count = r.resend_count /\ m.ops = r.ops
      BY <1>r, <3>0, Zenon DEF IsEp, Fields, Kept
    <3>2. OutInv(Tail(r.outstanding), r.resend_count, w, r.gone)
      BY <1>r, <1>t, <2>1, OutZero, Zenon
    <3>3. EpType(m)
      BY <1>r, <1>t, <3>1, Zenon DEF EpType, Kept
    <3> HIDE DEF rest
    <3> QED
      BY <1>r, <3>1, <3>2, <3>3, Zenon DEF Core, Kept
  <2>2. CASE n # 0
    <3> DEFINE v == [w EXCEPT ![k].resending = FALSE]
    <3>0. m = unmarked
      BY <2>2, Zenon
    <3> HIDE DEF m
    <3>1. /\ IsEp(m) /\ Kept(r, m) /\ m.rx_acked = r.rx_acked /\ m.window = v
          /\ m.gone = r.gone /\ m.resend_pos = r.resend_pos
          /\ m.resend_psn = r.resend_psn /\ m.outstanding = Tail(r.outstanding)
          /\ m.resend_count = r.resend_count - 1 /\ m.ops = r.ops
      BY <1>r, <3>0, ZenonT(40) DEF IsEp, Fields, Kept
    <3>2. /\ k \in 1 .. Len(w) /\ w[k].resending
          /\ \A u : /\ Len(u) = Len(w) /\ ~u[k].resending
                    /\ \A j \in 1 .. Len(w) : j # k => u[j] = w[j]
                    => OutInv(Tail(r.outstanding), r.resend_count - 1, u, r.gone)
      BY <1>r, <1>t, <2>2, OutUnmark, Zenon
    <3> HIDE DEF w, k, n
    <3>3. /\ v \in Seq(Skb) /\ Len(v) = Len(w) /\ ~v[k].resending
          /\ v[k].psn = w[k].psn /\ v[k].flush = w[k].flush
          /\ \A j \in 1 .. Len(w) : j # k => v[j] = w[j]
      BY <1>t, <3>2, MarkFacts, Zenon
    <3> HIDE DEF v
    <3>4. OutInv(Tail(r.outstanding), r.resend_count - 1, v, r.gone)
      BY <3>2, <3>3, Zenon
    <3>5. SameNumbers(w, v)
      BY <3>3, Zenon DEF SameNumbers
    <3>6. \A i \in 1 .. Len(w) : v[i].resending => w[i].resending
      BY <3>3, Zenon
    <3>7. WinInv(v, r.acked, r.psn)
      BY <1>r, <1>t, <3>3, <3>5, WinSame, Zenon
    <3>8. PosInv(v, r.gone, r.resend_pos, r.resend_psn, r.resend_max, r.psn, r.acked)
      BY <1>r, <1>t, <3>3, <3>5, <3>6, PosSame, Zenon
    <3>9. Young(v, r.psn)
      <4>1. Young(w, r.psn)
        BY Zenon DEF w
      <4> QED
        BY <3>5, <4>1, YoungSame, Zenon
    <3>10. EpType(m)
      <4>1. r.resend_count - 1 \in Int
        BY <1>t, SMTT(40)
      <4> QED
        BY <1>r, <1>t, <3>1, <3>3, <4>1, ZenonT(40) DEF EpType, Kept
    <3>11. w # <<>>
      BY <1>t, <3>2
    <3> HIDE DEF rest, unmarked
    <3>12. Core(m)
      BY <1>r, <3>1, <3>4, <3>7, <3>8, <3>10, Zenon DEF Core, Kept
    <3> QED
      BY <3>1, <3>9, <3>11, <3>12, Zenon DEF Kept, w
  <2> QED
    BY <2>1, <2>2, Zenon
<1>2. q = WindowReleaseCompleted(m, async)
  BY Zenon DEF CtlSkbComplete
<1> HIDE DEF m, q
<1>3. /\ m.psn - 1 - m.acked <= MaxWindow
      /\ m.state # "open" => m.acked = m.psn - 1
      /\ m.state = "open" => m.acked < m.resend_max \/ m.resend_max < m.resend_psn
      /\ ResendInv(m)
  BY <1>1, <1>r, Zenon DEF StInv, ResendInv, Kept
<1>4. /\ Core(q) /\ Kept(m, q) /\ q.ops = m.ops /\ q.outstanding = m.outstanding
      /\ ResendInv(q)
      /\ m.acked < m.resend_max \/ m.resend_max < m.resend_psn
           => m.acked < m.resend_max \/ m.resend_max < q.resend_psn
      /\ q.window # <<>> => m.window # <<>>
      /\ m.outstanding = <<>> /\ m.acked = m.psn - 1 => q.window = <<>>
  <2>1. Released(m, q, m.acked)
    BY <1>1, <1>2, ReleaseCompleted, Zenon DEF Core
  <2> QED
    BY <1>1, <1>3, <2>1, Release, Zenon
<1>5. Kept(r, q)
  BY <1>1, <1>4, ZenonT(40) DEF Kept
<1>6. StInv(q)
  BY <1>3, <1>4, <1>5, <1>r, Zenon DEF StInv, Kept
<1>7. CancelInv(q)
  <2> SUFFICES ASSUME q.state = "cancelling", q.window # <<>>
               PROVE  q.outstanding # <<>> \/ "ACK_REQ" \in q.ops
    BY Zenon DEF CancelInv
  <2>1. m.acked = m.psn - 1
    BY <1>3, <1>4, Zenon DEF Kept
  <2> QED
    BY <1>4, <2>1, Zenon
<1> QED
  BY <1>4, <1>5, <1>6, <1>7, Zenon DEF EpInv, q

-----------------------------------------------------------------------------
(* Resending *)

\* A number of the window is not far from one that it is not beyond.
LEMMA NearFacts ==
    ASSUME NEW x \in Int, NEW m \in Int, NEW p \in Int, x <= m, m < p, p - x < Half
    PROVE  x - m < Half /\ m - x < Half
<1>1. Half \in Nat /\ 0 < Half
  BY HalfFacts
<1> QED
  BY <1>1, SMTT(40)

\* While uct_ud_ep_resend has something to do, the packet that it looks at is
\* in the window, and not behind the last one it is to resend.
LEMMA ResendFacts ==
    ASSUME NEW r, EpInv(r), Young(r.window, r.psn), "RESEND" \in r.ops,
           r.psn - r.resend_max < Half, ~ResendStops(r)
    PROVE  LET w == r.window
               i == ResendIndex(r)
           IN  /\ i \in 1 .. Len(w) /\ w[i].psn \in Int
               /\ r.acked < r.resend_max /\ r.resend_psn <= r.resend_max
               /\ w[i].psn <= r.resend_max
               /\ r.resend_psn <= r.acked + 1 \/ r.resend_psn <= w[i].psn
               /\ \A k \in 1 .. Len(w) : w[k].psn = r.resend_max /\ ~w[k].flush =>
                      i <= k /\ ~w[k].resending
               /\ SnEq(w[i].psn, r.resend_max) <=> w[i].psn = r.resend_max
<1> DEFINE w == r.window
           i == ResendIndex(r)
           pos == r.resend_pos - r.gone
<1>r. /\ EpType(r) /\ WinInv(w, r.acked, r.psn)
      /\ PosInv(w, r.gone, r.resend_pos, r.resend_psn, r.resend_max, r.psn, r.acked)
      /\ ResendInv(r) /\ StInv(r)
  BY Zenon DEF Core, EpInv
<1>t. /\ w \in Seq(Skb) /\ r.psn \in Int /\ r.acked \in Int /\ r.gone \in Nat
      /\ r.resend_pos \in Nat /\ r.resend_psn \in Int /\ r.resend_max \in Int
      /\ Len(w) \in Nat /\ Half \in Nat /\ MaxWindow \in Nat /\ MaxWindow < Half
  BY <1>r, HalfFacts DEF EpType
<1>s. ~SnLe(r.resend_max, r.acked) /\ ~(i > Len(w))
  BY Zenon DEF ResendStops
<1>i. i = (IF r.resend_pos = 0 THEN 1 ELSE pos + 1) /\ pos \in Int
  BY <1>t, SMTT(40) DEF ResendIndex
<1>w. /\ r.acked < r.psn /\ r.psn - 1 - r.acked <= MaxWindow /\ r.resend_max < r.psn
  BY <1>r, Zenon DEF WinInv, StInv, PosInv, PosAt
<1>1. r.acked < r.resend_max
  <2>1. r.resend_max - r.acked < Half /\ r.acked - r.resend_max < Half
    BY <1>t, <1>w, SMTT(40)
  <2> QED
    BY <1>s, <1>t, <2>1, SnExact
<1>2. r.resend_psn <= r.resend_max
  BY <1>1, <1>r, Zenon DEF ResendInv
<1>3. /\ r.resend_pos = 0 \/ pos > 0
      /\ r.resend_psn <= r.acked + 1 \/ (pos > 0 /\ r.resend_psn <= w[pos].psn)
      /\ \A k \in 1 .. Len(w) : w[k].psn = r.resend_max /\ ~w[k].flush =>
            pos < k /\ ~w[k].resending
      /\ pos > 0 => pos <= Len(w)
  BY <1>1, <1>2, <1>r, Zenon DEF PosInv, PosAt
<1> HIDE DEF pos, i, w
<1>4. i \in 1 .. Len(w)
  BY <1>3, <1>i, <1>s, <1>t
<1>5. \A k \in 1 .. Len(w) : w[k].psn \in Int
  BY <1>t, SkbFacts, Zenon
<1>6. \A k \in 1 .. Len(w) : w[k].psn = r.resend_max /\ ~w[k].flush => i <= k /\ ~w[k].resending
  BY <1>3, <1>i
<1>7. w[i].psn <= r.resend_max
  <2>1. r.resend_max \in r.acked + 1 .. r.psn - 1
    BY <1>1, <1>t, <1>w, SMTT(40)
  <2>2. PICK k \in 1 .. Len(w) : w[k].psn = r.resend_max /\ ~w[k].flush
    BY <1>r, <2>1, Zenon DEF WinInv
  <2>3. i = k \/ i < k
    BY <1>4, <1>6, <2>2
  <2>4. i < k => w[i].psn <= w[k].psn
    BY <1>4, <1>r, Zenon DEF WinInv
  <2> QED
    BY <1>5, <2>2, <2>3, <2>4
<1>8. r.resend_psn <= r.acked + 1 \/ r.resend_psn <= w[i].psn
  <2> SUFFICES ASSUME pos > 0, r.resend_psn <= w[pos].psn PROVE r.resend_psn <= w[i].psn
    BY <1>3, Zenon
  <2>1. pos \in 1 .. Len(w) /\ pos < i
    <3>1. pos <= Len(w)
      BY <1>3, Zenon
    <3>2. r.resend_pos # 0
      BY <1>t DEF pos
    <3> QED
      BY <1>i, <1>t, <3>1, <3>2, SMTT(40)
  <2>2. w[pos].psn <= w[i].psn
    BY <1>4, <1>r, <2>1, Zenon DEF WinInv
  <2> QED
    BY <1>4, <1>5, <1>t, <2>1, <2>2, SMTT(40)
<1>9. SnEq(w[i].psn, r.resend_max) <=> w[i].psn = r.resend_max
  <2>1. r.psn - w[i].psn < Half
    BY <1>4, Zenon DEF Young, w
  <2>2. w[i].psn - r.resend_max < Half /\ r.resend_max - w[i].psn < Half
    <3>1. w[i].psn \in Int
      BY <1>4, <1>5, Zenon
    <3> QED
      BY <1>7, <1>t, <1>w, <2>1, <3>1, NearFacts, Zenon
  <2> QED
    BY <1>4, <1>5, <1>t, <2>2, SnExact, Zenon
<1> QED
  BY <1>1, <1>2, <1>4, <1>5, <1>6, <1>7, <1>8, <1>9, Zenon DEF w, i

\* A packet that is being resent already, or a flush, is skipped.
LEMMA ResendSkip ==
    ASSUME NEW r, EpInv(r), Young(r.window, r.psn), "RESEND" \in r.ops,
           r.psn - r.resend_max < Half, ~ResendStops(r),
           LET s == r.window[ResendIndex(r)] IN s.resending \/ s.flush
    PROVE  LET q == [r EXCEPT !.resend_pos = r.gone + ResendIndex(r)]
           IN  EpInv(q) /\ Kept(r, q)
<1> DEFINE w == r.window
           i == ResendIndex(r)
           q == [r EXCEPT !.resend_pos = r.gone + i]
<1>r. /\ IsEp(r) /\ EpType(r) /\ WinInv(w, r.acked, r.psn)
      /\ OutInv(r.outstanding, r.resend_count, w, r.gone)
      /\ PosInv(w, r.gone, r.resend_pos, r.resend_psn, r.resend_max, r.psn, r.acked)
      /\ RxInv(r.rx_acked, r.head_sn, r.got, r.pending_rx)
      /\ ResendInv(r) /\ StInv(r) /\ CancelInv(r)
  BY Zenon DEF Core, EpInv
<1>f. /\ i \in 1 .. Len(w) /\ w[i].psn \in Int
      /\ r.acked < r.resend_max /\ r.resend_psn <= r.resend_max
      /\ w[i].psn <= r.resend_max
      /\ r.resend_psn <= r.acked + 1 \/ r.resend_psn <= w[i].psn
      /\ \A k \in 1 .. Len(w) : w[k].psn = r.resend_max /\ ~w[k].flush =>
             i <= k /\ ~w[k].resending
  BY ResendFacts, Zenon
<1>g. w[i].resending \/ w[i].flush
  BY Zenon
<1>t. /\ Len(w) \in Nat /\ r.gone \in Nat /\ w \in Seq(Skb)
      /\ r.resend_psn \in Int /\ r.resend_max \in Int
  BY <1>r, SMTT(40) DEF EpType
<1> HIDE DEF i, w
<1>q. /\ IsEp(q) /\ Kept(r, q) /\ q.rx_acked = r.rx_acked /\ q.window = r.window
      /\ q.gone = r.gone /\ q.resend_pos = r.gone + i
      /\ q.resend_psn = r.resend_psn /\ q.outstanding = r.outstanding
      /\ q.resend_count = r.resend_count /\ q.ops = r.ops
  BY <1>r, Zenon DEF IsEp, Fields, Kept
<1> HIDE DEF q
<1>1. PosInv(w, r.gone, r.gone + i, r.resend_psn, r.resend_max, r.psn, r.acked)
  <2>1. (r.gone + i) - r.gone = i
    BY <1>f, <1>t, SMTT(40)
  <2>2. \A k \in 1 .. Len(w) : w[k].psn = r.resend_max /\ ~w[k].flush =>
            i < k /\ ~w[k].resending
    <3> SUFFICES ASSUME NEW k \in 1 .. Len(w), w[k].psn = r.resend_max, ~w[k].flush
                 PROVE  i < k /\ ~w[k].resending
      BY Zenon
    <3>1. i <= k /\ ~w[k].resending
      BY <1>f, Zenon
    <3>2. i # k
      BY <1>g, <3>1, Zenon
    <3> QED
      BY <1>f, <3>1, <3>2
  <2>3. /\ FirstPsn - 1 <= r.resend_max /\ r.resend_max < r.psn
        /\ r.resend_max - r.resend_psn < Half /\ r.resend_psn - r.resend_max < Half
    BY <1>r, Zenon DEF PosInv, PosAt
  <2>4. i > 0 /\ i <= Len(w) /\ ~(r.resend_max < r.resend_psn)
    BY <1>f, <1>t
  <2> QED
    BY <1>f, <2>1, <2>2, <2>3, <2>4, Zenon DEF PosInv, PosAt
<1>2. EpType(q)
  <2>1. r.gone + i \in Nat
    BY <1>f, <1>t
  <2> QED
    BY <1>q, <1>r, <2>1, Zenon DEF EpType, Kept
<1>3. Core(q)
  BY <1>1, <1>2, <1>q, <1>r, Zenon DEF Core, Kept, w
<1>4. ResendInv(q) /\ StInv(q) /\ CancelInv(q)
  BY <1>q, <1>r, ZenonT(40) DEF ResendInv, StInv, CancelInv, Kept
<1> QED
  BY <1>3, <1>4, <1>q, Zenon DEF EpInv, q, i

\* A packet is resent.
LEMMA ResendSend ==
    ASSUME NEW r, EpInv(r), Young(r.window, r.psn), "RESEND" \in r.ops,
           r.psn - r.resend_max < Half, ~ResendStops(r),
           LET s == r.window[ResendIndex(r)] IN ~(s.resending \/ s.flush)
    PROVE  LET i    == ResendIndex(r)
               skb  == r.window[i]
               last == SnEq(skb.psn, r.resend_max)
               next == [r EXCEPT !.resend_pos = r.gone + i]
               sent == [next EXCEPT !.window[i].resending = TRUE,
                                    !.resend_psn = IF last THEN r.resend_max + 1 ELSE skb.psn,
                                    !.outstanding = Append(@, r.gone + i),
                                    !.resend_count = @ + 1]
               q    == IF last THEN ResendEnd(sent) ELSE sent
           IN  EpInv(q) /\ Kept(r, q)
<1> DEFINE w == r.window
           i == ResendIndex(r)
           skb == r.window[i]
           last == SnEq(skb.psn, r.resend_max)
           next == [r EXCEPT !.resend_pos = r.gone + i]
           sent == [next EXCEPT !.window[i].resending = TRUE,
                                !.resend_psn = IF last THEN r.resend_max + 1 ELSE skb.psn,
                                !.outstanding = Append(@, r.gone + i),
                                !.resend_count = @ + 1]
           q == IF last THEN ResendEnd(sent) ELSE sent
           v == [w EXCEPT ![i].resending = TRUE]
           rpsn == IF last THEN r.resend_max + 1 ELSE skb.psn
<1>r. /\ IsEp(r) /\ EpType(r) /\ WinInv(w, r.acked, r.psn)
      /\ OutInv(r.outstanding, r.resend_count, w, r.gone)
      /\ PosInv(w, r.gone, r.resend_pos, r.resend_psn, r.resend_max, r.psn, r.acked)
      /\ RxInv(r.rx_acked, r.head_sn, r.got, r.pending_rx)
      /\ ResendInv(r) /\ StInv(r) /\ CancelInv(r)
  BY Zenon DEF Core, EpInv
<1>f. /\ i \in 1 .. Len(w) /\ w[i].psn \in Int
      /\ r.acked < r.resend_max /\ r.resend_psn <= r.resend_max
      /\ w[i].psn <= r.resend_max
      /\ \A k \in 1 .. Len(w) : w[k].psn = r.resend_max /\ ~w[k].flush =>
             i <= k /\ ~w[k].resending
      /\ SnEq(w[i].psn, r.resend_max) <=> w[i].psn = r.resend_max
  BY ResendFacts, Zenon
<1>g. ~w[i].resending /\ ~w[i].flush
  BY ZenonT(40)
<1>t. /\ Len(w) \in Nat /\ r.gone \in Nat /\ w \in Seq(Skb)
      /\ r.resend_psn \in Int /\ r.resend_max \in Int /\ r.psn \in Int
      /\ r.outstanding \in Seq(Nat) /\ r.resend_count \in Int /\ r.acked \in Int
      /\ Half \in Nat /\ MaxWindow < Half /\ 2 <= Half /\ MaxWindow \in Nat
  BY <1>r, HalfFacts, SMTT(40) DEF EpType
<1>q. /\ IsEp(q) /\ Kept(r, q) /\ q.rx_acked = r.rx_acked /\ q.window = v
      /\ q.gone = r.gone /\ q.resend_pos = r.gone + i
      /\ q.resend_psn = rpsn /\ q.outstanding = Append(r.outstanding, r.gone + i)
      /\ q.resend_count = r.resend_count + 1
      /\ q.ops = (IF last THEN r.ops \ {"RESEND"} ELSE r.ops)
  <2> HIDE DEF i, last
  <2>1. /\ IsEp(sent) /\ Kept(r, sent) /\ sent.rx_acked = r.rx_acked /\ sent.window = v
        /\ sent.gone = r.gone /\ sent.resend_pos = r.gone + i
        /\ sent.resend_psn = rpsn /\ sent.outstanding = Append(r.outstanding, r.gone + i)
        /\ sent.resend_count = r.resend_count + 1 /\ sent.ops = r.ops
    BY <1>r, ZenonT(40) DEF IsEp, Fields, Kept
  <2> HIDE DEF sent, v, rpsn
  <2> QED
    BY <2>1, Zenon DEF IsEp, Fields, Kept, ResendEnd
<1>l. /\ skb = w[i] /\ (last <=> w[i].psn = r.resend_max)
      /\ rpsn = (IF last THEN r.resend_max + 1 ELSE w[i].psn)
  BY <1>f, Zenon
<1>v. /\ v \in Seq(Skb) /\ Len(v) = Len(w) /\ v[i].resending
      /\ v[i].psn = w[i].psn /\ v[i].flush = w[i].flush
      /\ \A j \in 1 .. Len(w) : j # i => v[j] = w[j]
  BY <1>f, <1>t, MarkFacts, Zenon
<1> HIDE DEF i, w, v, q, last, rpsn, skb
<1>1. SameNumbers(w, v)
  BY <1>v, Zenon DEF SameNumbers
<1>2. WinInv(v, r.acked, r.psn)
  BY <1>1, <1>r, <1>t, <1>v, WinSame, Zenon
<1>3. OutInv(Append(r.outstanding, r.gone + i), r.resend_count + 1, v, r.gone)
  BY <1>f, <1>g, <1>r, <1>t, <1>v, OutMark, Zenon
<1>4. PosInv(v, r.gone, r.gone + i, rpsn, r.resend_max, r.psn, r.acked)
  <2>1. (r.gone + i) - r.gone = i /\ i > 0 /\ i <= Len(v)
    BY <1>f, <1>t, <1>v, SMTT(40)
  <2>2. FirstPsn - 1 <= r.resend_max /\ r.resend_max < r.psn
    BY <1>r, Zenon DEF PosInv, PosAt
  <2>y. r.psn - w[i].psn < Half
    BY <1>f, Zenon DEF Young, w
  <2>3. CASE last
    <3>1. rpsn = r.resend_max + 1 /\ v[i].psn = r.resend_max
      BY <1>l, <1>v, <2>3, Zenon
    <3>2. /\ r.resend_max - rpsn < Half /\ rpsn - r.resend_max < Half
          /\ ~(rpsn <= r.resend_max) /\ v[i].psn <= r.resend_max
      BY <1>t, <3>1, SMTT(40)
    <3> QED
      BY <2>1, <2>2, <3>1, <3>2, Zenon DEF PosInv, PosAt
  <2>4. CASE ~last
    <3>1. rpsn = w[i].psn /\ w[i].psn # r.resend_max /\ v[i].psn = w[i].psn
      BY <1>l, <1>v, <2>4, Zenon
    <3>2. /\ r.resend_max - rpsn < Half /\ rpsn - r.resend_max < Half
          /\ ~(r.resend_max < rpsn) /\ v[i].psn <= r.resend_max /\ rpsn <= v[i].psn
      <4>1. r.resend_max - w[i].psn < Half /\ w[i].psn - r.resend_max < Half
        BY <1>f, <1>t, <2>2, <2>y, NearFacts, Zenon
      <4>2. w[i].psn \in Int /\ w[i].psn <= r.resend_max /\ r.resend_max \in Int
        BY <1>f, <1>t, Zenon
      <4>3. ~(r.resend_max < w[i].psn) /\ w[i].psn <= w[i].psn
        BY <4>2
      <4> QED
        BY <3>1, <4>1, <4>2, <4>3, Zenon
    <3>3. \A k \in 1 .. Len(v) : v[k].psn = r.resend_max /\ ~v[k].flush =>
              i < k /\ ~v[k].resending
      <4> SUFFICES ASSUME NEW k \in 1 .. Len(v), v[k].psn = r.resend_max, ~v[k].flush
                   PROVE  i < k /\ ~v[k].resending
        BY Zenon
      <4>1. k # i
        BY <3>1, ZenonT(40)
      <4>2. k \in 1 .. Len(w) /\ v[k] = w[k]
        BY <1>v, <4>1, ZenonT(40)
      <4>3. i <= k /\ ~w[k].resending
        BY <1>f, <4>2, Zenon
      <4> QED
        BY <1>f, <4>1, <4>2, <4>3
    <3> QED
      BY <2>1, <2>2, <3>2, <3>3, Zenon DEF PosInv, PosAt
  <2> QED
    BY <2>3, <2>4, Zenon
<1>5. EpType(q)
  <2>1. /\ r.gone + i \in Nat /\ Append(r.outstanding, r.gone + i) \in Seq(Nat)
        /\ rpsn \in Int /\ r.resend_count + 1 \in Int
    <3>1. i \in Nat /\ r.gone \in Nat /\ r.outstanding \in Seq(Nat) /\ r.resend_count \in Int
      BY <1>f, <1>t
    <3>2. r.gone + i \in Nat /\ r.resend_count + 1 \in Int
      BY <3>1
    <3>3. Append(r.outstanding, r.gone + i) \in Seq(Nat)
      BY <3>1, <3>2
    <3>4. r.resend_max + 1 \in Int
      BY <1>t
    <3>5. rpsn \in Int
      BY <1>f, <1>l, <3>4, ZenonT(40)
    <3> QED
      BY <3>2, <3>3, <3>5, Zenon
  <2>2. q.ops \subseteq CtlOps
    BY <1>q, <1>r, Zenon DEF EpType
  <2> QED
    BY <1>q, <1>r, <1>v, <2>1, <2>2, Zenon DEF EpType, Kept
<1>6. Core(q)
  BY <1>2, <1>3, <1>4, <1>5, <1>q, <1>r, Zenon DEF Core, Kept
<1>7. ResendInv(q)
  BY <1>f, <1>l, <1>q, Zenon DEF ResendInv, Kept
<1>8. StInv(q)
  BY <1>f, <1>q, <1>r, Zenon DEF StInv, Kept
<1>9. CancelInv(q)
  <2>1. q.outstanding # <<>>
    <3>1. r.gone + i \in Nat /\ r.outstanding \in Seq(Nat)
      BY <1>f, <1>t, SMTT(40)
    <3>3. Append(r.outstanding, r.gone + i) # <<>>
      BY <3>1
    <3> QED
      BY <1>q, <3>3, Zenon
  <2> QED
    BY <2>1, Zenon DEF CancelInv
<1> QED
  BY <1>6, <1>7, <1>8, <1>9, <1>q, Zenon DEF EpInv, q, i, last, rpsn, skb, w, v

-----------------------------------------------------------------------------
(* Sending, and the timer *)

\* What the congestion window leaves to send.
LEMMA WindowFacts ==
    ASSUME NEW a \in Int, NEW p \in Int, NEW m \in Int, a < p, p - 1 - a <= MaxWindow,
           a < m, m <= a + 1 + MaxWindow
    PROVE  /\ m - p < Half /\ p - m < Half
           /\ p < m => p - a <= MaxWindow
<1>1. Half \in Nat /\ MaxWindow \in Nat /\ MaxWindow < Half
  BY HalfFacts, Zenon
<1> QED
  BY <1>1

\* A message is sent within the congestion window.
LEMMA SendStep ==
    ASSUME NEW r, EpInv(r), r.state = "open", ~NoWindow(r), NEW kind \in [comp : BOOLEAN, big : BOOLEAN]
    PROVE  LET skb == [psn |-> r.psn, comp |-> kind.comp, big |-> kind.big,
                       flush |-> FALSE, ack_req |-> FALSE, resending |-> FALSE]
               q   == [CompleteTxSkb(r, skb) EXCEPT !.rx_acked = r.head_sn,
                                                    !.ops = @ \ {"ACK", "ACK_REQ"}]
           IN  /\ EpInv(q) /\ q.psn = r.psn + 1 /\ q.psn - 1 - r.acked <= MaxWindow
               /\ q.acked = r.acked /\ q.head_sn = r.head_sn /\ q.state = "open"
<1> DEFINE skb == [psn |-> r.psn, comp |-> kind.comp, big |-> kind.big,
                   flush |-> FALSE, ack_req |-> FALSE, resending |-> FALSE]
           q == [CompleteTxSkb(r, skb) EXCEPT !.rx_acked = r.head_sn,
                                              !.ops = @ \ {"ACK", "ACK_REQ"}]
           w == r.window
<1>r. /\ IsEp(r) /\ EpType(r) /\ WinInv(w, r.acked, r.psn)
      /\ OutInv(r.outstanding, r.resend_count, w, r.gone)
      /\ PosInv(w, r.gone, r.resend_pos, r.resend_psn, r.resend_max, r.psn, r.acked)
      /\ RxInv(r.rx_acked, r.head_sn, r.got, r.pending_rx)
      /\ ResendInv(r) /\ StInv(r)
  BY Zenon DEF Core, EpInv
<1>t. /\ w \in Seq(Skb) /\ r.psn \in Int /\ r.acked \in Int /\ r.gone \in Nat
      /\ r.resend_pos \in Nat /\ r.resend_psn \in Int /\ r.resend_max \in Int
      /\ r.max_psn \in Int /\ r.head_sn \in Int /\ r.rx_acked \in Int /\ FirstPsn \in Int
      /\ Half \in Nat /\ MaxWindow \in Nat /\ MaxWindow < Half
  BY <1>r, HalfFacts DEF EpType
<1>s. skb \in Skb /\ skb.psn = r.psn /\ ~skb.flush /\ ~skb.resending
  BY <1>t, Zenon DEF Skb
<1> HIDE DEF skb
<1>q. /\ IsEp(q) /\ q.psn = r.psn + 1 /\ q.acked = r.acked /\ q.max_psn = r.max_psn
      /\ q.cwnd = r.cwnd /\ q.resend_max = r.resend_max /\ q.state = r.state
      /\ q.head_sn = r.head_sn /\ q.got = r.got /\ q.pending_rx = r.pending_rx
      /\ q.rx_acked = r.head_sn /\ q.window = Append(w, skb)
      /\ q.gone = r.gone /\ q.resend_pos = r.resend_pos
      /\ q.resend_psn = r.resend_psn /\ q.outstanding = r.outstanding
      /\ q.resend_count = r.resend_count /\ q.ops = r.ops \ {"ACK", "ACK_REQ"}
  BY <1>r, ZenonT(40) DEF IsEp, Fields, CompleteTxSkb
<1> HIDE DEF q, w
<1>w. /\ r.acked < r.psn /\ r.psn - 1 - r.acked <= MaxWindow
      /\ r.acked < r.max_psn /\ r.max_psn <= r.acked + 1 + MaxWindow
  BY <1>r, Zenon DEF StInv, WinInv
<1>m. r.psn < r.max_psn
  <2>1. r.max_psn - r.psn < Half /\ r.psn - r.max_psn < Half
    BY <1>t, <1>w, WindowFacts, Zenon
  <2>2. ~SnLe(r.max_psn, r.psn)
    BY Zenon DEF NoWindow
  <2> QED
    BY <1>t, <2>1, <2>2, SnExact
<1>1. Append(w, skb) \in Seq(Skb) /\ WinInv(Append(w, skb), r.acked, r.psn + 1)
  BY <1>r, <1>s, <1>t, AppendFacts, WinAppend, Zenon
<1>2. OutInv(r.outstanding, r.resend_count, Append(w, skb), r.gone)
  BY <1>r, <1>s, <1>t, OutAppend, Zenon
<1>3. PosInv(Append(w, skb), r.gone, r.resend_pos, r.resend_psn, r.resend_max, r.psn + 1, r.acked)
  <2>1. r.psn <= r.psn + 1 /\ r.psn + 1 \in Int
    BY <1>t
  <2> QED
    BY <1>r, <1>s, <1>t, <2>1, PosAppend, Zenon
<1>4. RxInv(q.rx_acked, q.head_sn, q.got, q.pending_rx)
  <2>1. RxInv(r.head_sn, r.head_sn, r.got, r.pending_rx)
    BY <1>r, <1>t, RxStays, Zenon
  <2> QED
    BY <1>q, <2>1, Zenon
<1>5. EpType(q)
  <2>1. q.psn \in Int /\ q.window \in Seq(Skb) /\ q.ops \subseteq CtlOps
    <3>1. r.psn + 1 \in Int
      BY <1>t
    <3>2. r.ops \ {"ACK", "ACK_REQ"} \subseteq CtlOps
      BY <1>r, Zenon DEF EpType
    <3> QED
      BY <1>1, <1>q, <3>1, <3>2, Zenon
  <2> QED
    BY <1>q, <1>r, <1>t, <2>1, Zenon DEF EpType
<1>6. Core(q)
  BY <1>1, <1>2, <1>3, <1>4, <1>5, <1>q, <1>r, Zenon DEF Core
<1>7. r.psn - r.acked <= MaxWindow
  BY <1>m, <1>t, <1>w, WindowFacts, Zenon
<1>8. ResendInv(q) /\ CancelInv(q)
  BY <1>q, <1>r, Zenon DEF ResendInv, CancelInv
<1>9. StInv(q) /\ q.psn - 1 - r.acked <= MaxWindow
  BY <1>7, <1>q, <1>r, <1>t, SMTT(40) DEF StInv
<1> QED
  BY <1>6, <1>8, <1>9, <1>q, Zenon DEF EpInv, q, skb

\* What uct_ud_ep_timer leaves: late, everything sent so far is resent.
TimedOut(r, age, dead) ==
    LET t == IF age = "late" THEN ResendStart(CaDrop(r)) ELSE r
    IN  [t EXCEPT !.ops = IF age = "fresh" THEN @ ELSE @ \cup {"ACK_REQ"},
                  !.timed_out = dead]

\* uct_ud_ep_timer: something is not acknowledged, so the user has not given
\* the endpoint up; late, everything sent so far is resent.
LEMMA TimerStep ==
    ASSUME NEW r, EpInv(r), ~IsLastAckReceived(r), "RESEND" \notin r.ops,
           r.resend_count = 0, NEW age, NEW dead
    PROVE  LET q == TimedOut(r, age, dead)
           IN  /\ EpInv(q) /\ q.psn = r.psn /\ q.acked = r.acked
               /\ q.head_sn = r.head_sn /\ q.state = r.state
<1> DEFINE t == IF age = "late" THEN ResendStart(CaDrop(r)) ELSE r
           q == [t EXCEPT !.ops = IF age = "fresh" THEN @ ELSE @ \cup {"ACK_REQ"},
                          !.timed_out = dead]
           w == r.window
<1> SUFFICES /\ EpInv(q) /\ q.psn = r.psn /\ q.acked = r.acked
             /\ q.head_sn = r.head_sn /\ q.state = r.state
  BY Zenon DEF TimedOut
<1>r. /\ IsEp(r) /\ EpType(r) /\ WinInv(w, r.acked, r.psn)
      /\ OutInv(r.outstanding, r.resend_count, w, r.gone)
      /\ PosInv(w, r.gone, r.resend_pos, r.resend_psn, r.resend_max, r.psn, r.acked)
      /\ RxInv(r.rx_acked, r.head_sn, r.got, r.pending_rx)
      /\ ResendInv(r) /\ StInv(r) /\ CancelInv(r) /\ Core(r)
  BY Zenon DEF Core, EpInv
<1>u. /\ w \in Seq(Skb) /\ r.psn \in Int /\ r.acked \in Int /\ r.gone \in Nat
      /\ r.resend_pos \in Nat /\ r.resend_psn \in Int /\ r.resend_max \in Int
      /\ r.max_psn \in Int /\ r.ops \subseteq CtlOps /\ r.cwnd \in MinWindow .. MaxWindow
  BY <1>r, Zenon DEF EpType
<1>n. /\ MinWindow \in Nat /\ FirstPsn \in Int /\ 2 <= MinWindow /\ MinWindow <= MaxWindow
      /\ Half \in Nat /\ MaxWindow \in Nat /\ MaxWindow < Half
  BY HalfFacts
<1>t. /\ r.psn \in Int /\ r.acked \in Int /\ r.gone \in Nat /\ FirstPsn \in Int
      /\ Half \in Nat /\ MaxWindow \in Nat /\ MaxWindow < Half
  BY <1>n, <1>u, Zenon
<1>a. r.acked < r.psn - 1 /\ FirstPsn - 1 <= r.acked
  <2>1. r.acked < r.psn /\ FirstPsn - 1 <= r.acked
    BY <1>r, Zenon DEF WinInv
  <2>2. CASE r.acked = r.psn - 1
    <3>1. r.acked - (r.psn - 1) < Half /\ (r.psn - 1) - r.acked < Half /\ r.psn - 1 \in Int
      BY <1>t, <2>2
    <3>2. SnEq(r.acked, r.psn - 1)
      BY <1>t, <2>2, <3>1, SnExact, Zenon
    <3> QED
      BY <3>2, Zenon DEF IsLastAckReceived
  <2> QED
    BY <1>t, <2>1, <2>2
<1>b. r.state = "open" /\ r.psn - 1 - r.acked <= MaxWindow
  BY <1>a, <1>r, <1>t DEF StInv
\* The change of the scheduled operations.
<1>1. ASSUME NEW x, Core(x), ResendInv(x), StInv(x), x.state = "open",
             x.psn = r.psn, x.acked = r.acked, x.head_sn = r.head_sn
      PROVE  LET y == [x EXCEPT !.ops = IF age = "fresh" THEN @ ELSE @ \cup {"ACK_REQ"},
                                !.timed_out = dead]
             IN  /\ EpInv(y) /\ y.psn = r.psn /\ y.acked = r.acked
                 /\ y.head_sn = r.head_sn /\ y.state = r.state
  <2> DEFINE y == [x EXCEPT !.ops = IF age = "fresh" THEN @ ELSE @ \cup {"ACK_REQ"},
                            !.timed_out = dead]
  <2>1. IsEp(x) /\ x.ops \subseteq CtlOps
    BY <1>1, Zenon DEF Core, EpType
  <2>2. /\ IsEp(y) /\ Kept(x, y) /\ y.rx_acked = x.rx_acked
        /\ y.window = x.window /\ y.gone = x.gone /\ y.resend_pos = x.resend_pos
        /\ y.resend_psn = x.resend_psn /\ y.outstanding = x.outstanding
        /\ y.resend_count = x.resend_count
        /\ y.ops = (IF age = "fresh" THEN x.ops ELSE x.ops \cup {"ACK_REQ"})
    BY <2>1, ZenonT(40) DEF IsEp, Fields, Kept
  <2> HIDE DEF y
  <2>3. y.ops \subseteq CtlOps /\ ("RESEND" \in y.ops => "RESEND" \in x.ops)
    BY <2>1, <2>2, Zenon DEF CtlOps
  <2>4. Core(y) /\ StInv(y) /\ ResendInv(y)
    BY <1>1, <2>2, <2>3, OpsStep, Zenon
  <2>5. CancelInv(y)
    BY <1>1, <2>2, ZenonT(40) DEF CancelInv, Kept
  <2> QED
    BY <1>1, <1>b, <2>2, <2>4, <2>5, Zenon DEF EpInv, Kept, y
<1>2. CASE age # "late"
  <2>1. t = r
    BY <1>2, ZenonT(40)
  <2> HIDE DEF t
  <2> QED
    BY <1>1, <1>b, <1>r, <2>1, ZenonT(40) DEF t
<1>3. CASE age = "late"
  <2> DEFINE c == CaDrop(r)
  <2>1. /\ IsEp(c) /\ c.psn = r.psn /\ c.acked = r.acked
        /\ c.resend_max = r.resend_max /\ c.state = r.state
        /\ c.head_sn = r.head_sn /\ c.got = r.got /\ c.pending_rx = r.pending_rx
        /\ c.rx_acked = r.rx_acked /\ c.window = w
        /\ c.gone = r.gone /\ c.resend_pos = r.resend_pos
        /\ c.resend_psn = r.resend_psn /\ c.outstanding = r.outstanding
        /\ c.resend_count = r.resend_count /\ c.ops = r.ops
    BY <1>r, ZenonT(40) DEF IsEp, Fields, CaDrop
  <2>2. /\ c.cwnd \in MinWindow .. MaxWindow
        /\ c.max_psn = r.psn \/ c.max_psn = r.acked + c.cwnd
    <3> DEFINE half == r.cwnd \div 2
               cw == IF half < MinWindow THEN MinWindow ELSE half
    <3>1. half \in Int /\ half <= r.cwnd
      BY <1>n, <1>u, SMTT(40)
    <3>2. cw \in MinWindow .. MaxWindow
      BY <1>n, <1>u, <3>1
    <3>3. /\ c.cwnd = cw
          /\ c.max_psn = (IF SnLt(r.psn, r.acked + cw) THEN r.psn ELSE r.acked + cw)
      BY <1>r, Zenon DEF IsEp, Fields, CaDrop
    <3> QED
      BY <3>2, <3>3, Zenon
  <2>3. t = ResendStart(c)
    BY <1>3, Zenon
  <2> HIDE DEF c, t, w
  <2>4. /\ IsEp(t) /\ t.psn = r.psn /\ t.acked = r.acked
        /\ t.resend_max = r.psn - 1 /\ t.state = r.state
        /\ t.head_sn = r.head_sn /\ t.got = r.got /\ t.pending_rx = r.pending_rx
        /\ t.rx_acked = r.rx_acked /\ t.window = w
        /\ t.gone = r.gone /\ t.resend_pos = 0
        /\ t.resend_psn = r.acked + 1 /\ t.outstanding = r.outstanding
        /\ t.resend_count = r.resend_count /\ t.ops = r.ops \cup {"RESEND"}
        /\ t.cwnd = c.cwnd /\ t.max_psn = c.max_psn
    BY <2>1, <2>3, ZenonT(40) DEF IsEp, Fields, ResendStart
  <2>5. EpType(t)
    <3>1. /\ t.max_psn \in Int /\ t.resend_psn \in Int /\ t.resend_max \in Int
          /\ t.resend_pos \in Nat
      <4>1. c.cwnd \in Int /\ r.acked + 1 \in Int /\ r.psn - 1 \in Int /\ 0 \in Nat
        BY <1>n, <1>t, <2>2
      <4>2. r.acked + c.cwnd \in Int
        BY <1>t, <4>1
      <4> QED
        BY <1>t, <2>2, <2>4, <4>1, <4>2, Zenon
    <3>2. t.ops \subseteq CtlOps
      BY <1>u, <2>4, Zenon DEF CtlOps
    <3> QED
      BY <1>r, <2>2, <2>4, <3>1, <3>2, Zenon DEF EpType, w
  <2>6. PosInv(w, r.gone, 0, r.acked + 1, r.psn - 1, r.psn, r.acked)
    <3>1. \A i \in 1 .. Len(w) : ~w[i].resending
      BY <1>r, OutZeroCount, Zenon
    <3>2. 0 - r.gone <= 0 /\ \A i \in 1 .. Len(w) : 0 - r.gone < i
      BY <1>t
    <3>3. /\ FirstPsn - 1 <= r.psn - 1 /\ r.psn - 1 < r.psn /\ r.acked + 1 <= r.psn - 1
          /\ (r.psn - 1) - (r.acked + 1) < Half /\ (r.acked + 1) - (r.psn - 1) < Half
      BY <1>a, <1>b, <1>t
    <3>4. ~(0 - r.gone > 0) /\ ~(r.psn - 1 < r.acked + 1) /\ r.acked + 1 <= r.acked + 1
      BY <1>t, <3>3
    <3> QED
      BY <3>1, <3>2, <3>3, <3>4, Zenon DEF PosInv, PosAt
  <2>7. Core(t)
    BY <1>r, <2>4, <2>5, <2>6, Zenon DEF Core
  <2>8. ResendInv(t) /\ StInv(t)
    <3>1. c.cwnd \in Int /\ 2 <= c.cwnd /\ c.cwnd <= MaxWindow
      BY <1>n, <2>2
    <3>2. /\ r.acked < r.acked + c.cwnd /\ r.acked + c.cwnd <= r.acked + 1 + MaxWindow
          /\ r.acked < r.psn /\ r.psn <= r.acked + 1 + MaxWindow
          /\ r.acked < r.psn - 1 /\ r.acked + 1 <= r.psn - 1
      BY <1>a, <1>b, <1>t, <3>1
    <3>3. r.acked < c.max_psn /\ c.max_psn <= r.acked + 1 + MaxWindow
      BY <2>2, <3>2, Zenon
    <3> QED
      BY <1>b, <2>4, <3>2, <3>3, Zenon DEF ResendInv, StInv
  <2> QED
    BY <1>1, <1>b, <2>4, <2>7, <2>8, ZenonT(40) DEF t
<1> QED
  BY <1>2, <1>3, Zenon

-----------------------------------------------------------------------------
(* Giving an endpoint up *)

\* Everything is taken for acknowledged: nothing is left to resend.
LEMMA PosCancel ==
    ASSUME NEW w, NEW gone \in Nat, NEW at \in Nat, NEW rpsn \in Int, NEW rmax \in Int,
           NEW psn \in Int, NEW acked, PosInv(w, gone, at, rpsn, rmax, psn, acked)
    PROVE  PosInv(w, gone, at, rpsn, rmax, psn, psn - 1)
<1>1. rmax < psn
  BY Zenon DEF PosInv, PosAt
<1>2. ~(psn - 1 < rmax)
  BY <1>1
<1> QED
  BY <1>2, Zenon DEF PosInv, PosAt

\* Likewise, the window holds all that is not acknowledged.
LEMMA WinCancel ==
    ASSUME NEW w, NEW psn \in Int, NEW acked \in Int, WinInv(w, acked, psn)
    PROVE  WinInv(w, psn - 1, psn)
<1>1. FirstPsn \in Int
  BY HalfFacts
<1>2. FirstPsn - 1 <= psn - 1 /\ psn - 1 < psn
  BY <1>1 DEF WinInv
<1>3. (psn - 1) + 1 .. psn - 1 = {}
  OBVIOUS
<1> QED
  BY <1>2, <1>3, Zenon DEF WinInv

\* flush(CANCEL) and disconnect take everything for acknowledged.
LEMMA CancelStep ==
    ASSUME NEW r, Core(r)
    PROVE  LET q == CancelAll(r)
           IN  /\ Core(q) /\ q.psn = r.psn /\ q.acked = r.psn - 1 /\ q.window = r.window
               /\ q.head_sn = r.head_sn /\ q.state = r.state /\ q.ops = r.ops
               /\ q.outstanding = r.outstanding
<1> DEFINE q == CancelAll(r)
<1>r. /\ IsEp(r) /\ EpType(r) /\ WinInv(r.window, r.acked, r.psn)
      /\ OutInv(r.outstanding, r.resend_count, r.window, r.gone)
      /\ PosInv(r.window, r.gone, r.resend_pos, r.resend_psn, r.resend_max, r.psn, r.acked)
      /\ RxInv(r.rx_acked, r.head_sn, r.got, r.pending_rx)
  BY Zenon DEF Core
<1>t. /\ r.psn \in Int /\ r.acked \in Int /\ r.gone \in Nat /\ r.cwnd \in Int
      /\ r.resend_pos \in Nat /\ r.resend_psn \in Int /\ r.resend_max \in Int
  BY <1>r, HalfFacts, SMTT(40) DEF EpType
<1>q. /\ IsEp(q) /\ q.psn = r.psn /\ q.acked = r.psn - 1 /\ q.max_psn = r.psn + r.cwnd
      /\ q.cwnd = r.cwnd /\ q.resend_max = r.resend_max /\ q.state = r.state
      /\ q.head_sn = r.head_sn /\ q.got = r.got /\ q.pending_rx = r.pending_rx
      /\ q.rx_acked = r.rx_acked /\ q.window = r.window
      /\ q.gone = r.gone /\ q.resend_pos = r.resend_pos
      /\ q.resend_psn = r.resend_psn /\ q.outstanding = r.outstanding
      /\ q.resend_count = r.resend_count /\ q.ops = r.ops
  BY <1>r, Zenon DEF IsEp, Fields, CancelAll, ResetMaxPsn
<1> HIDE DEF q
<1>1. WinInv(r.window, r.psn - 1, r.psn)
  BY <1>r, <1>t, WinCancel, Zenon
<1>2. PosInv(r.window, r.gone, r.resend_pos, r.resend_psn, r.resend_max, r.psn, r.psn - 1)
  BY <1>r, <1>t, PosCancel, Zenon
<1>3. EpType(q)
  <2>1. q.acked \in Int /\ q.max_psn \in Int
    BY <1>q, <1>t
  <2> QED
    BY <1>q, <1>r, <2>1, Zenon DEF EpType
<1>4. Core(q)
  BY <1>1, <1>2, <1>3, <1>q, <1>r, Zenon DEF Core
<1> QED
  BY <1>4, <1>q, Zenon DEF q

\* An endpoint that is given up in state s.
LEMMA GiveUp ==
    ASSUME NEW r, Core(r), r.acked = r.psn - 1,
           NEW s \in {"cancelled", "cancelling", "failed", "closed"}
    PROVE  LET q == [r EXCEPT !.state = s]
           IN  /\ Core(q) /\ StInv(q) /\ ResendInv(q)
               /\ q.psn = r.psn /\ q.acked = r.acked /\ q.head_sn = r.head_sn
               /\ q.state = s /\ q.window = r.window /\ q.ops = r.ops
               /\ q.outstanding = r.outstanding
<1> DEFINE q == [r EXCEPT !.state = s]
<1>r. /\ IsEp(r) /\ EpType(r)
      /\ PosInv(r.window, r.gone, r.resend_pos, r.resend_psn, r.resend_max, r.psn, r.acked)
  BY Zenon DEF Core
<1>t. /\ r.psn \in Int /\ r.resend_max \in Int /\ MaxWindow \in Nat
  BY <1>r, HalfFacts, Zenon DEF EpType
<1>q. /\ IsEp(q) /\ q.psn = r.psn /\ q.acked = r.acked /\ q.max_psn = r.max_psn
      /\ q.cwnd = r.cwnd /\ q.resend_max = r.resend_max /\ q.state = s
      /\ q.head_sn = r.head_sn /\ q.got = r.got /\ q.pending_rx = r.pending_rx
      /\ q.rx_acked = r.rx_acked /\ q.window = r.window
      /\ q.gone = r.gone /\ q.resend_pos = r.resend_pos
      /\ q.resend_psn = r.resend_psn /\ q.outstanding = r.outstanding
      /\ q.resend_count = r.resend_count /\ q.ops = r.ops
  BY <1>r, Zenon DEF IsEp, Fields
<1> HIDE DEF q
<1>1. EpType(q)
  BY <1>q, <1>r, Zenon DEF EpType
<1>2. Core(q)
  BY <1>1, <1>q, Zenon DEF Core
<1>3. r.resend_max < r.psn
  BY <1>r, Zenon DEF PosInv, PosAt
<1>4. StInv(q)
  BY <1>q, <1>t DEF StInv
<1>5. ResendInv(q)
  BY <1>3, <1>q, <1>t DEF ResendInv
<1> QED
  BY <1>2, <1>4, <1>5, <1>q, Zenon DEF q

\* All control packets of the endpoint are completed.
LEMMA PurgeOutstandingStep ==
    ASSUME NEW r, Core(r), Young(r.window, r.psn), r.psn - 1 - r.acked <= MaxWindow
    PROVE  LET q == PurgeOutstanding(r)
           IN  /\ Core(q) /\ Kept(r, q) /\ Young(q.window, q.psn)
               /\ q.outstanding = <<>>
<1> DEFINE w == r.window
           sent == Resends(r)
           v == [i \in DOMAIN w |-> [w[i] EXCEPT !.resending = @ /\ r.gone + i \notin sent]]
           m == [r EXCEPT !.outstanding = <<>>, !.window = v,
                          !.resend_count = @ - Cardinality(sent)]
           q == PurgeOutstanding(r)
<1>r. /\ IsEp(r) /\ EpType(r) /\ WinInv(w, r.acked, r.psn)
      /\ OutInv(r.outstanding, r.resend_count, w, r.gone)
      /\ PosInv(w, r.gone, r.resend_pos, r.resend_psn, r.resend_max, r.psn, r.acked)
      /\ RxInv(r.rx_acked, r.head_sn, r.got, r.pending_rx)
  BY Zenon DEF Core
<1>t. /\ w \in Seq(Skb) /\ r.psn \in Int /\ r.acked \in Int /\ r.gone \in Nat
      /\ r.resend_pos \in Nat /\ r.resend_psn \in Int /\ r.resend_max \in Int
      /\ r.outstanding \in Seq(Nat) /\ r.resend_count \in Int
      /\ Len(w) \in Nat /\ DOMAIN w = 1 .. Len(w)
  BY <1>r, SMTT(40) DEF EpType
<1>1. CASE r.outstanding = <<>>
  <2>1. q = r
    BY <1>1, Zenon DEF PurgeOutstanding
  <2> HIDE DEF q
  <2> QED
    BY <1>1, <2>1, Zenon DEF Kept, q
<1>2. CASE r.outstanding # <<>>
  <2>s. sent = Sent(r.outstanding) /\ sent = Marked(w, r.gone)
    <3>1. DOMAIN r.outstanding = 1 .. Len(r.outstanding)
      BY <1>t
    <3>2. sent = Sent(r.outstanding)
      BY <3>1, Zenon DEF Resends, Sent
    <3> QED
      BY <1>r, <3>2, Zenon DEF OutInv
  <2>c. r.resend_count - Cardinality(sent) = 0
    <3>1. r.resend_count = Cardinality(sent)
      BY <1>r, <2>s, Zenon DEF OutInv
    <3> QED
      BY <1>t, <3>1
  <2>q. q = WindowReleaseCompleted(m, FALSE)
    BY <1>2, Zenon DEF PurgeOutstanding
  <2> HIDE DEF q, sent
  <2>v. /\ v \in Seq(Skb) /\ Len(v) = Len(w)
        /\ \A i \in 1 .. Len(w) : /\ v[i].psn = w[i].psn /\ v[i].flush = w[i].flush
                                  /\ ~v[i].resending
    <3>1. ASSUME NEW i \in 1 .. Len(w)
          PROVE  /\ v[i] \in Skb /\ v[i].psn = w[i].psn /\ v[i].flush = w[i].flush
                 /\ ~v[i].resending
      <4>1. w[i] \in Skb
        BY <1>t
      <4>2. v[i] = [w[i] EXCEPT !.resending = @ /\ r.gone + i \notin sent]
        BY <1>t, Zenon
      <4>3. w[i].resending => r.gone + i \in sent
        BY <2>s, Zenon DEF Marked
      <4> HIDE DEF v, w
      <4>4. v[i] \in Skb /\ v[i].psn = w[i].psn /\ v[i].flush = w[i].flush
            /\ (v[i].resending <=> w[i].resending /\ r.gone + i \notin sent)
        BY <4>1, <4>2, Zenon DEF Skb
      <4> QED
        BY <4>3, <4>4, Zenon
    <3>2. v \in [1 .. Len(w) -> Skb]
      BY <1>t, <3>1, Zenon
    <3> HIDE DEF v, w
    <3> QED
      BY <1>t, <3>1, <3>2
  <2> HIDE DEF v
  <2>m. /\ IsEp(m) /\ Kept(r, m) /\ m.rx_acked = r.rx_acked /\ m.window = v
        /\ m.gone = r.gone /\ m.resend_pos = r.resend_pos
        /\ m.resend_psn = r.resend_psn /\ m.outstanding = <<>>
        /\ m.resend_count = r.resend_count - Cardinality(sent) /\ m.ops = r.ops
    BY <1>r, Zenon DEF IsEp, Fields, Kept
  <2> HIDE DEF m, w
  <2>1. SameNumbers(w, v)
    BY <2>v, Zenon DEF SameNumbers
  <2>2. WinInv(v, r.acked, r.psn)
    BY <1>r, <1>t, <2>1, <2>v, WinSame, Zenon
  <2>3. OutInv(<<>>, 0, v, r.gone)
    BY <1>t, <2>v, OutNone, Zenon
  <2>4. PosInv(v, r.gone, r.resend_pos, r.resend_psn, r.resend_max, r.psn, r.acked)
    <3>1. \A i \in 1 .. Len(w) : v[i].resending => w[i].resending
      BY <2>v, Zenon
    <3> QED
      BY <1>r, <1>t, <2>1, <2>v, <3>1, PosSame, Zenon
  <2>5. Young(v, r.psn)
    <3>1. Young(w, r.psn)
      BY Zenon DEF w
    <3> QED
      BY <2>1, <3>1, YoungSame, Zenon
  <2>6. m.resend_count = 0 /\ <<>> \in Seq(Nat)
    BY <2>c, <2>m
  <2>7. EpType(m)
    BY <1>r, <2>6, <2>m, <2>v DEF EpType, Kept
  <2>8. Core(m)
    BY <1>r, <2>2, <2>3, <2>4, <2>6, <2>7, <2>m, Zenon DEF Core, Kept
  <2>9. Young(m.window, m.psn) /\ m.psn - 1 - m.acked <= MaxWindow
    BY <2>5, <2>m, Zenon DEF Kept
  <2>10. /\ Core(q) /\ Kept(m, q) /\ Young(q.window, q.psn) /\ q.outstanding = m.outstanding
    <3>1. Released(m, q, m.acked)
      BY <2>m, <2>q, ReleaseCompleted, Zenon
    <3> QED
      BY <2>8, <2>9, <3>1, Release, Zenon
  <2>11. Kept(r, q)
    BY <2>10, <2>m, Zenon DEF Kept
  <2> QED
    BY <2>10, <2>11, <2>m, Zenon DEF q
<1> QED
  BY <1>1, <1>2, Zenon

\* uct_ud_ep_purge: nothing is left in the window.
LEMMA PurgeStep ==
    ASSUME NEW r, Core(r), Young(r.window, r.psn), r.psn - 1 - r.acked <= MaxWindow
    PROVE  LET q == Purge(r)
           IN  /\ Core(q) /\ q.psn = r.psn /\ q.acked = r.psn - 1 /\ q.window = <<>>
               /\ q.head_sn = r.head_sn /\ q.state = r.state
<1> DEFINE q == Purge(r)
           d == ResetMaxPsn(DispatchAsyncComps(r))
           o == PurgeOutstanding(d)
           a == [o EXCEPT !.ops = {}, !.acked = r.psn - 1]
<1>r. /\ IsEp(r) /\ EpType(r) /\ r.psn \in Int /\ r.acked \in Int
      /\ MaxWindow \in Nat
  BY HalfFacts, Zenon DEF Core, EpType
<1>d. /\ IsEp(d) /\ d.psn = r.psn /\ d.acked = r.acked /\ d.max_psn = r.psn + r.cwnd
      /\ d.cwnd = r.cwnd /\ d.resend_max = r.resend_max /\ d.state = r.state
      /\ d.head_sn = r.head_sn /\ d.got = r.got /\ d.pending_rx = r.pending_rx
      /\ d.rx_acked = r.rx_acked /\ d.window = r.window
      /\ d.gone = r.gone /\ d.resend_pos = r.resend_pos
      /\ d.resend_psn = r.resend_psn /\ d.outstanding = r.outstanding
      /\ d.resend_count = r.resend_count /\ d.ops = r.ops
  BY <1>r, ZenonT(40) DEF IsEp, Fields, ResetMaxPsn, DispatchAsyncComps
<1>q. q = WindowRelease(a, a.acked, FALSE, FALSE, FALSE)
  BY Zenon DEF Purge
<1> HIDE DEF d, q
<1>1. Core(d)
  <2>1. d.max_psn \in Int
    BY <1>d, <1>r, HalfFacts, SMTT(40) DEF EpType
  <2>2. EpType(d)
    BY <1>d, <1>r, <2>1, Zenon DEF EpType
  <2> QED
    BY <1>d, <2>2, Zenon DEF Core
<1>2. /\ Core(o) /\ Kept(d, o) /\ Young(o.window, o.psn) /\ o.outstanding = <<>>
  BY <1>1, <1>d, PurgeOutstandingStep, Zenon
<1> HIDE DEF o
<1>o. /\ IsEp(o) /\ EpType(o) /\ WinInv(o.window, o.acked, o.psn)
      /\ OutInv(o.outstanding, o.resend_count, o.window, o.gone)
      /\ PosInv(o.window, o.gone, o.resend_pos, o.resend_psn, o.resend_max, o.psn, o.acked)
      /\ RxInv(o.rx_acked, o.head_sn, o.got, o.pending_rx)
      /\ o.psn = r.psn /\ o.head_sn = r.head_sn /\ o.state = r.state
  BY <1>2, <1>d, Zenon DEF Core, Kept
<1>t. /\ o.acked \in Int /\ o.gone \in Nat /\ o.psn \in Int
      /\ o.resend_pos \in Nat /\ o.resend_psn \in Int /\ o.resend_max \in Int
  BY <1>o, Zenon DEF EpType
<1>a. /\ IsEp(a) /\ a.psn = o.psn /\ a.acked = r.psn - 1 /\ a.max_psn = o.max_psn
      /\ a.cwnd = o.cwnd /\ a.resend_max = o.resend_max /\ a.state = o.state
      /\ a.head_sn = o.head_sn /\ a.got = o.got /\ a.pending_rx = o.pending_rx
      /\ a.rx_acked = o.rx_acked /\ a.window = o.window
      /\ a.gone = o.gone /\ a.resend_pos = o.resend_pos
      /\ a.resend_psn = o.resend_psn /\ a.outstanding = o.outstanding
      /\ a.resend_count = o.resend_count /\ a.ops = {}
  BY <1>o, Zenon DEF IsEp, Fields
<1> HIDE DEF a
<1>3. WinInv(o.window, o.psn - 1, o.psn)
  BY <1>o, <1>t, WinCancel, Zenon
<1>4. PosInv(o.window, o.gone, o.resend_pos, o.resend_psn, o.resend_max, o.psn, o.psn - 1)
  BY <1>o, <1>t, PosCancel, Zenon
<1>5. EpType(a)
  <2>1. a.acked \in Int /\ a.ops \subseteq CtlOps
    BY <1>a, <1>r
  <2> QED
    BY <1>a, <1>o, <2>1, Zenon DEF EpType
<1>6. Core(a)
  BY <1>3, <1>4, <1>5, <1>a, <1>o DEF Core
<1>7. /\ Young(a.window, a.psn) /\ a.psn - 1 - a.acked <= MaxWindow
      /\ a.resend_max <= a.acked /\ a.acked = a.psn - 1 /\ a.outstanding = <<>>
  <2>1. o.resend_max < o.psn
    BY <1>o, Zenon DEF PosInv, PosAt
  <2> QED
    BY <1>2, <1>a, <1>o, <1>r, <1>t, <2>1
<1>8. Core(q) /\ Kept(a, q) /\ q.window = <<>>
  <2>1. Released(a, q, a.acked)
    BY <1>7, <1>a, <1>q, ReleasePurged, Zenon
  <2> QED
    BY <1>6, <1>7, <2>1, Release, Zenon
<1> QED
  BY <1>8, <1>a, <1>o, Zenon DEF Kept, q

=============================================================================
