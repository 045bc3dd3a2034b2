----------------------------- MODULE UdEpProofs -----------------------------
(***************************************************************************)
(* Two endpoints of UdEp and the packets between them, for any number of   *)
(* messages, any window and any loss, duplication and reordering: messages *)
(* are delivered once and in order, what is acknowledged was received, and *)
(* a flush completes after what it waits for.                              *)
(***************************************************************************)
EXTENDS UdEpSteps

-----------------------------------------------------------------------------
(* Two endpoints and the network *)

\* There are two endpoints.
LEMMA PeerFacts ==
    ASSUME NEW e \in Ep
    PROVE  /\ Peer(e) \in Ep /\ Peer(e) # e /\ Peer(Peer(e)) = e
           /\ \A f \in Ep : f = e \/ f = Peer(e)
<1>1. PICK x \in Ep, y \in Ep : x # y /\ Ep = {x, y}
  BY UdEpAssumption, Zenon
<1>2. \A f \in Ep : Peer(f) \in Ep /\ Peer(f) # f
  BY <1>1, Zenon DEF Peer
<1> QED
  BY <1>1, <1>2, Zenon

\* One endpoint makes a step and sends packets.
LEMMA StepOK ==
    ASSUME UdInv, NEW e \in Ep, NEW x, Update(e, x), EpInv(x),
           ep[e].psn <= x.psn, ep[e].head_sn <= x.head_sn,
           x.psn <= FirstPsn + MaxMsg[e],
           LinkInv(x, ep[Peer(e)]), LinkInv(ep[Peer(e)], x),
           \A p \in net' : p \in net \/ (p.dst = Peer(e) /\ PacketInv(p, x))
    PROVE  UdInv'
<1>p. /\ Peer(e) \in Ep /\ Peer(e) # e /\ Peer(Peer(e)) = e
      /\ \A f \in Ep : f = e \/ f = Peer(e)
  BY PeerFacts, Zenon
<1>e. ep' = [ep EXCEPT ![e] = x] /\ ep = [f \in Ep |-> ep[f]]
  BY Zenon DEF Update, UdInv
<1>1. ep' = [f \in Ep |-> ep'[f]] /\ ep'[e] = x /\ ep'[Peer(e)] = ep[Peer(e)]
  BY <1>e, <1>p, Zenon
<1>2. ASSUME NEW f \in Ep
      PROVE  /\ EpInv(ep'[f]) /\ LinkInv(ep'[f], ep'[Peer(f)])
             /\ ep'[f].psn <= FirstPsn + MaxMsg[f]
  <2>1. CASE f = e
    BY <1>1, <2>1, Zenon
  <2>2. CASE f = Peer(e)
    BY <1>1, <1>p, <2>2, Zenon DEF UdInv
  <2> QED
    BY <1>p, <2>1, <2>2, Zenon
<1>t. /\ ep[e].psn \in Int /\ ep[e].head_sn \in Int /\ x.psn \in Int /\ x.head_sn \in Int
  BY Zenon DEF UdInv, EpInv, Core, EpType
<1>3. ASSUME NEW p \in net' PROVE PacketInv(p, ep'[Peer(p.dst)])
  <2>1. CASE p \in net
    <3>1. PacketInv(p, ep[Peer(p.dst)]) /\ p.dst \in Ep /\ p.psn \in Int /\ p.ack \in Int
      BY <2>1, Zenon DEF UdInv, PacketInv, Packet
    <3>2. CASE p.dst = e
      BY <1>1, <3>1, <3>2, Zenon
    <3>3. CASE p.dst = Peer(e)
      <4>1. PacketInv(p, ep[e])
        BY <1>p, <3>1, <3>3, Zenon
      <4>2. PacketInv(p, x)
        BY <1>t, <3>1, <4>1 DEF PacketInv
      <4> QED
        BY <1>1, <1>p, <3>3, <4>2, Zenon
    <3> QED
      BY <1>p, <3>1, <3>2, <3>3, Zenon
  <2>2. CASE p.dst = Peer(e) /\ PacketInv(p, x)
    BY <1>1, <1>p, <2>2, Zenon
  <2> QED
    BY <2>1, <2>2, Zenon
<1> QED
  BY <1>1, <1>2, <1>3, Zenon DEF UdInv

\* Likewise for a step that neither sends nor accepts a message.
LEMMA QuietStep ==
    ASSUME UdInv, NEW e \in Ep, NEW x, Update(e, x), EpInv(x),
           x.psn = ep[e].psn, x.head_sn = ep[e].head_sn,
           x.state = "open" => ep[e].state = "open" /\ x.acked = ep[e].acked,
           \A p \in net' : p \in net \/ (p.dst = Peer(e) /\ PacketInv(p, x))
    PROVE  UdInv'
<1>p. Peer(e) \in Ep /\ Peer(Peer(e)) = e
  BY PeerFacts, Zenon
<1>1. /\ LinkInv(ep[e], ep[Peer(e)]) /\ LinkInv(ep[Peer(e)], ep[e])
      /\ ep[e].psn <= FirstPsn + MaxMsg[e] /\ ep[e].psn \in Int /\ ep[e].head_sn \in Int
  BY <1>p, Zenon DEF UdInv, EpInv, Core, EpType
<1>2. LinkInv(x, ep[Peer(e)]) /\ LinkInv(ep[Peer(e)], x)
  BY <1>1, Zenon DEF LinkInv
<1>3. ep[e].psn <= x.psn /\ ep[e].head_sn <= x.head_sn /\ x.psn <= FirstPsn + MaxMsg[e]
  BY <1>1
<1> QED
  BY <1>2, <1>3, StepOK, Zenon

\* A packet without payload.
LEMMA AckPacketOK ==
    ASSUME NEW e \in Ep, NEW r, Core(r), NEW x, x.head_sn = r.head_sn
    PROVE  LET p == AckPacket(e, r) IN p.dst = Peer(e) /\ PacketInv(p, x)
<1> DEFINE p == AckPacket(e, r)
<1>1. Peer(e) \in Ep
  BY PeerFacts, Zenon
<1>2. r.psn \in Int /\ r.head_sn \in Int /\ r.rx_acked \in Int /\ FirstPsn \in Int
  BY HalfFacts DEF Core, EpType
<1>3. p \in Packet /\ p.dst = Peer(e) /\ p.ack = r.head_sn /\ ~p.am
  BY <1>1, <1>2 DEF AckPacket, Packet
<1>4. FirstPsn - 1 <= r.head_sn
  BY <1>2 DEF Core, RxInv
<1> HIDE DEF p
<1>5. PacketInv(p, x)
  BY <1>2, <1>3, <1>4 DEF PacketInv
<1> QED
  BY <1>3, <1>5, Zenon DEF p

\* The acknowledgement request that a flush sends.
LEMMA AckReqPacketsOK ==
    ASSUME NEW e \in Ep, NEW r, Core(r), NEW x, x.head_sn = r.head_sn,
           NEW p \in AckReqPackets(e, r)
    PROVE  p.dst = Peer(e) /\ PacketInv(p, x)
<1> DEFINE a == [r EXCEPT !.ops = {"ACK_REQ"}]
<1>1. p = AckPacket(e, a)
  BY Zenon DEF AckReqPackets
<1>r. IsEp(r)
  BY Zenon DEF Core
<1>2. /\ IsEp(a) /\ Kept(r, a) /\ a.rx_acked = r.rx_acked
      /\ a.window = r.window /\ a.gone = r.gone /\ a.resend_pos = r.resend_pos
      /\ a.resend_psn = r.resend_psn /\ a.outstanding = r.outstanding
      /\ a.resend_count = r.resend_count /\ a.ops = {"ACK_REQ"}
  BY <1>r, Zenon DEF IsEp, Fields, Kept
<1> HIDE DEF a
<1>3. a.ops \subseteq CtlOps
  BY <1>2, Zenon DEF CtlOps
<1>4. Core(a)
  BY <1>2, <1>3, OpsStep, Zenon
<1>5. x.head_sn = a.head_sn
  BY <1>2, Zenon DEF Kept
<1> QED
  BY <1>1, <1>4, <1>5, AckPacketOK, Zenon

\* A message.
LEMMA DataOK ==
    ASSUME NEW e \in Ep, NEW x, NEW skb, NEW ack \in Int, NEW ask \in BOOLEAN,
           skb.psn \in Int, FirstPsn - 1 <= skb.psn, skb.psn < x.psn,
           FirstPsn - 1 <= ack, ack <= x.head_sn
    PROVE  LET p == Data(e, skb, ack, ask) IN p.dst = Peer(e) /\ PacketInv(p, x)
<1> DEFINE p == Data(e, skb, ack, ask)
<1>1. Peer(e) \in Ep
  BY PeerFacts, Zenon
<1>2. /\ p \in Packet /\ p.dst = Peer(e) /\ p.ack = ack /\ p.psn = skb.psn
  BY <1>1, Zenon DEF Data, Packet
<1> HIDE DEF p
<1>3. PacketInv(p, x)
  BY <1>2, Zenon DEF PacketInv
<1> QED
  BY <1>2, <1>3, Zenon DEF p

\* All that was accepted, in the order in which the user gets it.
LEMMA Joined ==
    ASSUME NEW rx_acked \in Int, NEW head_sn \in Int,
           NEW got \in Seq(Int), NEW pending_rx \in Seq(Int),
           RxInv(rx_acked, head_sn, got, pending_rx)
    PROVE  LET all == got \o pending_rx
           IN  /\ all \in Seq(Int) /\ Len(all) = head_sn - FirstPsn + 1
               /\ \A i \in 1 .. Len(all) : all[i] = FirstPsn + i - 1
<1> DEFINE all == got \o pending_rx
<1>1. /\ Len(got) \in Nat /\ Len(pending_rx) \in Nat /\ FirstPsn \in Int
      /\ Len(got) + Len(pending_rx) = head_sn - FirstPsn + 1
      /\ \A i \in 1 .. Len(got) : got[i] = FirstPsn + i - 1
      /\ \A i \in 1 .. Len(pending_rx) : pending_rx[i] = FirstPsn + Len(got) + i - 1
  BY HalfFacts DEF RxInv
<1>2. /\ all \in Seq(Int) /\ Len(all) = Len(got) + Len(pending_rx)
      /\ \A i \in 1 .. Len(all) :
             all[i] = IF i <= Len(got) THEN got[i] ELSE pending_rx[i - Len(got)]
  OBVIOUS
<1> HIDE DEF all
<1>3. ASSUME NEW i \in 1 .. Len(all) PROVE all[i] = FirstPsn + i - 1
  <2>1. CASE i <= Len(got)
    <3>1. i \in 1 .. Len(got)
      BY <1>1, <2>1
    <3>2. all[i] = got[i]
      BY <1>2, <2>1, Zenon
    <3> QED
      BY <1>1, <3>1, <3>2, Zenon
  <2>2. CASE ~(i <= Len(got))
    <3>1. i - Len(got) \in 1 .. Len(pending_rx)
      BY <1>1, <1>2, <2>2
    <3>2. all[i] = FirstPsn + Len(got) + (i - Len(got)) - 1
      BY <1>1, <1>2, <2>2, <3>1, Zenon
    <3> QED
      BY <1>1, <3>2
  <2> QED
    BY <2>1, <2>2, Zenon
<1> QED
  BY <1>1, <1>2, <1>3, Zenon DEF all

\* The main thread gets all that waits for it.
LEMMA RxDispatched ==
    ASSUME NEW rx_acked \in Int, NEW head_sn \in Int,
           NEW got \in Seq(Int), NEW pending_rx \in Seq(Int),
           RxInv(rx_acked, head_sn, got, pending_rx)
    PROVE  RxInv(rx_acked, head_sn, got \o pending_rx, <<>>)
<1> DEFINE all == got \o pending_rx
<1>1. /\ all \in Seq(Int) /\ Len(all) = head_sn - FirstPsn + 1
      /\ \A i \in 1 .. Len(all) : all[i] = FirstPsn + i - 1
  BY Joined, ZenonT(40)
<1>2. Len(<<>>) = 0 /\ 1 .. Len(<<>>) = {} /\ FirstPsn \in Int
  BY HalfFacts
<1> HIDE DEF all
<1>3. Len(all) + 0 = head_sn - FirstPsn + 1
  BY <1>1, <1>2
<1>4. FirstPsn - 1 <= rx_acked /\ rx_acked <= head_sn
  BY Zenon DEF RxInv
<1> QED
  BY <1>1, <1>2, <1>3, <1>4, Zenon DEF RxInv, all

\* The endpoint that makes a step, and its peer.
LEMMA LocalFacts ==
    ASSUME UdInv, NothingIsOld, NEW e \in Ep
    PROVE  LET r == ep[e]
               q == ep[Peer(e)]
           IN  /\ EpInv(r) /\ Core(r) /\ Young(r.window, r.psn)
               /\ "RESEND" \in r.ops => r.psn - r.resend_max < Half
               /\ LinkInv(r, q) /\ LinkInv(q, r)
               /\ r.psn \in Int /\ r.acked \in Int /\ r.head_sn \in Int /\ r.rx_acked \in Int
               /\ q.psn \in Int /\ q.acked \in Int /\ q.head_sn \in Int
               /\ FirstPsn - 1 <= r.rx_acked /\ r.rx_acked <= r.head_sn
               /\ r.psn <= FirstPsn + MaxMsg[e] /\ MaxMsg[e] \in Nat
               /\ FirstPsn \in Int /\ MaxWindow \in Nat
<1>p. Peer(e) \in Ep /\ Peer(Peer(e)) = e
  BY PeerFacts, Zenon
<1>1. /\ EpInv(ep[e]) /\ EpInv(ep[Peer(e)])
      /\ LinkInv(ep[e], ep[Peer(e)]) /\ LinkInv(ep[Peer(e)], ep[e])
      /\ ep[e].psn <= FirstPsn + MaxMsg[e]
  BY <1>p, Zenon DEF UdInv
<1>2. /\ Young(ep[e].window, ep[e].psn)
      /\ "RESEND" \in ep[e].ops => ep[e].psn - ep[e].resend_max < Half
  BY Zenon DEF NothingIsOld
<1>3. /\ Core(ep[e]) /\ EpType(ep[e]) /\ EpType(ep[Peer(e)])
      /\ RxInv(ep[e].rx_acked, ep[e].head_sn, ep[e].got, ep[e].pending_rx)
  BY <1>1, Zenon DEF EpInv, Core
<1>4. MaxMsg[e] \in Nat /\ FirstPsn \in Int /\ MaxWindow \in Nat
  BY UdEpAssumption
<1>5. /\ ep[e].psn \in Int /\ ep[e].acked \in Int /\ ep[e].head_sn \in Int /\ ep[e].rx_acked \in Int
      /\ ep[Peer(e)].psn \in Int /\ ep[Peer(e)].acked \in Int /\ ep[Peer(e)].head_sn \in Int
  BY <1>3, Zenon DEF EpType
<1>6. FirstPsn - 1 <= ep[e].rx_acked /\ ep[e].rx_acked <= ep[e].head_sn
  BY <1>3, Zenon DEF RxInv
<1> QED
  BY <1>1, <1>2, <1>3, <1>4, <1>5, <1>6, Zenon

-----------------------------------------------------------------------------
(* The steps *)

\* Every step keeps the invariant.
LEMMA SendKeeps ==
    ASSUME UdInv, NothingIsOld, NEW e \in Ep, NEW kind \in SendKinds, Send(e, kind)
    PROVE  UdInv'
<1> DEFINE r == ep[e]
           skb == [psn |-> r.psn, comp |-> kind.comp, big |-> kind.big,
                   flush |-> FALSE, ack_req |-> FALSE, resending |-> FALSE]
           x == [CompleteTxSkb(r, skb) EXCEPT !.rx_acked = r.head_sn,
                                              !.ops = @ \ {"ACK", "ACK_REQ"}]
<1>l. /\ EpInv(r) /\ LinkInv(r, ep[Peer(e)]) /\ LinkInv(ep[Peer(e)], r)
      /\ r.psn \in Int /\ r.acked \in Int /\ r.head_sn \in Int /\ r.rx_acked \in Int
      /\ ep[Peer(e)].psn \in Int /\ ep[Peer(e)].acked \in Int /\ ep[Peer(e)].head_sn \in Int
      /\ FirstPsn - 1 <= r.rx_acked /\ r.rx_acked <= r.head_sn
      /\ MaxMsg[e] \in Nat /\ FirstPsn \in Int /\ MaxWindow \in Nat
  BY LocalFacts, Zenon
<1>a. /\ r.state = "open" /\ ~NoWindow(r) /\ r.psn < FirstPsn + MaxMsg[e] /\ Update(e, x)
      /\ net' = net \cup {Data(e, skb, r.head_sn, ReqAck(r) \/ kind.comp)}
  BY ZenonT(40) DEF Send, Transmit
<1>k. kind \in [comp : BOOLEAN, big : BOOLEAN]
  BY UdEpAssumption, ZenonT(40)
<1>1. /\ EpInv(x) /\ x.psn = r.psn + 1 /\ x.psn - 1 - r.acked <= MaxWindow
      /\ x.acked = r.acked /\ x.head_sn = r.head_sn /\ x.state = "open"
  BY <1>a, <1>k, <1>l, SendStep, Zenon
<1>2. skb.psn = r.psn
  BY Zenon
<1> HIDE DEF x, skb, r
<1>3. LinkInv(x, ep[Peer(e)])
  BY <1>1, <1>a, <1>l, Zenon DEF LinkInv
<1>4. LinkInv(ep[Peer(e)], x)
  BY <1>1, <1>a, <1>l DEF LinkInv
<1>5. /\ r.psn <= x.psn /\ r.head_sn <= x.head_sn /\ x.psn <= FirstPsn + MaxMsg[e]
  BY <1>1, <1>a, <1>l
<1>6. \A p \in net' : p \in net \/ (p.dst = Peer(e) /\ PacketInv(p, x))
  <2>1. /\ skb.psn \in Int /\ FirstPsn - 1 <= skb.psn /\ skb.psn < x.psn
        /\ FirstPsn - 1 <= r.head_sn /\ r.head_sn <= x.head_sn
    <3>1. FirstPsn - 1 <= r.psn
      BY <1>l DEF EpInv, Core, WinInv
    <3> QED
      BY <1>1, <1>2, <1>l, <3>1
  <2> DEFINE ask == ReqAck(r) \/ kind.comp
  <2>2. ask \in BOOLEAN /\ net' = net \cup {Data(e, skb, r.head_sn, ask)}
    BY <1>a, Zenon
  <2> HIDE DEF ask
  <2>3. /\ Data(e, skb, r.head_sn, ask).dst = Peer(e)
        /\ PacketInv(Data(e, skb, r.head_sn, ask), x)
    BY <1>l, <2>1, <2>2, DataOK, ZenonT(40)
  <2> QED
    BY <2>2, <2>3, Zenon
<1> QED
  BY <1>1, <1>3, <1>4, <1>5, <1>6, <1>a, StepOK, Zenon DEF r

\* Control operations are carried out.
LEMMA CtlKeeps ==
    ASSUME UdInv, NothingIsOld, NEW e \in Ep, DoPendingCtl(e)
    PROVE  UdInv'
<1> DEFINE r == ep[e]
<1>l. /\ EpInv(r) /\ Core(r) /\ Young(r.window, r.psn)
      /\ "RESEND" \in r.ops => r.psn - r.resend_max < Half
      /\ r.psn \in Int /\ r.acked \in Int /\ r.head_sn \in Int /\ r.rx_acked \in Int
      /\ FirstPsn - 1 <= r.rx_acked /\ r.rx_acked <= r.head_sn
      /\ FirstPsn \in Int
  BY LocalFacts, Zenon
<1>1. CASE "RESEND" \in r.ops /\ Resend(e)
  <2> DEFINE i == ResendIndex(r)
             skb == r.window[i]
             last == SnEq(skb.psn, r.resend_max)
             next == [r EXCEPT !.resend_pos = r.gone + i]
             sent == [next EXCEPT !.window[i].resending = TRUE,
                                  !.resend_psn = IF last THEN r.resend_max + 1 ELSE skb.psn,
                                  !.outstanding = Append(@, r.gone + i),
                                  !.resend_count = @ + 1]
             x == IF last THEN ResendEnd(sent) ELSE sent
  <2>1. CASE ResendStops(r) /\ Update(e, ResendEnd(r)) /\ UNCHANGED net
    <3> DEFINE y == ResendEnd(r)
    <3>1. IsEp(r) /\ r.ops \subseteq CtlOps
      BY <1>l, Zenon DEF Core, EpType
    <3>2. /\ IsEp(y) /\ Kept(r, y) /\ y.rx_acked = r.rx_acked
          /\ y.window = r.window /\ y.gone = r.gone /\ y.resend_pos = r.resend_pos
          /\ y.resend_psn = r.resend_psn /\ y.outstanding = r.outstanding
          /\ y.resend_count = r.resend_count /\ y.ops = r.ops \ {"RESEND"}
      BY <3>1, Zenon DEF IsEp, Fields, Kept, ResendEnd
    <3> HIDE DEF y, r
    <3>3. y.ops \subseteq CtlOps /\ ("RESEND" \in y.ops => "RESEND" \in r.ops)
      BY <3>1, <3>2, Zenon
    <3>4. Core(y) /\ StInv(y) /\ ResendInv(y)
      BY <1>l, <3>2, <3>3, OpsStep, Zenon DEF EpInv
    <3>5. CancelInv(y)
      BY <1>l, <3>2, Zenon DEF EpInv, CancelInv, Kept
    <3>6. EpInv(y)
      BY <3>4, <3>5, Zenon DEF EpInv
    <3> QED
      BY <2>1, <3>2, <3>6, QuietStep, Zenon DEF Kept, r, y
  <2>2. CASE ~ResendStops(r) /\ (skb.resending \/ skb.flush) /\ Update(e, next) /\ UNCHANGED net
    <3>1. EpInv(next) /\ Kept(r, next)
      BY <1>1, <1>l, <2>2, ResendSkip, Zenon
    <3> HIDE DEF next
    <3> QED
      BY <2>2, <3>1, QuietStep, Zenon DEF Kept
  <2>3. CASE /\ ~ResendStops(r) /\ ~(skb.resending \/ skb.flush) /\ Update(e, x)
             /\ Transmit({Data(e, skb, r.rx_acked,
                               Wrap(skb.psn) % 4 = 0 \/ SnEq(skb.psn, r.acked + 1))})
    <3>1. EpInv(x) /\ Kept(r, x)
      BY <1>1, <1>l, <2>3, ResendSend, Zenon
    <3>2. skb.psn \in Int /\ FirstPsn - 1 <= skb.psn /\ skb.psn < r.psn
      <4>1. i \in 1 .. Len(r.window) /\ skb.psn \in Int
        BY <1>1, <1>l, <2>3, ResendFacts, Zenon
      <4> QED
        BY <1>l, <4>1, Zenon DEF Core, WinInv
    <3> HIDE DEF x, skb, r
    <3>3. x.psn = r.psn /\ x.head_sn = r.head_sn /\ x.state = r.state /\ x.acked = r.acked
      BY <3>1, Zenon DEF Kept
    <3>4. \A p \in net' : p \in net \/ (p.dst = Peer(e) /\ PacketInv(p, x))
      <4> DEFINE ask == Wrap(skb.psn) % 4 = 0 \/ SnEq(skb.psn, r.acked + 1)
      <4>1. ask \in BOOLEAN
        BY Zenon
      <4>2. net' = net \cup {Data(e, skb, r.rx_acked, ask)}
        BY <2>3, Zenon DEF Transmit
      <4> HIDE DEF ask
      <4> QED
        BY <1>l, <3>2, <3>3, <4>1, <4>2, DataOK
    <3> QED
      BY <2>3, <3>1, <3>3, <3>4, QuietStep, Zenon DEF r
  <2> QED
    BY <1>1, <2>1, <2>2, <2>3, Zenon DEF Resend
<1>2. CASE Update(e, SendAck(r)) /\ Transmit({AckPacket(e, r)})
  <2> DEFINE x == SendAck(r)
  <2>1. /\ Core(x) /\ Kept(r, x) /\ StInv(x) = StInv(r) /\ x.window = r.window
        /\ ResendInv(r) => ResendInv(x)
        /\ "ACK_REQ" \in r.ops \/ r.outstanding # <<>> => x.outstanding # <<>>
    BY <1>l, SendAckStep, Zenon
  <2> HIDE DEF x
  <2>2. EpInv(x)
    BY <1>l, <2>1, Zenon DEF EpInv, CancelInv, Kept
  <2>3. x.psn = r.psn /\ x.head_sn = r.head_sn /\ x.state = r.state /\ x.acked = r.acked
    BY <2>1, Zenon DEF Kept
  <2>4. \A p \in net' : p \in net \/ (p.dst = Peer(e) /\ PacketInv(p, x))
    BY <1>2, <1>l, <2>3, AckPacketOK, Zenon DEF Transmit
  <2> QED
    BY <1>2, <2>2, <2>3, <2>4, QuietStep, Zenon DEF x
<1> QED
  BY <1>1, <1>2, Zenon DEF DoPendingCtl

\* A packet is received.
LEMMA ReceiveKeeps ==
    ASSUME UdInv, NothingIsOld, NEW e \in Ep, NEW p \in net, NEW async \in Modes,
           Receive(e, p, async)
    PROVE  UdInv'
<1> DEFINE r == ep[e]
           q == ep[Peer(e)]
<1>l. /\ EpInv(r) /\ Young(r.window, r.psn) /\ LinkInv(r, q) /\ LinkInv(q, r)
      /\ r.psn \in Int /\ r.head_sn \in Int
      /\ q.psn \in Int /\ q.acked \in Int /\ q.head_sn \in Int
      /\ r.psn <= FirstPsn + MaxMsg[e]
  BY LocalFacts, Zenon
<1>a. /\ p.dst = e /\ CanPoll(r, async) /\ net' \subseteq net
      /\ Update(e, IF r.state = "closed" THEN r ELSE ProcessRx(r, p, async))
  BY Zenon DEF Receive
<1>p. /\ PacketInv(p, q) /\ r.acked - p.ack < Half
      /\ p.am => r.head_sn + 1 - p.psn < Half
  BY <1>a, Zenon DEF UdInv, NothingIsOld
<1>m. async \in BOOLEAN /\ (async \/ r.pending_rx = <<>>)
  BY <1>a, UdEpAssumption, Zenon DEF CanPoll
<1>1. CASE r.state = "closed"
  <2>1. Update(e, r)
    BY <1>1, <1>a, Zenon
  <2> QED
    BY <1>a, <1>l, <2>1, QuietStep, Zenon
<1>2. CASE r.state # "closed"
  <2> DEFINE x == ProcessRx(r, p, async)
  <2>1. Update(e, x)
    BY <1>2, <1>a, Zenon
  <2>2. /\ EpInv(x) /\ x.psn = r.psn /\ r.head_sn <= x.head_sn
        /\ LinkInv(x, q) /\ LinkInv(q, x)
    BY <1>l, <1>m, <1>p, RxStep
  <2> HIDE DEF x
  <2>3. r.psn <= x.psn /\ x.psn <= FirstPsn + MaxMsg[e]
    BY <1>l, <2>2
  <2>4. \A z \in net' : z \in net \/ (z.dst = Peer(e) /\ PacketInv(z, x))
    BY <1>a, Zenon
  <2> QED
    BY <2>1, <2>2, <2>3, <2>4, StepOK, Zenon
<1> QED
  BY <1>1, <1>2, Zenon

\* A control packet is completed; the main thread dispatches; the timer expires.
LEMMA LocalKeeps ==
    ASSUME UdInv, NothingIsOld, NEW e \in Ep,
           \/ \E async \in Modes : SendCompletion(e, async)
           \/ Dispatch(e)
           \/ \E age \in {"fresh", "tick", "late"}, dead \in BOOLEAN : Timer(e, age, dead)
    PROVE  UdInv'
<1> DEFINE r == ep[e]
<1>l. /\ EpInv(r) /\ Core(r) /\ Young(r.window, r.psn)
      /\ r.psn \in Int /\ r.acked \in Int /\ r.head_sn \in Int
  BY LocalFacts, Zenon
<1>1. ASSUME NEW async \in Modes, SendCompletion(e, async) PROVE UdInv'
  <2> DEFINE x == CtlSkbComplete(r, async)
  <2>1. /\ r.outstanding # <<>> /\ Update(e, x) /\ UNCHANGED net /\ async \in BOOLEAN
    BY <1>1, UdEpAssumption, Zenon DEF SendCompletion
  <2>2. EpInv(x) /\ Kept(r, x)
    BY <1>l, <2>1, CompleteStep, Zenon
  <2> HIDE DEF x
  <2> QED
    BY <2>1, <2>2, QuietStep, Zenon DEF Kept
<1>2. ASSUME Dispatch(e) PROVE UdInv'
  <2> DEFINE x == [DispatchAsyncComps(r) EXCEPT !.got = @ \o r.pending_rx, !.pending_rx = <<>>]
  <2>1. Update(e, x) /\ UNCHANGED net
    BY <1>2, ZenonT(40) DEF Dispatch
  <2>r. /\ IsEp(r) /\ EpType(r) /\ RxInv(r.rx_acked, r.head_sn, r.got, r.pending_rx)
        /\ r.got \in Seq(Int) /\ r.pending_rx \in Seq(Int) /\ FirstPsn \in Int
    BY <1>l, HalfFacts, SMTT(40) DEF Core, EpType
  <2>2. /\ IsEp(x) /\ x.psn = r.psn /\ x.acked = r.acked /\ x.max_psn = r.max_psn
        /\ x.cwnd = r.cwnd /\ x.resend_max = r.resend_max /\ x.state = r.state
        /\ x.head_sn = r.head_sn /\ x.rx_acked = r.rx_acked /\ x.window = r.window
        /\ x.gone = r.gone /\ x.resend_pos = r.resend_pos
        /\ x.resend_psn = r.resend_psn /\ x.outstanding = r.outstanding
        /\ x.resend_count = r.resend_count /\ x.ops = r.ops
        /\ x.got = r.got \o r.pending_rx /\ x.pending_rx = <<>>
    BY <2>r, ZenonT(40) DEF IsEp, Fields, DispatchAsyncComps
  <2> HIDE DEF x, r
  <2>3. x.got \in Seq(Int) /\ x.pending_rx \in Seq(Int)
    BY <2>2, <2>r
  <2>4. EpType(x)
    BY <2>2, <2>3, <2>r, Zenon DEF EpType
  <2>5. RxInv(x.rx_acked, x.head_sn, x.got, x.pending_rx)
    <3>t. r.rx_acked \in Int /\ r.head_sn \in Int
      BY <2>r, Zenon DEF EpType
    <3>1. RxInv(r.rx_acked, r.head_sn, r.got \o r.pending_rx, <<>>)
      BY <2>r, <3>t, RxDispatched, Zenon
    <3> QED
      BY <2>2, <3>1, Zenon
  <2>6. Core(x)
    BY <1>l, <2>2, <2>4, <2>5, Zenon DEF Core
  <2>7. EpInv(x)
    BY <1>l, <2>2, <2>6, Zenon DEF EpInv, ResendInv, StInv, CancelInv
  <2> QED
    BY <2>1, <2>2, <2>7, QuietStep, ZenonT(40) DEF r
<1>3. ASSUME NEW age \in {"fresh", "tick", "late"}, NEW dead \in BOOLEAN, Timer(e, age, dead)
      PROVE  UdInv'
  <2> DEFINE x == TimedOut(r, age, dead)
  <2>1. /\ ~IsLastAckReceived(r) /\ "RESEND" \notin r.ops /\ r.resend_count = 0
        /\ Update(e, x) /\ UNCHANGED net
    BY <1>3, Zenon DEF Timer, TimedOut
  <2>2. /\ EpInv(x) /\ x.psn = r.psn /\ x.acked = r.acked
        /\ x.head_sn = r.head_sn /\ x.state = r.state
    BY <1>l, <2>1, TimerStep
  <2> HIDE DEF x
  <2> QED
    BY <2>1, <2>2, QuietStep, Zenon
<1> QED
  BY <1>1, <1>2, <1>3, Zenon

\* uct_ud_ep_flush_nolock without UCT_FLUSH_FLAG_CANCEL.
LEMMA FlushKeeps ==
    ASSUME UdInv, NothingIsOld, NEW e \in Ep, Flush(e)
    PROVE  UdInv'
<1> DEFINE r == ep[e]
           n == Len(r.window)
           ask == ~IsLastAckReceived(r) /\ ~r.window[n].ack_req
           c == AckReqDo(r)
           marked == [c EXCEPT !.window[n].ack_req = TRUE]
           dropped == [r EXCEPT !.ops = @ \ {"ACK_REQ"}]
           asked == CASE ask -> marked
                      [] IsLastAckReceived(r) -> dropped
                      [] OTHER -> r
           x == CompSkbAdd(asked)
<1>l. /\ EpInv(r) /\ Core(r) /\ IsEp(r) /\ StInv(r) /\ ResendInv(r)
      /\ r.psn \in Int /\ r.acked \in Int /\ r.window \in Seq(Skb)
      /\ r.ops \subseteq CtlOps /\ WinInv(r.window, r.acked, r.psn)
  BY LocalFacts, Zenon DEF EpInv, Core, EpType
<1>a. /\ r.state = "open" /\ Update(e, x)
      /\ net' = net \cup (IF ask THEN AckReqPackets(e, r) ELSE {})
  BY Zenon DEF Flush, Transmit
<1>1. Core(asked) /\ Kept(r, asked) /\ StInv(asked) /\ ResendInv(asked)
  <2>1. CASE ask
    <3>1. /\ Core(c) /\ Kept(r, c) /\ StInv(c) = StInv(r) /\ c.window = r.window
          /\ ResendInv(r) => ResendInv(c)
      BY <1>l, AckReqStep, Zenon
    <3>n. n \in 1 .. Len(r.window)
      <4>1. r.acked # r.psn - 1
        BY <1>l, <2>1, HalfFacts, SnExact DEF IsLastAckReceived
      <4>2. r.psn - 1 \in r.acked + 1 .. r.psn - 1
        BY <1>l, <4>1 DEF WinInv
      <4>3. 1 .. Len(r.window) # {}
        BY <1>l, <4>2, Zenon DEF WinInv
      <4> QED
        BY <1>l, <4>3, SMTT(40)
    <3>2. /\ IsEp(c) /\ EpType(c) /\ WinInv(c.window, c.acked, c.psn)
          /\ OutInv(c.outstanding, c.resend_count, c.window, c.gone)
          /\ PosInv(c.window, c.gone, c.resend_pos, c.resend_psn, c.resend_max, c.psn, c.acked)
          /\ RxInv(c.rx_acked, c.head_sn, c.got, c.pending_rx)
      BY <3>1, Zenon DEF Core
    <3> DEFINE v == [r.window EXCEPT ![n].ack_req = TRUE]
    <3>3. /\ IsEp(marked) /\ Kept(c, marked) /\ marked.window = v
          /\ marked.gone = c.gone /\ marked.resend_pos = c.resend_pos
          /\ marked.resend_psn = c.resend_psn /\ marked.outstanding = c.outstanding
          /\ marked.resend_count = c.resend_count /\ marked.ops = c.ops
          /\ marked.rx_acked = c.rx_acked
      BY <3>1, <3>2, Zenon DEF IsEp, Fields, Kept
    <3> HIDE DEF n, r
    <3>4. /\ v \in Seq(Skb) /\ Len(v) = Len(r.window)
          /\ v[n].resending = r.window[n].resending
          /\ v[n].psn = r.window[n].psn /\ v[n].flush = r.window[n].flush
          /\ \A j \in 1 .. Len(r.window) : j # n => v[j] = r.window[j]
      BY <1>l, <3>n, AskFacts, ZenonT(40)
    <3> HIDE DEF v, marked, c, n, r
    <3>5. /\ SameNumbers(r.window, v)
          /\ \A i \in 1 .. Len(r.window) : v[i].resending = r.window[i].resending
      BY <3>4, Zenon DEF SameNumbers
    <3>6. WinInv(v, c.acked, c.psn)
      BY <1>l, <3>1, <3>2, <3>4, <3>5, WinSame, Zenon
    <3>7. OutInv(c.outstanding, c.resend_count, v, c.gone)
      BY <1>l, <3>1, <3>2, <3>4, <3>5, OutSame, Zenon
    <3>t. /\ c.gone \in Nat /\ c.resend_pos \in Nat /\ c.resend_psn \in Int
          /\ c.resend_max \in Int /\ c.psn \in Int /\ c.acked \in Int
      BY <3>2, Zenon DEF EpType
    <3>8. PosInv(v, c.gone, c.resend_pos, c.resend_psn, c.resend_max, c.psn, c.acked)
      BY <1>l, <3>1, <3>2, <3>4, <3>5, <3>t, PosSame, ZenonT(40)
    <3>9. EpType(marked)
      BY <3>2, <3>3, <3>4 DEF EpType, Kept
    <3>10. Core(marked)
      BY <3>2, <3>3, <3>6, <3>7, <3>8, <3>9, Zenon DEF Core, Kept
    <3>11. Kept(r, marked)
      BY <3>1, <3>3 DEF Kept
    <3>12. ResendInv(c) /\ StInv(c)
      BY <1>l, <3>1
    <3>13. ResendInv(marked) /\ StInv(marked)
      BY <3>3, <3>12 DEF ResendInv, StInv, Kept
    <3>14. asked = marked
      BY <2>1
    <3> QED
      BY <3>10, <3>11, <3>13, <3>14, Zenon
  <2>2. CASE ~ask /\ IsLastAckReceived(r)
    <3>1. asked = dropped
      BY <2>2, Zenon
    <3>2. /\ IsEp(dropped) /\ Kept(r, dropped) /\ dropped.rx_acked = r.rx_acked
          /\ dropped.window = r.window /\ dropped.gone = r.gone
          /\ dropped.resend_pos = r.resend_pos /\ dropped.resend_psn = r.resend_psn
          /\ dropped.outstanding = r.outstanding /\ dropped.resend_count = r.resend_count
          /\ dropped.ops = r.ops \ {"ACK_REQ"}
      BY <1>l, Zenon DEF IsEp, Fields, Kept
    <3> HIDE DEF dropped, r
    <3>3. dropped.ops \subseteq CtlOps /\ ("RESEND" \in dropped.ops => "RESEND" \in r.ops)
      BY <1>l, <3>2, Zenon
    <3>4. Core(dropped) /\ StInv(dropped) /\ ResendInv(dropped)
      BY <1>l, <3>2, <3>3, OpsStep, Zenon
    <3> QED
      BY <3>1, <3>2, <3>4, Zenon
  <2>3. CASE ~ask /\ ~IsLastAckReceived(r)
    <3>1. asked = r
      BY <2>3, Zenon
    <3> HIDE DEF r
    <3> QED
      BY <1>l, <3>1, Zenon DEF Kept
  <2> QED
    BY <2>1, <2>2, <2>3, Zenon
<1> HIDE DEF asked
<1>2. /\ Core(x) /\ Kept(asked, x) /\ StInv(x) /\ ResendInv(x)
  BY <1>1, CompSkbAddStep, Zenon
<1> HIDE DEF x
<1>3. x.psn = r.psn /\ x.head_sn = r.head_sn /\ x.state = "open" /\ x.acked = r.acked
  BY <1>1, <1>2, <1>a, Zenon DEF Kept
<1>4. EpInv(x)
  BY <1>2, <1>3, Zenon DEF EpInv, CancelInv
<1>5. \A p \in net' : p \in net \/ (p.dst = Peer(e) /\ PacketInv(p, x))
  BY <1>3, <1>a, <1>l, AckReqPacketsOK, Zenon
<1> QED
  BY <1>3, <1>4, <1>5, <1>a, QuietStep, Zenon

\* uct_ud_ep_flush_nolock with UCT_FLUSH_FLAG_CANCEL.
LEMMA FlushCancelKeeps ==
    ASSUME UdInv, NothingIsOld, NEW e \in Ep, NEW busy \in BOOLEAN, FlushCancel(e, busy)
    PROVE  UdInv'
<1> DEFINE c == CancelAll(ep[e])
           idle == busy \/ ~CanTx(c) \/ FlushIsDone(c)
           s == IF idle /\ c.state # "cancelling" THEN "cancelled" ELSE "cancelling"
           r == [c EXCEPT !.state = s]
           b == AckReqDo(r)
           x == IF idle THEN r ELSE CompSkbAdd(b)
<1>l. EpInv(ep[e]) /\ Core(ep[e])
  BY LocalFacts, Zenon
<1>a. /\ Update(e, x)
      /\ net' = net \cup (IF idle THEN {} ELSE AckReqPackets(e, r))
  BY Zenon DEF FlushCancel, Transmit
<1>1. /\ Core(c) /\ c.psn = ep[e].psn /\ c.acked = ep[e].psn - 1 /\ c.window = ep[e].window
      /\ c.head_sn = ep[e].head_sn /\ c.state = ep[e].state /\ c.ops = ep[e].ops
      /\ c.outstanding = ep[e].outstanding
  BY <1>l, CancelStep
<1>s. s \in {"cancelled", "cancelling", "failed", "closed"}
  BY Zenon
<1>c. s = "cancelling" /\ idle => c.state = "cancelling"
  BY Zenon
<1> HIDE DEF c, s, idle
<1>2. /\ Core(r) /\ StInv(r) /\ ResendInv(r)
      /\ r.psn = c.psn /\ r.acked = c.acked /\ r.head_sn = c.head_sn
      /\ r.state = s /\ r.window = c.window /\ r.ops = c.ops
      /\ r.outstanding = c.outstanding
  BY <1>1, <1>s, GiveUp, ZenonT(40)
<1> HIDE DEF r
<1>3. CASE idle
  <2>1. x = r
    BY <1>3, Zenon
  <2>2. CancelInv(r)
    BY <1>1, <1>2, <1>3, <1>c, <1>l, Zenon DEF EpInv, CancelInv
  <2>3. EpInv(x)
    BY <1>2, <2>1, <2>2, Zenon DEF EpInv
  <2>4. x.psn = ep[e].psn /\ x.head_sn = ep[e].head_sn /\ x.state # "open"
    BY <1>1, <1>2, <1>s, <2>1
  <2>5. \A p \in net' : p \in net \/ (p.dst = Peer(e) /\ PacketInv(p, x))
    BY <1>3, <1>a, Zenon
  <2> HIDE DEF x
  <2> QED
    BY <1>a, <2>3, <2>4, <2>5, QuietStep, Zenon
<1>4. CASE ~idle
  <2> DEFINE y == CompSkbAdd(b)
  <2>1. x = y
    BY <1>4, Zenon
  <2>2. /\ Core(b) /\ Kept(r, b) /\ StInv(b) /\ ResendInv(b)
        /\ b.outstanding # <<>> \/ "ACK_REQ" \in b.ops
    BY <1>2, AckReqStep, Zenon
  <2> HIDE DEF b
  <2>3. /\ Core(y) /\ Kept(b, y) /\ StInv(y) /\ ResendInv(y)
        /\ y.outstanding = b.outstanding /\ y.ops = b.ops
    BY <2>2, CompSkbAddStep, Zenon
  <2> HIDE DEF y, x
  <2>4. EpInv(y)
    BY <2>2, <2>3 DEF EpInv, CancelInv
  <2>5. y.psn = ep[e].psn /\ y.head_sn = ep[e].head_sn /\ y.state # "open"
    BY <1>1, <1>2, <1>s, <2>2, <2>3, Zenon DEF Kept
  <2>6. y.head_sn = r.head_sn
    BY <2>2, <2>3 DEF Kept
  <2>7. \A p \in net' : p \in net \/ (p.dst = Peer(e) /\ PacketInv(p, y))
    BY <1>2, <1>a, <2>6, AckReqPacketsOK, Zenon
  <2> QED
    BY <1>a, <2>1, <2>4, <2>5, <2>7, QuietStep, Zenon
<1> QED
  BY <1>3, <1>4

\* An endpoint whose window was purged is given up.
LEMMA PurgedKeeps ==
    ASSUME UdInv, NEW e \in Ep, NEW r, Core(r), r.psn = ep[e].psn, r.acked = r.psn - 1,
           r.head_sn = ep[e].head_sn, r.window = <<>>,
           NEW s \in {"cancelled", "cancelling", "failed", "closed"},
           Update(e, [r EXCEPT !.state = s]),
           \A p \in net' : p \in net \/ (p.dst = Peer(e) /\ PacketInv(p, r))
    PROVE  UdInv'
<1> DEFINE x == [r EXCEPT !.state = s]
<1>1. /\ Core(x) /\ StInv(x) /\ ResendInv(x)
      /\ x.psn = r.psn /\ x.head_sn = r.head_sn /\ x.state = s /\ x.window = r.window
  BY GiveUp, ZenonT(40)
<1>r. r.psn \in Int /\ r.head_sn \in Int
  BY Zenon DEF Core, EpType
<1>2. Update(e, x)
  BY Zenon
<1> HIDE DEF x
<1>3. EpInv(x)
  BY <1>1, Zenon DEF EpInv, CancelInv
<1>4. \A p \in net' : p \in net \/ (p.dst = Peer(e) /\ PacketInv(p, x))
  BY <1>1, <1>r, Zenon DEF PacketInv
<1> QED
  BY <1>1, <1>2, <1>3, <1>4, QuietStep, Zenon

\* uct_ud_ep_disconnect, and the timeout that was deferred to the main thread.
LEMMA CloseKeeps ==
    ASSUME UdInv, NothingIsOld, NEW e \in Ep,
           (\E busy \in BOOLEAN : Disconnect(e, busy)) \/ DeferredTimeoutHandler(e)
    PROVE  UdInv'
<1>l. /\ EpInv(ep[e]) /\ Core(ep[e]) /\ Young(ep[e].window, ep[e].psn)
      /\ ep[e].psn \in Int /\ MaxWindow \in Nat
  BY LocalFacts
<1>1. ASSUME NEW busy \in BOOLEAN, Disconnect(e, busy) PROVE UdInv'
  <2> DEFINE r == CancelAll(ep[e])
             idle == busy \/ ~CanTx(r) \/ FlushIsDone(r)
             c == IF idle THEN r ELSE AckReqDo(r)
             q == Purge(c)
  <2>a. /\ Update(e, [q EXCEPT !.state = "closed"])
        /\ net' = net \cup (IF idle THEN {} ELSE AckReqPackets(e, r))
    BY <1>1, Zenon DEF Disconnect, Transmit
  <2>1. /\ Core(r) /\ r.psn = ep[e].psn /\ r.acked = ep[e].psn - 1
        /\ r.window = ep[e].window /\ r.head_sn = ep[e].head_sn
    BY <1>l, CancelStep, Zenon
  <2> HIDE DEF r, idle
  <2>2. /\ Core(c) /\ c.psn = r.psn /\ c.acked = r.acked /\ c.window = r.window
        /\ c.head_sn = r.head_sn
    <3>1. CASE idle
      BY <2>1, <3>1, Zenon
    <3>2. CASE ~idle
      <4> DEFINE d == AckReqDo(r)
      <4>1. Core(d) /\ Kept(r, d) /\ d.window = r.window
        BY <2>1, AckReqStep, Zenon
      <4>2. c = d
        BY <3>2, Zenon
      <4> HIDE DEF d, c
      <4> QED
        BY <4>1, <4>2, Zenon DEF Kept
    <3> QED
      BY <3>1, <3>2, Zenon
  <2> HIDE DEF c
  <2>3. /\ Young(c.window, c.psn) /\ c.psn - 1 - c.acked <= MaxWindow
    BY <1>l, <2>1, <2>2
  <2>4. /\ Core(q) /\ q.psn = c.psn /\ q.acked = c.psn - 1 /\ q.window = <<>>
        /\ q.head_sn = c.head_sn
    BY <2>2, <2>3, PurgeStep, Zenon
  <2> HIDE DEF q
  <2>5. \A p \in net' : p \in net \/ (p.dst = Peer(e) /\ PacketInv(p, q))
    BY <2>1, <2>2, <2>4, <2>a, AckReqPacketsOK, Zenon
  <2>6. q.psn = ep[e].psn /\ q.acked = q.psn - 1 /\ q.head_sn = ep[e].head_sn
    BY <2>1, <2>2, <2>4, Zenon
  <2> QED
    BY <2>4, <2>5, <2>6, <2>a, PurgedKeeps, Zenon
<1>2. ASSUME DeferredTimeoutHandler(e) PROVE UdInv'
  <2> DEFINE r == [ep[e] EXCEPT !.timed_out = FALSE]
             q == Purge(r)
             s == IF q.state = "open" THEN "failed" ELSE q.state
  <2>a. Update(e, [q EXCEPT !.state = s]) /\ net' = net
    BY <1>2, Zenon DEF DeferredTimeoutHandler
  <2>1. IsEp(ep[e]) /\ ep[e].ops \subseteq CtlOps /\ ep[e].acked \in Int
    BY <1>l, Zenon DEF Core, EpType
  <2>2. /\ IsEp(r) /\ Kept(ep[e], r) /\ r.rx_acked = ep[e].rx_acked
        /\ r.window = ep[e].window /\ r.gone = ep[e].gone /\ r.resend_pos = ep[e].resend_pos
        /\ r.resend_psn = ep[e].resend_psn /\ r.outstanding = ep[e].outstanding
        /\ r.resend_count = ep[e].resend_count /\ r.ops = ep[e].ops
    BY <2>1, Zenon DEF IsEp, Fields, Kept
  <2> HIDE DEF r
  <2>3. Core(r)
    BY <1>l, <2>1, <2>2, OpsStep, Zenon
  <2>4. /\ Young(r.window, r.psn) /\ r.psn - 1 - r.acked <= MaxWindow
    BY <1>l, <2>1, <2>2, Zenon DEF Kept, EpInv, StInv
  <2>5. /\ Core(q) /\ q.psn = r.psn /\ q.acked = r.psn - 1 /\ q.window = <<>>
        /\ q.head_sn = r.head_sn
    BY <2>3, <2>4, PurgeStep, Zenon
  <2> HIDE DEF q
  <2>6. s \in {"cancelled", "cancelling", "failed", "closed"}
    BY <2>5, Zenon DEF Core, EpType
  <2>7. q.psn = ep[e].psn /\ q.acked = q.psn - 1 /\ q.head_sn = ep[e].head_sn
    BY <2>2, <2>5, Zenon DEF Kept
  <2> HIDE DEF s
  <2> QED
    BY <2>5, <2>6, <2>7, <2>a, PurgedKeeps, Zenon
<1> QED
  BY <1>1, <1>2, Zenon

-----------------------------------------------------------------------------
(* The theorems *)

\* The invariant holds of two endpoints that were just connected.
LEMMA UdInit == Init => UdInv
<1> SUFFICES ASSUME Init PROVE UdInv
  BY Zenon
<1>h. /\ FirstPsn \in Nat /\ MinWindow \in Nat /\ MaxWindow \in Nat /\ Half \in Nat
      /\ 2 <= MinWindow /\ MinWindow <= MaxWindow /\ MaxWindow < Half
  BY HalfFacts, Zenon
<1> DEFINE r == ResetEp
<1>1. /\ IsEp(r) /\ r.psn = FirstPsn /\ r.acked = FirstPsn - 1
      /\ r.max_psn = FirstPsn + MinWindow /\ r.cwnd = MinWindow /\ r.window = <<>>
      /\ r.gone = 0 /\ r.ops = {} /\ r.resend_pos = 0 /\ r.resend_psn = FirstPsn
      /\ r.resend_max = FirstPsn - 1 /\ r.resend_count = 0 /\ r.outstanding = <<>>
      /\ r.head_sn = FirstPsn - 1 /\ r.rx_acked = FirstPsn - 1
      /\ r.pending_rx = <<>> /\ r.got = <<>> /\ r.state = "open"
  BY Zenon DEF ResetEp, IsEp, Fields
<1> HIDE DEF r
<1>2. EpType(r)
  BY <1>1, <1>h DEF EpType
<1>3. Len(r.window) = 0 /\ Len(r.got) = 0 /\ Len(r.pending_rx) = 0
  BY <1>1, Zenon
<1>4. WinInv(r.window, r.acked, r.psn)
  BY <1>1, <1>3, <1>h DEF WinInv
<1>5. OutInv(r.outstanding, r.resend_count, r.window, r.gone)
  <2>1. OutInv(<<>>, 0, r.window, 0)
    BY <1>3, OutNone
  <2> QED
    BY <1>1, <2>1, Zenon
<1>6. PosInv(r.window, r.gone, r.resend_pos, r.resend_psn, r.resend_max, r.psn, r.acked)
  BY <1>1, <1>3, <1>h DEF PosInv, PosAt
<1>7. RxInv(r.rx_acked, r.head_sn, r.got, r.pending_rx)
  BY <1>1, <1>3, <1>h DEF RxInv
<1>8. Core(r)
  BY <1>1, <1>2, <1>4, <1>5, <1>6, <1>7, Zenon DEF Core
<1>9. EpInv(r)
  BY <1>1, <1>8, <1>h DEF EpInv, ResendInv, StInv, CancelInv
<1>10. LinkInv(r, r)
  BY <1>1, <1>h DEF LinkInv
<1>11. ep = [e \in Ep |-> r] /\ net = {}
  BY Zenon DEF Init, r
<1>12. ASSUME NEW e \in Ep
       PROVE  /\ EpInv(ep[e]) /\ LinkInv(ep[e], ep[Peer(e)])
              /\ ep[e].psn <= FirstPsn + MaxMsg[e]
  <2>1. Peer(e) \in Ep
    BY PeerFacts, Zenon
  <2>2. ep[e] = r /\ ep[Peer(e)] = r
    BY <1>11, <2>1, Zenon
  <2>3. MaxMsg[e] \in Nat
    BY UdEpAssumption, Zenon
  <2>4. r.psn <= FirstPsn + MaxMsg[e]
    BY <1>1, <1>h, <2>3
  <2> QED
    BY <1>9, <1>10, <2>2, <2>4, Zenon
<1> QED
  BY <1>11, <1>12, Zenon DEF UdInv

\* Every step keeps it.
LEMMA UdNext == UdInv /\ NothingIsOld /\ [Next]_vars => UdInv'
<1> SUFFICES ASSUME UdInv, NothingIsOld, [Next]_vars PROVE UdInv'
  BY Zenon
<1>1. CASE UNCHANGED vars
  BY <1>1, Zenon DEF vars, UdInv
<1>2. ASSUME NEW e \in Ep, NEW kind \in SendKinds, Send(e, kind) PROVE UdInv'
  BY <1>2, SendKeeps, Zenon
<1>3. ASSUME NEW e \in Ep, DoPendingCtl(e) PROVE UdInv'
  BY <1>3, CtlKeeps, Zenon
<1>4. ASSUME NEW e \in Ep, NEW p \in net, NEW async \in Modes, Receive(e, p, async)
      PROVE  UdInv'
  BY <1>4, ReceiveKeeps, Zenon
<1>5. ASSUME NEW e \in Ep,
             \/ \E async \in Modes : SendCompletion(e, async)
             \/ Dispatch(e)
             \/ \E age \in {"fresh", "tick", "late"}, dead \in BOOLEAN : Timer(e, age, dead)
      PROVE  UdInv'
  BY <1>5, LocalKeeps, Zenon
<1>6. ASSUME NEW e \in Ep, Flush(e) PROVE UdInv'
  BY <1>6, FlushKeeps, Zenon
<1>7. ASSUME NEW e \in Ep, NEW busy \in BOOLEAN, FlushCancel(e, busy) PROVE UdInv'
  BY <1>7, FlushCancelKeeps, Zenon
<1>8. ASSUME NEW e \in Ep,
             (\E busy \in BOOLEAN : Disconnect(e, busy)) \/ DeferredTimeoutHandler(e)
      PROVE  UdInv'
  BY <1>8, CloseKeeps
<1>9. ASSUME NEW p \in net, Lose(p) PROVE UdInv'
  BY <1>9, Zenon DEF Lose, UdInv
<1> QED
  BY <1>1, <1>2, <1>3, <1>4, <1>5, <1>6, <1>7, <1>8, <1>9, Zenon DEF Next

\* What the invariant says of the endpoints.
LEMMA UdImplies ==
    ASSUME UdInv, NothingIsOld
    PROVE  /\ TypeOK /\ InOrderDelivery /\ AckedWasReceived
           /\ FlushDoneMeansReceived /\ ResendsTracked /\ CancelNeedsNoPeer
<1>l. ASSUME NEW e \in Ep
      PROVE  LET r == ep[e]
                 q == ep[Peer(e)]
             IN  /\ EpType(r) /\ WinInv(r.window, r.acked, r.psn)
                 /\ OutInv(r.outstanding, r.resend_count, r.window, r.gone)
                 /\ PosInv(r.window, r.gone, r.resend_pos, r.resend_psn, r.resend_max,
                           r.psn, r.acked)
                 /\ RxInv(r.rx_acked, r.head_sn, r.got, r.pending_rx)
                 /\ ResendInv(r) /\ StInv(r) /\ CancelInv(r)
                 /\ LinkInv(r, q) /\ LinkInv(q, r)
                 /\ q.psn \in Int /\ q.head_sn \in Int
                 /\ "RESEND" \in r.ops => r.psn - r.resend_max < Half
  BY LocalFacts, Zenon DEF EpInv, Core
<1>1. TypeOK
  <2>1. net \subseteq Packet
    BY Zenon DEF UdInv, PacketInv
  <2>2. ASSUME NEW e \in Ep
        PROVE  LET r == ep[e] IN
                 /\ {r.psn, r.acked, r.max_psn, r.head_sn, r.rx_acked,
                     r.resend_psn, r.resend_max} \subseteq Int
                 /\ r.cwnd \in MinWindow .. MaxWindow
                 /\ \A i \in DOMAIN r.window : r.window[i] \in Skb
                 /\ r.ops \subseteq CtlOps
                 /\ r.state \in {"open", "cancelled", "cancelling", "failed", "closed"}
    <3>1. EpType(ep[e])
      BY <1>l, Zenon
    <3>2. \A i \in DOMAIN ep[e].window : ep[e].window[i] \in Skb
      BY <3>1 DEF EpType
    <3> QED
      BY <3>1, <3>2, Zenon DEF EpType
  <2> QED
    BY <2>1, <2>2, Zenon DEF TypeOK
<1>2. InOrderDelivery
  <2> SUFFICES ASSUME NEW e \in Ep
               PROVE  LET all == ep[e].got \o ep[e].pending_rx
                      IN  /\ Len(all) < ep[Peer(e)].psn - FirstPsn + 1
                          /\ \A i \in DOMAIN all : all[i] = FirstPsn + i - 1
    BY Zenon DEF InOrderDelivery
  <2> DEFINE all == ep[e].got \o ep[e].pending_rx
  <2>1. /\ ep[e].rx_acked \in Int /\ ep[e].head_sn \in Int
        /\ ep[e].got \in Seq(Int) /\ ep[e].pending_rx \in Seq(Int)
    BY <1>l DEF EpType
  <2>2. /\ all \in Seq(Int) /\ Len(all) = ep[e].head_sn - FirstPsn + 1
        /\ \A i \in 1 .. Len(all) : all[i] = FirstPsn + i - 1
    <3>1. RxInv(ep[e].rx_acked, ep[e].head_sn, ep[e].got, ep[e].pending_rx)
      BY <1>l, Zenon
    <3> QED
      BY <2>1, <3>1, Joined, ZenonT(40)
  <2>3. ep[e].head_sn < ep[Peer(e)].psn /\ ep[Peer(e)].psn \in Int /\ FirstPsn \in Int
    BY <1>l, HalfFacts DEF LinkInv
  <2> HIDE DEF all
  <2>4. DOMAIN all = 1 .. Len(all)
    BY <2>2
  <2>5. Len(all) < ep[Peer(e)].psn - FirstPsn + 1
    BY <2>1, <2>2, <2>3
  <2> QED
    BY <2>2, <2>4, <2>5, Zenon DEF all
<1>3. AckedWasReceived
  BY <1>l, Zenon DEF AckedWasReceived, WinInv, LinkInv
<1>4. FlushDoneMeansReceived
  <2> SUFFICES ASSUME NEW e \in Ep, ep[e].state = "open", FlushIsDone(ep[e])
               PROVE  ep[e].psn - 1 <= ep[Peer(e)].head_sn
    BY Zenon DEF FlushDoneMeansReceived
  <2>1. /\ ep[e].psn \in Int /\ ep[e].acked \in Int /\ ep[Peer(e)].head_sn \in Int
        /\ WinInv(ep[e].window, ep[e].acked, ep[e].psn) /\ LinkInv(ep[e], ep[Peer(e)])
    BY <1>l, Zenon DEF EpType
  <2>2. Len(ep[e].window) = 0
    BY DEF FlushIsDone
  <2>3. ep[e].acked + 1 .. ep[e].psn - 1 = {}
    BY <2>1, <2>2 DEF WinInv
  <2> QED
    <3>1. ep[e].psn - 1 <= ep[e].acked
      <4> DEFINE a == ep[e].acked
                 p == ep[e].psn
      <4>1. a \in Int /\ p \in Int /\ a + 1 .. p - 1 = {}
        BY <2>1, <2>3, Zenon
      <4> HIDE DEF a, p
      <4>2. p - 1 <= a
        BY <4>1
      <4> QED
        BY <4>2, Zenon DEF a, p
    <3>2. ep[e].acked <= ep[Peer(e)].head_sn
      BY <2>1, Zenon DEF LinkInv
    <3> QED
      BY <2>1, <3>1, <3>2
<1>5. ResendsTracked
  <2> SUFFICES ASSUME NEW e \in Ep
               PROVE  LET r   == ep[e]
                          out == Resends(r)
                      IN  /\ \A j, k \in DOMAIN r.outstanding :
                               j < k /\ r.outstanding[j] # 0 => r.outstanding[j] # r.outstanding[k]
                          /\ r.resend_count = Cardinality(out)
                          /\ out = {r.gone + i : i \in {j \in DOMAIN r.window : r.window[j].resending}}
                          /\ "RESEND" \in r.ops /\ SnLt(r.acked, r.resend_max)
                               => r.resend_pos = 0 \/ r.resend_pos > r.gone
    BY Zenon DEF ResendsTracked
  <2> DEFINE r == ep[e]
  <2>1. /\ EpType(r) /\ OutInv(r.outstanding, r.resend_count, r.window, r.gone)
        /\ PosInv(r.window, r.gone, r.resend_pos, r.resend_psn, r.resend_max, r.psn, r.acked)
        /\ ResendInv(r) /\ StInv(r) /\ WinInv(r.window, r.acked, r.psn)
        /\ "RESEND" \in r.ops => r.psn - r.resend_max < Half
    BY <1>l, Zenon
  <2> HIDE DEF r
  <2>2. /\ r.outstanding \in Seq(Nat) /\ r.window \in Seq(Skb)
        /\ r.acked \in Int /\ r.resend_max \in Int /\ r.resend_psn \in Int /\ r.psn \in Int
        /\ r.gone \in Nat /\ r.resend_pos \in Nat
    BY <2>1, Zenon DEF EpType
  <2>3. DOMAIN r.outstanding = 1 .. Len(r.outstanding) /\ DOMAIN r.window = 1 .. Len(r.window)
    BY <2>2
  <2>4. Resends(r) = Sent(r.outstanding)
    BY <2>3, Zenon DEF Resends, Sent
  <2>5. /\ \A j, k \in DOMAIN r.outstanding :
             j < k /\ r.outstanding[j] # 0 => r.outstanding[j] # r.outstanding[k]
        /\ r.resend_count = Cardinality(Resends(r))
        /\ Resends(r) = Marked(r.window, r.gone)
    BY <2>1, <2>3, <2>4, Zenon DEF OutInv
  <2>6. Marked(r.window, r.gone)
          = {r.gone + i : i \in {j \in DOMAIN r.window : r.window[j].resending}}
    BY <2>3, Zenon DEF Marked
  <2>7. ASSUME "RESEND" \in r.ops, SnLt(r.acked, r.resend_max)
        PROVE  r.resend_pos = 0 \/ r.resend_pos > r.gone
    <3>1. r.acked - r.resend_max < Half /\ r.resend_max - r.acked < Half
      <4>1. /\ r.resend_max < r.psn /\ r.psn - 1 - r.acked <= MaxWindow
            /\ r.acked < r.psn /\ r.psn - r.resend_max < Half
        BY <2>1, <2>7, Zenon DEF PosInv, PosAt, StInv, WinInv
      <4>2. MaxWindow \in Nat /\ Half \in Nat /\ MaxWindow < Half
        BY HalfFacts, Zenon
      <4> QED
        BY <2>2, <4>1, <4>2, SMTT(40)
    <3>2. r.acked < r.resend_max
      BY <2>2, <2>7, <3>1, SnExact, Zenon
    <3>3. r.resend_psn <= r.resend_max
      BY <2>1, <2>7, <3>2, Zenon DEF ResendInv
    <3> QED
      BY <2>1, <2>2, <3>2, <3>3 DEF PosInv, PosAt
  <2> QED
    BY <2>5, <2>6, <2>7, Zenon DEF r
<1>6. CancelNeedsNoPeer
  <2> SUFFICES ASSUME NEW e \in Ep, ep[e].state = "cancelling", ep[e].window # <<>>
               PROVE  /\ IsLastAckReceived(ep[e])
                      /\ ep[e].outstanding # <<>> \/ "ACK_REQ" \in ep[e].ops
    BY Zenon DEF CancelNeedsNoPeer
  <2>1. ep[e].acked = ep[e].psn - 1 /\ ep[e].acked \in Int /\ ep[e].psn \in Int
    BY <1>l, Zenon DEF StInv, EpType
  <2>2. IsLastAckReceived(ep[e])
    BY <2>1, HalfFacts, SnExact DEF IsLastAckReceived
  <2>3. ep[e].outstanding # <<>> \/ "ACK_REQ" \in ep[e].ops
    BY <1>l, Zenon DEF CancelInv
  <2> QED
    BY <2>2, <2>3, Zenon
<1> QED
  BY <1>1, <1>2, <1>3, <1>4, <1>5, <1>6, Zenon

\* A connection that sends less than half of the sequence numbers is young.
LEMMA ShortIsYoung ==
    ASSUME \A e \in Ep : MaxMsg[e] + 1 < Half, UdInv
    PROVE  NothingIsOld
<1>h. FirstPsn \in Int /\ Half \in Int /\ \A e \in Ep : MaxMsg[e] \in Nat
  BY HalfFacts, UdEpAssumption
<1>e. ASSUME NEW e \in Ep
      PROVE  /\ EpType(ep[e]) /\ WinInv(ep[e].window, ep[e].acked, ep[e].psn)
             /\ PosInv(ep[e].window, ep[e].gone, ep[e].resend_pos, ep[e].resend_psn,
                       ep[e].resend_max, ep[e].psn, ep[e].acked)
             /\ LinkInv(ep[e], ep[Peer(e)])
             /\ ep[e].psn <= FirstPsn + MaxMsg[e]
  BY Zenon DEF UdInv, EpInv, Core
<1>1. ASSUME NEW p \in net
      PROVE  /\ ep[p.dst].acked - p.ack < Half
             /\ p.am => ep[p.dst].head_sn + 1 - p.psn < Half
  <2> DEFINE d == p.dst
  <2>1. /\ d \in Ep /\ p.ack \in Int /\ p.psn \in Int
        /\ FirstPsn - 1 <= p.ack /\ (p.am => FirstPsn - 1 <= p.psn)
    BY Zenon DEF UdInv, PacketInv, Packet
  <2>2. Peer(d) \in Ep
    BY <2>1, PeerFacts, Zenon
  <2>3. /\ ep[d].acked \in Int /\ ep[d].head_sn \in Int /\ ep[d].psn \in Int
        /\ ep[Peer(d)].psn \in Int
        /\ ep[d].acked < ep[d].psn /\ ep[d].psn <= FirstPsn + MaxMsg[d]
        /\ ep[d].head_sn < ep[Peer(d)].psn /\ ep[Peer(d)].psn <= FirstPsn + MaxMsg[Peer(d)]
    BY <1>e, <2>1, <2>2, Zenon DEF EpType, WinInv, LinkInv
  <2>4. MaxMsg[d] \in Nat /\ MaxMsg[Peer(d)] \in Nat
        /\ MaxMsg[d] + 1 < Half /\ MaxMsg[Peer(d)] + 1 < Half
    BY <1>h, <2>1, <2>2, Zenon
  <2> HIDE DEF d
  <2>5. /\ ep[d].acked - p.ack < Half /\ (p.am => ep[d].head_sn + 1 - p.psn < Half)
    BY <1>h, <2>1, <2>3, <2>4
  <2> QED
    BY <2>5, Zenon DEF d
<1>2. ASSUME NEW e \in Ep
      PROVE  /\ Young(ep[e].window, ep[e].psn)
             /\ "RESEND" \in ep[e].ops => ep[e].psn - ep[e].resend_max < Half
  <2>1. /\ ep[e].window \in Seq(Skb) /\ ep[e].psn \in Int /\ ep[e].resend_max \in Int
        /\ FirstPsn - 1 <= ep[e].resend_max
        /\ \A i \in 1 .. Len(ep[e].window) : FirstPsn - 1 <= ep[e].window[i].psn
        /\ ep[e].psn <= FirstPsn + MaxMsg[e]
    BY <1>e, Zenon DEF EpType, WinInv, PosInv, PosAt
  <2>2. \A i \in 1 .. Len(ep[e].window) : ep[e].window[i].psn \in Int
    BY <2>1, SkbFacts, Zenon
  <2>3. MaxMsg[e] \in Nat /\ MaxMsg[e] + 1 < Half
    BY <1>h, Zenon
  <2>4. \A i \in 1 .. Len(ep[e].window) : ep[e].psn - ep[e].window[i].psn < Half
    <3> TAKE i \in 1 .. Len(ep[e].window)
    <3> DEFINE s == ep[e].window[i].psn
               p == ep[e].psn
               m == MaxMsg[e]
    <3>1. s \in Int /\ FirstPsn - 1 <= s /\ p \in Int /\ p <= FirstPsn + m
      BY <2>1, <2>2, Zenon
    <3>2. m \in Nat /\ m + 1 < Half
      BY <2>3, Zenon
    <3> HIDE DEF s, p, m
    <3>3. p - s < Half
      BY <1>h, <3>1, <3>2
    <3> QED
      BY <3>3, Zenon DEF p, s
  <2> QED
    BY <1>h, <2>1, <2>3, <2>4 DEF Young
<1> QED
  BY <1>1, <1>2, Zenon DEF NothingIsOld

\* The invariant, for as long as nothing is old.
LEMMA UdInvariant == Spec /\ []NothingIsOld => []UdInv
<1>1. Init => UdInv
  BY UdInit, Zenon
<1>2. UdInv /\ NothingIsOld /\ [Next]_vars => UdInv'
  BY UdNext, Zenon
<1> QED
  BY <1>1, <1>2, PTL DEF Spec

\* uct_ud_ep_process_rx: the user gets the messages of the peer in order, each once,
\* whatever the network loses, duplicates or reorders and whichever thread receives.
THEOREM UdInOrderDelivery == Spec /\ []NothingIsOld => []InOrderDelivery
<1>1. UdInv /\ NothingIsOld => InOrderDelivery
  BY UdImplies, Zenon
<1> QED
  BY <1>1, UdInvariant, PTL

\* uct_ud_ep_process_ack: what is taken for acknowledged was accepted by the peer.
THEOREM UdAckedWasReceived == Spec /\ []NothingIsOld => []AckedWasReceived
<1>1. UdInv /\ NothingIsOld => AckedWasReceived
  BY UdImplies
<1> QED
  BY <1>1, UdInvariant, PTL

\* uct_ud_ep_flush: when it returns UCS_OK everything that was sent was accepted.
THEOREM UdFlushDone == Spec /\ []NothingIsOld => []FlushDoneMeansReceived
<1>1. UdInv /\ NothingIsOld => FlushDoneMeansReceived
  BY UdImplies
<1> QED
  BY <1>1, UdInvariant, PTL

\* uct_ud_ep_resend: a packet whose copy the hardware still sends is in the window and
\* marked, resend_count counts those packets, and the resend position is never at a
\* packet that was released when it is used.
THEOREM UdResendsTracked == Spec /\ []NothingIsOld => []ResendsTracked
<1>1. UdInv /\ NothingIsOld => ResendsTracked
  BY UdImplies, Zenon
<1> QED
  BY <1>1, UdInvariant, PTL

\* flush(CANCEL) waits for nothing but the send completion of a control packet.
THEOREM UdCancelNeedsNoPeer == Spec /\ []NothingIsOld => []CancelNeedsNoPeer
<1>1. UdInv /\ NothingIsOld => CancelNeedsNoPeer
  BY UdImplies
<1> QED
  BY <1>1, UdInvariant, PTL

\* All of this, and type correctness, without assumption for a connection that sends
\* less than half of the sequence numbers each way.
THEOREM UdShortConnection ==
    ASSUME \A e \in Ep : MaxMsg[e] + 1 < Half
    PROVE  Spec => [](/\ TypeOK /\ InOrderDelivery /\ AckedWasReceived
                      /\ FlushDoneMeansReceived /\ ResendsTracked /\ CancelNeedsNoPeer)
<1>1. Init => UdInv
  BY UdInit, Zenon
<1>2. UdInv => NothingIsOld
  BY ShortIsYoung
<1>3. UdInv /\ NothingIsOld /\ [Next]_vars => UdInv'
  BY UdNext, Zenon
<1>4. UdInv /\ NothingIsOld =>
        /\ TypeOK /\ InOrderDelivery /\ AckedWasReceived
        /\ FlushDoneMeansReceived /\ ResendsTracked /\ CancelNeedsNoPeer
  BY UdImplies, Zenon
<1> QED
  BY <1>1, <1>2, <1>3, <1>4, PTL DEF Spec

=============================================================================
