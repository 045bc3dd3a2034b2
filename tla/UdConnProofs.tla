---------------------------- MODULE UdConnProofs ----------------------------
(***************************************************************************)
(* The UD handshake, for any number of endpoints and messages: endpoints   *)
(* that are connected have the same connection number, and an interface has *)
(* one endpoint for a number. Then the messages that follow it: they are   *)
(* delivered in order and acknowledged only when delivered, when users do  *)
(* not send from the callbacks of others.                                  *)
(***************************************************************************)
EXTENDS UdConn, TLAPS

\* Endpoints and packets as the operations make them.
EpRec == [sn : Nat, dest : Nat, private : BOOLEAN, ops : SUBSET {"CREQ", "CREP", "ACK"},
          flags : SUBSET Flag, psn : Nat, acked : Nat, head : Nat,
          out : Seq(Nat), got : Seq(Nat)]

CreqPacket == [type : {"creq"}, to : Iface, src : Nat, sn : Nat, psn : Nat]
CrepPacket == [type : {"crep"}, to : Iface, dst : Nat, src : Nat, psn : Nat, ack : Nat]
DataPacket == [type : {"data"}, to : Iface, dst : Nat, psn : Nat, ack : Nat, msg : Nat]
AckPacket  == [type : {"ack"}, to : Iface, dst : Nat, ack : Nat]

Packet == CreqPacket \cup CrepPacket \cup DataPacket \cup AckPacket

TypeInv == eps \in [Iface -> Seq(EpRec)] /\ nextSn \in [Iface -> Nat] /\ net \subseteq Packet

\* In the tables t, endpoint e of interface i exists and has number sn.
Has(t, i, e, sn) == e \in DOMAIN t[i] /\ t[i][e].sn = sn

\* Endpoint ep of interface i is sound in the tables t and with the next numbers n: a
\* user's endpoint has a number that was given out; an endpoint is connected to one
\* with its number, and only a connected one has a reply to send.
Sound(t, n, i, ep) ==
    /\ ~ep.private => ep.sn < n[i]
    /\ Connected(ep) => Has(t, Peer(i), ep.dest, ep.sn)
    /\ "CREP" \in ep.ops => Connected(ep)

\* A number belongs to one endpoint, and all are sound: so the numbers from nextSn on
\* belong to endpoints that a CREQ created and no user has taken over.
EpInv ==
    \A i \in Iface : \A e \in DOMAIN eps[i] :
        /\ \A f \in DOMAIN eps[i] : eps[i][f].sn = eps[i][e].sn => f = e
        /\ Sound(eps, nextSn, i, eps[i][e])

\* Packets never lie, however old: a CREQ has the number of its sender, a CREP is
\* between two endpoints with the same number.
Truthful(t, p) ==
    /\ p.type = "creq" => Has(t, Peer(p.to), p.src, p.sn)
    /\ p.type = "crep" =>
          \E sn \in Nat : Has(t, p.to, p.dst, sn) /\ Has(t, Peer(p.to), p.src, sn)

NetInv == \A p \in net : Truthful(eps, p)

ConnInv == TypeInv /\ EpInv /\ NetInv

\* The two interfaces are each other's peers.
LEMMA PeerFacts == \A i \in Iface : Peer(i) \in Iface /\ Peer(i) # i /\ Peer(Peer(i)) = i
  BY UdConnAssumption DEF Iface, Peer

\* It holds initially.
LEMMA ConnInit == Init => ConnInv
  BY PeerFacts DEF Init, ConnInv, TypeInv, EpInv, NetInv

-----------------------------------------------------------------------------
\* Endpoints stay and keep their numbers.
Keeps(t, u) == \A j \in Iface : \A f \in DOMAIN t[j] : Has(u, j, f, t[j][f].sn)

\* What holds of a sound endpoint and of packets holds when endpoints stay.
LEMMA SoundKept ==
    ASSUME NEW t, NEW u, Keeps(t, u), NEW n \in [Iface -> Nat], NEW m \in [Iface -> Nat],
           \A j \in Iface : n[j] <= m[j],
           NEW i \in Iface, NEW ep \in EpRec, Sound(t, n, i, ep)
    PROVE  Sound(u, m, i, ep)
<1>1. ep.sn \in Nat /\ n[i] \in Nat /\ m[i] \in Nat /\ n[i] <= m[i]
  BY Zenon DEF EpRec
<1>2. ~ep.private => ep.sn < m[i]
  BY <1>1 DEF Sound
<1>3. Connected(ep) => Has(u, Peer(i), ep.dest, ep.sn)
  BY PeerFacts, Zenon DEF Sound, Has, Keeps
<1> QED
  BY <1>2, <1>3, Zenon DEF Sound

\* So a step that sends at most a truthful packet keeps what is said of the packets.
LEMMA NetKept ==
    ASSUME ConnInv, Keeps(eps, eps'), \A q \in net' \ net : q \in Packet /\ Truthful(eps', q)
    PROVE  net' \subseteq Packet /\ NetInv'
<1>1. ASSUME NEW p \in net
      PROVE  Truthful(eps', p)
  <2>1. p.to \in Iface /\ Peer(p.to) \in Iface
    BY PeerFacts, Zenon DEF ConnInv, TypeInv, Packet, CreqPacket, CrepPacket, DataPacket, AckPacket
  <2> QED
    BY <2>1 DEF ConnInv, NetInv, Truthful, Keeps, Has
<1> QED
  BY <1>1, Zenon DEF ConnInv, TypeInv, NetInv

\* A step that changes one endpoint soundly keeps what is said of the endpoints.
LEMMA ChangeOne ==
    ASSUME ConnInv, NEW i \in Iface, NEW e \in DOMAIN eps[i], NEW r \in EpRec,
           r.sn = eps[i][e].sn, Sound(eps, nextSn', i, r),
           eps' = [eps EXCEPT ![i] = [eps[i] EXCEPT ![e] = r]],
           nextSn' \in [Iface -> Nat], \A j \in Iface : nextSn[j] <= nextSn'[j]
    PROVE  eps' \in [Iface -> Seq(EpRec)] /\ EpInv' /\ Keeps(eps, eps')
<1>1. eps \in [Iface -> Seq(EpRec)] /\ nextSn \in [Iface -> Nat]
  BY Zenon DEF ConnInv, TypeInv
<1>2. eps' \in [Iface -> Seq(EpRec)]
  BY <1>1
<1>3. \A j \in Iface : /\ DOMAIN eps'[j] = DOMAIN eps[j]
                       /\ \A f \in DOMAIN eps[j] : /\ eps'[j][f].sn = eps[j][f].sn
                                                   /\ eps[j][f] \in EpRec
                                                   /\ eps'[j][f] \in {eps[j][f], r}
                                                   /\ eps'[j][f] # eps[j][f] => j = i
  BY <1>1
<1>4. Keeps(eps, eps')
  BY <1>3, Zenon DEF Keeps, Has
<1>5. ASSUME NEW j \in Iface, NEW f \in DOMAIN eps[j]
      PROVE  Sound(eps', nextSn', j, eps'[j][f])
  <2>1. CASE eps'[j][f] = eps[j][f]
    <3>1. eps[j][f] \in EpRec /\ Sound(eps, nextSn, j, eps[j][f])
      BY <1>3, Zenon DEF ConnInv, EpInv
    <3>2. Sound(eps', nextSn', j, eps[j][f])
      BY <1>1, <1>4, <3>1, SoundKept, Zenon
    <3> QED
      BY <2>1, <3>2, Zenon
  <2>2. CASE eps'[j][f] # eps[j][f]
    <3>1. j = i /\ eps'[j][f] = r
      BY <1>3, <2>2, Zenon
    <3> QED
      BY <1>4, <3>1, SoundKept
  <2> QED
    BY <2>1, <2>2, Zenon
<1>6. EpInv'
  <2>1. ASSUME NEW j \in Iface, NEW f \in DOMAIN eps[j], NEW g \in DOMAIN eps[j],
               eps'[j][g].sn = eps'[j][f].sn
        PROVE  g = f
    BY <1>3, <2>1 DEF ConnInv, EpInv
  <2> QED
    BY <1>3, <1>5, <2>1, Zenon DEF EpInv
<1> QED
  BY <1>2, <1>4, <1>6, Zenon

\* A step that appends a sound endpoint with a new number does too.
LEMMA AppendOne ==
    ASSUME ConnInv, NEW i \in Iface, NEW r \in EpRec,
           \A f \in DOMAIN eps[i] : eps[i][f].sn # r.sn, Sound(eps, nextSn', i, r),
           eps' = [eps EXCEPT ![i] = Append(eps[i], r)],
           nextSn' \in [Iface -> Nat], \A j \in Iface : nextSn[j] <= nextSn'[j]
    PROVE  /\ eps' \in [Iface -> Seq(EpRec)] /\ EpInv' /\ Keeps(eps, eps')
           /\ Has(eps', i, Len(eps[i]) + 1, r.sn)
<1>1. eps \in [Iface -> Seq(EpRec)] /\ nextSn \in [Iface -> Nat]
  BY Zenon DEF ConnInv, TypeInv
<1>2. eps' \in [Iface -> Seq(EpRec)]
  BY <1>1
<1> DEFINE new == Len(eps[i]) + 1
<1>3. /\ DOMAIN eps'[i] = DOMAIN eps[i] \cup {new} /\ new \notin DOMAIN eps[i]
      /\ eps'[i][new] = r
      /\ \A f \in DOMAIN eps[i] : eps'[i][f] = eps[i][f] /\ eps[i][f] \in EpRec
  BY <1>1
<1>4. \A j \in Iface : j # i => eps'[j] = eps[j] /\ \A f \in DOMAIN eps[j] : eps[j][f] \in EpRec
  BY <1>1
<1>5. Keeps(eps, eps')
  BY <1>3, <1>4, Zenon DEF Keeps, Has
<1>6. ASSUME NEW j \in Iface, NEW f \in DOMAIN eps'[j]
      PROVE  Sound(eps', nextSn', j, eps'[j][f])
  <2>1. CASE f \in DOMAIN eps[j]
    <3>1. eps'[j][f] = eps[j][f] /\ eps[j][f] \in EpRec /\ Sound(eps, nextSn, j, eps[j][f])
      BY <1>3, <1>4, <2>1, Zenon DEF ConnInv, EpInv
    <3> QED
      BY <1>1, <1>5, <3>1, SoundKept, ZenonT(30)
  <2>2. CASE f \notin DOMAIN eps[j]
    <3>1. j = i /\ eps'[j][f] = r
      BY <1>3, <1>4, <2>2, Zenon
    <3> QED
      BY <1>5, <3>1, SoundKept
  <2> QED
    BY <2>1, <2>2, Zenon
<1>7. EpInv'
  <2>1. ASSUME NEW j \in Iface, NEW f \in DOMAIN eps'[j], NEW g \in DOMAIN eps'[j],
               eps'[j][g].sn = eps'[j][f].sn
        PROVE  g = f
    BY <1>3, <1>4, <2>1 DEF ConnInv, EpInv
  <2> QED
    BY <1>6, <2>1, Zenon DEF EpInv
<1> QED
  BY <1>2, <1>3, <1>5, <1>7, Zenon DEF Has

-----------------------------------------------------------------------------
\* Sending a CREQ or a CREP takes it from the operations of the endpoint.
LEMMA SentFacts ==
    ASSUME NEW ep \in EpRec, NEW flag \in Flag
    PROVE  LET r == Sent(ep, flag)
           IN  /\ r \in EpRec /\ r.sn = ep.sn /\ r.dest = ep.dest /\ r.private = ep.private
               /\ "CREP" \notin r.ops
<1> DEFINE psn == ep.psn + 1
           flags == ep.flags \cup {flag}
           ops == ep.ops \ {"CREQ", "CREP"}
<1>1. psn \in Nat /\ flags \in SUBSET Flag /\ ops \in SUBSET {"CREQ", "CREP", "ACK"}
  BY DEF EpRec
<1>2. Sent(ep, flag) = [ep EXCEPT !.psn = psn, !.flags = flags, !.ops = ops]
  BY Zenon DEF Sent
<1>3. "CREP" \notin ops
  BY Zenon
<1> HIDE DEF psn, flags, ops
<1> QED
  BY <1>1, <1>2, <1>3, Zenon DEF EpRec

\* Creating an endpoint keeps the invariant: the number taken is not in use by the
\* user's endpoints, and if a CREQ created one with it, that one is taken over.
LEMMA CreateKeeps ==
    ASSUME ConnInv, NEW i \in Iface, CreateConnected(i)
    PROVE  ConnInv'
<1>1. eps \in [Iface -> Seq(EpRec)] /\ nextSn \in [Iface -> Nat]
  BY Zenon DEF ConnInv, TypeInv
<1>2. /\ nextSn' = [nextSn EXCEPT ![i] = nextSn[i] + 1] /\ nextSn' \in [Iface -> Nat]
      /\ \A j \in Iface : nextSn[j] <= nextSn'[j]
  BY <1>1 DEF CreateConnected, GetNextSn
<1> DEFINE sn == nextSn[i]
           ep == NewEp(sn)
           new == Len(eps[i]) + 1
<1>3. sn \in Nat /\ sn < nextSn'[i] /\ ep \in EpRec /\ ep.sn = sn /\ ~Connected(ep) /\ ep.ops = {}
      /\ ep.psn = 1
  BY <1>1, <1>2 DEF NewEp, EpRec, Connected, NullId, InitialPsn
<1>4. ASSUME NEW p \in Matching(i, sn, TRUE),
             eps' = [eps EXCEPT ![i][p].private = FALSE,
                                ![i][p].flags = @ \cup {"CREQ_NOTSENT"}],
             net' = net
      PROVE  ConnInv'
  <2> DEFINE r == [eps[i][p] EXCEPT !.private = FALSE, !.flags = @ \cup {"CREQ_NOTSENT"}]
  <2>1. p \in DOMAIN eps[i] /\ eps[i][p] \in EpRec /\ eps[i][p].sn = sn
    BY <1>1 DEF Matching
  <2>2. r \in EpRec /\ r.sn = eps[i][p].sn /\ r.dest = eps[i][p].dest /\ r.ops = eps[i][p].ops
    BY <2>1, Zenon DEF EpRec, Flag
  <2>3. Sound(eps, nextSn', i, r)
    BY <1>3, <2>1, <2>2 DEF ConnInv, EpInv, Sound, Connected
  <2>4. eps' = [eps EXCEPT ![i] = [eps[i] EXCEPT ![p] = r]]
    BY <1>1, <1>4, <2>1, Zenon
  <2>5. eps' \in [Iface -> Seq(EpRec)] /\ EpInv' /\ Keeps(eps, eps')
    BY <1>2, <2>1, <2>2, <2>3, <2>4, ChangeOne, Zenon
  <2> QED
    BY <1>2, <1>4, <2>5, NetKept, Zenon DEF ConnInv, TypeInv
<1>5. ASSUME Matching(i, sn, TRUE) = {}, NEW r \in EpRec, r.sn = sn, Sound(eps, nextSn', i, r),
             eps' = [eps EXCEPT ![i] = Append(eps[i], r)],
             net' \in {net, net \cup {Creq(i, new, ep)}}
      PROVE  ConnInv'
  <2>1. \A f \in DOMAIN eps[i] : eps[i][f].sn # sn
    <3> SUFFICES ASSUME NEW f \in DOMAIN eps[i], eps[i][f].sn = sn
                 PROVE  FALSE
      BY Zenon
    <3>1. eps[i][f] \in EpRec
      BY <1>1
    <3>2. eps[i][f].private \in BOOLEAN
      BY <3>1, Zenon DEF EpRec
    <3>3. ~(sn < sn)
      BY <1>3
    <3>4. eps[i][f].private # FALSE
      BY <3>3, Zenon DEF ConnInv, EpInv, Sound
    <3>5. eps[i][f].private = TRUE
      BY <3>2, <3>4, Zenon
    <3> QED
      BY <1>5, <3>5, Zenon DEF Matching
  <2>2. /\ eps' \in [Iface -> Seq(EpRec)] /\ EpInv' /\ Keeps(eps, eps')
        /\ Has(eps', i, new, sn)
    BY <1>2, <1>5, <2>1, AppendOne, Zenon
  <2>3. Creq(i, new, ep) \in Packet /\ Truthful(eps', Creq(i, new, ep))
    BY <1>1, <1>3, <2>2, PeerFacts DEF Creq, Packet, CreqPacket, Truthful
  <2> QED
    BY <1>2, <1>5, <2>2, <2>3, NetKept, Zenon DEF ConnInv, TypeInv
<1>6. /\ Sent(ep, "CREQ_SENT") \in EpRec /\ Sent(ep, "CREQ_SENT").sn = sn
      /\ Sound(eps, nextSn', i, Sent(ep, "CREQ_SENT"))
  <2> DEFINE r == Sent(ep, "CREQ_SENT")
  <2>1. "CREQ_SENT" \in Flag
    BY Zenon DEF Flag
  <2>2. r \in EpRec /\ r.sn = sn /\ r.dest = ep.dest /\ "CREP" \notin r.ops
    BY <1>3, <2>1, SentFacts, Zenon
  <2> QED
    BY <1>3, <2>2, Zenon DEF Sound, Connected
<1>7. /\ [ep EXCEPT !.ops = {"CREQ"}] \in EpRec /\ [ep EXCEPT !.ops = {"CREQ"}].sn = sn
      /\ Sound(eps, nextSn', i, [ep EXCEPT !.ops = {"CREQ"}])
  BY <1>3, Zenon DEF EpRec, Sound, Connected
<1> QED
  BY <1>4, <1>5, <1>6, <1>7, Zenon DEF CreateConnected

\* A scheduled CREQ or CREP says what is true of the endpoint that sends it.
LEMMA PendingKeeps ==
    ASSUME ConnInv, NEW i \in Iface, NEW e \in DOMAIN eps[i], DoPendingCtl(i, e)
    PROVE  ConnInv'
<1> DEFINE ep == eps[i][e]
<1>1. eps \in [Iface -> Seq(EpRec)] /\ nextSn \in [Iface -> Nat] /\ nextSn' = nextSn
  BY Zenon DEF ConnInv, TypeInv, DoPendingCtl
<1>2. ep \in EpRec /\ Sound(eps, nextSn, i, ep) /\ e \in Nat
  BY <1>1 DEF ConnInv, EpInv
<1>3. ASSUME NEW r \in EpRec, r.sn = ep.sn, r.dest = ep.dest, r.private = ep.private,
             "CREP" \in r.ops => "CREP" \in ep.ops,
             eps' = [eps EXCEPT ![i][e] = r], NEW q \in Packet,
             Keeps(eps, eps') => Truthful(eps', q), net' \in {net, net \cup {q}}
      PROVE  ConnInv'
  <2>1. Sound(eps, nextSn', i, r)
    BY <1>1, <1>2, <1>3, Zenon DEF Sound, Connected
  <2>2. eps' \in [Iface -> Seq(EpRec)] /\ EpInv' /\ Keeps(eps, eps')
    <3>1. \A j \in Iface : nextSn[j] <= nextSn'[j]
      BY <1>1
    <3> QED
      BY <1>1, <1>3, <2>1, <3>1, ChangeOne, Zenon
  <2> QED
    BY <1>1, <1>3, <2>2, NetKept, Zenon DEF ConnInv, TypeInv
<1>4. ASSUME NEW flag \in Flag
      PROVE  LET r == Sent(ep, flag)
             IN  /\ r \in EpRec /\ r.sn = ep.sn /\ r.dest = ep.dest /\ r.private = ep.private
                 /\ "CREP" \notin r.ops
  BY <1>2, SentFacts, Zenon
<1>5. CASE eps' = [eps EXCEPT ![i][e] = Sent(ep, "CREQ_SENT")] /\ net' = net \cup {Creq(i, e, ep)}
  <2>1. Creq(i, e, ep) \in Packet
    BY <1>2, PeerFacts, Zenon DEF Creq, Packet, CreqPacket, EpRec
  <2>2. Keeps(eps, eps') => Truthful(eps', Creq(i, e, ep))
    BY <1>2, PeerFacts, Zenon DEF Creq, Truthful, Keeps
  <2>3. "CREQ_SENT" \in Flag
    BY Zenon DEF Flag
  <2> QED
    BY <1>3, <1>4, <1>5, <2>1, <2>2, <2>3, Zenon
<1>6. CASE /\ "CREP" \in ep.ops
           /\ eps' = [eps EXCEPT ![i][e] = Sent(ep, "CREP_SENT")] /\ net' = net \cup {Crep(i, e, ep)}
  <2>1. Crep(i, e, ep) \in Packet
    BY <1>2, PeerFacts, Zenon DEF Crep, Packet, CrepPacket, EpRec
  <2>2. Has(eps, Peer(i), ep.dest, ep.sn) /\ Has(eps, i, e, ep.sn) /\ ep.sn \in Nat
    BY <1>2, <1>6, Zenon DEF Sound, Has, EpRec
  <2>3. ASSUME Keeps(eps, eps')
        PROVE  Truthful(eps', Crep(i, e, ep))
    <3>1. Has(eps', Peer(i), ep.dest, ep.sn) /\ Has(eps', i, e, ep.sn)
      BY <2>2, <2>3, PeerFacts, Zenon DEF Has, Keeps
    <3> QED
      BY <2>2, <3>1, PeerFacts, Zenon DEF Crep, Truthful
  <2>4. "CREP_SENT" \in Flag
    BY Zenon DEF Flag
  <2> QED
    BY <1>3, <1>4, <1>6, <2>1, <2>3, <2>4, Zenon
<1>7. CASE eps' = [eps EXCEPT ![i][e].ops = {}] /\ net' \in {net, net \cup {Ack(i, ep)}}
  <2> DEFINE r == [ep EXCEPT !.ops = {}]
  <2>1. r \in EpRec /\ r.sn = ep.sn /\ r.dest = ep.dest /\ r.private = ep.private /\ r.ops = {}
    BY <1>2, Zenon DEF EpRec
  <2>2. Ack(i, ep) \in Packet
    BY <1>2, PeerFacts, Zenon DEF Ack, Packet, AckPacket, EpRec
  <2>3. Truthful(eps', Ack(i, ep))
    BY Zenon DEF Ack, Truthful
  <2>4. eps' = [eps EXCEPT ![i][e] = r]
    BY <1>1, <1>7, Zenon
  <2> QED
    BY <1>3, <1>7, <2>1, <2>2, <2>3, <2>4, Zenon
<1> QED
  BY <1>5, <1>6, <1>7, Zenon DEF DoPendingCtl

\* Messages say nothing about connections.
LEMMA SendKeeps ==
    ASSUME ConnInv, NEW i \in Iface, NEW e \in DOMAIN eps[i], Send(i, e)
    PROVE  ConnInv'
<1> DEFINE ep == eps[i][e]
           r == [ep EXCEPT !.psn = @ + 1, !.out = Append(@, ep.psn), !.ops = @ \ {"ACK"}]
<1>1. eps \in [Iface -> Seq(EpRec)] /\ nextSn \in [Iface -> Nat] /\ nextSn' = nextSn
  BY Zenon DEF ConnInv, TypeInv, Send
<1>2. ep \in EpRec /\ Sound(eps, nextSn, i, ep)
  BY <1>1 DEF ConnInv, EpInv
<1>3. /\ r \in EpRec /\ r.sn = ep.sn /\ r.dest = ep.dest /\ r.private = ep.private
      /\ "CREP" \in r.ops => "CREP" \in ep.ops
  <2> DEFINE psn == ep.psn + 1
             out == Append(ep.out, ep.psn)
             ops == ep.ops \ {"ACK"}
  <2>1. psn \in Nat /\ out \in Seq(Nat) /\ ops \in SUBSET {"CREQ", "CREP", "ACK"}
    BY <1>2 DEF EpRec
  <2>2. r = [ep EXCEPT !.psn = psn, !.out = out, !.ops = ops] /\ ops \subseteq ep.ops
    BY Zenon
  <2> HIDE DEF psn, out, ops, r
  <2> QED
    BY <1>2, <2>1, <2>2, Zenon DEF EpRec
<1>4. Sound(eps, nextSn', i, r)
  BY <1>1, <1>2, <1>3, Zenon DEF Sound, Connected
<1>5. eps' = [eps EXCEPT ![i] = [eps[i] EXCEPT ![e] = r]]
  BY <1>1, Zenon DEF Send
<1>6. eps' \in [Iface -> Seq(EpRec)] /\ EpInv' /\ Keeps(eps, eps')
  <2>1. \A j \in Iface : nextSn[j] <= nextSn'[j]
    BY <1>1
  <2> QED
    BY <1>1, <1>3, <1>4, <1>5, <2>1, ChangeOne, Zenon
<1>7. Data(i, ep) \in Packet /\ Truthful(eps', Data(i, ep))
  BY <1>2, PeerFacts DEF Data, Packet, DataPacket, EpRec, Truthful
<1>8. net' = net \cup {Data(i, ep)}
  BY Zenon DEF Send
<1> QED
  BY <1>1, <1>6, <1>7, <1>8, NetKept, Zenon DEF ConnInv, TypeInv

\* A CREQ is true, so the endpoint with its number may connect to its sender; without
\* one, the number is free for a new endpoint.
LEMMA RxCreqKeeps ==
    ASSUME ConnInv, NEW i \in Iface, NEW p \in net, p.to = i, RxCreq(i, p)
    PROVE  ConnInv'
<1>1. /\ eps \in [Iface -> Seq(EpRec)] /\ nextSn \in [Iface -> Nat] /\ nextSn' = nextSn
      /\ net' = net /\ \A j \in Iface : nextSn[j] <= nextSn'[j]
  BY DEF ConnInv, TypeInv, RxCreq
<1>2. p.type = "creq" /\ p \in CreqPacket
  BY Zenon DEF RxCreq, ConnInv, TypeInv, Packet, CreqPacket, CrepPacket, DataPacket, AckPacket
<1>3. Has(eps, Peer(i), p.src, p.sn)
  BY <1>2, Zenon DEF ConnInv, NetInv, Truthful
<1>4. p.src \in Nat /\ p.src # NullId /\ p.sn \in Nat /\ p.psn \in Nat
  <2>1. p.src \in DOMAIN eps[Peer(i)] /\ eps[Peer(i)] \in Seq(EpRec)
    BY <1>1, <1>3, PeerFacts, Zenon DEF Has
  <2> QED
    BY <1>2, <2>1 DEF CreqPacket, NullId
<1>5. ASSUME NEW ep \in EpRec, NEW psn \in Nat
      PROVE  LET r == CreqRcvd(ep, psn)
             IN  /\ r \in EpRec /\ r.sn = ep.sn /\ r.dest = ep.dest /\ r.private = ep.private
                 /\ "CREP" \in r.ops => "CREP" \in ep.ops
  <2> DEFINE ops == ep.ops \ {"CREQ"}
             more == IF "CREQ" \in ep.ops THEN {"CREQ_NOTSENT"} ELSE {}
             flags == ep.flags \cup {"CREQ_RCVD"} \cup more
  <2>1. ops \in SUBSET {"CREQ", "CREP", "ACK"} /\ ops \subseteq ep.ops
    BY Zenon DEF EpRec
  <2>2. flags \in SUBSET Flag
    BY Zenon DEF EpRec, Flag
  <2>3. CreqRcvd(ep, psn) \in {ep, [ep EXCEPT !.ops = ops, !.flags = flags]}
    BY Zenon DEF CreqRcvd
  <2> HIDE DEF ops, flags
  <2> QED
    BY <2>1, <2>2, <2>3, Zenon DEF EpRec
<1>6. CASE /\ Found(i, p.sn) = {}
           /\ eps' = [eps EXCEPT ![i] = Append(eps[i], CreqRcvd(Passive(p), p.psn))]
  <2> DEFINE r == CreqRcvd(Passive(p), p.psn)
  <2>1. /\ Passive(p) \in EpRec /\ Passive(p).sn = p.sn /\ Passive(p).dest = p.src
        /\ Passive(p).private = TRUE
    <3>1. NewEp(p.sn) \in EpRec /\ NewEp(p.sn).sn = p.sn
      BY <1>4 DEF NewEp, EpRec, InitialPsn, NullId
    <3>2. {"CREP"} \in SUBSET {"CREQ", "CREP", "ACK"}
      BY Zenon
    <3> QED
      BY <1>4, <3>1, <3>2, Zenon DEF Passive, EpRec
  <2>2. r \in EpRec /\ r.sn = p.sn /\ r.dest = p.src /\ r.private = TRUE
    BY <1>4, <1>5, <2>1, Zenon
  <2>3. Sound(eps, nextSn', i, r)
    BY <1>3, <1>4, <2>2, Zenon DEF Sound, Connected
  <2>4. ASSUME NEW f \in DOMAIN eps[i], eps[i][f].sn = p.sn
        PROVE  FALSE
    <3>0. eps[i][f] \in EpRec
      BY <1>1
    <3>1. eps[i][f].private \in BOOLEAN
      BY <3>0, Zenon DEF EpRec
    <3>2. f \in Matching(i, p.sn, TRUE) \/ f \in Matching(i, p.sn, FALSE)
      BY <2>4, <3>1, Zenon DEF Matching
    <3> QED
      BY <1>6, <3>2, Zenon DEF Found
  <2>5. eps' \in [Iface -> Seq(EpRec)] /\ EpInv' /\ Keeps(eps, eps')
    BY <1>1, <1>6, <2>2, <2>3, <2>4, AppendOne, Zenon
  <2> QED
    BY <1>1, <2>5, NetKept, Zenon DEF ConnInv, TypeInv
<1>7. ASSUME NEW e \in Found(i, p.sn),
             eps' = [eps EXCEPT ![i][e] =
                        CreqRcvd(IF Connected(eps[i][e]) THEN eps[i][e]
                                 ELSE Simultaneous(eps[i][e], p), p.psn)]
      PROVE  ConnInv'
  <2> DEFINE ep == eps[i][e]
             c == IF Connected(ep) THEN ep ELSE Simultaneous(ep, p)
             r == CreqRcvd(c, p.psn)
  <2>1. e \in DOMAIN eps[i] /\ ep.sn = p.sn /\ ep \in EpRec /\ Sound(eps, nextSn, i, ep)
    BY <1>1 DEF Found, Matching, ConnInv, EpInv
  <2>2. c \in EpRec /\ c.sn = ep.sn /\ c.private = ep.private
        /\ Connected(c) /\ c.dest \in {ep.dest, p.src} /\ (c.dest # p.src => Connected(ep))
    <3>1. CASE Connected(ep)
      BY <2>1, <3>1, Zenon
    <3>2. CASE ~Connected(ep)
      <4> DEFINE ops == ep.ops \cup {"CREP"}
                 d == [ep EXCEPT !.dest = p.src, !.head = p.psn, !.ops = ops]
      <4>1. ops \in SUBSET {"CREQ", "CREP", "ACK"}
        BY <2>1, Zenon DEF EpRec
      <4>2. d \in EpRec /\ d.sn = ep.sn /\ d.private = ep.private /\ d.dest = p.src
        <5> HIDE DEF ops, ep
        <5> QED
          BY <1>4, <2>1, <4>1, Zenon DEF EpRec
      <4>3. c \in {d, [d EXCEPT !.acked = InitialPsn]}
        BY <3>2, Zenon DEF Simultaneous, ProcessAck
      <4>4. InitialPsn \in Nat
        BY Zenon DEF InitialPsn
      <4> HIDE DEF d, c, ep
      <4>5. c \in EpRec /\ c.sn = ep.sn /\ c.private = ep.private /\ c.dest = p.src
        BY <4>2, <4>3, <4>4, Zenon DEF EpRec
      <4> QED
        BY <1>4, <4>5, Zenon DEF Connected
    <3> QED
      BY <3>1, <3>2, Zenon
  <2>3. r \in EpRec /\ r.sn = ep.sn /\ r.private = ep.private /\ r.dest = c.dest
    <3> HIDE DEF c
    <3> QED
      BY <1>4, <1>5, <2>2, Zenon
  <2>4. Sound(eps, nextSn', i, r)
    <3> HIDE DEF r, c
    <3> QED
      BY <1>1, <1>3, <2>1, <2>2, <2>3, Zenon DEF Sound, Connected
  <2>5. eps' = [eps EXCEPT ![i] = [eps[i] EXCEPT ![e] = r]]
    BY <1>7, Zenon
  <2>6. eps' \in [Iface -> Seq(EpRec)] /\ EpInv' /\ Keeps(eps, eps')
    <3> HIDE DEF r
    <3> QED
      BY <1>1, <2>1, <2>3, <2>4, <2>5, ChangeOne, Zenon
  <2> QED
    BY <1>1, <2>6, NetKept, Zenon DEF ConnInv, TypeInv
<1> QED
  BY <1>6, <1>7, Zenon DEF RxCreq

\* A CREP is true, so its receiver may connect to its sender.
LEMMA ProcessRxKeeps ==
    ASSUME ConnInv, NEW i \in Iface, NEW p \in net, p.to = i, ProcessRx(i, p)
    PROVE  ConnInv'
<1>1. /\ eps \in [Iface -> Seq(EpRec)] /\ nextSn \in [Iface -> Nat] /\ nextSn' = nextSn
      /\ net' = net /\ \A j \in Iface : nextSn[j] <= nextSn'[j]
  BY DEF ConnInv, TypeInv, ProcessRx
<1>2. /\ p.ack \in Nat /\ p.type \in {"crep", "data", "ack"}
      /\ p.type = "crep" => p.src \in Nat /\ p.psn \in Nat
      /\ p.type = "data" => p.psn \in Nat /\ p.msg \in Nat
  BY Zenon DEF ProcessRx, ConnInv, TypeInv, Packet, CreqPacket, CrepPacket, DataPacket, AckPacket
<1> DEFINE e == p.dst
           old == eps[i][e]
           ep == ProcessAck(old, p.ack)
           ops == ep.ops \cup {"ACK"}
           ack == [ep EXCEPT !.ops = ops]
           r == CASE p.type = "crep" -> CrepRcvd(ack, p)
                  [] p.type = "data" -> DataRcvd(ack, p)
                  [] OTHER -> ep
<1>3. e \in DOMAIN eps[i] /\ old \in EpRec /\ Sound(eps, nextSn, i, old)
  BY <1>1 DEF ProcessRx, ConnInv, EpInv
<1>4. eps' = [eps EXCEPT ![i] = [eps[i] EXCEPT ![e] = r]]
  BY Zenon DEF ProcessRx
<1>5. /\ ep \in EpRec /\ ep.sn = old.sn /\ ep.private = old.private /\ ep.dest = old.dest
      /\ ep.ops = old.ops
  <2> HIDE DEF old
  <2> QED
    BY <1>2, <1>3, Zenon DEF ProcessAck, EpRec
<1>6. /\ ack \in EpRec /\ ack.sn = old.sn /\ ack.private = old.private /\ ack.dest = old.dest
      /\ "CREP" \in ack.ops => "CREP" \in old.ops
  <2>1. ops \in SUBSET {"CREQ", "CREP", "ACK"} /\ ("CREP" \in ops => "CREP" \in old.ops)
    <3> HIDE DEF ep, old
    <3> QED
      BY <1>5, Zenon DEF EpRec
  <2> HIDE DEF ep, old, ops
  <2> QED
    BY <1>5, <2>1, Zenon DEF EpRec
<1> HIDE DEF ack, ep, old
<1>7. /\ r \in EpRec /\ r.sn = old.sn /\ r.private = old.private
      /\ "CREP" \in r.ops => "CREP" \in old.ops
      /\ r.dest = old.dest \/ (p.type = "crep" /\ r.dest = p.src)
  <2>1. CASE p.type = "crep"
    <3>1. r = CrepRcvd(ack, p)
      BY <2>1, Zenon
    <3>2. ack.flags \cup {"CREP_RCVD"} \in SUBSET Flag
      BY <1>6, Zenon DEF EpRec, Flag
    <3> DEFINE flags == ack.flags \cup {"CREP_RCVD"}
    <3>3. r \in {ack, [ack EXCEPT !.head = p.psn, !.dest = p.src, !.flags = flags]}
      BY <3>1, Zenon DEF CrepRcvd
    <3> HIDE DEF flags, r
    <3> QED
      BY <1>2, <1>6, <2>1, <3>2, <3>3, ZenonT(30) DEF EpRec, flags
  <2>2. CASE p.type = "data"
    <3>1. r = DataRcvd(ack, p)
      BY <2>2, Zenon
    <3> DEFINE got == Append(ack.got, p.msg)
    <3>2. got \in Seq(Nat)
      BY <1>2, <1>6, <2>2 DEF EpRec
    <3>3. r \in {ack, [ack EXCEPT !.head = p.psn, !.got = got]}
      BY <3>1, Zenon DEF DataRcvd
    <3> HIDE DEF got, r
    <3> QED
      BY <1>2, <1>6, <2>2, <3>2, <3>3, Zenon DEF EpRec
  <2>3. CASE p.type = "ack"
    <3>1. r = ep
      BY <2>3, Zenon
    <3> QED
      BY <1>5, <3>1, Zenon
  <2> QED
    BY <1>2, <2>1, <2>2, <2>3, Zenon
<1> HIDE DEF r
<1>8. Sound(eps, nextSn', i, r)
  <2>1. CASE r.dest = old.dest
    BY <1>1, <1>3, <1>7, <2>1, Zenon DEF Sound, Connected
  <2>2. CASE p.type = "crep" /\ r.dest = p.src
    <3>1. PICK sn \in Nat : Has(eps, i, e, sn) /\ Has(eps, Peer(i), p.src, sn)
      BY <2>2, Zenon DEF ConnInv, NetInv, Truthful
    <3>2. Has(eps, Peer(i), r.dest, r.sn)
      BY <1>7, <2>2, <3>1, Zenon DEF Has, old
    <3>3. Connected(r)
      <4>1. p.src \in DOMAIN eps[Peer(i)] /\ eps[Peer(i)] \in Seq(EpRec)
        BY <1>1, <3>1, PeerFacts, Zenon DEF Has
      <4> QED
        BY <2>2, <4>1 DEF Connected, NullId
    <3> QED
      BY <1>1, <1>3, <1>7, <3>2, <3>3, Zenon DEF Sound
  <2> QED
    BY <1>7, <2>1, <2>2, Zenon
<1>9. eps' \in [Iface -> Seq(EpRec)] /\ EpInv' /\ Keeps(eps, eps')
  BY <1>1, <1>3, <1>4, <1>7, <1>8, ChangeOne, Zenon DEF old
<1> QED
  BY <1>1, <1>9, NetKept, Zenon DEF ConnInv, TypeInv

-----------------------------------------------------------------------------
\* ConnInv is an invariant of the handshake: whatever packets are lost, repeated or
\* late, and whichever side creates endpoints first.
THEOREM ConnInvariant == Spec => []ConnInv
<1>1. ConnInv /\ [Next]_vars => ConnInv'
  <2> SUFFICES ASSUME ConnInv, [Next]_vars
               PROVE  ConnInv'
    BY Zenon
  <2>1. CASE UNCHANGED vars
    BY <2>1, SMTT(30) DEF vars, ConnInv, TypeInv, EpInv, NetInv, Sound, Truthful, Has
  <2>2. ASSUME NEW i \in Iface, CreateConnected(i)
        PROVE  ConnInv'
    BY <2>2, CreateKeeps, Zenon
  <2>3. ASSUME NEW i \in Iface, NEW p \in net, Receive(i, p)
        PROVE  ConnInv'
    BY <2>3, RxCreqKeeps, ProcessRxKeeps, Zenon DEF Receive
  <2>4. ASSUME NEW i \in Iface, NEW e \in DOMAIN eps[i], DoPendingCtl(i, e) \/ Send(i, e)
        PROVE  ConnInv'
    BY <2>4, PendingKeeps, SendKeeps, Zenon
  <2> QED
    BY <2>1, <2>2, <2>3, <2>4, Zenon DEF Next
<1> QED
  BY ConnInit, <1>1, PTL DEF Spec

\* Two endpoints that are connected have the same conn_sn, no third endpoint is
\* connected to either, and a conn_sn has one endpoint on an interface.
THEOREM SameConnSnTheorem == Spec => []SameConnSn
<1>1. ConnInv => SameConnSn
  <2> SUFFICES ASSUME ConnInv, NEW i \in Iface, NEW e \in DOMAIN eps[i]
               PROVE  /\ Connected(eps[i][e]) =>
                            /\ eps[Peer(i)][eps[i][e].dest].sn = eps[i][e].sn
                            /\ eps[Peer(i)][eps[i][e].dest].dest \in {NullId, e}
                      /\ \A f \in DOMAIN eps[i] : eps[i][e].sn = eps[i][f].sn => e = f
    BY Zenon DEF SameConnSn
  <2>1. ASSUME Connected(eps[i][e])
        PROVE  /\ eps[Peer(i)][eps[i][e].dest].sn = eps[i][e].sn
               /\ eps[Peer(i)][eps[i][e].dest].dest \in {NullId, e}
    <3> DEFINE d == eps[i][e].dest
               peer == eps[Peer(i)][d]
    <3>1. d \in DOMAIN eps[Peer(i)] /\ peer.sn = eps[i][e].sn
      BY <2>1, Zenon DEF ConnInv, EpInv, Sound, Has
    <3>2. ASSUME Connected(peer)
          PROVE  peer.dest = e
      <4>1. Sound(eps, nextSn, Peer(i), peer)
        BY <3>1, PeerFacts, Zenon DEF ConnInv, EpInv
      <4>2. peer.dest \in DOMAIN eps[i] /\ eps[i][peer.dest].sn = peer.sn
        BY <3>2, <4>1, PeerFacts, Zenon DEF Sound, Has
      <4> QED
        BY <3>1, <4>2, Zenon DEF ConnInv, EpInv
    <3> QED
      BY <3>1, <3>2, Zenon DEF Connected
  <2> QED
    BY <2>1, Zenon DEF ConnInv, EpInv
<1> QED
  BY ConnInvariant, <1>1, PTL

-----------------------------------------------------------------------------
(* No assertion of the handshake fails, when users do not send from the callbacks of others. *)

\* What is seen of the peer's handshake.
Seen(ep) == {"CREQ_RCVD", "CREP_RCVD"} \cap ep.flags

\* An endpoint by itself.  A CREQ is scheduled before anything is sent, a CREP once; who
\* is connected has received something, and has sent something once the CREP is sent.
EpHs(ep) ==
    /\ ep.psn >= 1
    /\ "CREQ" \in ep.ops => ~Connected(ep) /\ ep.psn = 1
    /\ ~Connected(ep) => "CREP_SENT" \notin ep.flags
    /\ "CREP" \in ep.ops => "CREP_SENT" \notin ep.flags
    /\ "CREQ_SENT" \in ep.flags => ep.psn >= 2
    /\ Connected(ep) /\ "CREQ_SENT" \in ep.flags => ep.acked >= 1
    /\ Connected(ep) => ep.head >= 1
    /\ ep.head >= 1 => Seen(ep) # {}
    /\ Connected(ep) /\ "CREP" \notin ep.ops => ep.psn >= 2

\* What an endpoint has received, its peer has sent.
HeadSent(t, i, ep) ==
    ep.head = 0 \/ \E f \in DOMAIN t[Peer(i)] : t[Peer(i)][f].sn = ep.sn /\ ep.head < t[Peer(i)][f].psn

\* Who has received up to the number of a CREP has received the CREP.
CrepSeen(n, i, e, ep) ==
    \A q \in n : q.type = "crep" /\ q.to = i /\ q.dst = e /\ q.psn <= ep.head => "CREP_RCVD" \in ep.flags

\* What a packet says of its sender: a CREQ is the first it sent, a CREP is sent once
\* and in front of all messages.
CreqHs(t, p) == p.psn = 1 /\ t[Peer(p.to)][p.src].psn >= 2

CrepHs(t, p) ==
    LET f == t[Peer(p.to)][p.src]
    IN  /\ f.dest = p.dst /\ p.psn >= 1 /\ p.psn < f.psn /\ "CREP_SENT" \in f.flags /\ p.ack >= 1
        /\ "CREP" \notin f.ops

DataHs(t, n, p) ==
    \E s \in DOMAIN t[Peer(p.to)] :
        LET f == t[Peer(p.to)][s]
        IN  /\ f.dest = p.dst /\ p.dst # NullId /\ p.psn >= 2 /\ p.psn < f.psn /\ "CREP" \notin f.ops
            /\ \A q \in n : q.type = "crep" /\ q.to = p.to /\ q.src = s => q.psn < p.psn

\* A CREP is not the first packet of an endpoint that sent a CREQ.
CrepSecond(n, p) ==
    \A q \in n : q.type = "creq" /\ q.to = p.to /\ q.src = p.src => p.psn >= 2

EpOk(t, n, i, e) ==
    EpHs(t[i][e]) /\ HeadSent(t, i, t[i][e]) /\ CrepSeen(n, i, e, t[i][e])

EpsOk(t, n) == \A i \in Iface : \A e \in DOMAIN t[i] : EpOk(t, n, i, e)

PacketOk(t, n, p) ==
    /\ p.type = "creq" => CreqHs(t, p)
    /\ p.type = "crep" => CrepHs(t, p) /\ CrepSecond(n, p)
    /\ p.type = "data" => DataHs(t, n, p)

NetOk(t, n) == \A p \in n : PacketOk(t, n, p)

HsInv == EpsOk(eps, net) /\ NetOk(eps, net)

\* It holds initially.
LEMMA HsInit == Init => HsInv
  BY PeerFacts DEF Init, HsInv, EpsOk, NetOk

-----------------------------------------------------------------------------
\* What an operation does to an endpoint: numbers and flags grow, a connection stays, a
\* connected endpoint gets no CREP to send.
Grown(o, r) ==
    /\ r.sn = o.sn /\ o.psn <= r.psn /\ o.flags \subseteq r.flags
    /\ Connected(o) => r.dest = o.dest /\ ("CREP" \in r.ops => "CREP" \in o.ops)

Grows(t, u) == \A j \in Iface : \A f \in DOMAIN t[j] : f \in DOMAIN u[j] /\ Grown(t[j][f], u[j][f])

Table == [Iface -> Seq(EpRec)]

\* What was sent stays sent.
LEMMA HeadKept ==
    ASSUME NEW t \in Table, NEW u \in Table, Grows(t, u), NEW i \in Iface, NEW ep \in EpRec,
           HeadSent(t, i, ep)
    PROVE  HeadSent(u, i, ep)
<1>1. CASE ep.head = 0
  BY <1>1, Zenon DEF HeadSent
<1>2. CASE ep.head # 0
  <2>1. PICK f \in DOMAIN t[Peer(i)] :
           t[Peer(i)][f].sn = ep.sn /\ ep.head < t[Peer(i)][f].psn
    BY <1>2, Zenon DEF HeadSent
  <2>2. f \in DOMAIN u[Peer(i)] /\ Grown(t[Peer(i)][f], u[Peer(i)][f])
    BY <2>1, PeerFacts, Zenon DEF Grows
  <2>3. t[Peer(i)][f] \in EpRec /\ u[Peer(i)][f] \in EpRec
    BY <2>1, <2>2, PeerFacts DEF Table
  <2>4. ep.head \in Nat /\ t[Peer(i)][f].psn \in Nat /\ u[Peer(i)][f].psn \in Nat
    BY <2>3, Zenon DEF EpRec
  <2>5. t[Peer(i)][f].psn <= u[Peer(i)][f].psn /\ u[Peer(i)][f].sn = t[Peer(i)][f].sn
    BY <2>2, Zenon DEF Grown
  <2>6. ep.head < u[Peer(i)][f].psn
    BY <2>1, <2>4, <2>5
  <2> QED
    BY <2>1, <2>2, <2>5, <2>6, Zenon DEF HeadSent
<1> QED
  BY <1>1, <1>2, Zenon

\* A packet in the network, by kind.
LEMMA PacketFacts ==
    ASSUME ConnInv, NEW p \in net
    PROVE  /\ p.to \in Iface /\ Peer(p.to) \in Iface
           /\ p.type = "creq" => /\ p.src \in DOMAIN eps[Peer(p.to)] /\ p.psn \in Nat
                                 /\ eps[Peer(p.to)][p.src].sn = p.sn
           /\ p.type = "crep" => /\ p.src \in DOMAIN eps[Peer(p.to)] /\ p.psn \in Nat /\ p.ack \in Nat
                                 /\ p.dst \in DOMAIN eps[p.to] /\ p.dst # NullId
                                 /\ eps[Peer(p.to)][p.src].sn = eps[p.to][p.dst].sn
           /\ p.type = "data" => p.psn \in Nat /\ p.dst \in Nat
<1>1. /\ p.to \in Iface /\ Peer(p.to) \in Iface
      /\ p.type = "creq" => p.psn \in Nat
      /\ p.type = "crep" => p.psn \in Nat /\ p.ack \in Nat
      /\ p.type = "data" => p.psn \in Nat /\ p.dst \in Nat
  BY PeerFacts, Zenon DEF ConnInv, TypeInv, Packet, CreqPacket, CrepPacket, DataPacket, AckPacket
<1>2. Truthful(eps, p)
  BY Zenon DEF ConnInv, NetInv
<1>3. p.type = "creq" => p.src \in DOMAIN eps[Peer(p.to)] /\ eps[Peer(p.to)][p.src].sn = p.sn
  BY <1>2, Zenon DEF Truthful, Has
<1>4. p.type = "crep" => /\ p.src \in DOMAIN eps[Peer(p.to)] /\ p.dst \in DOMAIN eps[p.to]
                         /\ eps[Peer(p.to)][p.src].sn = eps[p.to][p.dst].sn
  BY <1>2, Zenon DEF Truthful, Has
<1>5. \A e \in DOMAIN eps[p.to] : e # NullId
  BY <1>1 DEF ConnInv, TypeInv, NullId
<1> QED
  BY <1>1, <1>3, <1>4, <1>5, Zenon

\* What a packet says of its sender stays true.
LEMMA PacketKept ==
    ASSUME ConnInv, NEW u \in Table, Grows(eps, u), NEW n, NEW p \in net, PacketOk(eps, n, p)
    PROVE  PacketOk(u, n, p)
<1>1. eps \in Table
  BY Zenon DEF ConnInv, TypeInv, Table
<1> DEFINE j == Peer(p.to)
<1>2. ASSUME NEW s \in DOMAIN eps[j]
      PROVE  /\ s \in DOMAIN u[j] /\ Grown(eps[j][s], u[j][s])
             /\ eps[j][s].psn \in Nat /\ u[j][s].psn \in Nat
  <2>1. j \in Iface
    BY PacketFacts, Zenon
  <2>2. s \in DOMAIN u[j] /\ Grown(eps[j][s], u[j][s])
    BY <2>1, Zenon DEF Grows
  <2>3. eps[j][s] \in EpRec /\ u[j][s] \in EpRec
    BY <1>1, <2>1, <2>2 DEF Table
  <2> QED
    BY <2>2, <2>3, Zenon DEF EpRec
<1>3. p.type = "creq" => CreqHs(u, p)
  BY <1>2, PacketFacts DEF PacketOk, CreqHs, Grown
<1>4. p.type = "crep" => CrepHs(u, p)
  <2> SUFFICES ASSUME p.type = "crep" PROVE CrepHs(u, p)
    BY Zenon
  <2> DEFINE o == eps[j][p.src]
             f == u[j][p.src]
  <2>1. /\ o.dest = p.dst /\ p.psn >= 1 /\ p.psn < o.psn /\ "CREP_SENT" \in o.flags /\ p.ack >= 1
        /\ "CREP" \notin o.ops
    BY Zenon DEF PacketOk, CrepHs
  <2>2. p.src \in DOMAIN eps[j] /\ p.psn \in Nat /\ p.dst # NullId
    BY PacketFacts, Zenon
  <2>3. Grown(o, f) /\ o.psn \in Nat /\ f.psn \in Nat
    BY <1>2, <2>2, Zenon
  <2> HIDE DEF o, f
  <2>4. f.dest = p.dst /\ "CREP" \notin f.ops /\ "CREP_SENT" \in f.flags /\ o.psn <= f.psn
    BY <2>1, <2>2, <2>3, Zenon DEF Grown, Connected
  <2>5. p.psn < f.psn
    BY <2>1, <2>2, <2>3, <2>4
  <2> QED
    BY <2>1, <2>4, <2>5, Zenon DEF CrepHs, f
<1>5. ASSUME p.type = "data"
      PROVE  DataHs(u, n, p)
  <2>1. PICK s \in DOMAIN eps[j] :
           /\ eps[j][s].dest = p.dst /\ p.dst # NullId /\ p.psn >= 2 /\ p.psn < eps[j][s].psn
           /\ "CREP" \notin eps[j][s].ops
           /\ \A q \in n : q.type = "crep" /\ q.to = p.to /\ q.src = s => q.psn < p.psn
    BY <1>5 DEF PacketOk, DataHs
  <2>2. u[j][s].dest = p.dst /\ p.psn < u[j][s].psn /\ "CREP" \notin u[j][s].ops
    BY <1>2, <1>5, <2>1, PacketFacts DEF Grown, Connected
  <2> QED
    BY <1>2, <2>1, <2>2, Zenon DEF DataHs
<1> QED
  BY <1>3, <1>4, <1>5, Zenon DEF PacketOk

\* An endpoint that changes as it may leaves the others and the packets as they were.
LEMMA ChangeHs ==
    ASSUME ConnInv, HsInv, NEW i \in Iface, NEW e \in DOMAIN eps[i], NEW r \in EpRec,
           Grown(eps[i][e], r), EpHs(r), HeadSent(eps, i, r), CrepSeen(net, i, e, r),
           NEW u, u = [eps EXCEPT ![i] = [eps[i] EXCEPT ![e] = r]]
    PROVE  u \in Table /\ Grows(eps, u) /\ EpsOk(u, net) /\ NetOk(u, net)
<1>1. eps \in Table
  BY Zenon DEF ConnInv, TypeInv, Table
<1>2. u \in Table
  BY <1>1 DEF Table
<1>3. /\ \A j \in Iface : DOMAIN u[j] = DOMAIN eps[j]
      /\ u[i][e] = r
      /\ \A j \in Iface : \A f \in DOMAIN eps[j] : j # i \/ f # e => u[j][f] = eps[j][f]
  BY <1>1, Zenon DEF Table
<1>4. \A j \in Iface : \A f \in DOMAIN eps[j] : eps[j][f] \in EpRec /\ eps[j][f].psn \in Nat
  <2>1. \A j \in Iface : \A f \in DOMAIN eps[j] : eps[j][f] \in EpRec
    BY <1>1 DEF Table
  <2> QED
    BY <2>1, Zenon DEF EpRec
<1>5. Grows(eps, u)
  <2> SUFFICES ASSUME NEW j \in Iface, NEW f \in DOMAIN eps[j]
               PROVE  f \in DOMAIN u[j] /\ Grown(eps[j][f], u[j][f])
    BY Zenon DEF Grows
  <2>1. Grown(eps[j][f], eps[j][f])
    BY <1>4 DEF Grown
  <2> QED
    BY <1>3, <2>1
<1>6. EpsOk(u, net)
  <2> SUFFICES ASSUME NEW j \in Iface, NEW f \in DOMAIN eps[j]
               PROVE  EpOk(u, net, j, f)
    BY <1>3, Zenon DEF EpsOk
  <2>1. CASE j = i /\ f = e
    <3>1. HeadSent(u, i, r)
      BY <1>1, <1>2, <1>5, HeadKept, Zenon
    <3> QED
      BY <1>3, <2>1, <3>1 DEF EpOk
  <2>2. CASE j # i \/ f # e
    <3>1. EpHs(eps[j][f]) /\ HeadSent(eps, j, eps[j][f]) /\ CrepSeen(net, j, f, eps[j][f])
      BY Zenon DEF HsInv, EpsOk, EpOk
    <3>2. HeadSent(u, j, eps[j][f])
      BY <1>1, <1>2, <1>4, <1>5, <3>1, HeadKept
    <3> QED
      BY <1>3, <2>2, <3>1, <3>2 DEF EpOk
  <2> QED
    BY <2>1, <2>2, Zenon
<1>7. NetOk(u, net)
  BY <1>2, <1>5, PacketKept, Zenon DEF HsInv, NetOk
<1> QED
  BY <1>2, <1>5, <1>6, <1>7, Zenon

\* So does an endpoint that is added.
LEMMA AppendHs ==
    ASSUME ConnInv, HsInv, NEW i \in Iface, NEW r \in EpRec, EpHs(r), HeadSent(eps, i, r),
           NEW u, u = [eps EXCEPT ![i] = Append(eps[i], r)]
    PROVE  u \in Table /\ Grows(eps, u) /\ EpsOk(u, net) /\ NetOk(u, net)
<1>1. eps \in Table
  BY DEF ConnInv, TypeInv, Table
<1>2. u \in Table
  BY <1>1 DEF Table
<1> DEFINE new == Len(eps[i]) + 1
<1>3. /\ DOMAIN u[i] = DOMAIN eps[i] \cup {new} /\ new \notin DOMAIN eps[i] /\ u[i][new] = r
      /\ \A j \in Iface : j # i => DOMAIN u[j] = DOMAIN eps[j]
      /\ \A j \in Iface : \A f \in DOMAIN eps[j] : u[j][f] = eps[j][f]
  BY <1>1 DEF Table
<1>4. \A j \in Iface : \A f \in DOMAIN eps[j] : eps[j][f] \in EpRec /\ eps[j][f].psn \in Nat
  <2>1. \A j \in Iface : \A f \in DOMAIN eps[j] : eps[j][f] \in EpRec
    BY <1>1 DEF Table
  <2> QED
    BY <2>1, Zenon DEF EpRec
<1> HIDE DEF new
<1>5. Grows(eps, u)
  <2> SUFFICES ASSUME NEW j \in Iface, NEW f \in DOMAIN eps[j]
               PROVE  f \in DOMAIN u[j] /\ Grown(eps[j][f], u[j][f])
    BY Zenon DEF Grows
  <2>1. Grown(eps[j][f], eps[j][f])
    BY <1>4 DEF Grown
  <2> QED
    BY <1>3, <2>1, Zenon
<1>6. EpsOk(u, net)
  <2> SUFFICES ASSUME NEW j \in Iface, NEW f \in DOMAIN u[j]
               PROVE  EpOk(u, net, j, f)
    BY Zenon DEF EpsOk
  <2>1. CASE f \notin DOMAIN eps[j]
    <3>1. j = i /\ f = new /\ u[j][f] = r
      BY <1>3, <2>1
    <3>2. HeadSent(u, i, r)
      BY <1>1, <1>2, <1>5, HeadKept
    <3>3. CrepSeen(net, j, f, r)
      BY <2>1, PacketFacts, Zenon DEF CrepSeen
    <3> QED
      BY <3>1, <3>2, <3>3, Zenon DEF EpOk
  <2>2. CASE f \in DOMAIN eps[j]
    <3>1. EpHs(eps[j][f]) /\ HeadSent(eps, j, eps[j][f]) /\ CrepSeen(net, j, f, eps[j][f])
      BY <2>2 DEF HsInv, EpsOk, EpOk
    <3>2. HeadSent(u, j, eps[j][f])
      BY <1>1, <1>2, <1>4, <1>5, <2>2, <3>1, HeadKept
    <3> QED
      BY <1>3, <2>2, <3>1, <3>2 DEF EpOk
  <2> QED
    BY <2>1, <2>2, Zenon
<1>7. NetOk(u, net)
  BY <1>2, <1>5, PacketKept, Zenon DEF HsInv, NetOk
<1> QED
  BY <1>2, <1>5, <1>6, <1>7, Zenon

\* What a new packet must not contradict.
Addable(t, q) ==
    LET n == net \cup {q}
    IN  /\ PacketOk(t, n, q)
        /\ q.type = "creq" => \A p \in net : p.type = "crep" => p.to # q.to \/ p.src # q.src
        /\ q.type = "crep" =>
              /\ \A p \in net : p.type = "data" => DataHs(t, n, p)
              /\ t[q.to][q.dst].head < q.psn

\* Then the others and the endpoints are as before.
LEMMA AddHs ==
    ASSUME ConnInv, NEW u \in Table, EpsOk(u, net), NetOk(u, net), NEW q \in Packet, Addable(u, q)
    PROVE  EpsOk(u, net \cup {q}) /\ NetOk(u, net \cup {q})
<1> DEFINE n == net \cup {q}
<1>1. EpsOk(u, n)
  <2> SUFFICES ASSUME NEW j \in Iface, NEW f \in DOMAIN u[j]
               PROVE  CrepSeen(n, j, f, u[j][f])
    BY Zenon DEF EpsOk, EpOk
  <2>1. CrepSeen(net, j, f, u[j][f])
    BY Zenon DEF EpsOk, EpOk
  <2>2. u[j][f].head \in Nat
    <3>1. u[j][f] \in EpRec
      BY DEF Table
    <3> QED
      BY <3>1, Zenon DEF EpRec
  <2>3. q.type = "crep" => q.psn \in Nat
    BY Zenon DEF Packet, CreqPacket, CrepPacket, DataPacket, AckPacket
  <2>4. ~(q.type = "crep" /\ q.to = j /\ q.dst = f /\ q.psn <= u[j][f].head)
    BY <2>2, <2>3 DEF Addable
  <2> QED
    BY <2>1, <2>4, Zenon DEF CrepSeen
<1>2. ASSUME NEW p \in net
      PROVE  PacketOk(u, n, p)
  <2>1. PacketOk(u, net, p)
    BY Zenon DEF NetOk
  <2>2. p.type = "crep" => CrepSecond(n, p)
    BY <2>1, Zenon DEF PacketOk, CrepSecond, Addable
  <2>3. p.type = "data" => DataHs(u, n, p)
    <3>1. CASE q.type = "crep"
      BY <3>1, Zenon DEF Addable
    <3>2. CASE q.type # "crep"
      BY <2>1, <3>2 DEF PacketOk, DataHs
    <3> QED
      BY <3>1, <3>2, Zenon
  <2> QED
    BY <2>1, <2>2, <2>3, Zenon DEF PacketOk
<1>3. PacketOk(u, n, q)
  BY Zenon DEF Addable
<1> QED
  BY <1>1, <1>2, <1>3, Zenon DEF NetOk

-----------------------------------------------------------------------------
\* An endpoint of the table, with what the invariants say of it.
LEMMA EpFacts ==
    ASSUME ConnInv, HsInv, NEW i \in Iface, NEW e \in DOMAIN eps[i]
    PROVE  /\ eps[i][e] \in EpRec /\ EpHs(eps[i][e]) /\ HeadSent(eps, i, eps[i][e])
           /\ CrepSeen(net, i, e, eps[i][e]) /\ Sound(eps, nextSn, i, eps[i][e])
           /\ eps[i][e].psn \in Nat /\ eps[i][e].head \in Nat /\ eps[i][e].acked \in Nat
           /\ \A f \in DOMAIN eps[i] : eps[i][f].sn = eps[i][e].sn => f = e
<1>1. eps[i][e] \in EpRec
  BY DEF ConnInv, TypeInv
<1>2. eps[i][e].psn \in Nat /\ eps[i][e].head \in Nat /\ eps[i][e].acked \in Nat
  BY <1>1, Zenon DEF EpRec
<1> QED
  BY <1>1, <1>2, Zenon DEF ConnInv, EpInv, HsInv, EpsOk, EpOk

\* What an endpoint has received was sent by the endpoint with its number.
LEMMA HeadBelow ==
    ASSUME ConnInv, HsInv, NEW i \in Iface, NEW e \in DOMAIN eps[i], NEW f \in DOMAIN eps[Peer(i)],
           eps[Peer(i)][f].sn = eps[i][e].sn
    PROVE  eps[i][e].head < eps[Peer(i)][f].psn
<1>1. Peer(i) \in Iface
  BY PeerFacts, Zenon
<1>2. eps[Peer(i)][f].psn \in Nat /\ eps[Peer(i)][f].psn >= 1
  BY <1>1, EpFacts, Zenon DEF EpHs
<1>3. CASE eps[i][e].head = 0
  BY <1>2, <1>3
<1>4. CASE eps[i][e].head # 0
  <2>1. PICK g \in DOMAIN eps[Peer(i)] :
           eps[Peer(i)][g].sn = eps[i][e].sn /\ eps[i][e].head < eps[Peer(i)][g].psn
    BY <1>4, EpFacts DEF HeadSent
  <2>2. g = f
    BY <1>1, <2>1, EpFacts
  <2> QED
    BY <2>1, <2>2, Zenon
<1> QED
  BY <1>3, <1>4, Zenon

\* A new endpoint has received nothing; its CREQ is its first packet.
LEMMA CreateHs ==
    ASSUME ConnInv, HsInv, NEW i \in Iface, CreateConnected(i)
    PROVE  HsInv'
<1> DEFINE sn == nextSn[i]
           ep == NewEp(sn)
           new == Len(eps[i]) + 1
<1>1. eps \in Table /\ sn \in Nat
  BY DEF ConnInv, TypeInv, Table
<1>2. /\ ep \in EpRec /\ ~Connected(ep) /\ ep.ops = {} /\ ep.flags = {} /\ ep.psn = 1 /\ ep.head = 0
      /\ ep.dest = NullId /\ ep.sn = sn
  BY <1>1 DEF NewEp, EpRec, Connected, NullId, InitialPsn
<1>3. ASSUME NEW p \in Matching(i, sn, TRUE),
             eps' = [eps EXCEPT ![i][p].private = FALSE,
                                ![i][p].flags = @ \cup {"CREQ_NOTSENT"}],
             net' = net
      PROVE  HsInv'
  <2> DEFINE o == eps[i][p]
             flags == o.flags \cup {"CREQ_NOTSENT"}
             r == [o EXCEPT !.private = FALSE, !.flags = flags]
  <2>1. p \in DOMAIN eps[i]
    BY Zenon DEF Matching
  <2>2. o \in EpRec /\ EpHs(o) /\ HeadSent(eps, i, o) /\ CrepSeen(net, i, p, o) /\ o.psn \in Nat
    BY <2>1, EpFacts
  <2>3. eps' = [eps EXCEPT ![i] = [eps[i] EXCEPT ![p] = r]]
    BY <1>1, <1>3, <2>1, Zenon DEF Table
  <2>4. /\ flags \in SUBSET Flag /\ o.flags \subseteq flags
        /\ "CREP_SENT" \in flags => "CREP_SENT" \in o.flags
        /\ "CREQ_SENT" \in flags => "CREQ_SENT" \in o.flags
    BY <2>2, Zenon DEF EpRec, Flag
  <2> HIDE DEF o, flags
  <2>5. /\ r \in EpRec /\ r.sn = o.sn /\ r.dest = o.dest /\ r.ops = o.ops /\ r.flags = flags
        /\ r.psn = o.psn /\ r.acked = o.acked /\ r.head = o.head
    BY <2>2, <2>4, Zenon DEF EpRec
  <2> HIDE DEF r
  <2>6. Grown(o, r)
    BY <2>2, <2>4, <2>5 DEF Grown
  <2>7. EpHs(r)
    BY <2>2, <2>4, <2>5 DEF EpHs, Seen, Connected
  <2>8. HeadSent(eps, i, r) /\ CrepSeen(net, i, p, r)
    BY <2>2, <2>4, <2>5, Zenon DEF HeadSent, CrepSeen
  <2>9. EpsOk(eps', net) /\ NetOk(eps', net)
    BY <2>1, <2>3, <2>5, <2>6, <2>7, <2>8, ChangeHs, Zenon DEF o
  <2> QED
    BY <1>3, <2>9, Zenon DEF HsInv
<1>4. CASE /\ eps' = [eps EXCEPT ![i] = Append(eps[i], Sent(ep, "CREQ_SENT"))]
           /\ net' = net \cup {Creq(i, new, ep)}
  <2> DEFINE r == Sent(ep, "CREQ_SENT")
             q == Creq(i, new, ep)
  <2>1. "CREQ_SENT" \in Flag
    BY Zenon DEF Flag
  <2>2. r \in EpRec /\ r.dest = NullId /\ "CREP" \notin r.ops
    BY <1>2, <2>1, SentFacts
  <2>3. r.psn = 2 /\ r.head = 0 /\ r.ops = {} /\ r.flags = {"CREQ_SENT"}
    BY <1>2 DEF Sent, EpRec
  <2>4. EpHs(r) /\ HeadSent(eps, i, r)
    BY <2>2, <2>3 DEF EpHs, HeadSent, Connected
  <2>5. eps' \in Table /\ EpsOk(eps', net) /\ NetOk(eps', net)
    BY <1>4, <2>2, <2>4, AppendHs, Zenon
  <2>6. eps'[i][new] = r /\ new \notin DOMAIN eps[i]
    BY <1>1, <1>4 DEF Table
  <2>7. /\ q \in Packet /\ q.type = "creq" /\ q.to = Peer(i) /\ q.src = new /\ q.psn = 1
        /\ Peer(q.to) = i
    <3>1. new \in Nat
      BY <1>1 DEF Table
    <3> QED
      BY <1>1, <1>2, <3>1, PeerFacts DEF Creq, Packet, CreqPacket
  <2> HIDE DEF q, r
  <2>8. Addable(eps', q)
    <3>1. CreqHs(eps', q)
      BY <2>3, <2>6, <2>7 DEF CreqHs
    <3>2. \A p \in net : p.type = "crep" => p.to # q.to \/ p.src # q.src
      BY <2>6, <2>7, PacketFacts
    <3> QED
      BY <2>7, <3>1, <3>2, Zenon DEF Addable, PacketOk
  <2> QED
    BY <1>4, <2>5, <2>7, <2>8, AddHs DEF HsInv, q
<1>5. CASE /\ eps' = [eps EXCEPT ![i] = Append(eps[i], [ep EXCEPT !.ops = {"CREQ"}])]
           /\ net' = net
  <2> DEFINE r == [ep EXCEPT !.ops = {"CREQ"}]
  <2>1. /\ r \in EpRec /\ r.dest = NullId /\ r.ops = {"CREQ"} /\ r.psn = 1 /\ r.head = 0
        /\ r.flags = {}
    BY <1>2, Zenon DEF EpRec
  <2> HIDE DEF r
  <2>2. EpHs(r) /\ HeadSent(eps, i, r)
    BY <2>1 DEF EpHs, HeadSent, Connected
  <2> QED
    BY <1>5, <2>1, <2>2, AppendHs, Zenon DEF HsInv, r
<1> QED
  BY <1>3, <1>4, <1>5, Zenon DEF CreateConnected

\* Only the first message number is used for a CREQ, and a CREP is sent in front of
\* messages, which its receiver cannot have received before.
LEMMA PendingHs ==
    ASSUME ConnInv, HsInv, NEW i \in Iface, NEW e \in DOMAIN eps[i], DoPendingCtl(i, e)
    PROVE  HsInv'
<1> DEFINE ep == eps[i][e]
<1>1. eps \in Table /\ e \in Nat /\ Peer(i) \in Iface /\ Peer(Peer(i)) = i /\ Peer(i) # i
  BY PeerFacts DEF ConnInv, TypeInv, Table
<1>2. /\ ep \in EpRec /\ EpHs(ep) /\ HeadSent(eps, i, ep) /\ CrepSeen(net, i, e, ep)
      /\ Sound(eps, nextSn, i, ep) /\ ep.psn \in Nat /\ ep.head \in Nat /\ ep.acked \in Nat
      /\ ep.sn \in Nat /\ ep.dest \in Nat
  <2>1. ep \in EpRec
    BY EpFacts, Zenon
  <2>2. ep.sn \in Nat /\ ep.dest \in Nat
    BY <2>1, Zenon DEF EpRec
  <2> QED
    BY <2>2, EpFacts, Zenon
<1>3. ASSUME NEW flag \in Flag
      PROVE  LET r == Sent(ep, flag)
             IN  /\ r \in EpRec /\ r.sn = ep.sn /\ r.dest = ep.dest /\ r.psn = ep.psn + 1
                 /\ r.head = ep.head /\ r.acked = ep.acked /\ r.flags = ep.flags \cup {flag}
                 /\ "CREP" \notin r.ops /\ "CREQ" \notin r.ops
  <2> HIDE DEF ep
  <2>1. Sent(ep, flag) \in EpRec
    BY <1>2, SentFacts
  <2>2. \A x : x \in Sent(ep, flag).ops <=> x \in ep.ops /\ x \notin {"CREQ", "CREP"}
    BY <1>2 DEF Sent, EpRec
  <2> QED
    BY <1>2, <2>1, <2>2 DEF Sent, EpRec
<1>4. CASE /\ "CREQ" \in ep.ops
           /\ eps' = [eps EXCEPT ![i][e] = Sent(ep, "CREQ_SENT")] /\ net' = net \cup {Creq(i, e, ep)}
  <2> DEFINE r == Sent(ep, "CREQ_SENT")
             q == Creq(i, e, ep)
  <2>1. /\ r \in EpRec /\ r.sn = ep.sn /\ r.dest = ep.dest /\ r.psn = ep.psn + 1
        /\ r.head = ep.head /\ r.acked = ep.acked /\ r.flags = ep.flags \cup {"CREQ_SENT"}
        /\ "CREP" \notin r.ops /\ "CREQ" \notin r.ops
    BY <1>3, Zenon DEF Flag
  <2>2. ~Connected(ep) /\ ep.psn = 1 /\ "CREP_SENT" \notin ep.flags
    BY <1>2, <1>4 DEF EpHs
  <2>3. /\ q \in Packet /\ q.type = "creq" /\ q.to = Peer(i) /\ q.src = e /\ q.psn = 1
    BY <1>1, <1>2, <2>2, Zenon DEF Creq, Packet, CreqPacket
  <2>4. eps' = [eps EXCEPT ![i] = [eps[i] EXCEPT ![e] = r]] /\ net' = net \cup {q}
    BY <1>4, Zenon
  <2>5. eps'[i][e] = r
    BY <1>1, <2>4 DEF Table
  <2> HIDE DEF r, q, ep
  <2>6. Grown(ep, r) /\ HeadSent(eps, i, r) /\ CrepSeen(net, i, e, r)
    BY <1>2, <2>1, <2>2 DEF Grown, HeadSent, CrepSeen
  <2>7. EpHs(r)
    BY <1>2, <2>1, <2>2 DEF EpHs, Seen, Connected
  <2>8. eps' \in Table /\ EpsOk(eps', net) /\ NetOk(eps', net)
    BY <2>1, <2>4, <2>6, <2>7, ChangeHs, Zenon DEF ep
  <2>9. Addable(eps', q)
    <3>1. CreqHs(eps', q)
      BY <1>1, <2>1, <2>2, <2>3, <2>5 DEF CreqHs
    <3>2. ASSUME NEW p \in net, p.type = "crep", p.to = q.to, p.src = q.src
          PROVE  FALSE
      <4>1. CrepHs(eps, p)
        BY <3>2, Zenon DEF HsInv, NetOk, PacketOk
      <4> QED
        BY <1>1, <2>2, <2>3, <3>2, <4>1 DEF CrepHs, ep
    <3> QED
      BY <2>3, <3>1, <3>2, Zenon DEF Addable, PacketOk
  <2> QED
    BY <2>3, <2>4, <2>8, <2>9, AddHs DEF HsInv
<1>5. CASE /\ "CREP" \in ep.ops
           /\ eps' = [eps EXCEPT ![i][e] = Sent(ep, "CREP_SENT")] /\ net' = net \cup {Crep(i, e, ep)}
  <2> DEFINE r == Sent(ep, "CREP_SENT")
             q == Crep(i, e, ep)
  <2>1. /\ r \in EpRec /\ r.sn = ep.sn /\ r.dest = ep.dest /\ r.psn = ep.psn + 1
        /\ r.head = ep.head /\ r.acked = ep.acked /\ r.flags = ep.flags \cup {"CREP_SENT"}
        /\ "CREP" \notin r.ops /\ "CREQ" \notin r.ops
    BY <1>3, Zenon DEF Flag
  <2>2. Connected(ep) /\ Has(eps, Peer(i), ep.dest, ep.sn) /\ ep.psn >= 1 /\ ep.head >= 1
    BY <1>2, <1>5, Zenon DEF Sound, EpHs
  <2>3. /\ q \in Packet /\ q.type = "crep" /\ q.to = Peer(i) /\ q.dst = ep.dest /\ q.src = e
        /\ q.psn = ep.psn /\ q.ack = ep.head
    BY <1>1, <1>2 DEF Crep, Packet, CrepPacket
  <2>4. eps' = [eps EXCEPT ![i] = [eps[i] EXCEPT ![e] = r]] /\ net' = net \cup {q}
    BY <1>5, Zenon
  <2>5. eps'[i][e] = r /\ eps'[Peer(i)] = eps[Peer(i)]
    BY <1>1, <2>4, Zenon DEF Table
  <2>6. eps[Peer(i)][ep.dest].head < ep.psn
    BY <1>1, <2>2, HeadBelow DEF Has
  <2> HIDE DEF r, q, ep
  <2>7. Grown(ep, r) /\ HeadSent(eps, i, r) /\ CrepSeen(net, i, e, r)
    BY <1>2, <2>1 DEF Grown, HeadSent, CrepSeen
  <2>8. EpHs(r)
    BY <1>2, <2>1, <2>2 DEF EpHs, Seen, Connected
  <2>9. eps' \in Table /\ Grows(eps, eps') /\ EpsOk(eps', net) /\ NetOk(eps', net)
    BY <2>1, <2>4, <2>7, <2>8, ChangeHs, Zenon DEF ep
  <2>10. Addable(eps', q)
    <3>1. CrepHs(eps', q)
      BY <1>1, <1>2, <2>1, <2>2, <2>3, <2>5 DEF CrepHs
    <3>2. CrepSecond(net \cup {q}, q)
      <4> SUFFICES ASSUME NEW p \in net, p.type = "creq", p.to = q.to, p.src = q.src
                   PROVE  q.psn >= 2
        BY <2>3 DEF CrepSecond
      <4>1. CreqHs(eps, p)
        BY Zenon DEF HsInv, NetOk, PacketOk
      <4> QED
        BY <1>1, <2>3, <4>1 DEF CreqHs, ep
    <3>3. ASSUME NEW p \in net, p.type = "data"
          PROVE  DataHs(eps', net \cup {q}, p)
      <4>1. DataHs(eps, net, p)
        BY <3>3 DEF HsInv, NetOk, PacketOk
      <4>2. DataHs(eps, net \cup {q}, p)
        BY <1>1, <1>5, <2>3, <4>1 DEF DataHs, ep
      <4>3. PacketOk(eps, net \cup {q}, p)
        BY <3>3, <4>2, Zenon DEF PacketOk
      <4>4. PacketOk(eps', net \cup {q}, p)
        BY <2>9, <4>3, PacketKept, Zenon
      <4> QED
        BY <3>3, <4>4, Zenon DEF PacketOk
    <3>4. eps'[q.to][q.dst].head < q.psn
      BY <2>3, <2>5, <2>6, Zenon
    <3> QED
      BY <2>3, <3>1, <3>2, <3>3, <3>4, Zenon DEF Addable, PacketOk
  <2> QED
    BY <2>3, <2>4, <2>9, <2>10, AddHs DEF HsInv
<1>6. CASE /\ ep.ops = {"ACK"} /\ eps' = [eps EXCEPT ![i][e].ops = {}]
           /\ net' = IF Connected(ep) THEN net \cup {Ack(i, ep)} ELSE net
  <2> DEFINE r == [ep EXCEPT !.ops = {}]
             q == Ack(i, ep)
  <2>1. /\ r \in EpRec /\ r.sn = ep.sn /\ r.dest = ep.dest /\ r.psn = ep.psn /\ r.ops = {}
        /\ r.head = ep.head /\ r.acked = ep.acked /\ r.flags = ep.flags
    BY <1>2, Zenon DEF EpRec
  <2>2. q \in Packet /\ q.type = "ack"
    BY <1>1, <1>2, Zenon DEF Ack, Packet, AckPacket
  <2>3. /\ eps' = [eps EXCEPT ![i] = [eps[i] EXCEPT ![e] = r]]
        /\ net' \in {net, net \cup {q}}
    BY <1>1, <1>6, Zenon DEF Table
  <2> HIDE DEF r, q, ep
  <2>4. Grown(ep, r) /\ HeadSent(eps, i, r) /\ CrepSeen(net, i, e, r)
    BY <1>2, <2>1 DEF Grown, HeadSent, CrepSeen
  <2>5. EpHs(r)
    BY <1>2, <1>6, <2>1 DEF EpHs, Seen, Connected
  <2>6. eps' \in Table /\ EpsOk(eps', net) /\ NetOk(eps', net)
    BY <2>1, <2>3, <2>4, <2>5, ChangeHs, Zenon DEF ep
  <2>7. Addable(eps', q)
    BY <2>2, Zenon DEF Addable, PacketOk
  <2> QED
    BY <2>2, <2>3, <2>6, <2>7, AddHs, Zenon DEF HsInv
<1> QED
  BY <1>4, <1>5, <1>6, Zenon DEF DoPendingCtl

\* Without sends from the callbacks of others, a message is sent after the CREP.
LEMMA SendHs ==
    ASSUME ConnInv, HsInv, ~SendsFromCallbacks,
           NEW i \in Iface, NEW e \in DOMAIN eps[i], Send(i, e)
    PROVE  HsInv'
<1> DEFINE ep == eps[i][e]
           psn == ep.psn + 1
           out == Append(ep.out, ep.psn)
           ops == ep.ops \ {"ACK"}
           r == [ep EXCEPT !.psn = psn, !.out = out, !.ops = ops]
           q == Data(i, ep)
<1>1. eps \in Table /\ Peer(i) \in Iface /\ Peer(Peer(i)) = i
  BY PeerFacts, Zenon DEF ConnInv, TypeInv, Table
<1>2. /\ ep \in EpRec /\ EpHs(ep) /\ HeadSent(eps, i, ep) /\ CrepSeen(net, i, e, ep)
      /\ ep.psn \in Nat /\ ep.head \in Nat /\ ep.acked \in Nat
  BY EpFacts, Zenon
<1>3. psn \in Nat /\ out \in Seq(Nat) /\ ops \in SUBSET {"CREQ", "CREP", "ACK"} /\ ops \subseteq ep.ops
  BY <1>2 DEF EpRec
<1>4. /\ eps' = [eps EXCEPT ![i] = [eps[i] EXCEPT ![e] = r]] /\ net' = net \cup {q}
      /\ Connected(ep) /\ "CREP" \notin ep.ops
  BY <1>1, ZenonT(30) DEF Send, Table
<1>5. eps'[i][e] = r /\ DOMAIN eps'[i] = DOMAIN eps[i]
  BY <1>1, <1>4 DEF Table
<1>6. /\ q \in Packet /\ q.type = "data" /\ q.to = Peer(i) /\ q.dst = ep.dest /\ q.psn = ep.psn
  <2>1. ep.dest \in Nat /\ Len(ep.out) + 1 \in Nat
    BY <1>2 DEF EpRec
  <2> HIDE DEF ep
  <2> QED
    BY <1>1, <1>2, <2>1, Zenon DEF Data, Packet, DataPacket
<1> HIDE DEF ep, out, ops, q
<1>7. /\ r \in EpRec /\ r.sn = ep.sn /\ r.dest = ep.dest /\ r.psn = ep.psn + 1 /\ r.ops = ops
      /\ r.head = ep.head /\ r.acked = ep.acked /\ r.flags = ep.flags
  BY <1>2, <1>3, Zenon DEF EpRec
<1> HIDE DEF r, psn
<1>8. Grown(ep, r) /\ HeadSent(eps, i, r) /\ CrepSeen(net, i, e, r)
  BY <1>2, <1>3, <1>7 DEF Grown, HeadSent, CrepSeen
<1>9. EpHs(r)
  BY <1>2, <1>3, <1>4, <1>7 DEF EpHs, Seen, Connected
<1>10. eps' \in Table /\ EpsOk(eps', net) /\ NetOk(eps', net)
  BY <1>4, <1>7, <1>8, <1>9, ChangeHs, Zenon DEF ep
<1>11. DataHs(eps', net \cup {q}, q)
  <2>1. ep.dest # NullId /\ ep.psn >= 2 /\ "CREP" \notin r.ops
    BY <1>2, <1>3, <1>4, <1>7 DEF EpHs, Connected
  <2>2. ASSUME NEW p \in net \cup {q}, p.type = "crep", p.to = q.to, p.src = e
        PROVE  p.psn < q.psn
    <3>1. p \in net
      BY <1>6, <2>2
    <3>2. CrepHs(eps, p)
      BY <2>2, <3>1, Zenon DEF HsInv, NetOk, PacketOk
    <3> QED
      BY <1>1, <1>6, <2>2, <3>2 DEF CrepHs, ep
  <2>3. ep.psn < r.psn
    BY <1>2, <1>7
  <2> QED
    BY <1>1, <1>5, <1>6, <1>7, <2>1, <2>2, <2>3 DEF DataHs
<1>12. Addable(eps', q)
  BY <1>6, <1>11, Zenon DEF Addable, PacketOk
<1> QED
  BY <1>4, <1>6, <1>10, <1>12, AddHs DEF HsInv

\* A CREQ is the first packet of its sender, so it does not pass for a CREP that was
\* received, and a CREP is scheduled only by who was not connected.
LEMMA RxCreqHs ==
    ASSUME ConnInv, HsInv, NEW i \in Iface, NEW p \in net, p.to = i, RxCreq(i, p)
    PROVE  HsInv'
<1> DEFINE f == eps[Peer(i)][p.src]
<1>1. eps \in Table /\ net' = net /\ p.type = "creq"
  BY Zenon DEF ConnInv, TypeInv, Table, RxCreq
<1>2. /\ Peer(i) \in Iface /\ p.src \in DOMAIN eps[Peer(i)] /\ f.sn = p.sn /\ f.psn >= 2 /\ p.psn = 1
      /\ f.psn \in Nat /\ p.src \in Nat /\ p.src # NullId /\ p.sn \in Nat
  <2>1. p.src \in DOMAIN eps[Peer(i)] /\ f.sn = p.sn /\ Peer(i) \in Iface
    BY <1>1, PacketFacts, Zenon
  <2>2. CreqHs(eps, p)
    BY <1>1 DEF HsInv, NetOk, PacketOk
  <2>3. eps[Peer(i)] \in Seq(EpRec)
    BY <1>1, <2>1 DEF Table
  <2>4. p.src \in Nat /\ p.src # NullId /\ f \in EpRec
    BY <2>1, <2>3 DEF NullId
  <2> QED
    BY <2>1, <2>2, <2>4, Zenon DEF CreqHs, EpRec
<1>3. CASE eps' = [eps EXCEPT ![i] = Append(eps[i], CreqRcvd(Passive(p), p.psn))]
  <2> DEFINE r == CreqRcvd(Passive(p), p.psn)
  <2>1. NewEp(p.sn) \in EpRec /\ NewEp(p.sn).sn = p.sn /\ NewEp(p.sn).psn = 1 /\ NewEp(p.sn).flags = {}
    BY <1>2 DEF NewEp, EpRec, InitialPsn, NullId
  <2>2. {"CREP"} \in SUBSET {"CREQ", "CREP", "ACK"} /\ 1 \in Nat /\ {"CREQ_RCVD"} \in SUBSET Flag
    BY Zenon DEF Flag
  <2> DEFINE c == Passive(p)
             ops == c.ops \ {"CREQ"}
             flags == c.flags \cup {"CREQ_RCVD"} \cup (IF "CREQ" \in c.ops THEN {"CREQ_NOTSENT"} ELSE {})
  <2>3. /\ c \in EpRec /\ c.sn = p.sn /\ c.dest = p.src /\ c.ops = {"CREP"} /\ c.psn = 1
        /\ c.flags = {} /\ c.head = 1
    BY <1>2, <2>1, <2>2, Zenon DEF Passive, EpRec
  <2> HIDE DEF c
  <2>4. r = [c EXCEPT !.ops = ops, !.flags = flags]
    BY <1>2, <2>3 DEF CreqRcvd, c
  <2>5. ops = {"CREP"} /\ flags = {"CREQ_RCVD"}
    BY <2>3, Zenon
  <2> HIDE DEF r, ops, flags
  <2>6. /\ r \in EpRec /\ r.sn = p.sn /\ r.dest = p.src /\ r.ops = {"CREP"} /\ r.psn = 1
        /\ r.flags = {"CREQ_RCVD"} /\ r.head = 1
    BY <2>2, <2>3, <2>4, <2>5, Zenon DEF EpRec
  <2>7. EpHs(r)
    BY <2>6 DEF EpHs, Seen
  <2>8. HeadSent(eps, i, r)
    BY <1>2, <2>6 DEF HeadSent
  <2>9. EpsOk(eps', net) /\ NetOk(eps', net)
    BY <1>3, <2>6, <2>7, <2>8, AppendHs, Zenon DEF r
  <2> QED
    BY <1>1, <2>9, Zenon DEF HsInv
<1>4. ASSUME NEW e \in Found(i, p.sn),
             eps' = [eps EXCEPT ![i][e] =
                        CreqRcvd(IF Connected(eps[i][e]) THEN eps[i][e]
                                 ELSE Simultaneous(eps[i][e], p), p.psn)]
      PROVE  HsInv'
  <2> DEFINE ep == eps[i][e]
             c == IF Connected(ep) THEN ep ELSE Simultaneous(ep, p)
             r == CreqRcvd(c, p.psn)
             more == IF "CREQ" \in c.ops THEN {"CREQ_NOTSENT"} ELSE {}
             flags == c.flags \cup {"CREQ_RCVD"} \cup more
             ops == c.ops \ {"CREQ"}
  <2>1. e \in DOMAIN eps[i] /\ ep.sn = p.sn
    BY Zenon DEF Found, Matching
  <2>2. /\ ep \in EpRec /\ EpHs(ep) /\ HeadSent(eps, i, ep) /\ CrepSeen(net, i, e, ep)
        /\ ep.psn \in Nat /\ ep.head \in Nat /\ ep.acked \in Nat
    BY <2>1, EpFacts
  <2>3. eps' = [eps EXCEPT ![i] = [eps[i] EXCEPT ![e] = r]]
    BY <1>4, Zenon
  <2>4. ASSUME c \in EpRec
        PROVE  /\ flags \in SUBSET Flag /\ ops \in SUBSET {"CREQ", "CREP", "ACK"}
               /\ ops \subseteq c.ops /\ "CREQ" \notin ops /\ ("CREP" \in c.ops => "CREP" \in ops)
               /\ c.flags \subseteq flags /\ "CREQ_RCVD" \in flags
               /\ \A x \in {"CREP_SENT", "CREQ_SENT", "CREP_RCVD"} : x \in flags => x \in c.flags
    <3> HIDE DEF c
    <3> QED
      BY <2>4, Zenon DEF EpRec, Flag
  <2>5. r = c \/ r = [c EXCEPT !.ops = ops, !.flags = flags]
    BY DEF CreqRcvd
  <2>6. CASE Connected(ep)
    <3>1. c = ep
      BY <2>6
    <3> HIDE DEF r, ep, c, flags, ops
    <3>2. /\ r \in EpRec /\ r.sn = ep.sn /\ r.dest = ep.dest /\ r.psn = ep.psn
          /\ r.head = ep.head /\ r.acked = ep.acked
          /\ (r.ops = ep.ops /\ r.flags = ep.flags) \/ (r.ops = ops /\ r.flags = flags)
      BY <2>2, <2>4, <2>5, <3>1, ZenonT(30) DEF EpRec
    <3>3. Grown(ep, r) /\ HeadSent(eps, i, r) /\ CrepSeen(net, i, e, r)
      BY <2>2, <2>4, <3>1, <3>2 DEF Grown, HeadSent, CrepSeen
    <3>4. EpHs(r)
      BY <2>2, <2>4, <2>6, <3>1, <3>2, Zenon DEF EpHs, Seen, Connected
    <3>5. EpsOk(eps', net) /\ NetOk(eps', net)
      BY <2>1, <2>3, <3>2, <3>3, <3>4, ChangeHs, Zenon DEF ep
    <3> QED
      BY <1>1, <3>5 DEF HsInv
  <2>7. CASE ~Connected(ep)
    <3> DEFINE cops == ep.ops \cup {"CREP"}
               d == [ep EXCEPT !.dest = p.src, !.head = p.psn, !.ops = cops]
    <3>1. cops \in SUBSET {"CREQ", "CREP", "ACK"} /\ "CREP" \in cops
      BY <2>2, Zenon DEF EpRec
    <3>2. c = IF ep.psn > 1 THEN (IF 1 > d.acked THEN [d EXCEPT !.acked = 1] ELSE d) ELSE d
      BY <2>7, Zenon DEF Simultaneous, ProcessAck, InitialPsn
    <3> HIDE DEF cops, ep, c
    <3>3. /\ d \in EpRec /\ d.sn = ep.sn /\ d.dest = p.src /\ d.psn = ep.psn /\ d.head = 1
          /\ d.ops = cops /\ d.flags = ep.flags /\ d.acked = ep.acked
      <4>1. p.psn \in Nat
        BY <1>2
      <4>2. d \in EpRec
        BY <1>2, <2>2, <3>1, <4>1, Zenon DEF EpRec
      <4>3. /\ d.sn = ep.sn /\ d.dest = p.src /\ d.psn = ep.psn /\ d.head = p.psn
            /\ d.ops = cops /\ d.flags = ep.flags /\ d.acked = ep.acked
        BY <2>2, Zenon DEF EpRec
      <4> QED
        BY <1>2, <4>2, <4>3, Zenon
    <3> HIDE DEF d
    <3>4. /\ c \in EpRec /\ c.sn = ep.sn /\ c.dest = p.src /\ c.psn = ep.psn /\ c.head = 1
          /\ c.ops = cops /\ c.flags = ep.flags /\ (ep.psn > 1 => c.acked >= 1)
      <4>1. CASE c = d /\ (ep.psn > 1 => d.acked >= 1)
        BY <3>3, <4>1, Zenon
      <4>2. CASE c = [d EXCEPT !.acked = 1]
        <5>1. c \in EpRec /\ c.acked = 1
          BY <3>3, <4>2, Zenon DEF EpRec
        <5>2. /\ c.sn = d.sn /\ c.dest = d.dest /\ c.psn = d.psn /\ c.head = d.head
              /\ c.ops = d.ops /\ c.flags = d.flags
          BY <3>3, <4>2, Zenon DEF EpRec
        <5> QED
          BY <3>3, <5>1, <5>2
      <4> QED
        BY <2>2, <3>2, <3>3, <4>1, <4>2
    <3>5. r = [c EXCEPT !.ops = ops, !.flags = flags]
      BY <1>2, <3>4 DEF CreqRcvd
    <3> HIDE DEF r, flags, ops
    <3>6. /\ r \in EpRec /\ r.sn = ep.sn /\ r.dest = p.src /\ r.psn = ep.psn /\ r.head = 1
          /\ r.ops = ops /\ r.flags = flags /\ r.acked = c.acked
      BY <2>4, <3>4, <3>5, Zenon DEF EpRec
    <3>7. Grown(ep, r)
      BY <2>2, <2>4, <2>7, <3>4, <3>6 DEF Grown
    <3>8. HeadSent(eps, i, r)
      BY <1>2, <2>1, <3>6 DEF HeadSent, ep
    <3>9. CrepSeen(net, i, e, r)
      <4> SUFFICES ASSUME NEW q \in net, q.type = "crep", q.to = i, q.dst = e, q.psn <= 1
                   PROVE  FALSE
        BY <3>6 DEF CrepSeen
      <4>1. q.src \in DOMAIN eps[Peer(i)] /\ eps[Peer(i)][q.src].sn = eps[i][e].sn /\ q.psn \in Nat
        BY PacketFacts
      <4>2. q.src = p.src
        BY <1>2, <2>1, <4>1, EpFacts, SMTT(30) DEF ep
      <4>3. q.psn >= 2
        BY <1>1, <4>2, Zenon DEF HsInv, NetOk, PacketOk, CrepSecond
      <4> QED
        BY <4>1, <4>3
    <3>10. EpHs(r)
      BY <1>2, <2>2, <2>4, <2>7, <3>1, <3>4, <3>6, SMTT(30) DEF EpHs, Seen, Connected
    <3>11. EpsOk(eps', net) /\ NetOk(eps', net)
      BY <2>1, <2>3, <3>6, <3>7, <3>8, <3>9, <3>10, ChangeHs, Zenon DEF ep
    <3> QED
      BY <1>1, <3>11, Zenon DEF HsInv
  <2> QED
    BY <2>6, <2>7, Zenon
<1> QED
  BY <1>3, <1>4, Zenon DEF RxCreq

\* A CREP reaches an endpoint that has sent something; a message that is taken follows
\* packets that were received, the CREP of its sender among them.
LEMMA ProcessRxHs ==
    ASSUME ConnInv, HsInv, NEW i \in Iface, NEW p \in net, p.to = i, ProcessRx(i, p)
    PROVE  HsInv'
<1> DEFINE e == p.dst
           old == eps[i][e]
           ep == ProcessAck(old, p.ack)
           ops == ep.ops \cup {"ACK"}
           ack == [ep EXCEPT !.ops = ops]
           r == CASE p.type = "crep" -> CrepRcvd(ack, p)
                  [] p.type = "data" -> DataRcvd(ack, p)
                  [] OTHER -> ep
<1>1. /\ eps \in Table /\ net' = net /\ e \in DOMAIN eps[i] /\ Peer(i) \in Iface /\ Peer(Peer(i)) = i
      /\ eps' = [eps EXCEPT ![i] = [eps[i] EXCEPT ![e] = r]]
  BY PeerFacts, Zenon DEF ConnInv, TypeInv, Table, ProcessRx
<1>2. /\ p.ack \in Nat /\ p.type \in {"crep", "data", "ack"}
      /\ p.type = "crep" => p.src \in Nat /\ p.psn \in Nat
      /\ p.type = "data" => p.psn \in Nat /\ p.msg \in Nat
  BY DEF ProcessRx, ConnInv, TypeInv, Packet, CreqPacket, CrepPacket, DataPacket, AckPacket
<1>3. /\ old \in EpRec /\ EpHs(old) /\ HeadSent(eps, i, old) /\ CrepSeen(net, i, e, old)
      /\ Sound(eps, nextSn, i, old) /\ old.psn \in Nat /\ old.head \in Nat /\ old.acked \in Nat
  BY <1>1, EpFacts
<1> HIDE DEF old
<1>4. /\ ep \in EpRec /\ ep.sn = old.sn /\ ep.dest = old.dest /\ ep.psn = old.psn /\ ep.head = old.head
      /\ ep.ops = old.ops /\ ep.flags = old.flags /\ ep.acked \in Nat /\ ep.acked >= old.acked
      /\ ep.acked >= p.ack
  <2>1. CASE p.ack > old.acked
    <3>1. ep = [old EXCEPT !.acked = p.ack]
      BY <2>1, Zenon DEF ProcessAck
    <3>2. ep \in EpRec /\ ep.acked = p.ack
      BY <1>2, <1>3, <3>1 DEF EpRec
    <3>3. /\ ep.sn = old.sn /\ ep.dest = old.dest /\ ep.psn = old.psn /\ ep.head = old.head
          /\ ep.ops = old.ops /\ ep.flags = old.flags
      BY <1>3, <3>1 DEF EpRec
    <3> QED
      BY <1>2, <1>3, <2>1, <3>2, <3>3
  <2>2. CASE ~(p.ack > old.acked)
    <3>1. ep = old
      BY <2>2, Zenon DEF ProcessAck
    <3> QED
      BY <1>2, <1>3, <2>2, <3>1
  <2> QED
    BY <2>1, <2>2, Zenon
<1>5. /\ ops \in SUBSET {"CREQ", "CREP", "ACK"}
      /\ \A x \in {"CREQ", "CREP"} : x \in ops <=> x \in old.ops
  <2> HIDE DEF ep
  <2> QED
    BY <1>4, Zenon DEF EpRec
<1>6. /\ ack \in EpRec /\ ack.sn = old.sn /\ ack.dest = old.dest /\ ack.psn = old.psn
      /\ ack.head = old.head /\ ack.flags = old.flags /\ ack.ops = ops /\ ack.acked = ep.acked
  <2> HIDE DEF ep, ops
  <2> QED
    BY <1>4, <1>5, Zenon DEF EpRec
<1> HIDE DEF ep, ops, ack
<1>7. SUFFICES /\ r \in EpRec /\ Grown(old, r) /\ EpHs(r) /\ HeadSent(eps, i, r)
               /\ CrepSeen(net, i, e, r)
  <2>1. EpsOk(eps', net) /\ NetOk(eps', net)
    <3> HIDE DEF r
    <3> QED
      BY <1>1, <1>7, ChangeHs, Zenon DEF old
  <2> QED
    BY <1>1, <2>1, Zenon DEF HsInv
<1>8. ASSUME NEW x \in EpRec, x.sn = old.sn, x.dest = old.dest, x.psn = old.psn, x.head = old.head,
             x.flags = old.flags, x.acked >= old.acked,
             \A y \in {"CREQ", "CREP"} : y \in x.ops <=> y \in old.ops
      PROVE  Grown(old, x) /\ EpHs(x) /\ HeadSent(eps, i, x) /\ CrepSeen(net, i, e, x)
  <2>1. x.acked \in Nat
    BY Zenon DEF EpRec
  <2>2. Grown(old, x) /\ HeadSent(eps, i, x) /\ CrepSeen(net, i, e, x)
    BY <1>3, <1>8, SMTT(30) DEF Grown, HeadSent, CrepSeen
  <2>3. EpHs(x)
    BY <1>3, <1>8, <2>1 DEF EpHs, Seen, Connected
  <2> QED
    BY <2>2, <2>3, Zenon
<1>9. Grown(old, ack) /\ EpHs(ack) /\ HeadSent(eps, i, ack) /\ CrepSeen(net, i, e, ack)
  BY <1>4, <1>5, <1>6, <1>8, Zenon
<1>10. CASE p.type = "ack"
  <2>1. r = ep
    BY <1>10, Zenon
  <2> HIDE DEF r
  <2> QED
    BY <1>4, <1>8, <2>1, Zenon
<1>11. CASE p.type = "crep"
  <2> DEFINE f == eps[Peer(i)][p.src]
             flags == ack.flags \cup {"CREP_RCVD"}
  <2>1. r = IF p.psn < ack.head THEN ack
            ELSE [ack EXCEPT !.head = p.psn, !.dest = p.src, !.flags = flags]
    BY <1>11, Zenon DEF CrepRcvd
  <2> HIDE DEF r
  <2>2. CASE p.psn < ack.head
    BY <1>6, <1>9, <2>1, <2>2
  <2>3. CASE ~(p.psn < ack.head)
    <3>1. /\ flags \in SUBSET Flag /\ ack.flags \subseteq flags /\ "CREP_RCVD" \in flags
          /\ \A x \in {"CREP_SENT", "CREQ_SENT"} : x \in flags => x \in old.flags
      BY <1>6, Zenon DEF EpRec, Flag
    <3> HIDE DEF flags
    <3>2. r \in EpRec
      BY <1>2, <1>6, <1>11, <2>1, <2>3, <3>1, Zenon DEF EpRec
    <3>3. /\ r.sn = old.sn /\ r.dest = p.src /\ r.psn = old.psn /\ r.head = p.psn
          /\ r.flags = flags /\ r.ops = ops /\ r.acked = ep.acked
      BY <1>6, <2>1, <2>3 DEF EpRec
    <3>4. /\ p.src \in DOMAIN eps[Peer(i)] /\ f.sn = old.sn /\ CrepHs(eps, p)
      BY <1>11, PacketFacts DEF HsInv, NetOk, PacketOk, old
    <3>5. /\ f.dest = e /\ p.psn >= 1 /\ p.psn < f.psn /\ p.ack >= 1 /\ e # NullId
      BY <1>11, <3>4, PacketFacts DEF CrepHs
    <3>6. old.psn >= 2
      <4>1. f.head >= 1 /\ f.head \in Nat
        BY <1>1, <3>4, <3>5, EpFacts DEF EpHs, Connected
      <4>2. f.head < old.psn
        BY <1>1, <3>4, HeadBelow DEF old
      <4> QED
        BY <1>3, <4>1, <4>2
    <3>7. p.src # NullId
      <4>1. eps[Peer(i)] \in Seq(EpRec)
        BY <1>1, Zenon DEF Table
      <4> QED
        BY <3>4, <4>1 DEF NullId
    <3>8. Connected(old) => old.dest = p.src
      <4> SUFFICES ASSUME Connected(old)
                   PROVE  old.dest = p.src
        BY Zenon
      <4>1. old.dest \in DOMAIN eps[Peer(i)] /\ eps[Peer(i)][old.dest].sn = old.sn
        BY <1>3 DEF Sound, Has
      <4> QED
        BY <1>1, <3>4, <4>1, EpFacts
    <3> HIDE DEF f
    <3>9. Grown(old, r)
      BY <1>3, <1>5, <1>6, <3>1, <3>3, <3>8 DEF Grown
    <3>10. HeadSent(eps, i, r)
      BY <3>3, <3>4, <3>5 DEF HeadSent, f
    <3>11. CrepSeen(net, i, e, r)
      BY <3>1, <3>3 DEF CrepSeen
    <3>12. ep.acked >= 1
      BY <1>2, <1>4, <3>5
    <3>13. EpHs(r)
      <4>1. "CREQ" \notin r.ops
        BY <1>3, <1>5, <3>3, <3>6 DEF EpHs
      <4>2. "CREP" \in r.ops => "CREP_SENT" \notin r.flags
        BY <1>3, <1>5, <3>1, <3>3 DEF EpHs
      <4>3. Connected(r) /\ Seen(r) # {}
        BY <3>1, <3>3, <3>7 DEF Connected, Seen
      <4>4. r.psn >= 1 /\ r.psn >= 2 /\ r.acked >= 1 /\ r.head >= 1
        BY <1>3, <3>3, <3>5, <3>6, <3>12
      <4> QED
        BY <4>1, <4>2, <4>3, <4>4 DEF EpHs
    <3> QED
      BY <3>2, <3>9, <3>10, <3>11, <3>13, Zenon
  <2> QED
    BY <2>2, <2>3, Zenon
<1>12. CASE p.type = "data"
  <2> DEFINE got == Append(ack.got, p.msg)
  <2>1. r = IF p.psn = ack.head + 1 THEN [ack EXCEPT !.head = p.psn, !.got = got] ELSE ack
    BY <1>12 DEF DataRcvd
  <2>2. got \in Seq(Nat)
    BY <1>2, <1>6, <1>12 DEF EpRec
  <2> HIDE DEF r, got
  <2>3. CASE p.psn # ack.head + 1
    BY <1>6, <1>9, <2>1, <2>3, Zenon
  <2>4. CASE p.psn = ack.head + 1
    <3>1. r \in EpRec
      BY <1>2, <1>6, <1>12, <2>1, <2>2, <2>4, Zenon DEF EpRec
    <3>2. /\ r.sn = old.sn /\ r.dest = old.dest /\ r.psn = old.psn /\ r.head = p.psn
          /\ r.flags = old.flags /\ r.ops = ops /\ r.acked = ep.acked
      BY <1>6, <2>1, <2>4, Zenon DEF EpRec
    <3>3. PICK s \in DOMAIN eps[Peer(i)] :
             /\ eps[Peer(i)][s].dest = e /\ e # NullId /\ p.psn >= 2 /\ p.psn < eps[Peer(i)][s].psn
             /\ \A q \in net : q.type = "crep" /\ q.to = i /\ q.src = s => q.psn < p.psn
      BY <1>12 DEF HsInv, NetOk, PacketOk, DataHs
    <3>4. eps[Peer(i)][s].sn = old.sn
      <4>1. Sound(eps, nextSn, Peer(i), eps[Peer(i)][s])
        BY <1>1, <3>3, EpFacts, Zenon
      <4> QED
        BY <1>1, <3>3, <4>1, Zenon DEF Sound, Has, Connected, old
    <3>5. old.head >= 1
      BY <1>2, <1>3, <1>6, <1>12, <2>4, <3>3
    <3>6. Grown(old, r)
      BY <1>3, <1>5, <3>2, SMTT(30) DEF Grown
    <3>7. HeadSent(eps, i, r)
      BY <3>2, <3>3, <3>4, Zenon DEF HeadSent
    <3>8. CrepSeen(net, i, e, r)
      <4> SUFFICES ASSUME NEW q \in net, q.type = "crep", q.to = i, q.dst = e, q.psn <= p.psn
                   PROVE  "CREP_RCVD" \in old.flags
        BY <3>2 DEF CrepSeen
      <4>1. q.src \in DOMAIN eps[Peer(i)] /\ eps[Peer(i)][q.src].sn = old.sn /\ q.psn \in Nat
        BY PacketFacts DEF old
      <4>2. q.src = s
        BY <1>1, <3>3, <3>4, <4>1, EpFacts
      <4>3. q.psn <= old.head
        BY <1>2, <1>3, <1>6, <1>12, <2>4, <3>3, <4>1, <4>2, SMTT(30)
      <4> QED
        BY <1>3, <4>3, Zenon DEF CrepSeen
    <3>9. EpHs(r)
      <4>1. r.acked >= old.acked /\ r.acked \in Nat /\ r.head >= 1
        BY <1>2, <1>4, <1>12, <3>2, <3>3
      <4> QED
        BY <1>3, <1>5, <3>2, <3>5, <4>1 DEF EpHs, Seen, Connected
    <3> QED
      BY <3>1, <3>6, <3>7, <3>8, <3>9
  <2> QED
    BY <2>3, <2>4, Zenon
<1> QED
  BY <1>2, <1>10, <1>11, <1>12, Zenon

-----------------------------------------------------------------------------
\* What the invariants say of a packet that arrives.
LEMMA HsExpected == ConnInv /\ HsInv => ConnPacketsExpected
<1> SUFFICES ASSUME ConnInv, HsInv, NEW i \in Iface
             PROVE  /\ \A e \in DOMAIN eps[i] : NoCreqOnceConnected(eps[i][e])
                    /\ \A p \in {q \in net : q.to = i /\ q.type \in {"creq", "crep"}} :
                         \A e \in (IF p.type = "creq" THEN Found(i, p.sn) ELSE {p.dst}) :
                           LET ep == eps[i][e]
                               seen == {"CREQ_RCVD", "CREP_RCVD"} \cap ep.flags
                           IN  /\ Connected(ep) => ep.dest = p.src
                               /\ p.psn < ep.head =>
                                     (IF p.type = "creq" THEN seen # {} ELSE "CREP_RCVD" \in seen)
                               /\ p.type = "creq" /\ Connected(ep) => p.psn <= ep.head
  BY Zenon DEF ConnPacketsExpected
<1>1. Peer(i) \in Iface
  BY PeerFacts, Zenon
<1>2. ASSUME NEW e \in DOMAIN eps[i]
      PROVE  NoCreqOnceConnected(eps[i][e])
  BY EpFacts DEF NoCreqOnceConnected, EpHs, Sound, InitialPsn
<1>3. ASSUME NEW e \in DOMAIN eps[i], NEW s \in DOMAIN eps[Peer(i)],
             eps[Peer(i)][s].sn = eps[i][e].sn, Connected(eps[i][e])
      PROVE  eps[i][e].dest = s
  <2>1. Has(eps, Peer(i), eps[i][e].dest, eps[i][e].sn)
    BY <1>3, EpFacts, Zenon DEF Sound
  <2> QED
    BY <1>1, <1>3, <2>1, EpFacts DEF Has
<1>4. ASSUME NEW p \in net, p.to = i, p.type = "creq", NEW e \in Found(i, p.sn)
      PROVE  /\ Connected(eps[i][e]) => eps[i][e].dest = p.src
             /\ p.psn < eps[i][e].head => Seen(eps[i][e]) # {}
             /\ Connected(eps[i][e]) => p.psn <= eps[i][e].head
  <2>1. e \in DOMAIN eps[i] /\ eps[i][e].sn = p.sn
    BY Zenon DEF Found, Matching
  <2>2. p.src \in DOMAIN eps[Peer(i)] /\ eps[Peer(i)][p.src].sn = p.sn /\ p.psn = 1
    BY <1>4, PacketFacts DEF HsInv, NetOk, PacketOk, CreqHs
  <2>3. EpHs(eps[i][e]) /\ eps[i][e].head \in Nat
    BY <2>1, EpFacts, Zenon
  <2> QED
    BY <1>3, <2>1, <2>2, <2>3, SMTT(30) DEF EpHs
<1>5. ASSUME NEW p \in net, p.to = i, p.type = "crep"
      PROVE  /\ Connected(eps[i][p.dst]) => eps[i][p.dst].dest = p.src
             /\ p.psn < eps[i][p.dst].head => "CREP_RCVD" \in eps[i][p.dst].flags
  <2>1. /\ p.dst \in DOMAIN eps[i] /\ p.src \in DOMAIN eps[Peer(i)] /\ p.psn \in Nat
        /\ eps[Peer(i)][p.src].sn = eps[i][p.dst].sn
    BY <1>5, PacketFacts, Zenon
  <2>2. CrepSeen(net, i, p.dst, eps[i][p.dst]) /\ eps[i][p.dst].head \in Nat
    BY <2>1, EpFacts, Zenon
  <2>3. p.psn < eps[i][p.dst].head => p.psn <= eps[i][p.dst].head
    BY <2>1, <2>2
  <2> QED
    BY <1>3, <1>5, <2>1, <2>2, <2>3, Zenon DEF CrepSeen
<1> QED
  BY <1>2, <1>4, <1>5 DEF Seen

\* HsInv is an invariant of the handshake, when no user sends on an endpoint from a
\* pending callback of another.
THEOREM HsInvariant ==
    ASSUME ~SendsFromCallbacks
    PROVE  Spec => []HsInv
<1>1. ConnInv /\ HsInv /\ [Next]_vars => HsInv'
  <2> SUFFICES ASSUME ConnInv, HsInv, [Next]_vars
               PROVE  HsInv'
    BY Zenon
  <2>1. CASE UNCHANGED vars
    BY <2>1, Zenon DEF vars, HsInv
  <2>2. ASSUME NEW i \in Iface, CreateConnected(i)
        PROVE  HsInv'
    BY <2>2, CreateHs, Zenon
  <2>3. ASSUME NEW i \in Iface, NEW p \in net, Receive(i, p)
        PROVE  HsInv'
    BY <2>3, RxCreqHs, ProcessRxHs DEF Receive
  <2>4. ASSUME NEW i \in Iface, NEW e \in DOMAIN eps[i], DoPendingCtl(i, e) \/ Send(i, e)
        PROVE  HsInv'
    BY <2>4, PendingHs, SendHs, Zenon
  <2> QED
    BY <2>1, <2>2, <2>3, <2>4, Zenon DEF Next
<1> QED
  BY ConnInvariant, HsInit, <1>1, PTL DEF Spec

\* The assertions of uct_ud_ep_rx_creq, uct_ud_ep_rx_ctl, uct_ud_ep_prepare_creq and
\* uct_ud_ep_prepare_crep never fail, when no user sends on an endpoint from a pending
\* callback of another.
THEOREM ConnPacketsExpectedTheorem ==
    ASSUME ~SendsFromCallbacks
    PROVE  Spec => []ConnPacketsExpected
<1>1. Spec => []HsInv
  BY HsInvariant, Zenon
<1> QED
  BY ConnInvariant, HsExpected, <1>1, PTL

-----------------------------------------------------------------------------
(* Delivery. *)

\* Messages have consecutive numbers, after those of the handshake; nothing is sent or
\* received before the endpoint is connected.
OutOk(ep) ==
    /\ \A n \in 1 .. Len(ep.out) : ep.out[n] >= 2 /\ ep.out[n] + Len(ep.out) + 1 = ep.psn + n
    /\ Len(ep.out) > 0 => Connected(ep) /\ "CREP" \notin ep.ops
    /\ ~Connected(ep) => ep.head = 0
    /\ Len(ep.got) <= ep.head
    /\ \A n \in 1 .. Len(ep.got) : ep.got[n] = n

\* ep has the messages of f up to the number it has received.
Upto(ep, f) ==
    /\ Len(ep.got) <= Len(f.out)
    /\ \A n \in 1 .. Len(f.out) : f.out[n] <= ep.head <=> n <= Len(ep.got)

GotOk(t, i, ep) == \A s \in DOMAIN t[Peer(i)] : t[Peer(i)][s].sn = ep.sn => Upto(ep, t[Peer(i)][s])

\* Beyond the handshake, what is acknowledged is received.
AckOk(t, i, ep) ==
    ep.acked <= 1 \/ \E s \in DOMAIN t[Peer(i)] : t[Peer(i)][s].sn = ep.sn /\ ep.acked <= t[Peer(i)][s].head

\* What packets say of their senders.
CarriesMsg(t, p) ==
    \E s \in DOMAIN t[Peer(p.to)] :
        LET f == t[Peer(p.to)][s]
        IN  f.dest = p.dst /\ p.msg \in 1 .. Len(f.out) /\ f.out[p.msg] = p.psn

CarriesAck(t, p) ==
    \E s \in DOMAIN t[Peer(p.to)] :
        t[Peer(p.to)][s].dest = p.dst /\ p.ack <= t[Peer(p.to)][s].head

CrepFirst(t, p) ==
    LET f == t[Peer(p.to)][p.src] IN \A n \in 1 .. Len(f.out) : p.psn < f.out[n]

PacketD(t, p) ==
    /\ p.type = "data" => p.dst # NullId /\ CarriesMsg(t, p)
    /\ p.type = "crep" => CrepFirst(t, p)
    /\ p.type # "creq" => p.dst # NullId /\ CarriesAck(t, p)

EpsD(t) == \A i \in Iface : \A e \in DOMAIN t[i] : OutOk(t[i][e]) /\ GotOk(t, i, t[i][e]) /\ AckOk(t, i, t[i][e])

NetD(t, n) == \A p \in n : PacketD(t, p)

DInv == EpsD(eps) /\ NetD(eps, net)

\* It holds initially.
LEMMA DInit == Init => DInv
  BY PeerFacts DEF Init, DInv, EpsD, NetD

-----------------------------------------------------------------------------
\* What an operation does to an endpoint: what was received and sent stays, what is
\* sent has new numbers.
Further(o, r) ==
    /\ r.sn = o.sn /\ o.head <= r.head /\ (Connected(o) => r.dest = o.dest)
    /\ Len(o.out) <= Len(r.out)
    /\ \A n \in 1 .. Len(r.out) : IF n <= Len(o.out) THEN r.out[n] = o.out[n] ELSE r.out[n] >= o.psn

Furthers(t, u) == \A j \in Iface : \A f \in DOMAIN t[j] : f \in DOMAIN u[j] /\ Further(t[j][f], u[j][f])

\* The types of what the proofs calculate with.
LEMMA RecFacts ==
    ASSUME NEW ep \in EpRec
    PROVE  /\ ep.psn \in Nat /\ ep.head \in Nat /\ ep.acked \in Nat /\ ep.sn \in Nat /\ ep.dest \in Nat
           /\ ep.out \in Seq(Nat) /\ ep.got \in Seq(Nat) /\ Len(ep.out) \in Nat /\ Len(ep.got) \in Nat
           /\ \A n \in 1 .. Len(ep.out) : ep.out[n] \in Nat
<1>1. ep.out \in Seq(Nat) /\ ep.got \in Seq(Nat)
  BY Zenon DEF EpRec
<1>2. ep.psn \in Nat /\ ep.head \in Nat /\ ep.acked \in Nat /\ ep.sn \in Nat /\ ep.dest \in Nat
  BY Zenon DEF EpRec
<1> QED
  BY <1>1, <1>2, SMTT(30)

\* An endpoint that stays as it is is further.
LEMMA FurtherRefl == ASSUME NEW ep \in EpRec PROVE Further(ep, ep)
  BY RecFacts DEF Further

\* What packets say stays true.
LEMMA PacketDKept ==
    ASSUME ConnInv, HsInv, NEW u \in Table, Furthers(eps, u), NEW p \in net, PacketD(eps, p)
    PROVE  PacketD(u, p)
<1> DEFINE j == Peer(p.to)
<1>1. eps \in Table /\ j \in Iface
  BY PacketFacts, Zenon DEF ConnInv, TypeInv, Table
<1>2. ASSUME NEW s \in DOMAIN eps[j]
      PROVE  s \in DOMAIN u[j] /\ Further(eps[j][s], u[j][s]) /\ eps[j][s] \in EpRec /\ u[j][s] \in EpRec
  <2>1. s \in DOMAIN u[j] /\ Further(eps[j][s], u[j][s])
    BY <1>1, Zenon DEF Furthers
  <2> QED
    BY <1>1, <2>1 DEF Table
<1>3. ASSUME p.type = "data"
      PROVE  CarriesMsg(u, p)
  <2>1. PICK s \in DOMAIN eps[j] : eps[j][s].dest = p.dst /\ p.msg \in 1 .. Len(eps[j][s].out)
                                   /\ eps[j][s].out[p.msg] = p.psn
    BY <1>3, Zenon DEF PacketD, CarriesMsg
  <2>2. p.dst # NullId
    BY <1>3, Zenon DEF PacketD
  <2>3. Len(eps[j][s].out) \in Nat /\ Len(u[j][s].out) \in Nat
    BY <1>2, RecFacts, Zenon
  <2>4. u[j][s].dest = p.dst /\ p.msg \in 1 .. Len(u[j][s].out) /\ u[j][s].out[p.msg] = p.psn
    <3> DEFINE o == eps[j][s]
               r == u[j][s]
    <3>1. Further(o, r)
      BY <1>2, Zenon
    <3>2. o.dest = p.dst /\ p.msg \in 1 .. Len(o.out) /\ o.out[p.msg] = p.psn
      BY <2>1, Zenon
    <3>3. Len(o.out) \in Nat /\ Len(r.out) \in Nat
      BY <2>3, Zenon
    <3> HIDE DEF o, r
    <3>4. r.dest = p.dst /\ p.msg \in 1 .. Len(r.out) /\ r.out[p.msg] = p.psn
      BY <2>2, <3>1, <3>2, <3>3 DEF Further, Connected
    <3> QED
      BY <3>4, Zenon DEF r
  <2> QED
    BY <1>2, <2>4, Zenon DEF CarriesMsg
<1>4. ASSUME p.type # "creq"
      PROVE  CarriesAck(u, p)
  <2>1. PICK s \in DOMAIN eps[j] : eps[j][s].dest = p.dst /\ p.ack <= eps[j][s].head
    BY <1>4, Zenon DEF PacketD, CarriesAck
  <2>2. p.dst # NullId
    BY <1>4, Zenon DEF PacketD
  <2>3. eps[j][s].head \in Nat /\ u[j][s].head \in Nat /\ p.ack \in Nat
    <3>1. p.ack \in Nat
      BY <1>4, Zenon DEF ConnInv, TypeInv, Packet, CreqPacket, CrepPacket, DataPacket, AckPacket
    <3> QED
      BY <1>2, <3>1, RecFacts, Zenon
  <2>4. u[j][s].dest = p.dst /\ p.ack <= u[j][s].head
    BY <1>2, <2>1, <2>2, <2>3 DEF Further, Connected
  <2> QED
    BY <1>2, <2>4, Zenon DEF CarriesAck
<1>5. ASSUME p.type = "crep"
      PROVE  CrepFirst(u, p)
  <2> DEFINE o == eps[j][p.src]
             r == u[j][p.src]
  <2>1. p.src \in DOMAIN eps[j] /\ p.psn \in Nat
    BY <1>5, PacketFacts, Zenon
  <2>2. p.psn < o.psn
    BY <1>5, Zenon DEF HsInv, NetOk, PacketOk, CrepHs
  <2>3. \A n \in 1 .. Len(o.out) : p.psn < o.out[n]
    BY <1>5, Zenon DEF PacketD, CrepFirst
  <2>4. o \in EpRec /\ r \in EpRec /\ Further(o, r)
    BY <1>2, <2>1, Zenon
  <2> HIDE DEF o, r
  <2>5. \A n \in 1 .. Len(r.out) : p.psn < r.out[n]
    <3> SUFFICES ASSUME NEW n \in 1 .. Len(r.out)
                 PROVE  p.psn < r.out[n]
      BY Zenon
    <3>1. /\ Len(o.out) \in Nat /\ Len(r.out) \in Nat /\ o.psn \in Nat /\ r.out[n] \in Nat
      BY <2>4, RecFacts, Zenon
    <3>2. IF n <= Len(o.out) THEN r.out[n] = o.out[n] ELSE r.out[n] >= o.psn
      BY <2>4, Zenon DEF Further
    <3> QED
      BY <2>1, <2>2, <2>3, <3>1, <3>2
  <2> QED
    BY <2>5, Zenon DEF CrepFirst, r
<1> QED
  BY <1>3, <1>4, <1>5, Zenon DEF PacketD

\* What is acknowledged stays received.
LEMMA AckKept ==
    ASSUME NEW t \in Table, NEW u \in Table, Furthers(t, u), NEW i \in Iface, NEW ep \in EpRec,
           AckOk(t, i, ep)
    PROVE  AckOk(u, i, ep)
<1> DEFINE j == Peer(i)
<1>1. CASE ep.acked <= 1
  BY <1>1, Zenon DEF AckOk
<1>2. CASE ~(ep.acked <= 1)
  <2>1. PICK s \in DOMAIN t[j] : t[j][s].sn = ep.sn /\ ep.acked <= t[j][s].head
    BY <1>2, Zenon DEF AckOk
  <2>2. s \in DOMAIN u[j] /\ Further(t[j][s], u[j][s]) /\ j \in Iface
    BY <2>1, PeerFacts, Zenon DEF Furthers
  <2>3. t[j][s] \in EpRec /\ u[j][s] \in EpRec
    BY <2>1, <2>2 DEF Table
  <2>4. t[j][s].head \in Nat /\ u[j][s].head \in Nat /\ ep.acked \in Nat
    BY <2>3, RecFacts, Zenon
  <2>5. u[j][s].sn = ep.sn /\ ep.acked <= u[j][s].head
    BY <2>1, <2>2, <2>4 DEF Further
  <2> QED
    BY <2>2, <2>5, Zenon DEF AckOk
<1> QED
  BY <1>1, <1>2, Zenon

\* What its peer sends next, ep has not received.
LEMMA UptoKept ==
    ASSUME NEW ep \in EpRec, NEW o \in EpRec, NEW r \in EpRec, Further(o, r), Upto(ep, o),
           ep.head < o.psn
    PROVE  Upto(ep, r)
<1>1. /\ Len(o.out) \in Nat /\ Len(r.out) \in Nat /\ Len(ep.got) \in Nat /\ ep.head \in Nat
      /\ o.psn \in Nat
  BY RecFacts, Zenon
<1>2. Len(ep.got) <= Len(r.out)
  BY <1>1 DEF Upto, Further
<1>3. ASSUME NEW n \in 1 .. Len(r.out)
      PROVE  r.out[n] <= ep.head <=> n <= Len(ep.got)
  <2>1. r.out[n] \in Nat
    BY RecFacts, Zenon
  <2>2. CASE n <= Len(o.out)
    <3>1. n \in 1 .. Len(o.out) /\ r.out[n] = o.out[n]
      BY <1>1, <2>2 DEF Further
    <3> QED
      BY <3>1, Zenon DEF Upto
  <2>3. CASE ~(n <= Len(o.out))
    <3>1. r.out[n] >= o.psn
      BY <2>3, Zenon DEF Further
    <3>2. Len(ep.got) <= Len(o.out)
      BY Zenon DEF Upto
    <3> QED
      BY <1>1, <2>1, <2>3, <3>1, <3>2
  <2> QED
    BY <2>2, <2>3, Zenon
<1> QED
  BY <1>2, <1>3, Zenon DEF Upto

\* An endpoint of the table, with what the invariant says of it.
LEMMA EpD ==
    ASSUME ConnInv, DInv, NEW i \in Iface, NEW e \in DOMAIN eps[i]
    PROVE  /\ eps[i][e] \in EpRec /\ OutOk(eps[i][e]) /\ GotOk(eps, i, eps[i][e])
           /\ AckOk(eps, i, eps[i][e])
  BY DEF ConnInv, TypeInv, DInv, EpsD

\* An endpoint that changes as it may leaves the others and the packets as they were.
LEMMA ChangeD ==
    ASSUME ConnInv, HsInv, DInv, NEW i \in Iface, NEW e \in DOMAIN eps[i], NEW r \in EpRec,
           Further(eps[i][e], r), OutOk(r), GotOk(eps, i, r), AckOk(eps, i, r),
           NEW u, u = [eps EXCEPT ![i] = [eps[i] EXCEPT ![e] = r]]
    PROVE  u \in Table /\ EpsD(u) /\ NetD(u, net)
<1>1. eps \in Table
  BY Zenon DEF ConnInv, TypeInv, Table
<1>2. u \in Table
  BY <1>1 DEF Table
<1>3. /\ \A j \in Iface : DOMAIN u[j] = DOMAIN eps[j]
      /\ u[i][e] = r
      /\ \A j \in Iface : \A f \in DOMAIN eps[j] : j # i \/ f # e => u[j][f] = eps[j][f]
  BY <1>1, Zenon DEF Table
<1>4. \A j \in Iface : \A f \in DOMAIN eps[j] : eps[j][f] \in EpRec
  BY <1>1 DEF Table
<1>5. Furthers(eps, u)
  BY <1>3, <1>4, FurtherRefl DEF Furthers
<1>6. ASSUME NEW j \in Iface, NEW f \in DOMAIN eps[j]
      PROVE  OutOk(u[j][f]) /\ GotOk(u, j, u[j][f]) /\ AckOk(u, j, u[j][f])
  <2>1. CASE j = i /\ f = e
    <3>1. AckOk(u, i, r)
      BY <1>1, <1>2, <1>5, AckKept, Zenon
    <3>2. u[Peer(i)] = eps[Peer(i)]
      BY <1>1, PeerFacts, Zenon DEF Table
    <3>3. GotOk(u, i, r)
      BY <3>2, Zenon DEF GotOk
    <3> QED
      BY <1>3, <2>1, <3>1, <3>3, Zenon
  <2>2. CASE j # i \/ f # e
    <3> DEFINE ep == eps[j][f]
    <3>1. u[j][f] = ep /\ ep \in EpRec /\ OutOk(ep) /\ GotOk(eps, j, ep) /\ AckOk(eps, j, ep)
      BY <1>3, <2>2, EpD, Zenon
    <3>2. AckOk(u, j, ep)
      BY <1>1, <1>2, <1>5, <3>1, AckKept, Zenon
    <3>3. ASSUME NEW s \in DOMAIN u[Peer(j)], u[Peer(j)][s].sn = ep.sn
          PROVE  Upto(ep, u[Peer(j)][s])
      <4>1. Peer(j) \in Iface /\ s \in DOMAIN eps[Peer(j)]
        BY <1>3, PeerFacts, Zenon
      <4>2. /\ Further(eps[Peer(j)][s], u[Peer(j)][s]) /\ eps[Peer(j)][s] \in EpRec
            /\ u[Peer(j)][s] \in EpRec
        BY <1>2, <1>4, <1>5, <4>1, Zenon DEF Furthers, Table
      <4>3. eps[Peer(j)][s].sn = ep.sn
        BY <3>3, <4>2, Zenon DEF Further
      <4>4. Upto(ep, eps[Peer(j)][s])
        BY <3>1, <4>1, <4>3, Zenon DEF GotOk
      <4>5. ep.head < eps[Peer(j)][s].psn
        BY <4>1, <4>3, HeadBelow, Zenon
      <4> QED
        BY <3>1, <4>2, <4>4, <4>5, UptoKept, Zenon
    <3>4. GotOk(u, j, ep)
      BY <3>3, Zenon DEF GotOk
    <3> QED
      BY <3>1, <3>2, <3>4, Zenon
  <2> QED
    BY <2>1, <2>2, Zenon
<1>7. EpsD(u)
  BY <1>3, <1>6, Zenon DEF EpsD
<1>8. NetD(u, net)
  BY <1>2, <1>5, PacketDKept, Zenon DEF DInv, NetD
<1> QED
  BY <1>2, <1>7, <1>8, Zenon

\* So does an endpoint that is added: it has neither sent nor received messages.
LEMMA AppendD ==
    ASSUME ConnInv, HsInv, DInv, NEW i \in Iface, NEW r \in EpRec, OutOk(r), r.out = <<>>, r.got = <<>>,
           r.head <= 1, r.acked <= 1, \A f \in DOMAIN eps[i] : eps[i][f].sn # r.sn,
           NEW u, u = [eps EXCEPT ![i] = Append(eps[i], r)]
    PROVE  u \in Table /\ EpsD(u) /\ NetD(u, net)
<1>1. eps \in Table /\ Peer(i) \in Iface /\ Peer(i) # i
  BY PeerFacts, Zenon DEF ConnInv, TypeInv, Table
<1>2. u \in Table
  BY <1>1 DEF Table
<1> DEFINE new == Len(eps[i]) + 1
<1>3. /\ DOMAIN u[i] = DOMAIN eps[i] \cup {new} /\ new \notin DOMAIN eps[i] /\ u[i][new] = r
      /\ \A j \in Iface : j # i => u[j] = eps[j]
      /\ \A j \in Iface : \A f \in DOMAIN eps[j] : f \in DOMAIN u[j] /\ u[j][f] = eps[j][f]
  BY <1>1 DEF Table
<1>4. \A j \in Iface : \A f \in DOMAIN eps[j] : eps[j][f] \in EpRec
  BY <1>1 DEF Table
<1> HIDE DEF new
<1>5. Furthers(eps, u)
  BY <1>3, <1>4, FurtherRefl DEF Furthers
<1>6. ASSUME NEW j \in Iface, NEW f \in DOMAIN u[j]
      PROVE  OutOk(u[j][f]) /\ GotOk(u, j, u[j][f]) /\ AckOk(u, j, u[j][f])
  <2>1. CASE f \notin DOMAIN eps[j]
    <3>1. j = i /\ u[j][f] = r
      BY <1>3, <2>1
    <3>2. AckOk(u, i, r)
      BY Zenon DEF AckOk
    <3>3. ASSUME NEW s \in DOMAIN u[Peer(i)]
          PROVE  Upto(r, u[Peer(i)][s])
      <4> DEFINE g == eps[Peer(i)][s]
      <4>1. u[Peer(i)][s] = g /\ g \in EpRec /\ OutOk(g)
        BY <1>1, <1>3, <1>4, EpD, Zenon
      <4>2. Len(r.got) = 0 /\ r.head \in Nat /\ Len(g.out) \in Nat
        BY <4>1, RecFacts, Zenon
      <4> HIDE DEF g
      <4>3. \A n \in 1 .. Len(g.out) : g.out[n] \in Nat /\ g.out[n] >= 2
        BY <4>1, RecFacts, Zenon DEF OutOk
      <4> QED
        BY <4>1, <4>2, <4>3 DEF Upto
    <3>4. GotOk(u, i, r)
      BY <3>3, Zenon DEF GotOk
    <3> QED
      BY <3>1, <3>2, <3>4, Zenon
  <2>2. CASE f \in DOMAIN eps[j]
    <3> DEFINE ep == eps[j][f]
    <3>1. u[j][f] = ep /\ ep \in EpRec /\ OutOk(ep) /\ GotOk(eps, j, ep) /\ AckOk(eps, j, ep)
      BY <1>3, <2>2, EpD, Zenon
    <3>2. AckOk(u, j, ep)
      BY <1>1, <1>2, <1>5, <3>1, AckKept, Zenon
    <3>3. ASSUME NEW s \in DOMAIN u[Peer(j)], u[Peer(j)][s].sn = ep.sn
          PROVE  Upto(ep, u[Peer(j)][s])
      <4>1. CASE s \in DOMAIN eps[Peer(j)]
        BY <1>3, <3>1, <3>3, <4>1, PeerFacts DEF GotOk
      <4>2. CASE s \notin DOMAIN eps[Peer(j)]
        <5>1. Peer(j) = i /\ u[Peer(j)][s] = r
          BY <1>3, <4>2, PeerFacts
        <5>2. ep.head = 0
          BY <2>2, <3>3, <5>1, EpFacts DEF HeadSent
        <5>3. Len(ep.got) = 0 /\ Len(r.out) = 0
          BY <3>1, <5>2, RecFacts DEF OutOk
        <5> QED
          BY <5>1, <5>3 DEF Upto
      <4> QED
        BY <4>1, <4>2, Zenon
    <3>4. GotOk(u, j, ep)
      BY <3>3, Zenon DEF GotOk
    <3> QED
      BY <3>1, <3>2, <3>4, Zenon
  <2> QED
    BY <2>1, <2>2, Zenon
<1>7. EpsD(u)
  BY <1>6, Zenon DEF EpsD
<1>8. NetD(u, net)
  BY <1>2, <1>5, PacketDKept, Zenon DEF DInv, NetD
<1> QED
  BY <1>2, <1>7, <1>8, Zenon

\* An operation that leaves the messages and the numbers of an endpoint alone.
LEMMA QuietD ==
    ASSUME ConnInv, HsInv, DInv, NEW i \in Iface, NEW e \in DOMAIN eps[i], NEW r \in EpRec,
           r.sn = eps[i][e].sn, r.dest = eps[i][e].dest, r.psn = eps[i][e].psn,
           r.head = eps[i][e].head, r.acked = eps[i][e].acked, r.out = eps[i][e].out,
           r.got = eps[i][e].got, "CREP" \in r.ops => "CREP" \in eps[i][e].ops,
           NEW u, u = [eps EXCEPT ![i] = [eps[i] EXCEPT ![e] = r]]
    PROVE  u \in Table /\ EpsD(u) /\ NetD(u, net)
<1> DEFINE o == eps[i][e]
<1>1. o \in EpRec /\ OutOk(o) /\ GotOk(eps, i, o) /\ AckOk(eps, i, o)
  BY EpD, Zenon
<1>2. Further(o, r)
  <2>1. Further(o, o)
    BY <1>1, FurtherRefl, Zenon
  <2> QED
    BY <2>1, Zenon DEF Further
<1>3. OutOk(r) /\ GotOk(eps, i, r) /\ AckOk(eps, i, r)
  BY <1>1, Zenon DEF OutOk, GotOk, AckOk, Upto, Connected
<1> QED
  BY <1>2, <1>3, ChangeD, Zenon

-----------------------------------------------------------------------------
\* Creating an endpoint sends no message.
LEMMA CreateD ==
    ASSUME ConnInv, HsInv, DInv, NEW i \in Iface, CreateConnected(i)
    PROVE  DInv'
<1> DEFINE sn == nextSn[i]
           ep == NewEp(sn)
           new == Len(eps[i]) + 1
<1>1. eps \in Table /\ sn \in Nat
  BY Zenon DEF ConnInv, TypeInv, Table
<1>2. /\ ep \in EpRec /\ ~Connected(ep) /\ ep.head = 0 /\ ep.acked = 0 /\ ep.out = <<>> /\ ep.got = <<>>
      /\ ep.sn = sn
  BY <1>1 DEF NewEp, EpRec, Connected, NullId, InitialPsn
<1>3. ASSUME NEW p \in Matching(i, sn, TRUE),
             eps' = [eps EXCEPT ![i][p].private = FALSE,
                                ![i][p].flags = @ \cup {"CREQ_NOTSENT"}],
             net' = net
      PROVE  DInv'
  <2> DEFINE o == eps[i][p]
             flags == o.flags \cup {"CREQ_NOTSENT"}
             r == [o EXCEPT !.private = FALSE, !.flags = flags]
  <2>1. p \in DOMAIN eps[i] /\ o \in EpRec
    BY EpD, Zenon DEF Matching
  <2>2. eps' = [eps EXCEPT ![i] = [eps[i] EXCEPT ![p] = r]]
    BY <1>1, <1>3, <2>1, Zenon DEF Table
  <2>3. flags \in SUBSET Flag
    BY <2>1, Zenon DEF EpRec, Flag
  <2> HIDE DEF o, flags
  <2>4. /\ r \in EpRec /\ r.sn = o.sn /\ r.dest = o.dest /\ r.psn = o.psn /\ r.ops = o.ops
        /\ r.head = o.head /\ r.acked = o.acked /\ r.out = o.out /\ r.got = o.got
    BY <2>1, <2>3, Zenon DEF EpRec
  <2> HIDE DEF r
  <2>5. EpsD(eps') /\ NetD(eps', net)
    BY <2>1, <2>2, <2>4, QuietD, Zenon DEF o
  <2> QED
    BY <1>3, <2>5, Zenon DEF DInv
<1>4. ASSUME Matching(i, sn, TRUE) = {}, NEW r \in EpRec, r.sn = sn, r.dest = NullId, r.head = 0,
             r.acked = 0, r.out = <<>>, r.got = <<>>,
             eps' = [eps EXCEPT ![i] = Append(eps[i], r)],
             net' \in {net, net \cup {Creq(i, new, ep)}}
      PROVE  DInv'
  <2>1. ASSUME NEW f \in DOMAIN eps[i], eps[i][f].sn = sn
        PROVE  FALSE
    <3>1. eps[i][f] \in EpRec
      BY EpD, Zenon
    <3>2. eps[i][f].private \in BOOLEAN
      BY <3>1, Zenon DEF EpRec
    <3>3. ~(sn < sn)
      BY <1>1
    <3>4. eps[i][f].private # FALSE
      BY <2>1, <3>3, Zenon DEF ConnInv, EpInv, Sound
    <3>5. eps[i][f].private = TRUE
      BY <3>2, <3>4, Zenon
    <3> QED
      BY <1>4, <2>1, <3>5, Zenon DEF Matching
  <2>2. OutOk(r)
    BY <1>4 DEF OutOk, Connected
  <2>3. EpsD(eps') /\ NetD(eps', net)
    <3>1. r.head <= 1 /\ r.acked <= 1
      BY <1>4
    <3>2. \A f \in DOMAIN eps[i] : eps[i][f].sn # r.sn
      BY <1>4, <2>1, Zenon
    <3> QED
      BY <1>4, <2>2, <3>1, <3>2, AppendD, Zenon
  <2>4. PacketD(eps', Creq(i, new, ep))
    BY Zenon DEF PacketD, Creq
  <2> QED
    BY <1>4, <2>3, <2>4, Zenon DEF DInv, NetD
<1>5. LET r == Sent(ep, "CREQ_SENT")
      IN  /\ r \in EpRec /\ r.sn = sn /\ r.dest = NullId /\ r.head = 0 /\ r.acked = 0 /\ r.out = <<>>
          /\ r.got = <<>>
  <2>1. "CREQ_SENT" \in Flag
    BY Zenon DEF Flag
  <2> QED
    BY <1>2, <2>1, SentFacts, Zenon DEF Sent, EpRec, Connected
<1>6. LET r == [ep EXCEPT !.ops = {"CREQ"}]
      IN  /\ r \in EpRec /\ r.sn = sn /\ r.dest = NullId /\ r.head = 0 /\ r.acked = 0 /\ r.out = <<>>
          /\ r.got = <<>>
  BY <1>2, Zenon DEF EpRec, Connected
<1> QED
  BY <1>3, <1>4, <1>5, <1>6, Zenon DEF CreateConnected

\* The packets of the handshake take their numbers before the first message.
LEMMA PendingD ==
    ASSUME ConnInv, HsInv, DInv, NEW i \in Iface, NEW e \in DOMAIN eps[i], DoPendingCtl(i, e)
    PROVE  DInv'
<1> DEFINE ep == eps[i][e]
<1>1. eps \in Table /\ Peer(i) \in Iface /\ Peer(Peer(i)) = i
  BY PeerFacts, Zenon DEF ConnInv, TypeInv, Table
<1>2. /\ ep \in EpRec /\ OutOk(ep) /\ GotOk(eps, i, ep) /\ AckOk(eps, i, ep) /\ EpHs(ep)
      /\ Sound(eps, nextSn, i, ep) /\ ep.psn \in Nat /\ ep.head \in Nat /\ Len(ep.out) \in Nat
  BY EpD, EpFacts, RecFacts, Zenon
<1>3. ASSUME NEW flag \in Flag, Len(ep.out) = 0,
             eps' = [eps EXCEPT ![i][e] = Sent(ep, flag)]
      PROVE  /\ EpsD(eps') /\ NetD(eps', net) /\ e \in DOMAIN eps'[i] /\ eps'[i][e].dest = ep.dest
             /\ eps'[i][e].head = ep.head /\ Len(eps'[i][e].out) = 0
  <2> DEFINE r == Sent(ep, flag)
  <2>1. eps' = [eps EXCEPT ![i] = [eps[i] EXCEPT ![e] = r]]
    BY <1>3, Zenon
  <2>2. eps'[i][e] = r /\ e \in DOMAIN eps'[i]
    BY <1>1, <2>1, Zenon DEF Table
  <2> HIDE DEF ep
  <2>3. /\ r \in EpRec /\ r.sn = ep.sn /\ r.dest = ep.dest /\ "CREP" \notin r.ops
    BY <1>2, SentFacts, Zenon
  <2>4. r.out = ep.out /\ r.got = ep.got /\ r.head = ep.head /\ r.acked = ep.acked
    BY <1>2, Zenon DEF Sent, EpRec
  <2> HIDE DEF r
  <2>5. Further(ep, r) /\ OutOk(r)
    BY <1>2, <1>3, <2>3, <2>4 DEF Further, OutOk, Connected
  <2>6. GotOk(eps, i, r) /\ AckOk(eps, i, r)
    BY <1>2, <2>3, <2>4, Zenon DEF GotOk, AckOk, Upto
  <2>7. EpsD(eps') /\ NetD(eps', net)
    BY <2>1, <2>3, <2>5, <2>6, ChangeD, Zenon DEF ep
  <2> QED
    BY <1>3, <2>2, <2>3, <2>4, <2>7, Zenon
<1>4. CASE /\ "CREQ" \in ep.ops
           /\ eps' = [eps EXCEPT ![i][e] = Sent(ep, "CREQ_SENT")] /\ net' = net \cup {Creq(i, e, ep)}
  <2>1. Len(ep.out) = 0
    BY <1>2, <1>4 DEF EpHs, OutOk
  <2>2. EpsD(eps') /\ NetD(eps', net)
    BY <1>3, <1>4, <2>1, Zenon DEF Flag
  <2>3. PacketD(eps', Creq(i, e, ep))
    BY Zenon DEF PacketD, Creq
  <2> QED
    BY <1>4, <2>2, <2>3, Zenon DEF DInv, NetD
<1>5. CASE /\ "CREP" \in ep.ops
           /\ eps' = [eps EXCEPT ![i][e] = Sent(ep, "CREP_SENT")] /\ net' = net \cup {Crep(i, e, ep)}
  <2> DEFINE q == Crep(i, e, ep)
  <2>1. Len(ep.out) = 0 /\ ep.dest # NullId
    BY <1>2, <1>5 DEF OutOk, Sound, Connected
  <2>2. /\ EpsD(eps') /\ NetD(eps', net) /\ e \in DOMAIN eps'[i] /\ eps'[i][e].dest = ep.dest
        /\ eps'[i][e].head = ep.head /\ Len(eps'[i][e].out) = 0
    BY <1>3, <1>5, <2>1, Zenon DEF Flag
  <2>3. /\ q.type = "crep" /\ q.to = Peer(i) /\ q.dst = ep.dest /\ q.src = e /\ q.ack = ep.head
    BY Zenon DEF Crep
  <2> HIDE DEF q, ep
  <2>4. CarriesAck(eps', q)
    <3>1. ep.head <= ep.head
      BY <1>2
    <3> QED
      BY <1>1, <2>2, <2>3, <3>1, Zenon DEF CarriesAck
  <2>5. CrepFirst(eps', q)
    BY <1>1, <2>2, <2>3 DEF CrepFirst
  <2>6. PacketD(eps', q)
    BY <2>1, <2>3, <2>4, <2>5, Zenon DEF PacketD
  <2> QED
    BY <1>5, <2>2, <2>6, Zenon DEF DInv, NetD, q, ep
<1>6. CASE /\ eps' = [eps EXCEPT ![i][e].ops = {}]
           /\ net' = IF Connected(ep) THEN net \cup {Ack(i, ep)} ELSE net
  <2> DEFINE r == [ep EXCEPT !.ops = {}]
             q == Ack(i, ep)
  <2>1. /\ r \in EpRec /\ r.sn = ep.sn /\ r.dest = ep.dest /\ r.psn = ep.psn /\ r.ops = {}
        /\ r.head = ep.head /\ r.acked = ep.acked /\ r.out = ep.out /\ r.got = ep.got
    BY <1>2, Zenon DEF EpRec
  <2>2. q.type = "ack" /\ q.to = Peer(i) /\ q.dst = ep.dest /\ q.ack = ep.head
    BY Zenon DEF Ack
  <2>3. eps' = [eps EXCEPT ![i] = [eps[i] EXCEPT ![e] = r]]
    BY <1>1, <1>6, Zenon DEF Table
  <2>4. eps'[i][e] = r /\ e \in DOMAIN eps'[i]
    BY <1>1, <2>3, Zenon DEF Table
  <2>5. net' = net \/ (ep.dest # NullId /\ net' = net \cup {q})
    BY <1>6, Zenon DEF Connected
  <2> HIDE DEF r, q, ep
  <2>6. EpsD(eps') /\ NetD(eps', net)
    BY <2>1, <2>3, QuietD, Zenon DEF ep
  <2>7. CarriesAck(eps', q)
    <3>1. ep.head <= ep.head
      BY <1>2
    <3> QED
      BY <1>1, <2>1, <2>2, <2>4, <3>1 DEF CarriesAck
  <2>8. ep.dest # NullId => PacketD(eps', q)
    BY <2>2, <2>7, Zenon DEF PacketD
  <2> QED
    BY <2>5, <2>6, <2>8, Zenon DEF DInv, NetD
<1> QED
  BY <1>4, <1>5, <1>6, Zenon DEF DoPendingCtl

\* A message gets the next number.
LEMMA SendD ==
    ASSUME ConnInv, HsInv, DInv, ~SendsFromCallbacks,
           NEW i \in Iface, NEW e \in DOMAIN eps[i], Send(i, e)
    PROVE  DInv'
<1> DEFINE ep == eps[i][e]
           psn == ep.psn + 1
           out == Append(ep.out, ep.psn)
           ops == ep.ops \ {"ACK"}
           r == [ep EXCEPT !.psn = psn, !.out = out, !.ops = ops]
           q == Data(i, ep)
<1>1. eps \in Table /\ Peer(i) \in Iface /\ Peer(Peer(i)) = i
  BY PeerFacts, Zenon DEF ConnInv, TypeInv, Table
<1>2. /\ ep \in EpRec /\ OutOk(ep) /\ GotOk(eps, i, ep) /\ AckOk(eps, i, ep) /\ EpHs(ep)
  BY EpD, EpFacts, Zenon
<1>3. /\ eps' = [eps EXCEPT ![i] = [eps[i] EXCEPT ![e] = r]] /\ net' = net \cup {q}
      /\ Connected(ep) /\ "CREP" \notin ep.ops
  BY <1>1, ZenonT(30) DEF Send, Table
<1>4. eps'[i][e] = r /\ e \in DOMAIN eps'[i]
  BY <1>1, <1>3, Zenon DEF Table
<1>5. /\ q.type = "data" /\ q.to = Peer(i) /\ q.dst = ep.dest /\ q.psn = ep.psn
      /\ q.ack = ep.head /\ q.msg = Len(ep.out) + 1
  BY Zenon DEF Data
<1> HIDE DEF ep, q
<1>6. /\ ep.psn \in Nat /\ ep.head \in Nat /\ ep.out \in Seq(Nat) /\ Len(ep.out) \in Nat
      /\ \A n \in 1 .. Len(ep.out) : ep.out[n] \in Nat
  BY <1>2, RecFacts, Zenon
<1>7. /\ out \in Seq(Nat) /\ Len(out) = Len(ep.out) + 1 /\ out[Len(ep.out) + 1] = ep.psn
      /\ \A n \in 1 .. Len(ep.out) : out[n] = ep.out[n]
  BY <1>6
<1>8. psn \in Nat /\ ops \in SUBSET {"CREQ", "CREP", "ACK"} /\ "CREP" \notin ops
  BY <1>2, <1>3, <1>6 DEF EpRec
<1> HIDE DEF out, ops
<1>9. /\ r \in EpRec /\ r.sn = ep.sn /\ r.dest = ep.dest /\ r.psn = ep.psn + 1 /\ r.ops = ops
      /\ r.head = ep.head /\ r.acked = ep.acked /\ r.out = out /\ r.got = ep.got
  BY <1>2, <1>7, <1>8, Zenon DEF EpRec
<1> HIDE DEF r, psn
<1>10. \A n \in 1 .. Len(out) : n \in 1 .. Len(ep.out) \/ n = Len(ep.out) + 1
  BY <1>6, <1>7
<1>11. Further(ep, r)
  BY <1>6, <1>7, <1>9, <1>10 DEF Further
<1>12. OutOk(r)
  <2>1. ep.psn >= 2
    BY <1>2, <1>3, Zenon DEF EpHs
  <2>2. ASSUME NEW n \in 1 .. Len(out)
        PROVE  out[n] >= 2 /\ out[n] + Len(out) + 1 = ep.psn + 1 + n
    <3>1. CASE n \in 1 .. Len(ep.out)
      <4>1. ep.out[n] >= 2 /\ ep.out[n] + Len(ep.out) + 1 = ep.psn + n /\ out[n] = ep.out[n]
        BY <1>2, <1>7, <3>1, Zenon DEF OutOk
      <4>2. ep.out[n] \in Nat
        BY <1>6, <3>1, Zenon
      <4>3. n \in Nat
        BY <1>6, <3>1
      <4>4. ep.out[n] + (Len(ep.out) + 1) + 1 = ep.psn + 1 + n
        <5> DEFINE a == ep.out[n]
                   b == Len(ep.out)
                   c == ep.psn
        <5>1. a \in Nat /\ b \in Nat /\ c \in Nat /\ n \in Nat /\ a + b + 1 = c + n
          BY <1>6, <4>1, <4>2, <4>3, Zenon
        <5> HIDE DEF a, b, c
        <5>2. a + (b + 1) + 1 = c + 1 + n
          BY <5>1
        <5> QED
          BY <5>2, Zenon DEF a, b, c
      <4> QED
        BY <1>7, <4>1, <4>4, Zenon
    <3>2. CASE n = Len(ep.out) + 1
      BY <1>6, <1>7, <2>1, <3>2
    <3> QED
      BY <1>10, <3>1, <3>2, Zenon
  <2> QED
    BY <1>2, <1>3, <1>8, <1>9, <2>2, Zenon DEF OutOk, Connected
<1>13. GotOk(eps, i, r) /\ AckOk(eps, i, r)
  BY <1>2, <1>9, Zenon DEF GotOk, AckOk, Upto
<1>14. EpsD(eps') /\ NetD(eps', net)
  BY <1>3, <1>9, <1>11, <1>12, <1>13, ChangeD, Zenon DEF ep
<1>15. PacketD(eps', q)
  <2>1. q.msg \in 1 .. Len(r.out) /\ r.out[q.msg] = q.psn /\ q.ack <= r.head /\ q.dst # NullId
    BY <1>3, <1>5, <1>6, <1>7, <1>9 DEF Connected
  <2>2. CarriesMsg(eps', q) /\ CarriesAck(eps', q)
    BY <1>1, <1>4, <1>5, <1>9, <2>1, Zenon DEF CarriesMsg, CarriesAck
  <2> QED
    BY <1>5, <2>1, <2>2, Zenon DEF PacketD
<1> QED
  BY <1>3, <1>14, <1>15, Zenon DEF DInv, NetD

\* A CREQ connects an endpoint that has received nothing.
LEMMA RxCreqD ==
    ASSUME ConnInv, HsInv, DInv, NEW i \in Iface, NEW p \in net, p.to = i, RxCreq(i, p)
    PROVE  DInv'
<1>1. eps \in Table /\ net' = net /\ p.type = "creq" /\ Peer(i) \in Iface
  BY PeerFacts, Zenon DEF ConnInv, TypeInv, Table, RxCreq
<1>2. p.psn = 1 /\ p.src \in Nat /\ p.sn \in Nat /\ p.src # NullId
  <2>1. p.psn = 1
    BY <1>1, Zenon DEF HsInv, NetOk, PacketOk, CreqHs
  <2>2. p.src \in DOMAIN eps[Peer(i)]
    BY <1>1, PacketFacts, Zenon
  <2>3. p.src \in Nat /\ p.sn \in Nat
    BY <1>1, Zenon DEF ConnInv, TypeInv, Packet, CreqPacket, CrepPacket, DataPacket, AckPacket
  <2>4. eps[Peer(i)] \in Seq(EpRec)
    BY <1>1, Zenon DEF Table
  <2> QED
    BY <2>1, <2>2, <2>3, <2>4 DEF NullId
<1>3. ASSUME NEW c \in EpRec
      PROVE  LET r == CreqRcvd(c, p.psn)
             IN  /\ r \in EpRec /\ r.sn = c.sn /\ r.dest = c.dest /\ r.psn = c.psn /\ r.head = c.head
                 /\ r.acked = c.acked /\ r.out = c.out /\ r.got = c.got
                 /\ "CREP" \in r.ops => "CREP" \in c.ops
  <2> DEFINE ops == c.ops \ {"CREQ"}
             more == IF "CREQ" \in c.ops THEN {"CREQ_NOTSENT"} ELSE {}
             flags == c.flags \cup {"CREQ_RCVD"} \cup more
  <2>1. ops \in SUBSET {"CREQ", "CREP", "ACK"} /\ ops \subseteq c.ops
    BY Zenon DEF EpRec
  <2>2. flags \in SUBSET Flag
    BY Zenon DEF EpRec, Flag
  <2>3. CreqRcvd(c, p.psn) \in {c, [c EXCEPT !.ops = ops, !.flags = flags]}
    BY Zenon DEF CreqRcvd
  <2> HIDE DEF ops, flags
  <2> QED
    BY <2>1, <2>2, <2>3, ZenonT(30) DEF EpRec
<1>4. CASE /\ Found(i, p.sn) = {}
           /\ eps' = [eps EXCEPT ![i] = Append(eps[i], CreqRcvd(Passive(p), p.psn))]
  <2> DEFINE c == Passive(p)
             r == CreqRcvd(c, p.psn)
  <2>1. /\ NewEp(p.sn) \in EpRec /\ NewEp(p.sn).sn = p.sn /\ NewEp(p.sn).acked = 0
        /\ NewEp(p.sn).out = <<>> /\ NewEp(p.sn).got = <<>>
    BY <1>2 DEF NewEp, EpRec, InitialPsn, NullId
  <2>2. {"CREP"} \in SUBSET {"CREQ", "CREP", "ACK"} /\ p.psn \in Nat
    BY <1>2
  <2>3. /\ c \in EpRec /\ c.sn = p.sn /\ c.dest = p.src /\ c.head = p.psn /\ c.acked = 0
        /\ c.out = <<>> /\ c.got = <<>>
    BY <1>2, <2>1, <2>2, Zenon DEF Passive, EpRec
  <2> HIDE DEF c
  <2>4. /\ r \in EpRec /\ r.sn = p.sn /\ r.dest = p.src /\ r.head = p.psn /\ r.acked = 0
        /\ r.out = <<>> /\ r.got = <<>>
    BY <1>3, <2>3, Zenon
  <2> HIDE DEF r
  <2>5. OutOk(r) /\ r.head <= 1 /\ r.acked <= 1
    BY <1>2, <2>4 DEF OutOk, Connected
  <2>6. ASSUME NEW f \in DOMAIN eps[i], eps[i][f].sn = p.sn
        PROVE  FALSE
    <3>1. eps[i][f] \in EpRec
      BY EpD, Zenon
    <3>2. eps[i][f].private \in BOOLEAN
      BY <3>1, Zenon DEF EpRec
    <3>3. f \in Matching(i, p.sn, TRUE) \/ f \in Matching(i, p.sn, FALSE)
      BY <2>6, <3>2, Zenon DEF Matching
    <3> QED
      BY <1>4, <3>3, Zenon DEF Found
  <2>7. eps' = [eps EXCEPT ![i] = Append(eps[i], r)] /\ \A f \in DOMAIN eps[i] : eps[i][f].sn # r.sn
    BY <1>4, <2>4, <2>6, Zenon DEF r, c
  <2>8. EpsD(eps') /\ NetD(eps', net)
    BY <2>4, <2>5, <2>7, AppendD, Zenon
  <2> QED
    BY <1>1, <2>8, Zenon DEF DInv
<1>5. ASSUME NEW e \in Found(i, p.sn),
             eps' = [eps EXCEPT ![i][e] =
                        CreqRcvd(IF Connected(eps[i][e]) THEN eps[i][e]
                                 ELSE Simultaneous(eps[i][e], p), p.psn)]
      PROVE  DInv'
  <2> DEFINE ep == eps[i][e]
             c == IF Connected(ep) THEN ep ELSE Simultaneous(ep, p)
             r == CreqRcvd(c, p.psn)
  <2>1. e \in DOMAIN eps[i]
    BY Zenon DEF Found, Matching
  <2>2. ep \in EpRec /\ OutOk(ep) /\ GotOk(eps, i, ep) /\ AckOk(eps, i, ep)
    BY <2>1, EpD, Zenon
  <2>3. eps' = [eps EXCEPT ![i] = [eps[i] EXCEPT ![e] = r]]
    BY <1>5, Zenon
  <2>4. CASE Connected(ep)
    <3>1. c = ep
      BY <2>4, Zenon
    <3> HIDE DEF c, ep
    <3>2. /\ r \in EpRec /\ r.sn = ep.sn /\ r.dest = ep.dest /\ r.psn = ep.psn /\ r.head = ep.head
          /\ r.acked = ep.acked /\ r.out = ep.out /\ r.got = ep.got
          /\ "CREP" \in r.ops => "CREP" \in ep.ops
      BY <1>3, <2>2, <3>1, Zenon
    <3> HIDE DEF r
    <3>3. EpsD(eps') /\ NetD(eps', net)
      BY <2>1, <2>3, <3>2, QuietD, Zenon DEF ep
    <3> QED
      BY <1>1, <3>3, Zenon DEF DInv
  <2>5. CASE ~Connected(ep)
    <3> DEFINE cops == ep.ops \cup {"CREP"}
               d == [ep EXCEPT !.dest = p.src, !.head = p.psn, !.ops = cops]
    <3>1. cops \in SUBSET {"CREQ", "CREP", "ACK"}
      BY <2>2, Zenon DEF EpRec
    <3>2. c \in {d, [d EXCEPT !.acked = 1]}
      BY <2>5, Zenon DEF Simultaneous, ProcessAck, InitialPsn
    <3> HIDE DEF cops, ep, c
    <3>3. /\ d.sn = ep.sn /\ d.dest = p.src /\ d.head = p.psn /\ d.acked = ep.acked
          /\ d.out = ep.out /\ d.got = ep.got
      BY <2>2, Zenon DEF EpRec
    <3>4. d \in EpRec
      <4>1. p.psn \in Nat
        BY <1>2
      <4> QED
        BY <1>2, <2>2, <3>1, <4>1, Zenon DEF EpRec
    <3> HIDE DEF d
    <3>5. /\ c \in EpRec /\ c.sn = ep.sn /\ c.dest = p.src /\ c.head = p.psn
          /\ c.acked \in {ep.acked, 1} /\ c.out = ep.out /\ c.got = ep.got
      <4>1. CASE c = d
        BY <3>3, <3>4, <4>1, Zenon
      <4>2. CASE c = [d EXCEPT !.acked = 1]
        BY <3>3, <3>4, <4>2, Zenon DEF EpRec
      <4> QED
        BY <3>2, <4>1, <4>2, Zenon
    <3>6. /\ r \in EpRec /\ r.sn = ep.sn /\ r.dest = p.src /\ r.head = 1
          /\ r.acked \in {ep.acked, 1} /\ r.out = ep.out /\ r.got = ep.got
      BY <1>2, <1>3, <3>5, Zenon
    <3> HIDE DEF r
    <3>7. ep.head = 0 /\ Len(ep.out) = 0 /\ Len(ep.got) = 0
      BY <2>2, <2>5, RecFacts DEF OutOk
    <3>8. Further(ep, r)
      BY <2>5, <3>6, <3>7 DEF Further
    <3>9. OutOk(r)
      BY <1>2, <3>6, <3>7 DEF OutOk, Connected
    <3>10. AckOk(eps, i, r)
      BY <2>2, <3>6 DEF AckOk
    <3>11. GotOk(eps, i, r)
      <4> SUFFICES ASSUME NEW s \in DOMAIN eps[Peer(i)]
                   PROVE  Upto(r, eps[Peer(i)][s])
        BY Zenon DEF GotOk
      <4> DEFINE g == eps[Peer(i)][s]
      <4>1. g \in EpRec /\ OutOk(g)
        BY <1>1, EpD, Zenon
      <4> HIDE DEF g
      <4>2. Len(g.out) \in Nat /\ \A n \in 1 .. Len(g.out) : g.out[n] \in Nat /\ g.out[n] >= 2
        BY <4>1, RecFacts, Zenon DEF OutOk
      <4>3. Len(r.got) = 0 /\ r.head = 1
        BY <3>6, <3>7, Zenon
      <4>4. Upto(r, g)
        BY <4>2, <4>3 DEF Upto
      <4> QED
        BY <4>4, Zenon DEF g
    <3>12. EpsD(eps') /\ NetD(eps', net)
      BY <2>1, <2>3, <3>6, <3>8, <3>9, <3>10, <3>11, ChangeD, Zenon DEF ep
    <3> QED
      BY <1>1, <3>12, Zenon DEF DInv
  <2> QED
    BY <2>4, <2>5, Zenon
<1> QED
  BY <1>4, <1>5, Zenon DEF RxCreq

\* Two consecutive numberings with one offset.
LEMMA SameOffset ==
    ASSUME NEW a \in Nat, NEW b \in Nat, NEW c \in Nat, NEW l \in Nat, NEW m \in Nat, NEW n \in Nat,
           a + l + 1 = c + n, b + l + 1 = c + m
    PROVE  a + m = b + n
  OBVIOUS

\* The message that is taken is the next one: message m of its sender has the number
\* after the last that was received, so the m - 1 messages before it are there.
LEMMA NextMessage ==
    ASSUME NEW ep \in EpRec, NEW f \in EpRec, OutOk(f), Upto(ep, f), NEW m \in 1 .. Len(f.out),
           f.out[m] = ep.head + 1, NEW r \in EpRec, r.head = ep.head + 1,
           r.got = Append(ep.got, m)
    PROVE  m = Len(ep.got) + 1 /\ Upto(r, f)
<1> DEFINE k == Len(ep.got)
           L == Len(f.out)
           h == ep.head
<1>1. k \in Nat /\ L \in Nat /\ h \in Nat /\ f.psn \in Nat /\ ep.got \in Seq(Nat) /\ m \in Nat
  BY RecFacts
<1>2. \A n \in 1 .. L : /\ n \in Nat /\ f.out[n] \in Nat /\ f.out[n] + L + 1 = f.psn + n
                        /\ (f.out[n] <= h <=> n <= k)
  <2>1. \A n \in 1 .. L : f.out[n] \in Nat
    BY RecFacts, Zenon
  <2>2. \A n \in 1 .. L : f.out[n] + L + 1 = f.psn + n
    BY Zenon DEF OutOk
  <2>3. \A n \in 1 .. L : f.out[n] <= h <=> n <= k
    BY Zenon DEF Upto
  <2>4. \A n \in 1 .. L : n \in Nat
    BY <1>1
  <2> QED
    BY <2>1, <2>2, <2>3, <2>4, Zenon
<1>3. ASSUME NEW n \in 1 .. L
      PROVE  f.out[n] + m = h + 1 + n
  <2> DEFINE a == f.out[n]
             b == f.out[m]
             c == f.psn
  <2>1. a \in Nat /\ b \in Nat /\ c \in Nat /\ L \in Nat /\ m \in Nat /\ n \in Nat
    BY <1>1, <1>2, Zenon
  <2>2. a + L + 1 = c + n /\ b + L + 1 = c + m /\ b = h + 1
    BY <1>2, Zenon
  <2> HIDE DEF a, b, c, L, h
  <2>3. a + m = b + n
    BY ONLY <2>1, <2>2, SameOffset, SMTT(30)
  <2> QED
    BY <2>2, <2>3, Zenon DEF a
<1>4. k <= L
  BY Zenon DEF Upto
<1> HIDE DEF k, L, h
<1>5. m > k
  BY <1>1, <1>2 DEF L, h
<1>6. m <= k + 1
  <2> SUFFICES ASSUME m > k + 1
               PROVE  FALSE
    BY <1>1
  <2>1. m <= L
    BY <1>1 DEF L
  <2>2. k + 1 \in 1 .. L
    BY <1>1, <2>1
  <2>3. f.out[k + 1] \in Nat /\ f.out[k + 1] + m = h + 1 + (k + 1)
    BY <1>2, <1>3, <2>2, Zenon
  <2>4. f.out[k + 1] <= h
    BY <1>1, <2>3
  <2>5. k + 1 <= k
    BY <1>2, <2>2, <2>4, Zenon
  <2> QED
    BY <1>1, <2>5
<1>7. m = k + 1
  BY <1>1, <1>5, <1>6
<1>8. Len(r.got) = k + 1
  BY <1>1 DEF k
<1>9. k + 1 <= L
  BY <1>1, <1>7 DEF L
<1>10. ASSUME NEW n \in 1 .. L
       PROVE  f.out[n] <= h + 1 <=> n <= k + 1
  <2>1. n \in Nat /\ f.out[n] \in Nat /\ f.out[n] + (k + 1) = h + 1 + n
    BY <1>2, <1>3, <1>7, Zenon
  <2> QED
    BY <1>1, <2>1
<1> QED
  BY <1>7, <1>8, <1>9, <1>10, Zenon DEF Upto, k, L, h

\* An acknowledgement says what its sender has received, and a message that is taken is
\* the next of the endpoint that sent it.
LEMMA ProcessRxD ==
    ASSUME ConnInv, HsInv, DInv, NEW i \in Iface, NEW p \in net, p.to = i, ProcessRx(i, p)
    PROVE  DInv'
<1> DEFINE e == p.dst
           old == eps[i][e]
           ep == ProcessAck(old, p.ack)
           ops == ep.ops \cup {"ACK"}
           ack == [ep EXCEPT !.ops = ops]
           r == CASE p.type = "crep" -> CrepRcvd(ack, p)
                  [] p.type = "data" -> DataRcvd(ack, p)
                  [] OTHER -> ep
<1>1. /\ eps \in Table /\ net' = net /\ e \in DOMAIN eps[i] /\ Peer(i) \in Iface /\ Peer(Peer(i)) = i
      /\ eps' = [eps EXCEPT ![i] = [eps[i] EXCEPT ![e] = r]]
  BY PeerFacts, Zenon DEF ConnInv, TypeInv, Table, ProcessRx
<1>2. /\ p.ack \in Nat /\ p.type \in {"crep", "data", "ack"}
      /\ p.type = "crep" => p.src \in Nat /\ p.psn \in Nat
      /\ p.type = "data" => p.psn \in Nat /\ p.msg \in Nat
  BY Zenon DEF ProcessRx, ConnInv, TypeInv, Packet, CreqPacket, CrepPacket, DataPacket, AckPacket
<1>3. /\ old \in EpRec /\ OutOk(old) /\ GotOk(eps, i, old) /\ AckOk(eps, i, old)
      /\ Sound(eps, nextSn, i, old)
  BY <1>1, EpD, EpFacts, Zenon
<1>4. ASSUME NEW s \in DOMAIN eps[Peer(i)], eps[Peer(i)][s].dest = e, e # NullId
      PROVE  eps[Peer(i)][s].sn = old.sn
  <2>1. Sound(eps, nextSn, Peer(i), eps[Peer(i)][s])
    BY <1>1, EpFacts, Zenon
  <2> QED
    BY <1>1, <1>4, <2>1, Zenon DEF Sound, Has, Connected
<1>5. PacketD(eps, p)
  BY Zenon DEF DInv, NetD
<1>6. \E s \in DOMAIN eps[Peer(i)] : eps[Peer(i)][s].sn = old.sn /\ p.ack <= eps[Peer(i)][s].head
  BY <1>2, <1>4, <1>5 DEF PacketD, CarriesAck
<1> HIDE DEF old
<1>7. /\ old.psn \in Nat /\ old.head \in Nat /\ old.acked \in Nat /\ Len(old.out) \in Nat
      /\ Len(old.got) \in Nat /\ old.got \in Seq(Nat)
  BY <1>3, RecFacts, Zenon
<1>8. /\ ep \in EpRec /\ ep.sn = old.sn /\ ep.dest = old.dest /\ ep.psn = old.psn /\ ep.head = old.head
      /\ ep.ops = old.ops /\ ep.out = old.out /\ ep.got = old.got /\ ep.acked \in {old.acked, p.ack}
  <2>1. ep \in {old, [old EXCEPT !.acked = p.ack]}
    BY DEF ProcessAck
  <2>2. CASE ep = [old EXCEPT !.acked = p.ack]
    <3> HIDE DEF ep
    <3> QED
      BY <1>2, <1>3, <2>2, Zenon DEF EpRec
  <2>3. CASE ep = old
    BY <1>3, <2>3, Zenon
  <2> QED
    BY <2>1, <2>2, <2>3, Zenon
<1>9. ops \in SUBSET {"CREQ", "CREP", "ACK"} /\ ("CREP" \in ops => "CREP" \in old.ops)
  <2> HIDE DEF ep
  <2> QED
    BY <1>8, Zenon DEF EpRec
<1>10. /\ ack \in EpRec /\ ack.sn = old.sn /\ ack.dest = old.dest /\ ack.psn = old.psn
       /\ ack.head = old.head /\ ack.ops = ops /\ ack.out = old.out /\ ack.got = old.got
       /\ ack.acked \in {old.acked, p.ack}
  <2> HIDE DEF ep, ops
  <2> QED
    BY <1>8, <1>9, Zenon DEF EpRec
<1> HIDE DEF ep, ops, ack
<1>11. ASSUME NEW x \in EpRec, x.sn = old.sn, x.acked \in {old.acked, p.ack}
       PROVE  AckOk(eps, i, x)
  BY <1>3, <1>6, <1>11 DEF AckOk
<1>12. SUFFICES /\ r \in EpRec /\ Further(old, r) /\ OutOk(r) /\ GotOk(eps, i, r) /\ AckOk(eps, i, r)
  <2>1. EpsD(eps') /\ NetD(eps', net)
    <3> HIDE DEF r
    <3> QED
      BY <1>1, <1>12, ChangeD, Zenon DEF old
  <2> QED
    BY <1>1, <2>1, Zenon DEF DInv
<1>13. ASSUME NEW x \in EpRec, x.sn = old.sn, x.dest = old.dest, x.psn = old.psn, x.head = old.head,
              x.out = old.out, x.got = old.got, "CREP" \in x.ops => "CREP" \in old.ops
       PROVE  Further(old, x) /\ OutOk(x) /\ GotOk(eps, i, x)
  <2>1. Further(old, old)
    BY <1>3, FurtherRefl, Zenon
  <2>2. Further(old, x)
    BY <1>13, <2>1, Zenon DEF Further
  <2> QED
    BY <1>3, <1>13, <2>2, SMTT(30) DEF OutOk, GotOk, Upto, Connected
<1>14. CASE p.type = "ack"
  <2>1. r = ep
    BY <1>14, Zenon
  <2> HIDE DEF r
  <2> QED
    BY <1>8, <1>11, <1>13, <2>1, Zenon
<1>15. Further(old, ack) /\ OutOk(ack) /\ GotOk(eps, i, ack) /\ AckOk(eps, i, ack)
  BY <1>9, <1>10, <1>11, <1>13, Zenon
<1>16. CASE p.type = "crep"
  <2> DEFINE flags == ack.flags \cup {"CREP_RCVD"}
  <2>1. r = IF p.psn < ack.head THEN ack
            ELSE [ack EXCEPT !.head = p.psn, !.dest = p.src, !.flags = flags]
    BY <1>16 DEF CrepRcvd
  <2>2. flags \in SUBSET Flag
    BY <1>10 DEF EpRec, Flag
  <2> HIDE DEF r, flags
  <2>3. CASE p.psn < ack.head
    BY <1>10, <1>15, <2>1, <2>3, Zenon
  <2>4. CASE ~(p.psn < ack.head)
    <3>1. r \in EpRec
      BY <1>2, <1>10, <1>16, <2>1, <2>2, <2>4, Zenon DEF EpRec
    <3>2. /\ r.sn = old.sn /\ r.dest = p.src /\ r.psn = old.psn /\ r.head = p.psn
          /\ r.ops = ops /\ r.out = old.out /\ r.got = old.got /\ r.acked \in {old.acked, p.ack}
      BY <1>10, <2>1, <2>4, Zenon DEF EpRec
    <3>3. p.psn \in Nat /\ old.head <= p.psn
      BY <1>2, <1>7, <1>10, <1>16, <2>4
    <3>4. /\ p.src \in DOMAIN eps[Peer(i)] /\ eps[Peer(i)][p.src].sn = old.sn
      BY <1>16, PacketFacts, Zenon DEF old
    <3>5. Connected(old) => old.dest = p.src
      <4> SUFFICES ASSUME Connected(old)
                   PROVE  old.dest = p.src
        BY Zenon
      <4>1. old.dest \in DOMAIN eps[Peer(i)] /\ eps[Peer(i)][old.dest].sn = old.sn
        BY <1>3, Zenon DEF Sound, Has
      <4> QED
        BY <1>1, <3>4, <4>1, EpFacts
    <3>6. p.src # NullId
      <4>1. eps[Peer(i)] \in Seq(EpRec)
        BY <1>1, Zenon DEF Table
      <4> QED
        BY <3>4, <4>1 DEF NullId
    <3>7. Further(old, r)
      <4>1. Further(old, old)
        BY <1>3, FurtherRefl, Zenon
      <4> QED
        BY <3>2, <3>3, <3>5, <4>1, Zenon DEF Further
    <3>8. OutOk(r)
      <4>1. Len(old.got) <= p.psn
        BY <1>3, <1>7, <3>3, SMTT(30) DEF OutOk
      <4> QED
        BY <1>3, <1>9, <3>2, <3>6, <4>1, Zenon DEF OutOk, Connected
    <3>9. GotOk(eps, i, r)
      <4> SUFFICES ASSUME NEW s \in DOMAIN eps[Peer(i)], eps[Peer(i)][s].sn = old.sn
                   PROVE  Upto(r, eps[Peer(i)][s])
        BY <3>2, Zenon DEF GotOk
      <4> DEFINE f == eps[Peer(i)][s]
      <4>1. s = p.src
        BY <1>1, <3>4, EpFacts
      <4>2. f \in EpRec /\ Upto(old, f)
        BY <1>1, <1>3, EpD, Zenon DEF GotOk
      <4>3. \A n \in 1 .. Len(f.out) : p.psn < f.out[n]
        BY <1>5, <1>16, <4>1, Zenon DEF PacketD, CrepFirst
      <4> HIDE DEF f
      <4>4. Len(f.out) \in Nat /\ \A n \in 1 .. Len(f.out) : f.out[n] \in Nat
        BY <4>2, RecFacts, Zenon
      <4>5. \A n \in 1 .. Len(f.out) : ~(f.out[n] <= old.head) /\ ~(f.out[n] <= p.psn)
        BY <1>7, <3>3, <4>3, <4>4
      <4>6. Upto(r, f)
        BY <3>2, <4>2, <4>5, Zenon DEF Upto
      <4> QED
        BY <4>6, Zenon DEF f
    <3> QED
      BY <1>11, <3>1, <3>2, <3>7, <3>8, <3>9
  <2> QED
    BY <2>3, <2>4, Zenon
<1>17. CASE p.type = "data"
  <2> DEFINE got == Append(ack.got, p.msg)
  <2>1. r = IF p.psn = ack.head + 1 THEN [ack EXCEPT !.head = p.psn, !.got = got] ELSE ack
    BY <1>17, Zenon DEF DataRcvd
  <2>2. got \in Seq(Nat) /\ got = Append(old.got, p.msg)
    BY <1>2, <1>7, <1>10, <1>17
  <2> HIDE DEF r, got
  <2>3. CASE p.psn # ack.head + 1
    BY <1>10, <1>15, <2>1, <2>3, Zenon
  <2>4. CASE p.psn = ack.head + 1
    <3>1. r \in EpRec
      BY <1>2, <1>10, <1>17, <2>1, <2>2, <2>4, ZenonT(30) DEF EpRec
    <3>2. /\ r.sn = old.sn /\ r.dest = old.dest /\ r.psn = old.psn /\ r.head = old.head + 1
          /\ r.ops = ops /\ r.out = old.out /\ r.got = got /\ r.acked \in {old.acked, p.ack}
      BY <1>10, <2>1, <2>4, Zenon DEF EpRec
    <3>3. PICK s \in DOMAIN eps[Peer(i)] :
             /\ eps[Peer(i)][s].dest = e /\ p.msg \in 1 .. Len(eps[Peer(i)][s].out)
             /\ eps[Peer(i)][s].out[p.msg] = p.psn
      BY <1>5, <1>17, Zenon DEF PacketD, CarriesMsg
    <3> DEFINE f == eps[Peer(i)][s]
    <3>4. f.sn = old.sn
      BY <1>4, <1>5, <1>17, <3>3 DEF PacketD
    <3>5. f \in EpRec /\ OutOk(f) /\ Upto(old, f)
      BY <1>1, <1>3, <3>3, <3>4, EpD, Zenon DEF GotOk
    <3>6. f.out[p.msg] = old.head + 1 /\ p.msg \in 1 .. Len(f.out)
      BY <1>10, <2>4, <3>3, Zenon
    <3>7. p.msg = Len(old.got) + 1 /\ Upto(r, f)
      <4> HIDE DEF f
      <4> QED
        BY <1>3, <2>2, <3>1, <3>2, <3>5, <3>6, NextMessage, ZenonT(30)
    <3>8. GotOk(eps, i, r)
      <4> SUFFICES ASSUME NEW x \in DOMAIN eps[Peer(i)], eps[Peer(i)][x].sn = old.sn
                   PROVE  Upto(r, eps[Peer(i)][x])
        BY <3>2, Zenon DEF GotOk
      <4>1. x = s
        BY <1>1, <3>3, <3>4, EpFacts
      <4> QED
        BY <3>7, <4>1, Zenon
    <3>9. old.head # 0
      <4>1. p.psn >= 2
        BY <1>17, Zenon DEF HsInv, NetOk, PacketOk, DataHs
      <4> QED
        BY <1>2, <1>7, <1>10, <1>17, <2>4, <4>1
    <3>10. OutOk(r)
      <4>1. Len(got) = Len(old.got) + 1 /\ \A n \in 1 .. Len(old.got) + 1 : got[n] = n
        BY <1>3, <1>7, <2>2, <3>7, SMTT(30) DEF OutOk
      <4>2. Len(got) <= old.head + 1
        BY <1>3, <1>7, <4>1 DEF OutOk
      <4> QED
        BY <1>3, <1>9, <3>2, <3>9, <4>1, <4>2, Zenon DEF OutOk, Connected
    <3>11. Further(old, r)
      <4>1. Further(old, old)
        BY <1>3, FurtherRefl, Zenon
      <4>2. old.head <= old.head + 1
        BY <1>7
      <4> QED
        BY <3>2, <4>1, <4>2, Zenon DEF Further
    <3> QED
      BY <1>11, <3>1, <3>2, <3>8, <3>10, <3>11, Zenon
  <2> QED
    BY <2>3, <2>4, Zenon
<1> QED
  BY <1>2, <1>14, <1>16, <1>17, Zenon

-----------------------------------------------------------------------------
\* A sequence whose elements are their own positions.
LEMMA Counting ==
    ASSUME NEW s \in Seq(Nat), \A n \in 1 .. Len(s) : s[n] = n
    PROVE  s = [n \in 1 .. Len(s) |-> n]
<1>1. s = [n \in 1 .. Len(s) |-> s[n]]
  OBVIOUS
<1> QED
  BY <1>1, Zenon

\* What the invariants say of a connected pair.
LEMMA DDelivered == ConnInv /\ HsInv /\ DInv => AckedWasDelivered
<1> SUFFICES ASSUME ConnInv, HsInv, DInv, NEW i \in Iface, NEW e \in DOMAIN eps[i]
             PROVE  LET ep == eps[i][e]
                        got == IF Connected(ep) THEN eps[Peer(i)][ep.dest].got ELSE <<>>
                    IN  /\ got = [n \in 1 .. Len(got) |-> n] /\ Len(got) <= Len(ep.out)
                        /\ \A n \in DOMAIN ep.out : ep.out[n] <= ep.acked => n <= Len(got)
  BY Zenon DEF AckedWasDelivered
<1> DEFINE ep == eps[i][e]
<1>1. ep \in EpRec /\ OutOk(ep) /\ AckOk(eps, i, ep) /\ Sound(eps, nextSn, i, ep)
  BY EpD, EpFacts, Zenon
<1>2. Len(ep.out) \in Nat /\ ep.acked \in Nat /\ DOMAIN ep.out = 1 .. Len(ep.out)
      /\ \A n \in 1 .. Len(ep.out) : ep.out[n] \in Nat
  BY <1>1, RecFacts, SMTT(30)
<1>3. CASE ~Connected(ep)
  <2>1. Len(ep.out) = 0 /\ DOMAIN ep.out = {}
    BY <1>1, <1>2, <1>3, SMTT(30) DEF OutOk
  <2>2. <<>> = [n \in 1 .. Len(<<>>) |-> n] /\ Len(<<>>) = 0
    OBVIOUS
  <2> QED
    BY <1>3, <2>1, <2>2
<1>4. CASE Connected(ep)
  <2> DEFINE f == eps[Peer(i)][ep.dest]
  <2>1. Peer(i) \in Iface /\ Peer(Peer(i)) = i /\ ep.dest \in DOMAIN eps[Peer(i)] /\ f.sn = ep.sn
    BY <1>1, <1>4, PeerFacts, Zenon DEF Sound, Has
  <2>2. f \in EpRec /\ OutOk(f) /\ GotOk(eps, Peer(i), f)
    BY <2>1, EpD, Zenon
  <2>3. Upto(f, ep)
    BY <2>1, <2>2, Zenon DEF GotOk
  <2>4. f.head \in Nat /\ f.got \in Seq(Nat) /\ Len(f.got) \in Nat
    BY <2>2, RecFacts, Zenon
  <2>5. ep.acked <= 1 \/ ep.acked <= f.head
    BY <1>1, <2>1, EpFacts, Zenon DEF AckOk
  <2> HIDE DEF ep, f
  <2>6. f.got = [n \in 1 .. Len(f.got) |-> n]
    BY <2>2, <2>4, Counting, Zenon DEF OutOk
  <2>7. ASSUME NEW n \in 1 .. Len(ep.out), ep.out[n] <= ep.acked
        PROVE  n <= Len(f.got)
    <3>1. ep.out[n] \in Nat /\ ep.out[n] >= 2
      BY <1>1, <1>2, Zenon DEF OutOk
    <3>2. ep.out[n] <= f.head
      BY <1>2, <2>4, <2>5, <2>7, <3>1
    <3> QED
      BY <2>3, <3>2, Zenon DEF Upto
  <2>8. Len(f.got) <= Len(ep.out)
    BY <2>3, Zenon DEF Upto
  <2> QED
    BY <1>2, <1>4, <2>6, <2>7, <2>8, Zenon DEF f, ep
<1> QED
  BY <1>3, <1>4, Zenon

\* Messages are delivered in order to the endpoint their sender is connected to, and an
\* acknowledged message has been delivered, whatever the network loses, repeats and
\* reorders, when no user sends on an endpoint from a pending callback of another.
THEOREM AckedWasDeliveredTheorem ==
    ASSUME ~SendsFromCallbacks
    PROVE  Spec => []AckedWasDelivered
<1>1. ConnInv /\ HsInv /\ DInv /\ [Next]_vars => DInv'
  <2> SUFFICES ASSUME ConnInv, HsInv, DInv, [Next]_vars
               PROVE  DInv'
    BY Zenon
  <2>1. CASE UNCHANGED vars
    BY <2>1, Zenon DEF vars, DInv
  <2>2. ASSUME NEW i \in Iface, CreateConnected(i)
        PROVE  DInv'
    BY <2>2, CreateD, Zenon
  <2>3. ASSUME NEW i \in Iface, NEW p \in net, Receive(i, p)
        PROVE  DInv'
    BY <2>3, RxCreqD, ProcessRxD, Zenon DEF Receive
  <2>4. ASSUME NEW i \in Iface, NEW e \in DOMAIN eps[i], DoPendingCtl(i, e) \/ Send(i, e)
        PROVE  DInv'
    BY <2>4, PendingD, SendD, Zenon
  <2> QED
    BY <2>1, <2>2, <2>3, <2>4, Zenon DEF Next
<1>2. Spec => []HsInv
  BY HsInvariant, Zenon
<1> QED
  BY ConnInvariant, DInit, DDelivered, <1>1, <1>2, PTL DEF Spec

=============================================================================
