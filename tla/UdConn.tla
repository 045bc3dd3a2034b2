------------------------------- MODULE UdConn -------------------------------
(***************************************************************************)
(* Connection establishment of UD endpoints (uct/ib/ud/base): CREQ and     *)
(* CREP packets over a network that loses, repeats and reorders them,      *)
(* endpoints matched by the connection number of ucs/datastruct/           *)
(* conn_match.c, both sides free to create endpoints at the same time.     *)
(*                                                                         *)
(* The network is the set of all packets ever sent: a packet that stays in *)
(* it may be received never, later or again, which also stands for its     *)
(* retransmission (UdEp models the timer and the resends).                 *)
(***************************************************************************)
EXTENDS Naturals, Sequences

CONSTANTS
    A, B,          \* the two interfaces
    MaxConn,       \* bound: endpoints the user of an interface creates
    Loads,         \* bounds to choose from: endpoints created, messages sent on each
    SendsFromCallbacks  \* users send on an endpoint from a pending callback of another

ASSUME UdConnAssumption ==
    /\ A # B
    /\ MaxConn \in Nat
    /\ \A l \in Loads : l.conn \in 0 .. MaxConn /\ l.data \in [{A, B} -> Nat]
    /\ SendsFromCallbacks \in BOOLEAN

VARIABLES
    eps,      \* iface->eps: the endpoints of each interface, by ep_id
    nextSn,   \* next_conn_sn of the peer in conn_match
    net,      \* packets sent so far
    load      \* what the users do, one of Loads

vars == <<eps, nextSn, net, load>>

Iface == {A, B}
Peer(i) == IF i = A THEN B ELSE A
NullId == 0        \* UCT_UD_EP_NULL_ID
InitialPsn == 1    \* UCT_UD_INITIAL_PSN

\* uct_ud_ep_reset.  out: the psn of each message sent; got: messages delivered.
NewEp(sn) == [sn |-> sn, dest |-> NullId, private |-> FALSE, ops |-> {}, flags |-> {},
              psn |-> InitialPsn, acked |-> InitialPsn - 1, head |-> InitialPsn - 1,
              out |-> <<>>, got |-> <<>>]

Connected(ep) == ep.dest # NullId

\* ucs_conn_match_get_elem: the expected queue before the unexpected one.
Matching(i, sn, private) == {e \in DOMAIN eps[i] : eps[i][e].sn = sn /\ eps[i][e].private = private}
\* Mutant: a received CREQ is matched with the endpoints of the user only.
FoundExpected(i, sn) == Matching(i, sn, FALSE)

Found(i, sn) == IF Matching(i, sn, FALSE) # {} THEN Matching(i, sn, FALSE) ELSE Matching(i, sn, TRUE)

\* uct_ud_ep_process_ack; the window below ack is released.
ProcessAck(ep, ack) == IF ack > ep.acked THEN [ep EXCEPT !.acked = ack] ELSE ep

Creq(i, e, ep) == [type |-> "creq", to |-> Peer(i), src |-> e, sn |-> ep.sn, psn |-> ep.psn]
Crep(i, e, ep) == [type |-> "crep", to |-> Peer(i), dst |-> ep.dest, src |-> e,
                   psn |-> ep.psn, ack |-> ep.head]
Data(i, ep) == [type |-> "data", to |-> Peer(i), dst |-> ep.dest, psn |-> ep.psn,
                ack |-> ep.head, msg |-> Len(ep.out) + 1]
Ack(i, ep) == [type |-> "ack", to |-> Peer(i), dst |-> ep.dest, ack |-> ep.head]

\* A packet that takes a place in the send window.
Sent(ep, flag) == [ep EXCEPT !.psn = @ + 1, !.flags = @ \cup {flag}, !.ops = @ \ {"CREQ", "CREP"}]

Init ==
    /\ eps = [i \in Iface |-> <<>>]
    /\ nextSn = [i \in Iface |-> 0]
    /\ net = {}
    /\ load \in Loads

-----------------------------------------------------------------------------
\* ucs_conn_match_get_next_sn, below the largest number there is.
GetNextSn(i) ==
    /\ nextSn[i] < load.conn
    /\ nextSn' = [nextSn EXCEPT ![i] = @ + 1]

\* uct_ud_ep_create_connected_common: takes over the endpoint a CREQ with the
\* same number created, or makes one and sends its CREQ (later, without a
\* send buffer).
CreateConnected(i) ==
    /\ GetNextSn(i)
    /\ LET sn == nextSn[i]
           ep == NewEp(sn)
           e == Len(eps[i]) + 1
       IN  \/ /\ \E p \in Matching(i, sn, TRUE) :
                    eps' = [eps EXCEPT ![i][p].private = FALSE,
                                       ![i][p].flags = @ \cup {"CREQ_NOTSENT"}]
              /\ UNCHANGED net
           \/ /\ Matching(i, sn, TRUE) = {}
              /\ \/ /\ eps' = [eps EXCEPT ![i] = Append(@, Sent(ep, "CREQ_SENT"))]
                    /\ net' = net \cup {Creq(i, e, ep)}
                 \/ /\ eps' = [eps EXCEPT ![i] = Append(@, [ep EXCEPT !.ops = {"CREQ"}])]
                    /\ UNCHANGED net
    /\ UNCHANGED load

\* uct_ud_ep_do_pending_ctl for the control operations of a connection.
DoPendingCtl(i, e) ==
    LET ep == eps[i][e]
    IN  /\ \/ /\ "CREQ" \in ep.ops
              /\ eps' = [eps EXCEPT ![i][e] = Sent(ep, "CREQ_SENT")]
              /\ net' = net \cup {Creq(i, e, ep)}
           \/ /\ "CREQ" \notin ep.ops /\ "CREP" \in ep.ops
              /\ eps' = [eps EXCEPT ![i][e] = Sent(ep, "CREP_SENT")]
              /\ net' = net \cup {Crep(i, e, ep)}
           \/ /\ ep.ops = {"ACK"}
              /\ eps' = [eps EXCEPT ![i][e].ops = {}]
              /\ net' = IF Connected(ep) THEN net \cup {Ack(i, ep)} ELSE net
        /\ UNCHANGED <<nextSn, load>>

\* The end of uct_ud_ep_rx_creq: an old CREQ is dropped.
CreqRcvd(ep, psn) ==
    IF psn < ep.head THEN ep
    ELSE [ep EXCEPT !.ops = @ \ {"CREQ"},
                    !.flags = @ \cup {"CREQ_RCVD"}
                                \cup (IF "CREQ" \in ep.ops THEN {"CREQ_NOTSENT"} ELSE {})]

\* Mutant: a simultaneous CREQ is not replied to.
SimultaneousNoReply(ep, p) ==
    LET c == [ep EXCEPT !.dest = p.src, !.head = p.psn]
    IN  IF ep.psn > InitialPsn THEN ProcessAck(c, InitialPsn) ELSE c

\* Our own CREQ is unnecessary: the incoming one acknowledges it.
Simultaneous(ep, p) ==
    LET c == [ep EXCEPT !.dest = p.src, !.head = p.psn, !.ops = @ \cup {"CREP"}]
    IN  IF ep.psn > InitialPsn THEN ProcessAck(c, InitialPsn) ELSE c

\* uct_ud_ep_create_passive.
Passive(p) == [NewEp(p.sn) EXCEPT !.dest = p.src, !.private = TRUE, !.head = p.psn, !.ops = {"CREP"}]

\* uct_ud_ep_rx_creq.
RxCreq(i, p) ==
    /\ p.type = "creq"
    /\ \/ /\ Found(i, p.sn) = {}
          /\ eps' = [eps EXCEPT ![i] = Append(@, CreqRcvd(Passive(p), p.psn))]
       \/ \E e \in Found(i, p.sn) :
            LET ep == eps[i][e]
            IN  eps' = [eps EXCEPT ![i][e] =
                            CreqRcvd(IF Connected(ep) THEN ep ELSE Simultaneous(ep, p), p.psn)]
    /\ UNCHANGED <<nextSn, net, load>>

\* Mutant: the reply is not remembered.
CrepRcvdNoFlag(ep, p) ==
    IF p.psn < ep.head THEN ep ELSE [ep EXCEPT !.head = p.psn, !.dest = p.src]

\* Mutant: an old CREP is not dropped.
CrepRcvdAgain(ep, p) ==
    [ep EXCEPT !.head = p.psn, !.dest = p.src, !.flags = @ \cup {"CREP_RCVD"}]

\* uct_ud_ep_rx_ctl: the CREP sets the number of the last packet received.
CrepRcvd(ep, p) ==
    IF p.psn < ep.head THEN ep
    ELSE [ep EXCEPT !.head = p.psn, !.dest = p.src, !.flags = @ \cup {"CREP_RCVD"}]

\* uct_ud_ep_process_rx of a message: only the next one is taken (there are no
\* holes), any is acknowledged (its ACK_REQ is set, or the NACK of a gap carries
\* the same number).
DataRcvd(ep, p) ==
    IF p.psn = ep.head + 1 THEN [ep EXCEPT !.head = p.psn, !.got = Append(@, p.msg)] ELSE ep

\* uct_ud_ep_process_rx.
ProcessRx(i, p) ==
    /\ p.type # "creq"
    /\ p.dst \in DOMAIN eps[i]
    /\ LET ep == ProcessAck(eps[i][p.dst], p.ack)
           ack == [ep EXCEPT !.ops = @ \cup {"ACK"}]
       IN  eps' = [eps EXCEPT ![i][p.dst] =
                        CASE p.type = "crep" -> CrepRcvd(ack, p)
                          [] p.type = "data" -> DataRcvd(ack, p)
                          [] OTHER -> ep]
    /\ UNCHANGED <<nextSn, net, load>>

Receive(i, p) == p.to = i /\ (RxCreq(i, p) \/ ProcessRx(i, p))

\* uct_ud_ep_am_*, on an endpoint its user has.  The reply to a CREQ is queued
\* in front of anything its receiver sends: every progress call dispatches it
\* and user code it runs in between finds sends blocked.  A pending callback
\* of an endpoint dispatched earlier is not blocked.
Send(i, e) ==
    LET ep == eps[i][e]
    IN  /\ Connected(ep) /\ ~ep.private /\ Len(ep.out) < load.data[i]
        /\ "CREP" \in ep.ops => SendsFromCallbacks
        /\ eps' = [eps EXCEPT ![i][e].psn = @ + 1, ![i][e].out = Append(@, ep.psn),
                              ![i][e].ops = @ \ {"ACK"}]
        /\ net' = net \cup {Data(i, ep)}
        /\ UNCHANGED <<nextSn, load>>

Next ==
    \E i \in Iface :
        \/ CreateConnected(i)
        \/ \E p \in net : Receive(i, p)
        \/ \E e \in DOMAIN eps[i] : DoPendingCtl(i, e) \/ Send(i, e)

Spec == Init /\ [][Next]_vars

\* A packet is retransmitted until its sender has an acknowledgement for it.
Retransmitted(i, p) == p.to = i /\ eps[Peer(i)][p.src].acked < p.psn

\* Progress keeps polling and dispatching, and a CREQ or CREP that is
\* retransmitted is received in the end.
Fairness ==
    \A i \in Iface :
        /\ \A sn \in 0 .. MaxConn - 1 :
              WF_vars(\E p \in net : RxCreq(i, p) /\ p.sn = sn /\ Retransmitted(i, p))
        /\ \A e \in 1 .. MaxConn :
              /\ WF_vars(\E p \in net : p.type = "crep" /\ p.dst = e /\ Retransmitted(i, p)
                                        /\ ProcessRx(i, p))
              /\ WF_vars(e \in DOMAIN eps[i] /\ DoPendingCtl(i, e))

FairSpec == Spec /\ Fairness

-----------------------------------------------------------------------------
Flag == {"CREQ_SENT", "CREP_SENT", "CREQ_RCVD", "CREP_RCVD", "CREQ_NOTSENT"}

TypeOK ==
    \A i \in Iface :
        /\ nextSn[i] \in 0 .. MaxConn
        /\ \A e \in DOMAIN eps[i] :
              LET ep == eps[i][e]
              IN  /\ ep.sn \in 0 .. MaxConn - 1 /\ ep.dest \in DOMAIN eps[Peer(i)] \cup {NullId}
                  /\ ep.ops \subseteq {"CREQ", "CREP", "ACK"} /\ ep.flags \subseteq Flag
                  /\ ep.acked < ep.psn /\ ep.psn \in 1 .. load.data[i] + 3

\* The rule of the protocol (ud_iface.h): endpoints that are connected have the
\* same conn_sn, and no third endpoint is connected to either of them.  Nor does
\* a retransmitted or simultaneous CREQ make a second endpoint for a conn_sn.
SameConnSn ==
    \A i \in Iface : \A e \in DOMAIN eps[i] :
        /\ Connected(eps[i][e]) =>
              LET peer == eps[Peer(i)][eps[i][e].dest]
              IN  peer.sn = eps[i][e].sn /\ peer.dest \in {NullId, e}
        /\ \A f \in DOMAIN eps[i] : eps[i][e].sn = eps[i][f].sn => e = f

\* The assertions of uct_ud_ep_prepare_creq, _prepare_crep and _resend: a CREQ is
\* neither scheduled nor left in the window of a connected endpoint.
NoCreqOnceConnected(ep) ==
    /\ "CREQ" \in ep.ops => ~Connected(ep) /\ "CREP_SENT" \notin ep.flags
    /\ "CREP" \in ep.ops => Connected(ep)
    /\ Connected(ep) /\ "CREQ_SENT" \in ep.flags => ep.acked >= InitialPsn

\* The assertions of uct_ud_ep_rx_creq and uct_ud_ep_rx_ctl hold for every packet
\* that can arrive: it comes from the endpoint we are connected to, and one that
\* is older than the last in-order packet was seen before.  Those of the sending
\* side hold as well, so neither a CREQ nor a CREP is ever sent out of its time.
ConnPacketsExpected ==
    \A i \in Iface :
        /\ \A e \in DOMAIN eps[i] : NoCreqOnceConnected(eps[i][e])
        /\ \A p \in {q \in net : q.to = i /\ q.type \in {"creq", "crep"}} :
            \A e \in (IF p.type = "creq" THEN Found(i, p.sn) ELSE {p.dst}) :
                LET ep == eps[i][e]
                    seen == {"CREQ_RCVD", "CREP_RCVD"} \cap ep.flags
                IN  /\ Connected(ep) => ep.dest = p.src
                    /\ p.psn < ep.head => (IF p.type = "creq" THEN seen # {} ELSE "CREP_RCVD" \in seen)
                    /\ p.type = "creq" /\ Connected(ep) => p.psn <= ep.head

\* Messages reach the endpoint their sender is connected to, in order, and a
\* message is acknowledged only when it has been delivered.
AckedWasDelivered ==
    \A i \in Iface : \A e \in DOMAIN eps[i] :
        LET ep == eps[i][e]
            got == IF Connected(ep) THEN eps[Peer(i)][ep.dest].got ELSE <<>>
        IN  /\ got = [n \in 1 .. Len(got) |-> n] /\ Len(got) <= Len(ep.out)
            /\ \A n \in DOMAIN ep.out : ep.out[n] <= ep.acked => n <= Len(got)

\* An endpoint that a user creates is connected in the end, on both sides.
Connects ==
    \A i \in Iface, sn \in 0 .. MaxConn - 1 :
        nextSn[i] > sn ~>
            \E e \in DOMAIN eps[i] : eps[i][e].sn = sn /\ Connected(eps[i][e])
                /\ eps[Peer(i)][eps[i][e].dest].dest = e
=============================================================================
