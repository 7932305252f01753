----------------------------- MODULE MCConnection -----------------------------
(***************************************************************************)
(* A connection on small instances: the handshakes of TLS 1.3 and 1.2 and  *)
(* the record layer it comes through, and Dispatch, which takes it from    *)
(* there. focus names the component that runs, from its own initial state, *)
(* and the others stay where they began: they share no state, so this is   *)
(* the union of a run of each.  Dispatch runs twice: two connections of    *)
(* TCP while accounts change, and one of either kind while the outbounds   *)
(* and WARP's health do as well.  The handshakes come in configurations    *)
(* that differ from a base pair in one respect, or in those that interact. *)
(***************************************************************************)
EXTENDS MCDispatch, Integers, Sequences

VARIABLES
    focus,
    cfg13, conn13, ep13, net13, tickets, kxHint, sessions, nTickets, earlyTaken, faults13,
    cfg12, conn12, ep12, net12, stored, cache, issued, known, nIds, faults12,
    traffic, plaintext, write_seq, sendable, said, accepted, notified, promised, ends, sends, overflow, wire, eof, faults,
    buf, capacity, joining, read_seq, state, busy, first_error, returned, got, received, closed, seen_eof, taken, outcome

vars13 == <<cfg13, conn13, ep13, net13, tickets, kxHint, sessions, nTickets, earlyTaken, faults13>>
vars12 == <<cfg12, conn12, ep12, net12, stored, cache, issued, known, nIds, faults12>>
recordVars == <<traffic, plaintext, write_seq, sendable, said, accepted, notified, promised, ends, sends, overflow, wire, eof, faults,
                buf, capacity, joining, read_seq, state, busy, first_error, returned, got, received, closed, seen_eof, taken, outcome>>
allVars == <<focus, vars, vars13, vars12, recordVars>>

Base13 ==
    [cGroups |-> <<"g1", "g2">>, sGroups |-> <<"g1">>, sGroupsLater |-> <<"g1">>, cSuites |-> <<"s1", "s2">>,
     sSuites |-> <<"s2", "s1">>, serverOrder |-> FALSE, cAlpn |-> <<>>, sAlpn |-> <<>>,
     auth |-> "none", clientCert |-> "none", serverCert |-> "good",
     cEarly |-> FALSE, sEarly |-> 0, sEarlyLater |-> 0, stateless |-> FALSE, tickets |-> 1,
     halfRtt |-> FALSE, reality |-> TRUE, reuse |-> FALSE,
     maxConns |-> 2, maxFaults |-> 0, maxEpoch |-> 0]

Zero13 == [Base13 EXCEPT !.cEarly = TRUE, !.sEarly = 1, !.sEarlyLater = 1]

Configs13 ==
    { [Zero13 EXCEPT !.maxFaults = 1],
      [Zero13 EXCEPT !.sGroupsLater = <<"g2">>, !.maxFaults = 1],
      [Zero13 EXCEPT !.sEarlyLater = 0],
      [Zero13 EXCEPT !.stateless = TRUE],
      [Zero13 EXCEPT !.reuse = TRUE, !.maxConns = 3],
      [Zero13 EXCEPT !.auth = "mandatory", !.clientCert = "good", !.halfRtt = TRUE],
      [Base13 EXCEPT !.auth = "optional", !.sGroups = <<"g2">>, !.serverOrder = TRUE, !.tickets = 0],
      [Base13 EXCEPT !.auth = "mandatory", !.clientCert = "bad", !.tickets = 0],
      [Base13 EXCEPT !.auth = "mandatory", !.tickets = 0],
      [Base13 EXCEPT !.serverCert = "bad"],
      [Base13 EXCEPT !.cAlpn = <<"a", "b">>, !.sAlpn = <<"b">>, !.halfRtt = TRUE, !.maxEpoch = 2],
      [Base13 EXCEPT !.cAlpn = <<"a">>, !.sAlpn = <<"b">>],
      [Base13 EXCEPT !.sGroups = <<"g3">>, !.sGroupsLater = <<"g3">>],
      [Base13 EXCEPT !.sSuites = <<"s3">>],
      [Base13 EXCEPT !.reality = FALSE] }

Base12 ==
    [cV13 |-> FALSE, sV13 |-> <<FALSE>>, sV12 |-> TRUE, cEms |-> <<TRUE>>, cTickets |-> TRUE,
     cSuites |-> <<"s1", "s2">>, sSuites |-> <<<<"s2", "s1">>>>,
     cGroups |-> <<"g1">>, sGroups |-> <<"g2", "g1">>, cAlpn |-> <<>>, sAlpn |-> <<>>,
     ticketer |-> TRUE, seals |-> <<TRUE>>, caches |-> TRUE, ocsp |-> FALSE,
     auth |-> "none", clientCert |-> "none", serverCert |-> "good",
     maxConns |-> 2, maxFaults |-> 0]

Configs12 ==
    { [Base12 EXCEPT !.maxFaults = 1, !.ocsp = TRUE, !.cAlpn = <<"a", "b">>, !.sAlpn = <<"b">>],
      [Base12 EXCEPT !.ticketer = FALSE, !.maxFaults = 1],
      [Base12 EXCEPT !.cV13 = TRUE, !.sV13 = <<FALSE, TRUE>>, !.maxFaults = 2],
      [Base12 EXCEPT !.auth = "mandatory", !.clientCert = "good", !.maxFaults = 1],
      [Base12 EXCEPT !.auth = "optional", !.ticketer = FALSE, !.caches = FALSE],
      [Base12 EXCEPT !.auth = "mandatory", !.clientCert = "bad"],
      [Base12 EXCEPT !.auth = "mandatory"],
      [Base12 EXCEPT !.serverCert = "bad"],
      [Base12 EXCEPT !.seals = <<TRUE, FALSE>>, !.maxConns = 3],
      [Base12 EXCEPT !.cEms = <<FALSE, TRUE>>],
      [Base12 EXCEPT !.sSuites = << <<"s1">>, <<"s2">> >>],
      [Base12 EXCEPT !.cTickets = FALSE],
      [Base12 EXCEPT !.cTickets = FALSE, !.cV13 = TRUE, !.maxConns = 3],
      [Base12 EXCEPT !.sSuites = <<<<"s3">>>>],
      [Base12 EXCEPT !.sGroups = <<"g3">>],
      [Base12 EXCEPT !.cAlpn = <<"a">>, !.sAlpn = <<"b">>],
      [Base12 EXCEPT !.sV12 = FALSE] }

T3 == INSTANCE Tls13 WITH cfg <- cfg13, conn <- conn13, ep <- ep13, net <- net13, faults <- faults13,
                          Configs <- Configs13, MaxWrites <- 1
T2 == INSTANCE Tls12 WITH cfg <- cfg12, conn <- conn12, ep <- ep12, net <- net12, faults <- faults12,
                          Configs <- Configs12, MaxWrites <- 1
R == INSTANCE Records WITH
    Bodies <- <<1, 0, 9>>, MaxBytes <- 2, MaxFrag <- 2, Limit <- 2, ReadLimit <- 1, MaxWire <- 4,
    MaxHandshake <- 8, ReadSize <- 3, SoftLimit <- 5, HardLimit <- 6, Window <- 2, MaxSends <- 4, MaxFaults <- 1

\* bound: what the writing end, a misbehaving peer and the transport do together in Records
MaxEvents == 4

OneUser == CHOOSE u \in Users : TRUE
OneConn == CHOOSE c \in Conns : TRUE
OneConnOnly == \A c \in Conns \ {OneConn} : phase[c] = "new"
\* The two connections are interchangeable: OneConn is the first.  With accounts changing,
\* where a connection goes is of no consequence.
InOrder == OneConnOnly \/ phase[OneConn] # "new"

AllInit ==
    /\ focus \in {"accounts", "outbounds", "tls13", "tls12", "records"}
    /\ Init
    /\ focus = "accounts" \/ users = {OneUser}
    /\ focus = "outbounds" \/ outbounds \in NoWarp
    /\ T3!Init /\ (focus = "tls13" \/ cfg13 = CHOOSE c \in Configs13 : TRUE)
    /\ T2!Init /\ (focus = "tls12" \/ cfg12 = CHOOSE c \in Configs12 : TRUE)
    /\ R!Init

AllNext ==
    /\ UNCHANGED focus
    /\ \/ /\ focus = "accounts" /\ Next /\ UNCHANGED <<outbounds, warpUp, udp, vars13, vars12, recordVars>>
          /\ InOrder' /\ \A c \in Conns : route'[c] \in {"none", "direct"}
       \/ /\ focus = "outbounds" /\ Next /\ UNCHANGED <<vars13, vars12, recordVars>>
          /\ OneConnOnly' /\ users' \subseteq {OneUser}
       \/ focus = "tls13" /\ T3!Next /\ UNCHANGED <<vars, vars12, recordVars>>
       \/ focus = "tls12" /\ T2!Next /\ UNCHANGED <<vars, vars13, recordVars>>
       \/ focus = "records" /\ R!Next /\ sends' + faults' <= MaxEvents /\ UNCHANGED <<vars, vars13, vars12>>

CanProgress ==
    \/ focus \in {"accounts", "outbounds"} /\ \E c \in Conns : ENABLED Kicked(c)
    \/ focus = "tls13" /\ T3!CanProgress
    \/ focus = "tls12" /\ T2!CanProgress
    \/ focus = "records" /\ R!CanProgress
\* The running component does not stop for good where its Progress, or a signalled task, is
\* enabled: implied by the weak fairness of each, and cheaper to check.
AllFairness == []<>(~CanProgress) \/ []<><<TRUE>>_allVars
AllSpec == AllInit /\ [][AllNext]_allVars /\ AllFairness

\* (Tls13, Tls12) Ends that have finished agree on what was negotiated, on their secrets and on
\* the fate of the early data, and what the client keeps of TLS 1.2 is a session of the server's.
Agreement ==
    /\ T3!TypeOK /\ T3!Agreement /\ T3!EarlyDataAgreed
    /\ T2!TypeOK /\ T2!Agreement /\ T2!StoresAgree
\* (Tls13, Tls12) Application data leaves only for a peer whose certificate was verified, two
\* ends that both speak TLS 1.3 never get past the hellos of TLS 1.2, and early data is
\* accepted at most once for a ticket.
Authenticated == T3!Authenticated /\ T3!EarlyDataOnce /\ T2!Authenticated /\ T2!NoDowngrade
\* (Tls13, Tls12) Without faults compatible ends never fail, none of the assertions on the
\* client's early data fires, and a session that the server still has is resumed.
CompatibleEndsConnect ==
    /\ T3!CompatibleEndsConnect /\ T3!NoPanic
    /\ T2!CompatibleEndsConnect /\ T2!ResumptionWorks
\* (Tls13, Tls12) Every handshake ends, in traffic or with an error.
HandshakesEnd ==
    /\ []<>(focus = "tls13" => T3!HandshakeOver)
    /\ []<>(focus = "tls12" => T2!HandshakeOver)

\* (Tls13, Records) An end reads what the other wrote, in order, none of it twice and without
\* a gap, and a clean end only after all of it.  Below, every handshake message is joined whole
\* and in order, `aligned` is set exactly for those that end with their record, without a fault
\* no record fails to decrypt, and the buffer only fills up while a message is joined.
DataInOrder ==
    /\ T3!DataInOrder /\ R!DataInOrder /\ R!CleanEndMeansAll
    /\ R!TypeOK /\ R!MessagesWhole /\ R!AlignmentTrue /\ R!OnlyFaultsUndecryptable /\ R!FullOnlyWhileJoining
\* (Records) The reader catches up with what was accepted unless the connection fails, and
\* after an error nothing more is delivered.
DataArrives == [][R!Quiet]_allVars /\ R!DataArrives
=============================================================================
