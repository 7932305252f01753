-------------------------------- MODULE Tls12 --------------------------------
(***************************************************************************)
(* The TLS 1.2 handshake of the patched rustls (client/hs.rs,               *)
(* client/tls12.rs, server/hs.rs, server/tls12.rs, tls12/mod.rs): the full  *)
(* handshake, resumption by ticket and by session id, client certificates,  *)
(* the downgrade sentinel, and the stores that outlive a connection.  A     *)
(* connection is two reliable ordered queues; one message is one record.    *)
(* The record layer's framing is module Records, what a server does with a  *)
(* hello for TLS 1.3 is module Tls13.                                       *)
(*                                                                         *)
(* A hash is the sequence it is computed over, a key is what it is derived  *)
(* from: a record opens only under an equal value.                          *)
(***************************************************************************)
EXTENDS Integers, Sequences

LOCAL INSTANCE SequencesExt

CONSTANTS
    Configs,      \* the pairs of configurations considered, with their bounds maxConns on
                  \* the connections made one after the other and maxFaults on faults
    MaxWrites     \* bound: application writes of one end of a connection

VARIABLES
    cfg,          \* the configurations in force
    conn,         \* number of the connection: the randoms' and key shares' freshness
    ep,           \* the two ends: State object, CommonState, RecordLayer
    net,          \* net[e]: the records on their way to e
    stored,       \* the client's ClientSessionStore: its TLS 1.2 session
    cache,        \* the server's session_storage: pairs of an id and a session
    issued,       \* the sessions sealed in tickets: ticket i is issued[i]
    known,        \* the tickets the server's ticketer can still decrypt
    nIds,         \* random session ids so far
    faults        \* faults so far

vars == <<cfg, conn, ep, net, stored, cache, issued, known, nIds, faults>>

Ends == {"client", "server"}
Peer(e) == IF e = "client" THEN "server" ELSE "client"
None == "none"
\* A session: what Tls12ClientSessionValue and ServerSessionValue have in common, the
\* certificate being the peer's.  Id 0 is the empty session id, ticket 0 the empty ticket.
NoSession == [id |-> 0, ticket |-> 0, ms |-> <<>>, ems |-> FALSE, suite |-> None, cert |-> None]

Plain == <<>>
NoRandom == [n |-> 0, down |-> FALSE]
Msg(t, k, b) == [t |-> t, k |-> k, b |-> b]
NoBody == [none |-> None]
Ccs == Msg("CCS", Plain, NoBody)

\* HandshakeHash: the messages hashed, of the ones whose bodies matter with the body.
Entry(m) == <<m.t, IF m.t \in {"CH", "SH", "SKX", "CKX"} THEN m.b ELSE NoBody>>
Entries(ms) == [i \in 1..Len(ms) |-> Entry(ms[i])]

Elems(seq) == {seq[i] : i \in 1..Len(seq)}
FirstOf(seq, S) ==
    LET i == SelectInSeq(seq, LAMBDA x : x \in S) IN IF i = 0 THEN None ELSE seq[i]
OfConn(perConn) == perConn[IF conn > Len(perConn) THEN Len(perConn) ELSE conn]

(***************************************************************************)
(* ConnectionSecrets.                                                       *)
(***************************************************************************)
\* from_key_exchange: the shared secret of the two key shares, and the handshake hash or
\* the randoms as the seed.
MasterSecret(mine, theirs, ems, tr, r) ==
    <<{mine, theirs}, IF ems THEN tr ELSE <<r.cr, r.sr>> >>
\* make_key_block.
KeyOf(ms, r) == <<ms, r.cr, r.sr>>
\* make_verify_data.
VerifyData(side, ms, tr) == [side |-> side, ms |-> ms, hash |-> tr]

Fresh(st) ==
    [st |-> st, err |-> None, rk |-> Plain, wk |-> Plain, key |-> Plain, tr |-> <<>>,
     cr |-> 0, sr |-> NoRandom, id |-> 0, session |-> NoSession, suite |-> None, alpn |-> None,
     ems |-> FALSE, tickets |-> FALSE, status |-> FALSE, share |-> None, sig |-> <<>>,
     cert |-> None, auth |-> FALSE, ms |-> <<>>, ticket |-> 0, resumed |-> FALSE,
     peerCert |-> None, maySend |-> FALSE, closing |-> FALSE, buf |-> 0, wrote |-> 0,
     expected |-> FALSE]

Init ==
    /\ cfg \in Configs
    /\ conn = 1 /\ faults = 0 /\ nIds = 0
    /\ ep = [client |-> Fresh("Start"), server |-> Fresh("ExpectClientHello")]
    /\ net = [e \in Ends |-> <<>>]
    /\ stored = NoSession /\ cache = {} /\ issued = <<>> /\ known = {}

Ended(e) == ep[e].st \in {"Failed", "Closed"}
Traffic(e) == ep[e].st = "ExpectTraffic"
Live(e) == ~Ended(e) /\ ep[e].st # "Start"
Stores == <<stored, cache, issued, known, nIds>>

Head1(e) == Head(net[e])
\* decrypt_incoming: change_cipher_spec is always in the clear.
Opens(e, m) == m.k = ep[e].rk \/ (m.k = Plain /\ m.t = "CCS")
Sees(e, st, t) ==
    /\ ep[e].st = st /\ net[e] # <<>>
    /\ Head1(e).t = t /\ Opens(e, Head1(e))

Step(e, r, out) ==
    /\ ep' = [ep EXCEPT ![e] = r]
    /\ net' = [net EXCEPT ![e] = Tail(@), ![Peer(e)] = @ \o out]
    /\ UNCHANGED <<cfg, conn, faults>>
\* send_fatal_alert, and an error for which no alert is sent.
Fatal(e, r, desc) ==
    Step(e, [r EXCEPT !.st = "Failed", !.err = desc], <<Msg("Alert", r.wk, NoBody)>>)
Silent(e, r, desc) == Step(e, [r EXCEPT !.st = "Failed", !.err = desc], <<>>)

Hashed(r, m) == [r EXCEPT !.tr = Append(@, Entry(m))]
HashedAll(r, ms) == [r EXCEPT !.tr = @ \o Entries(ms)]

\* start_encryption_tls12: both ciphers are prepared; start_encrypting and start_decrypting
\* put them to use.
Prepared(r) == [r EXCEPT !.key = KeyOf(r.ms, r)]
Encrypting(r) == [r EXCEPT !.wk = r.key]
Finished(side, r) == Msg("Fin", r.key, VerifyData(side, r.ms, r.tr))
\* emit_ccs, start_encrypting, emit_finished.
CcsFinished(side, r) == <<Ccs, Finished(side, r)>>
AfterFinished(side, r) == Hashed(Encrypting(r), Finished(side, r))
\* start_traffic: what was written during the handshake goes out.
Buffered(r) == [i \in 1..r.buf |-> Msg("Data", r.wk, NoBody)]
InTraffic(r) == [r EXCEPT !.st = "ExpectTraffic", !.maySend = TRUE, !.buf = 0]

Verified(side, r, m) == m.b = VerifyData(side, r.ms, r.tr)

(***************************************************************************)
(* The client's hello: find_session, start_handshake and the extensions of  *)
(* emit_client_hello_for_retry and prepare_resumption.  A session with a    *)
(* ticket is offered under a fresh id, the signal that it was accepted.     *)
(***************************************************************************)
Offered(fresh) == IF stored.ticket # 0 THEN [stored EXCEPT !.id = fresh] ELSE stored
SessionId(s, fresh) ==
    IF s # NoSession THEN s.id ELSE IF cfg.cV13 THEN fresh ELSE 0
OffersTicket(s) == s.ticket # 0 /\ cfg.cTickets
AsksForTicket(s) == s.ticket = 0 /\ (cfg.cV13 \/ cfg.cTickets)

ClientHello(s, id) ==
    Msg("CH", Plain, [id |-> id, ticket |-> IF OffersTicket(s) THEN s.ticket ELSE 0,
                      asks |-> OffersTicket(s) \/ AsksForTicket(s), ems |-> OfConn(cfg.cEms),
                      v13 |-> cfg.cV13, cr |-> conn])

\* Whether the server has what the client is about to offer (history, for ResumptionWorks).
Resumable ==
    IF stored.ticket # 0 THEN stored.ticket \in known
    ELSE \E x \in cache : x.id = stored.id

StartHandshake ==
    /\ ep["client"].st = "Start"
    /\ LET s == Offered(nIds + 1)
           id == SessionId(s, nIds + 1)
           hello == ClientHello(s, id)
       IN /\ ep' = [ep EXCEPT !["client"] =
                      Hashed([@ EXCEPT !.st = "ExpectServerHello", !.session = s, !.cr = conn,
                                       !.expected = stored # NoSession /\ Resumable], hello)]
          /\ net' = [net EXCEPT !["server"] = Append(@, hello)]
    /\ nIds' = nIds + 1
    /\ UNCHANGED <<cfg, conn, faults, stored, cache, issued, known>>

(***************************************************************************)
(* The server's answer: ExpectClientHello::with_certified_key and           *)
(* CompleteClientHelloHandling::handle_client_hello.                        *)
(***************************************************************************)
Chooses13(h) == h.v13 /\ OfConn(cfg.sV13)
ChosenSuite == FirstOf(cfg.cSuites, Elems(OfConn(cfg.sSuites)))
ChosenGroup == FirstOf(cfg.sGroups, Elems(cfg.cGroups))
ChosenAlpn == FirstOf(cfg.sAlpn, Elems(cfg.cAlpn))
AlpnFails == cfg.cAlpn # <<>> /\ cfg.sAlpn # <<>> /\ ChosenAlpn = None

\* can_resume.
CanResume(s, ems) == s.suite = ChosenSuite /\ (s.ems = ems \/ (s.ems /\ ~ems))

\* The session a ticket decrypts to or, if none was received, the cached one.
SessionOf(h) ==
    IF h.ticket # 0
    THEN IF h.ticket \in known THEN issued[h.ticket] ELSE NoSession
    ELSE IF \E x \in cache : x.id = h.id /\ h.id # 0
         THEN (CHOOSE x \in cache : x.id = h.id).session ELSE NoSession
Resumes(h) == SessionOf(h) # NoSession /\ CanResume(SessionOf(h), h.ems)

\* Mutant of Sentinel: the server random carries no downgrade marker.
SentinelNever(h) == [n |-> conn, down |-> FALSE]
Sentinel(h) == [n |-> conn, down |-> OfConn(cfg.sV13)]

SendsTicket(h) == h.asks /\ cfg.ticketer

\* What both kinds of answer start from.
Answering(h) ==
    [ep["server"] EXCEPT !.cr = h.cr, !.sr = Sentinel(h), !.ems = h.ems, !.suite = ChosenSuite,
                         !.alpn = ChosenAlpn, !.tickets = SendsTicket(h)]
ServerHello(r) ==
    Msg("SH", Plain, [id |-> r.id, ems |-> r.ems, tickets |-> r.tickets, status |-> r.status,
                      sr |-> r.sr, suite |-> r.suite, alpn |-> r.alpn])

Seals == OfConn(cfg.seals)
\* emit_ticket: a ticket that cannot be sealed is sent empty.
NewTicket == Msg("NST", Plain, [ticket |-> IF Seals THEN Len(issued) + 1 ELSE 0])
ServerSession(r) ==
    [NoSession EXCEPT !.ms = r.ms, !.ems = r.ems, !.suite = r.suite, !.cert = r.peerCert]
Sealed(r) ==
    IF r.tickets /\ Seals
    THEN /\ issued' = Append(issued, ServerSession(r)) /\ known' = known \union {Len(issued) + 1}
    ELSE UNCHANGED <<issued, known>>
TicketFlight(r) == IF r.tickets THEN <<NewTicket>> ELSE <<>>

HelloError(h) ==
    IF ~cfg.sV12 THEN "ProtocolVersion"
    ELSE IF ChosenSuite = None THEN "NoCipherSuitesInCommon"
    ELSE IF Resumes(h) /\ SessionOf(h).ems /\ ~h.ems THEN "ResumptionAttemptedWithVariedEms"
    ELSE IF ~Resumes(h) /\ ChosenGroup = None THEN "NoKxGroupsInCommon"
    ELSE IF AlpnFails THEN "NoApplicationProtocol"
    ELSE None

ServerRefuse ==
    /\ Sees("server", "ExpectClientHello", "CH")
    /\ LET h == Head1("server").b IN
       /\ ~Chooses13(h) /\ HelloError(h) # None
       /\ Fatal("server", ep["server"], HelloError(h))
    /\ UNCHANGED Stores

\* The handshake goes on in TLS 1.3, outside this module.
ServerTls13 ==
    /\ Sees("server", "ExpectClientHello", "CH") /\ Chooses13(Head1("server").b)
    /\ ep' = [e \in Ends |-> [ep[e] EXCEPT !.st = "Closed", !.err = "Tls13"]]
    /\ net' = [e \in Ends |-> <<>>]
    /\ UNCHANGED <<cfg, conn, faults, Stores>>

\* start_resumption: the client's id is echoed.
ResumedId(h) == h.id

StartResumption ==
    /\ Sees("server", "ExpectClientHello", "CH")
    /\ LET h == Head1("server").b
           s == SessionOf(h)
           r == [Answering(h) EXCEPT !.id = ResumedId(h), !.ms = s.ms, !.peerCert = s.cert,
                                     !.resumed = TRUE, !.st = "ExpectCcs"]
           hello == <<ServerHello(r)>> \o TicketFlight(r)
           ready == HashedAll(Prepared(Hashed(r, Head1("server"))), hello)
       IN /\ ~Chooses13(h) /\ HelloError(h) = None /\ Resumes(h)
          /\ Step("server", AfterFinished("server", ready),
                  hello \o CcsFinished("server", ready))
          /\ Sealed(r)
    /\ UNCHANGED <<stored, cache, nIds>>

\* A session id is allocated if sessions can be cached and no ticket was received.
AllocatesId(h) == cfg.caches /\ h.ticket = 0

KeyShare(side) == [side |-> side, conn |-> conn, group |-> ChosenGroup]
\* emit_server_kx: the certificate's key signs the randoms and the key share.
ServerKx(r) ==
    Msg("SKX", Plain, [share |-> KeyShare("server"), by |-> cfg.serverCert,
                       sig |-> <<r.cr, r.sr, KeyShare("server")>>])

ServerFlight(r) ==
    <<ServerHello(r), Msg("Cert", Plain, [cert |-> cfg.serverCert])>>
    \o (IF r.status THEN <<Msg("Status", Plain, NoBody)>> ELSE <<>>)
    \o <<ServerKx(r)>>
    \o (IF cfg.auth # "none" THEN <<Msg("CertReq", Plain, NoBody)>> ELSE <<>>)
    \o <<Msg("Done", Plain, NoBody)>>

ServerFull ==
    /\ Sees("server", "ExpectClientHello", "CH")
    /\ LET h == Head1("server").b
           r == [Answering(h) EXCEPT
                   !.id = IF AllocatesId(h) THEN nIds + 1 ELSE 0, !.status = cfg.ocsp,
                   !.st = IF cfg.auth # "none" THEN "ExpectCertificate" ELSE "ExpectClientKx"]
       IN /\ ~Chooses13(h) /\ HelloError(h) = None /\ ~Resumes(h)
          /\ Step("server", HashedAll(Hashed(r, Head1("server")), ServerFlight(r)),
                  ServerFlight(r))
          /\ nIds' = IF AllocatesId(h) THEN nIds + 1 ELSE nIds
    /\ UNCHANGED <<stored, cache, issued, known>>

(***************************************************************************)
(* The client: ExpectServerHello and CompleteServerHelloHandling.           *)
(***************************************************************************)
ServerHelloError(h) ==
    IF h.suite \notin Elems(cfg.cSuites) THEN "SelectedUnofferedCipherSuite"
    ELSE IF h.alpn # None /\ h.alpn \notin Elems(cfg.cAlpn) THEN "SelectedUnofferedAlpn"
    ELSE IF cfg.cV13 /\ h.sr.down THEN "AttemptedDowngrade"
    ELSE None
Accepted(r, h) == r.session # NoSession /\ r.session.id = h.id
\* Errors for which no alert is sent.
ResumptionError(r, h) ==
    Accepted(r, h) /\ (r.session.suite # h.suite \/ r.session.ems # h.ems)

ClientRefuse ==
    /\ Sees("client", "ExpectServerHello", "SH")
    /\ LET h == Head1("client").b
           r == ep["client"]
       IN \/ ServerHelloError(h) # None /\ Fatal("client", r, ServerHelloError(h))
          \/ /\ ServerHelloError(h) = None /\ ResumptionError(r, h)
             /\ Silent("client", r, "ResumptionOfferedWithVariedParameters")
    /\ UNCHANGED Stores

\* ExpectCertificate is entered with resuming_session: None.
FullSession(r) == NoSession

ClientServerHello ==
    /\ Sees("client", "ExpectServerHello", "SH")
    /\ LET h == Head1("client").b
           r == Hashed([ep["client"] EXCEPT !.sr = h.sr, !.id = h.id, !.ems = h.ems,
                          !.suite = h.suite, !.alpn = h.alpn, !.tickets = h.tickets,
                          !.status = h.status], Head1("client"))
           resuming == Prepared([r EXCEPT !.ms = r.session.ms, !.peerCert = r.session.cert,
                                  !.resumed = TRUE,
                                  !.st = IF h.tickets THEN "ExpectNewTicket" ELSE "ExpectCcs"])
           full == [r EXCEPT !.session = FullSession(r), !.st = "ExpectCertificate"]
       IN /\ ServerHelloError(h) = None /\ ~ResumptionError(ep["client"], h)
          /\ Step("client", IF Accepted(r, h) THEN resuming ELSE full, <<>>)
    /\ UNCHANGED Stores

ClientCertificate ==
    /\ Sees("client", "ExpectCertificate", "Cert")
    /\ Step("client",
            [Hashed(ep["client"], Head1("client")) EXCEPT
               !.cert = Head1("client").b.cert,
               !.st = IF ep["client"].status THEN "ExpectCertificateStatusOrServerKx"
                                             ELSE "ExpectServerKx"],
            <<>>)
    /\ UNCHANGED Stores

ClientCertificateStatus ==
    /\ Sees("client", "ExpectCertificateStatusOrServerKx", "Status")
    /\ Step("client", [Hashed(ep["client"], Head1("client")) EXCEPT !.st = "ExpectServerKx"], <<>>)
    /\ UNCHANGED Stores

\* The signature is kept: it is verified at ServerHelloDone.
ClientServerKx ==
    /\ \E st \in {"ExpectCertificateStatusOrServerKx", "ExpectServerKx"} :
         Sees("client", st, "SKX")
    /\ LET kx == Head1("client").b IN
       Step("client", [Hashed(ep["client"], Head1("client")) EXCEPT
                         !.share = kx.share, !.sig = <<kx.by, kx.sig>>,
                         !.st = "ExpectServerDoneOrCertReq"], <<>>)
    /\ UNCHANGED Stores

ClientCertificateRequest ==
    /\ Sees("client", "ExpectServerDoneOrCertReq", "CertReq")
    /\ Step("client", [Hashed(ep["client"], Head1("client")) EXCEPT
                         !.auth = TRUE, !.st = "ExpectServerDone"], <<>>)
    /\ UNCHANGED Stores

\* verify_server_cert, and the signature over the randoms and the key share.
ServerVerified(r) ==
    r.cert = "good" /\ r.sig = <<r.cert, <<r.cr, r.sr, r.share>> >>

ClientFlight(r) ==
    LET cert == IF r.auth THEN <<Msg("Cert", Plain, [cert |-> cfg.clientCert])>> ELSE <<>>
        kx == <<Msg("CKX", Plain, [share |-> KeyShare("client")])>>
        signed == r.tr \o Entries(cert \o kx)
        verify == IF r.auth /\ cfg.clientCert # None
                  THEN <<Msg("CertVerify", Plain, [by |-> cfg.clientCert, over |-> signed])>>
                  ELSE <<>>
    IN cert \o kx \o verify
\* The extended master secret's hash runs up to the ClientKeyExchange.
UpToKx(tr) == SubSeq(tr, 1, SelectLastInSeq(tr, LAMBDA x : x[1] = "CKX"))

ClientServerDone ==
    /\ \E st \in {"ExpectServerDoneOrCertReq", "ExpectServerDone"} : Sees("client", st, "Done")
    /\ LET r == Hashed(ep["client"], Head1("client"))
           sent == HashedAll([r EXCEPT !.peerCert = r.cert], ClientFlight(r))
           keyed == Prepared([sent EXCEPT !.ms = MasterSecret(KeyShare("client"), r.share, r.ems,
                                                              UpToKx(sent.tr), r)])
       IN IF ServerVerified(r)
          THEN Step("client",
                    [AfterFinished("client", keyed) EXCEPT
                       !.st = IF r.tickets THEN "ExpectNewTicket" ELSE "ExpectCcs"],
                    ClientFlight(r) \o CcsFinished("client", keyed))
          ELSE Fatal("client", r, "BadCertificate")
    /\ UNCHANGED Stores

ClientNewTicket ==
    /\ Sees("client", "ExpectNewTicket", "NST")
    /\ Step("client", [Hashed(ep["client"], Head1("client")) EXCEPT
                         !.ticket = Head1("client").b.ticket, !.st = "ExpectCcs"], <<>>)
    /\ UNCHANGED Stores

\* start_decrypting, at either end.
ReceiveCcs(e) ==
    /\ Sees(e, "ExpectCcs", "CCS")
    /\ Step(e, [ep[e] EXCEPT !.rk = ep[e].key, !.st = "ExpectFinished"], <<>>)
    /\ UNCHANGED Stores

\* save_session: the new ticket, or the one that was resumed.
SavedSession(r) ==
    LET ticket == IF r.ticket # 0 THEN r.ticket ELSE r.session.ticket IN
    IF r.id = 0 /\ ticket = 0
    THEN stored
    ELSE [id |-> r.id, ticket |-> ticket, ms |-> r.ms, ems |-> r.ems, suite |-> r.suite,
          cert |-> r.peerCert]

\* A resuming client has still to send its own change_cipher_spec and Finished.
ClientFinished ==
    /\ Sees("client", "ExpectFinished", "Fin")
    /\ LET r == Hashed(ep["client"], Head1("client"))
           done == IF r.resumed THEN AfterFinished("client", r) ELSE r
       IN IF Verified("server", ep["client"], Head1("client"))
          THEN /\ Step("client", InTraffic(done),
                       (IF r.resumed THEN CcsFinished("client", r) ELSE <<>>) \o Buffered(done))
               /\ stored' = SavedSession(r)
          ELSE Fatal("client", ep["client"], "DecryptError") /\ UNCHANGED stored
    /\ UNCHANGED <<cache, issued, known, nIds>>

(***************************************************************************)
(* The server's second half.                                                *)
(***************************************************************************)
Lacking(cert) == cert = None /\ cfg.auth = "mandatory"

ServerCertificate ==
    /\ Sees("server", "ExpectCertificate", "Cert")
    /\ LET cert == Head1("server").b.cert
           r == Hashed(ep["server"], Head1("server"))
       IN IF Lacking(cert) THEN Fatal("server", r, "CertificateRequired")
          ELSE IF cert = "bad" THEN Fatal("server", r, "BadCertificate")
          ELSE Step("server", [r EXCEPT !.cert = cert, !.st = "ExpectClientKx"], <<>>)
    /\ UNCHANGED Stores

ServerClientKx ==
    /\ Sees("server", "ExpectClientKx", "CKX")
    /\ LET r == Hashed(ep["server"], Head1("server"))
           ms == MasterSecret(KeyShare("server"), Head1("server").b.share, r.ems, r.tr, r)
       IN Step("server",
               [Prepared([r EXCEPT !.ms = ms]) EXCEPT
                  !.st = IF r.cert # None THEN "ExpectCertificateVerify" ELSE "ExpectCcs"], <<>>)
    /\ UNCHANGED Stores

ServerCertificateVerify ==
    /\ Sees("server", "ExpectCertificateVerify", "CertVerify")
    /\ LET r == ep["server"]
           m == Head1("server")
       IN IF m.b.by = r.cert /\ m.b.over = r.tr
          THEN Step("server", [Hashed(r, m) EXCEPT !.peerCert = r.cert, !.st = "ExpectCcs"], <<>>)
          ELSE Fatal("server", r, "BadSignature")
    /\ UNCHANGED Stores

ServerFinished ==
    /\ Sees("server", "ExpectFinished", "Fin")
    /\ LET r == Hashed(ep["server"], Head1("server"))
           answer == IF r.resumed THEN <<>> ELSE TicketFlight(r)
           ready == HashedAll(r, answer)
           done == IF r.resumed THEN r ELSE AfterFinished("server", ready)
       IN IF Verified("client", ep["server"], Head1("server"))
          THEN /\ Step("server", InTraffic(done),
                       (IF r.resumed THEN <<>> ELSE answer \o CcsFinished("server", ready))
                       \o Buffered(done))
               /\ cache' = IF r.resumed \/ r.id = 0 THEN cache
                           ELSE cache \union {[id |-> r.id, session |-> ServerSession(r)]}
               /\ IF r.resumed THEN UNCHANGED <<issued, known>> ELSE Sealed(r)
          ELSE Fatal("server", ep["server"], "DecryptError") /\ UNCHANGED <<cache, issued, known>>
    /\ UNCHANGED <<stored, nIds>>

(***************************************************************************)
(* Common to both ends: process_main_protocol, process_alert, the writer.   *)
(***************************************************************************)
ReceiveData(e) ==
    /\ Sees(e, "ExpectTraffic", "Data") /\ Step(e, ep[e], <<>>)
    /\ UNCHANGED Stores

Renegotiation(e) == IF e = "client" THEN "HelloReq" ELSE "CH"
\* A request to renegotiate is answered with a warning.
RejectRenegotiation(e) ==
    /\ Sees(e, "ExpectTraffic", Renegotiation(e))
    /\ Step(e, ep[e], <<Msg("Warning", ep[e].wk, NoBody)>>)
    /\ UNCHANGED Stores

ReceiveAlert(e) ==
    /\ Live(e) /\ net[e] # <<>> /\ Opens(e, Head1(e))
    /\ \/ Head1(e).t = "Alert"
          /\ Step(e, [ep[e] EXCEPT !.st = "Failed", !.err = "AlertReceived"], <<>>)
       \/ Head1(e).t = "Warning" /\ Step(e, ep[e], <<>>)
       \/ Head1(e).t = "CloseNotify" /\ Step(e, [ep[e] EXCEPT !.closing = TRUE], <<>>)
    /\ UNCHANGED Stores

Undecryptable(e) ==
    /\ Live(e) /\ net[e] # <<>> /\ ep[e].rk # Plain /\ ~Opens(e, Head1(e))
    /\ Fatal(e, ep[e], "BadRecordMac")
    /\ UNCHANGED Stores

Expects(e) ==
    CASE ep[e].st = "ExpectServerHello" -> {"SH"}
      [] ep[e].st = "ExpectCertificate" -> {"Cert"}
      [] ep[e].st = "ExpectCertificateStatusOrServerKx" -> {"Status", "SKX"}
      [] ep[e].st = "ExpectServerKx" -> {"SKX"}
      [] ep[e].st = "ExpectServerDoneOrCertReq" -> {"CertReq", "Done"}
      [] ep[e].st = "ExpectServerDone" -> {"Done"}
      [] ep[e].st = "ExpectNewTicket" -> {"NST"}
      [] ep[e].st = "ExpectCcs" -> {"CCS"}
      [] ep[e].st = "ExpectFinished" -> {"Fin"}
      [] ep[e].st = "ExpectClientHello" -> {"CH"}
      [] ep[e].st = "ExpectClientKx" -> {"CKX"}
      [] ep[e].st = "ExpectCertificateVerify" -> {"CertVerify"}
      [] ep[e].st = "ExpectTraffic" -> {"Data", Renegotiation(e)}
      [] OTHER -> {}

\* Anything else, and before keys are in use an encrypted record, is inappropriate.
Unexpected(e) ==
    /\ Live(e) /\ net[e] # <<>>
    /\ LET m == Head1(e) IN
       IF Opens(e, m) THEN m.t \notin Expects(e) \union {"Alert", "Warning", "CloseNotify"}
                      ELSE ep[e].rk = Plain
    /\ Fatal(e, ep[e], "UnexpectedMessage")
    /\ UNCHANGED Stores

Write(e) ==
    /\ Live(e) /\ ep[e].wrote < MaxWrites /\ ~ep[e].closing
    /\ ep' = [ep EXCEPT ![e].wrote = @ + 1, ![e].buf = IF ep[e].maySend THEN @ ELSE @ + 1]
    /\ net' = IF ep[e].maySend
              THEN [net EXCEPT ![Peer(e)] = Append(@, Msg("Data", ep[e].wk, NoBody))] ELSE net
    /\ UNCHANGED <<cfg, conn, faults, Stores>>

Close(e) ==
    /\ Traffic(e)
    /\ ep' = [ep EXCEPT ![e].st = "Closed"]
    /\ net' = [net EXCEPT ![Peer(e)] = Append(@, Msg("CloseNotify", ep[e].wk, NoBody))]
    /\ UNCHANGED <<cfg, conn, faults, Stores>>

\* The peer is gone and everything it sent is read.
Eof(e) ==
    /\ Live(e) /\ net[e] = <<>> /\ Ended(Peer(e))
    /\ ep' = [ep EXCEPT ![e].st = "Closed",
                        ![e].err = IF ep[e].closing THEN None ELSE "UnexpectedEof"]
    /\ UNCHANGED <<cfg, conn, net, faults, Stores>>

(***************************************************************************)
(* The world: a server that loses its cache and its ticket keys, a peer     *)
(* that asks to renegotiate (rustls never does), and a bounded number of    *)
(* faults: an end that dies, a clear message changed or repeated on the way *)
(* and one that has no place in the handshake.                              *)
(***************************************************************************)
Forget ==
    /\ ep["client"].st = "Start" /\ (cache # {} \/ known # {})
    /\ cache' = {} /\ known' = {}
    /\ UNCHANGED <<cfg, conn, ep, net, stored, issued, nIds, faults>>

Fault == faults < cfg.maxFaults /\ faults' = faults + 1

Abort(e) ==
    /\ Fault /\ Live(e)
    /\ ep' = [ep EXCEPT ![e].st = "Closed", ![e].err = "Aborted"]
    /\ UNCHANGED <<cfg, conn, net, Stores>>

Elsewhere == [side |-> "elsewhere", conn |-> 0, group |-> None]
Rewritten(m) ==
    CASE m.t = "CH" -> {[m EXCEPT !.b.ems = FALSE], [m EXCEPT !.b.v13 = FALSE],
                        [m EXCEPT !.b.ticket = 0]}
      [] m.t = "SH" -> {[m EXCEPT !.b.ems = FALSE], [m EXCEPT !.b.tickets = ~@],
                        [m EXCEPT !.b.sr.down = FALSE], [m EXCEPT !.b.id = 0],
                        [m EXCEPT !.b.status = ~@]}
                       \union {[m EXCEPT !.b.suite = s] : s \in Elems(cfg.cSuites)}
      [] m.t = "Cert" -> {[m EXCEPT !.b.cert = c] : c \in {"good", "bad", None}}
      [] m.t \in {"SKX", "CKX"} -> {[m EXCEPT !.b.share = Elsewhere]}
      [] OTHER -> {}
Rewrite(e) ==
    /\ Fault /\ Live(e) /\ net[e] # <<>> /\ Head1(e).b # NoBody
    /\ \E m \in Rewritten(Head1(e)) \ {Head1(e)} : net' = [net EXCEPT ![e] = <<m>> \o Tail(@)]
    /\ UNCHANGED <<cfg, conn, ep, Stores>>
Repeat(e) ==
    /\ Fault /\ Live(e) /\ net[e] # <<>> /\ Head1(e).k = Plain
    /\ net' = [net EXCEPT ![e] = <<Head(@)>> \o @]
    /\ UNCHANGED <<cfg, conn, ep, Stores>>
Stray(e) ==
    /\ Fault /\ Live(e)
    /\ \E t \in {"Stray", Renegotiation(Peer(e))} :
         net' = [net EXCEPT ![Peer(e)] = Append(@, Msg(t, ep[e].wk, NoBody))]
    /\ UNCHANGED <<cfg, conn, ep, Stores>>

NextConn ==
    /\ conn < cfg.maxConns /\ \A e \in Ends : Ended(e)
    /\ conn' = conn + 1
    /\ ep' = [client |-> Fresh("Start"), server |-> Fresh("ExpectClientHello")]
    /\ net' = [e \in Ends |-> <<>>]
    /\ UNCHANGED <<cfg, faults, Stores>>

Over == conn = cfg.maxConns /\ (\A e \in Ends : Ended(e)) /\ UNCHANGED vars

ClientHandle ==
    \/ ClientRefuse \/ ClientServerHello \/ ClientCertificate \/ ClientCertificateStatus
    \/ ClientServerKx \/ ClientCertificateRequest \/ ClientServerDone \/ ClientNewTicket
    \/ ClientFinished
ServerHandle ==
    \/ ServerRefuse \/ ServerTls13 \/ StartResumption \/ ServerFull \/ ServerCertificate
    \/ ServerClientKx \/ ServerCertificateVerify \/ ServerFinished
Process(e) ==
    \/ e = "client" /\ ClientHandle
    \/ e = "server" /\ ServerHandle
    \/ ReceiveCcs(e) \/ ReceiveData(e) \/ RejectRenegotiation(e) \/ ReceiveAlert(e)
    \/ Undecryptable(e) \/ Unexpected(e)

Next ==
    \/ StartHandshake \/ Forget \/ NextConn \/ Over
    \/ \E e \in Ends :
         \/ Process(e) \/ Write(e) \/ Close(e) \/ Eof(e)
         \/ Abort(e) \/ Rewrite(e) \/ Repeat(e) \/ Stray(e)

\* The I/O loops keep feeding their end what has arrived or the end of the stream.
\* CanProgress is where Progress is enabled; Fairness is its weak fairness spelled out.
Progress == StartHandshake \/ \E e \in Ends : Process(e) \/ Eof(e)
CanProgress ==
    \/ ep["client"].st = "Start"
    \/ \E e \in Ends : Live(e) /\ (net[e] # <<>> \/ Ended(Peer(e)))
Fairness == []<>(~CanProgress) \/ []<><<Progress>>_vars

Spec == Init /\ [][Next]_vars /\ Fairness

-----------------------------------------------------------------------------
(***************************************************************************)
(* Properties.                                                              *)
(***************************************************************************)

\* The stores name only ids and tickets that were given out, and an end writes and reads
\* in the clear or under the one key it has derived.
TypeOK ==
    /\ conn \in 1..cfg.maxConns /\ faults \in 0..cfg.maxFaults
    /\ known \subseteq 1..Len(issued)
    /\ stored.id \in 0..nIds /\ stored.ticket \in 0..Len(issued)
    /\ \A x \in cache : x.id \in 1..nIds
    /\ \A x, y \in cache : x.id = y.id => x = y
    /\ \A e \in Ends : ep[e].rk \in {Plain, ep[e].key} /\ ep[e].wk \in {Plain, ep[e].key}

\* An end that has verified the other's Finished agrees with it on the master secret, the
\* randoms, the suite, the protocol, the extended master secret and whether a session was
\* resumed, and both saw the same two hellos, whatever was changed on the way.
Agreement ==
    (\E e \in Ends : Traffic(e)) =>
        LET c == ep["client"]
            s == ep["server"]
        IN /\ c.ms = s.ms /\ c.cr = s.cr /\ c.sr = s.sr /\ c.suite = s.suite
           /\ c.alpn = s.alpn /\ c.ems = s.ems /\ c.resumed = s.resumed
           /\ SubSeq(c.tr, 1, 2) = SubSeq(s.tr, 1, 2)

\* Data leaves a server that demands a certificate only for a client whose certificate was
\* verified, now or in the session that is resumed (which skips the certificate states),
\* and leaves a client only for a verified server.
Authenticated ==
    /\ ep["server"].maySend /\ cfg.auth = "mandatory" => ep["server"].peerCert = "good"
    /\ ep["client"].maySend => ep["client"].peerCert = "good"

\* Two ends that both speak TLS 1.3 never get past the hellos of TLS 1.2: the sentinel in
\* the server's random stops the client before its key exchange, and a sentinel removed on
\* the way spoils the signature, or the keys of a resumed session.
NoDowngrade ==
    cfg.cV13 /\ OfConn(cfg.sV13) =>
        /\ ~Traffic("client")
        /\ \A i \in 1..Len(ep["client"].tr) : ep["client"].tr[i][1] # "CKX"

\* What the client keeps is a session of the server's: its ticket was sealed over, and its
\* id is cached with, the very master secret, suite and extended master secret flag.
StoresAgree ==
    LET Same(s) == s.ms = stored.ms /\ s.ems = stored.ems /\ s.suite = stored.suite IN
    /\ stored.ticket # 0 => Same(issued[stored.ticket])
    /\ stored.ticket = 0 => \A x \in cache : x.id = stored.id => Same(x.session)

\* A session that the server still has when it is offered is resumed, by ticket or by id,
\* unless the suite or the extended master secret has changed.  (The exception: a client
\* limited to session ids that speaks TLS 1.3 too asks for a ticket, gets one, and then
\* offers neither the ticket nor the id it was cached under.)
ResumptionWorks ==
    /\ faults = 0 /\ Traffic("client") /\ ep["client"].expected
    /\ cfg.cTickets \/ ~cfg.cV13
    /\ Len(cfg.cEms) = 1 /\ Len(cfg.sSuites) = 1
    => ep["client"].resumed

Compatible ==
    /\ cfg.sV12 /\ ChosenSuite # None /\ ChosenGroup # None /\ ~AlpnFails
    /\ cfg.serverCert = "good"
    /\ cfg.auth = "mandatory" => cfg.clientCert = "good"
    /\ cfg.auth # "none" => cfg.clientCert # "bad"

\* Without faults compatible ends never fail, whichever sessions either has lost or kept
\* and whether or not tickets can be sealed.
CompatibleEndsConnect ==
    Compatible /\ faults = 0 => \A e \in Ends : ep[e].st # "Failed"

\* Every handshake ends, in traffic or with an error: no end stays in the middle of one,
\* waiting for a message that the other does not mean to send.
HandshakeOver == \A e \in Ends : Traffic(e) \/ Ended(e)
HandshakeEnds == []<>HandshakeOver
=============================================================================
