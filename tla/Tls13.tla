-------------------------------- MODULE Tls13 --------------------------------
(***************************************************************************)
(* The TLS 1.3 handshake of the patched rustls that carries every Reality   *)
(* connection: the client's and the server's chains of State objects        *)
(* (client/hs.rs, client/tls13.rs, server/hs.rs, server/tls13.rs), the keys *)
(* they install in the record layer (tls13/key_schedule.rs), the part of    *)
(* CommonState and ConnectionCore that every message passes, and the two    *)
(* session stores that outlive a connection.  A connection is two reliable  *)
(* ordered queues; one message is one record.                               *)
(*                                                                         *)
(* A hash is the sequence it is computed over and a key is the name of its  *)
(* stage together with the secrets it is derived from (ep[e].sec): a record *)
(* opens only when both ends derived the same secret for its stage.         *)
(***************************************************************************)
EXTENDS Integers, Sequences, FiniteSets

LOCAL INSTANCE SequencesExt

CONSTANTS
    Configs,      \* the pairs of client and server configurations considered, each with
                  \* its bounds on the connections made one after the other, on faults
                  \* (rewritten, repeated or stray records, and aborts) and on the key
                  \* generations a peer asks for
    MaxWrites     \* bound: application writes of one end of a connection

VARIABLES
    cfg,          \* the configurations in force
    conn,         \* number of the connection
    ep,           \* the two ends: State object, CommonState, RecordLayer
    net,          \* net[e]: the records on their way to e
    tickets,      \* the client's ClientSessionStore, for the one server name
    kxHint,       \* the client's kx_hint
    sessions,     \* the server's sessions: its storage, or with a ticketer what
                  \* its encrypted tickets decrypt to
    nTickets,     \* tickets issued so far: the next ticket's identity
    earlyTaken,   \* history: the tickets whose early data the server accepted
    faults        \* faults so far

vars == <<cfg, conn, ep, net, tickets, kxHint, sessions, nTickets, earlyTaken, faults>>

Ends == {"client", "server"}
Peer(e) == IF e = "client" THEN "server" ELSE "client"
None == "none"
NoTicket == [id |-> 0, secret |-> <<>>, early |-> 0, suite |-> None, alpn |-> None, cert |-> None]

\* Direction states of a record layer: no keys, or the keys of a stage.
Plain == <<"plain", 0>>
Early == <<"early", 0>>
Hs    == <<"hs", 0>>
App(n) == <<"app", n>>
NextKey(k) == App(k[2] + 1)

\* The key schedule: what the secrets of each stage are derived from.
EarlySecret(psk, tr) == <<psk.secret, tr>>
HandshakeSecret(psk, group, tr) == <<psk.secret, group, tr>>
TrafficSecret(tr) == tr

Msg(t, k, b) == [t |-> t, k |-> k, b |-> b]
NoBody == [none |-> None]

\* Mutant of Entry: the ServerHello is left out of the hash.
EntryWithoutServerHello(m) == <<m.t, IF m.t \in {"CH", "HRR", "EE"} THEN m.b ELSE NoBody>>
\* What the transcript hash keeps of a message.
Entry(m) == <<m.t, IF m.t \in {"CH", "SH", "HRR", "EE"} THEN m.b ELSE NoBody>>
Entries(ms) == [i \in 1..Len(ms) |-> Entry(ms[i])]
Kinds(tr) == [i \in 1..Len(tr) |-> tr[i][1]]

FirstOf(seq, S) ==
    LET i == SelectInSeq(seq, LAMBDA x : x \in S) IN IF i = 0 THEN None ELSE seq[i]
Elems(seq) == {seq[i] : i \in 1..Len(seq)}

(***************************************************************************)
(* CommonState::new, RecordLayer::new and the two ConnectionData objects.   *)
(***************************************************************************)
Fresh(st) ==
    [st |-> st, err |-> None, rk |-> Plain, wk |-> Plain, tr |-> <<>>,
     sec |-> [early |-> <<>>, hs |-> <<>>, app |-> <<>>],
     suite |-> None, group |-> None, alpn |-> None, psk |-> NoTicket, early |-> "Disabled",
     earlyTraffic |-> FALSE, ccsSent |-> FALSE, ccsGot |-> 0, retried |-> FALSE,
     auth |-> None, peerCert |-> None, decrypted |-> FALSE, trial |-> 0, skip |-> 0,
     maySend |-> FALSE, ku |-> FALSE, closing |-> FALSE,
     buf |-> <<>>, wrote |-> 0, earlyWrote |-> 0, got |-> <<>>, earlyGot |-> 0]

Init ==
    /\ cfg \in Configs
    /\ conn = 1 /\ faults = 0 /\ nTickets = 0
    /\ ep = [client |-> Fresh("Start"), server |-> Fresh("ExpectClientHello")]
    /\ net = [e \in Ends |-> <<>>]
    /\ tickets = <<>> /\ kxHint = None /\ sessions = {} /\ earlyTaken = <<>>

Ended(e) == ep[e].st \in {"Failed", "Closed", "Panicked"}
Traffic(e) == ep[e].st = "ExpectTraffic"
Live(e) == ~Ended(e) /\ ep[e].st # "Start"
Stores == <<tickets, kxHint, sessions, nTickets, earlyTaken>>

\* The server may come back with other groups, or without early data, while its
\* session storage and the client's tickets live on.
ServerGroups == IF conn = 1 THEN cfg.sGroups ELSE cfg.sGroupsLater
ServerEarly == IF conn = 1 THEN cfg.sEarly ELSE cfg.sEarlyLater

(***************************************************************************)
(* The record layer: whether the first record on its way to e can be        *)
(* opened.  Before keys are installed everything passes as it is, an        *)
(* encrypted record as opaque application data.  Afterwards a record must   *)
(* be under the installed keys; change_cipher_spec, and an alert as long as *)
(* nothing has been decrypted, may be in the clear (msgs/deframer.rs).      *)
(***************************************************************************)
Head1(e) == Head(net[e])
SameSecret(k) == k[1] = "plain" \/ ep["client"].sec[k[1]] = ep["server"].sec[k[1]]
\* Mutant of InClear: a clear change_cipher_spec is decrypted like the rest.
InClearNoCcs(e, m) ==
    m.k = Plain /\ (ep[e].rk = Plain \/ (m.t \in {"Alert", "CloseNotify"} /\ ~ep[e].decrypted))
InClear(e, m) ==
    /\ m.k = Plain
    /\ \/ ep[e].rk = Plain
       \/ m.t = "CCS"
       \/ m.t \in {"Alert", "CloseNotify"} /\ ~ep[e].decrypted
Opens(e, m) == InClear(e, m) \/ (m.k = ep[e].rk /\ m.k # Plain /\ SameSecret(m.k))
Opaque(e, m) == ep[e].rk = Plain /\ m.k # Plain

\* e has the message t before it, and can read it.
Sees(e, st, t) ==
    /\ ep[e].st = st /\ net[e] # <<>>
    /\ Head1(e).t = t /\ Opens(e, Head1(e))

\* decrypt_incoming: has_decrypted is set, and the first handshake record
\* read ends trial decryption.
Read(e) ==
    LET m == Head1(e) IN
    [ep[e] EXCEPT !.decrypted = @ \/ m.k # Plain,
                  !.trial = IF m.k # Plain THEN 0 ELSE @]

\* Consume the message, put out in its place, leave e in state r.
Step(e, r, out) ==
    /\ ep' = [ep EXCEPT ![e] = r]
    /\ net' = [net EXCEPT ![e] = Tail(@), ![Peer(e)] = @ \o out]
    /\ UNCHANGED <<cfg, conn, faults>>

\* send_fatal_alert: in the clear or under whatever keys are installed.
AlertOf(r, desc) == Msg("Alert", r.wk, [desc |-> desc])
Fatal(e, r, desc) == Step(e, [r EXCEPT !.st = "Failed", !.err = desc], <<AlertOf(r, desc)>>)

(***************************************************************************)
(* Sending application data: buffered until may_send_application_data, and  *)
(* flushed by start_traffic.                                                *)
(***************************************************************************)
Data(r) == [i \in 1..Len(r.buf) |-> Msg("Data", r.wk, [n |-> r.buf[i]])]
StartOutgoing(r) == [r EXCEPT !.maySend = TRUE, !.buf = <<>>]

(***************************************************************************)
(* The client's first flight: start_handshake and                          *)
(* emit_client_hello_for_retry.                                             *)
(***************************************************************************)
Ccs == Msg("CCS", Plain, NoBody)

\* emit_fake_ccs: at most once per connection.
FakeCcs(r) == IF r.ccsSent THEN <<>> ELSE <<Ccs>>

\* tls13::prepare_resumption: early data goes with the first hello only.
OffersEarly(r, retry) == r.psk # NoTicket /\ cfg.cEarly /\ r.psk.early > 0 /\ ~retry

\* fill_in_psk_binder: the binder signs the transcript before the hello.
Binder(psk, tr) == IF psk = NoTicket THEN <<>> ELSE <<psk.secret, tr>>

\* The hello itself, as far as the server's decisions depend on it.
ClientHello(r, share, retry) ==
    Msg("CH", Plain, [share |-> share, psk |-> r.psk.id, early |-> OffersEarly(r, retry),
                      binder |-> Binder(r.psk, r.tr)])

\* derive_early_traffic_secret: from here on the client can send early data.
StartEarlyTraffic(r) ==
    [r EXCEPT !.early = "Ready", !.earlyTraffic = TRUE, !.wk = Early, !.ccsSent = TRUE,
              !.sec.early = EarlySecret(r.psk, r.tr),
              !.st = IF r.early # "Disabled" THEN "Panicked" ELSE @]    \* EarlyData::enable

EmitClientHello(r, share, retry) ==
    LET sent == [r EXCEPT !.group = share, !.tr = Append(@, Entry(ClientHello(r, share, retry))),
                          !.st = IF retry THEN "ExpectServerHello" ELSE "ExpectServerHelloOrRetry",
                          !.ccsSent = @ \/ retry]
    IN IF OffersEarly(r, retry) THEN StartEarlyTraffic(sent) ELSE sent

HelloFlight(r, share, retry) ==
    (IF retry THEN FakeCcs(r) ELSE <<>>)
    \o <<ClientHello(r, share, retry)>>
    \o (IF OffersEarly(r, retry) THEN FakeCcs(r) ELSE <<>>)

\* initial_key_share: the group the server liked last time, or our favourite.
InitialKeyShare == IF kxHint \in Elems(cfg.cGroups) THEN kxHint ELSE cfg.cGroups[1]

\* find_session: the newest ticket, unless it has expired.
FindSession(expired) == IF tickets = <<>> \/ expired THEN NoTicket ELSE Last(tickets)

\* The ticket leaves the store.  A client other than rustls may keep it and
\* offer it again (cfg.reuse).
StartHandshake ==
    /\ ep["client"].st = "Start"
    /\ \E expired \in BOOLEAN :
         LET r == [ep["client"] EXCEPT !.psk = FindSession(expired)] IN
         /\ expired => tickets # <<>>
         /\ ep' = [ep EXCEPT !["client"] = EmitClientHello(r, InitialKeyShare, FALSE)]
         /\ net' = [net EXCEPT !["server"] = @ \o HelloFlight(r, InitialKeyShare, FALSE)]
    /\ tickets' = IF tickets = <<>> \/ cfg.reuse THEN tickets ELSE Front(tickets)
    /\ UNCHANGED <<cfg, conn, faults, kxHint, sessions, nTickets, earlyTaken>>

\* WriteEarlyData::write: at most the ticket's max_early_data_size.
WriteEarly ==
    LET r == ep["client"] IN
    /\ r.early \in {"Ready", "Accepted"} /\ Live("client")
    /\ r.earlyWrote < r.psk.early
    /\ ep' = [ep EXCEPT !["client"].earlyWrote = @ + 1]
    /\ net' = [net EXCEPT !["server"] = Append(@, Msg("Data", r.wk, [n |-> 0]))]
    /\ UNCHANGED <<cfg, conn, faults, Stores>>

\* A retry request must change something and stay inside what we offered.
RetryIsLegal(r, b) ==
    /\ b.group # r.group /\ b.group \in Elems(cfg.cGroups)
    /\ b.suite \in Elems(cfg.cSuites)

\* handle_hello_retry_request: the transcript is rolled up, early data is off.
ClientRetry ==
    /\ Sees("client", "ExpectServerHelloOrRetry", "HRR")
    /\ LET m == Head1("client")
           r == Read("client")
           rolled == [r EXCEPT !.tr = << <<"MH", r.tr>>, Entry(m)>>,
                               !.suite = m.b.suite, !.retried = TRUE,
                               !.early = IF @ \in {"Ready", "Accepted"} THEN "Rejected" ELSE @]
       IN IF RetryIsLegal(r, m.b)
          THEN Step("client", EmitClientHello(rolled, m.b.group, TRUE),
                    HelloFlight(rolled, m.b.group, TRUE))
          ELSE Fatal("client", r, "IllegalParameter")
    /\ UNCHANGED Stores

\* ServerHello checks of ExpectServerHello::handle and handle_server_hello.
ServerHelloIsLegal(r, b) ==
    /\ b.suite \in Elems(cfg.cSuites)
    /\ r.suite \in {None, b.suite}
    /\ b.share = r.group
    /\ b.psk /\ r.psk # NoTicket /\ r.early \in {"Ready", "Accepted"} => b.suite = r.psk.suite

\* A server that did not choose our ticket has rejected the early data with it.
ClientServerHello ==
    /\ \E st \in {"ExpectServerHelloOrRetry", "ExpectServerHello"} : Sees("client", st, "SH")
    /\ LET m == Head1("client")
           r == Read("client")
           resumed == m.b.psk /\ r.psk # NoTicket
           tr == Append(r.tr, Entry(m))
           early == IF resumed THEN r.early ELSE "Rejected"
           next == [r EXCEPT
             !.st = "ExpectEncryptedExtensions", !.suite = m.b.suite, !.tr = tr,
             !.psk = IF resumed THEN @ ELSE NoTicket,
             !.early = early, !.earlyTraffic = @ /\ resumed,
             !.sec.hs = HandshakeSecret(IF resumed THEN r.psk ELSE NoTicket, r.group, tr),
             !.rk = Hs, !.wk = IF early \in {"Ready", "Accepted"} THEN @ ELSE Hs,
             !.ccsSent = TRUE]
       IN IF ServerHelloIsLegal(r, m.b)
          THEN Step("client", next, FakeCcs(r)) /\ kxHint' = m.b.share
          ELSE Fatal("client", r, "IllegalParameter") /\ UNCHANGED kxHint
    /\ UNCHANGED <<tickets, sessions, nTickets, earlyTaken>>

\* ExpectEncryptedExtensions: early data is accepted or rejected here when the
\* ticket was; rejecting it is the moment the handshake keys take over.
ClientEncryptedExtensions ==
    /\ Sees("client", "ExpectEncryptedExtensions", "EE")
    /\ LET m == Head1("client")
           r == [Read("client") EXCEPT !.tr = Append(@, Entry(m)), !.alpn = m.b.alpn]
           refused == r.earlyTraffic /\ ~m.b.early
           resumed == [r EXCEPT
             !.st = IF r.earlyTraffic /\ m.b.early /\ r.early # "Ready"
                    THEN "Panicked" ELSE "ExpectFinished",
             !.early = IF ~r.earlyTraffic THEN @ ELSE IF m.b.early THEN "Accepted" ELSE "Rejected",
             !.earlyTraffic = @ /\ m.b.early,
             !.wk = IF refused THEN Hs ELSE @,
             !.peerCert = r.psk.cert]
       IN CASE m.b.early /\ (r.early = "Disabled" \/ r.retried) ->
                 Fatal("client", r, "UnsupportedExtension")
            [] m.b.alpn # None /\ m.b.alpn \notin Elems(cfg.cAlpn) ->
                 Fatal("client", r, "IllegalParameter")
            [] r.psk # NoTicket -> Step("client", resumed, <<>>)
            [] r.psk = NoTicket /\ m.b.early ->
                 Step("client", [r EXCEPT !.st = "Failed", !.err = "Misbehaved"], <<>>)
            [] OTHER -> Step("client", [r EXCEPT !.st = "ExpectCertificateOrCertReq"], <<>>)
    /\ UNCHANGED Stores

\* ExpectCertificateOrCertReq and ExpectCertificateRequest.
ClientCertificateRequest ==
    /\ Sees("client", "ExpectCertificateOrCertReq", "CertReq")
    /\ LET r == Read("client") IN
       Step("client", [r EXCEPT !.st = "ExpectCertificate", !.tr = Append(@, Entry(Head1("client"))),
                                !.auth = IF cfg.clientCert = None THEN "Empty" ELSE "Verify"], <<>>)
    /\ UNCHANGED Stores

ClientCertificate ==
    /\ \E st \in {"ExpectCertificateOrCertReq", "ExpectCertificate"} : Sees("client", st, "Cert")
    /\ LET r == Read("client") IN
       Step("client", [r EXCEPT !.st = "ExpectCertificateVerify",
                                !.peerCert = Head1("client").b.cert,
                                !.tr = Append(@, Entry(Head1("client")))], <<>>)
    /\ UNCHANGED Stores

\* The chain is verified when the signature over the transcript arrives.
ClientCertificateVerify ==
    /\ Sees("client", "ExpectCertificateVerify", "CertVerify")
    /\ LET m == Head1("client")
           r == Read("client")
       IN IF r.peerCert = "good" /\ m.b.over = r.tr
          THEN Step("client", [r EXCEPT !.st = "ExpectFinished", !.tr = Append(@, Entry(m))], <<>>)
          ELSE Fatal("client", r, "BadCertificate")
    /\ UNCHANGED Stores

\* The messages of the client's last flight.
EmitEndOfEarlyData(r) == Msg("EOED", r.wk, NoBody)
EmitClientCertificate(r) ==
    Msg("Cert", Hs, [cert |-> IF r.auth = "Verify" THEN cfg.clientCert ELSE None])
EmitClientCertVerify(tr) == Msg("CertVerify", Hs, [over |-> tr])
EmitClientFinished(tr) == Msg("Fin", Hs, [over |-> tr])

\* EndOfEarlyData still under the early keys, then the answer to a
\* CertificateRequest and Finished under the handshake keys.
LastFlight(r, tr) ==
    LET eoed == IF r.earlyTraffic THEN <<EmitEndOfEarlyData(r)>> ELSE <<>>
        cert == IF r.auth = None THEN <<>> ELSE <<EmitClientCertificate(r)>>
        tr1  == tr \o Entries(eoed \o cert)
        cv   == IF r.auth = "Verify" THEN <<EmitClientCertVerify(tr1)>> ELSE <<>>
        tr2  == tr1 \o Entries(cv)
        fin  == EmitClientFinished(tr2)
    IN [out |-> eoed \o cert \o cv \o <<fin>>, tr |-> Append(tr2, Entry(fin))]

\* ExpectFinished: EarlyData::finished panics unless the data was accepted.
ClientFinished ==
    /\ Sees("client", "ExpectFinished", "Fin")
    /\ LET m == Head1("client")
           r == Read("client")
           tr == Append(r.tr, Entry(m))
           flight == LastFlight(r, tr)
           keyed == [r EXCEPT
             !.st = "ExpectTraffic", !.tr = flight.tr, !.earlyTraffic = FALSE,
             !.early = IF r.earlyTraffic THEN "AcceptedFinished" ELSE @,
             !.sec.app = TrafficSecret(tr), !.rk = App(0), !.wk = App(0)]
       IN CASE m.b.over # r.tr -> Fatal("client", r, "DecryptError")
            [] m.b.over = r.tr /\ r.earlyTraffic /\ r.early # "Accepted" ->
                 Step("client", [r EXCEPT !.st = "Panicked"], <<>>)
            [] OTHER -> Step("client", StartOutgoing(keyed), flight.out \o Data(keyed))
    /\ UNCHANGED Stores

\* handle_new_ticket_tls13: the secret comes from the finished transcript.
TicketSecret(r, id) == <<conn, id, Kinds(r.tr)>>
ClientNewTicket ==
    /\ Sees("client", "ExpectTraffic", "NST")
    /\ LET m == Head1("client")
           r == Read("client")
       IN /\ Step("client", r, <<>>)
          /\ tickets' = Append(tickets,
               [id |-> m.b.id, secret |-> TicketSecret(r, m.b.id), early |-> m.b.early,
                suite |-> r.suite, alpn |-> r.alpn, cert |-> r.peerCert])
    /\ UNCHANGED <<kxHint, sessions, nTickets, earlyTaken>>

(***************************************************************************)
(* The server: ExpectClientHello and CompleteClientHelloHandling.           *)
(***************************************************************************)
\* with_certified_key: the first suite, in whose order it is, both sides have.
ChosenSuite ==
    IF cfg.serverOrder THEN FirstOf(cfg.sSuites, Elems(cfg.cSuites))
    ELSE FirstOf(cfg.cSuites, Elems(cfg.sSuites))
\* handle_client_hello: our most preferred group among the offered shares.
ChosenGroup(h) == FirstOf(ServerGroups, {h.share})
RetryGroup == FirstOf(ServerGroups, Elems(cfg.cGroups))
\* process_common: our most preferred protocol among the client's.
ChosenAlpn == FirstOf(cfg.sAlpn, Elems(cfg.cAlpn))
AlpnFails == cfg.cAlpn # <<>> /\ cfg.sAlpn # <<>> /\ ChosenAlpn = None

\* Why a hello is refused before anything is sent, in the order of the checks.
HelloError(r, h) ==
    IF ChosenSuite = None \/ ~cfg.reality THEN "HandshakeFailure"
    ELSE IF r.retried /\ h.early THEN "IllegalParameter"
    ELSE IF ChosenGroup(h) # None THEN None
    ELSE IF RetryGroup = None THEN "HandshakeFailure"
    ELSE IF r.retried THEN "IllegalParameter" ELSE None

\* attempt_tls13_ticket_decryption and can_resume.
Found(h) == {s \in sessions : s.id = h.psk}
Resumable(h) == {s \in Found(h) : s.suite = ChosenSuite}
Resumed(h) == IF Resumable(h) = {} THEN NoTicket ELSE CHOOSE s \in Resumable(h) : TRUE
\* check_binder.
BinderFails(r, h) == \E s \in Resumable(h) : h.binder # <<s.secret, r.tr>>
\* The storage gives a session out once; a ticketer any number of times.
SessionsAfter(h) == IF cfg.stateless THEN sessions ELSE sessions \ Found(h)

SeesHello == \E st \in {"ExpectClientHello", "SkipEarlyData"} : Sees("server", st, "CH")

ServerRefuse ==
    /\ SeesHello
    /\ LET r == Read("server")
           h == Head1("server").b
           why == HelloError(r, h)
       IN /\ why # None
          /\ Fatal("server", r, why)
    /\ UNCHANGED Stores

\* max_early_data_size: what a server that rejects early data will skip.
SkipLimit == IF ServerEarly > 0 THEN ServerEarly ELSE 16384

\* emit_hello_retry_request.  The first hello's early data will be skipped.
ServerRetry ==
    /\ SeesHello
    /\ LET r == Read("server")
           m == Head1("server")
           hrr == Msg("HRR", Plain, [group |-> RetryGroup, suite |-> ChosenSuite])
           next == [r EXCEPT
             !.st = IF m.b.early THEN "SkipEarlyData" ELSE "ExpectClientHello",
             !.skip = SkipLimit, !.retried = TRUE, !.suite = ChosenSuite,
             !.tr = << <<"MH", Append(r.tr, Entry(m))>>, Entry(hrr)>>]
       IN /\ HelloError(r, m.b) = None /\ ChosenGroup(m.b) = None
          /\ Step("server", next, <<hrr, Ccs>>)
    /\ UNCHANGED Stores

\* decide_if_early_data_allowed, for the resumed session s.
EarlyAllowed(r, h, s, fresh) ==
    /\ h.early /\ ServerEarly > 0 /\ ~cfg.stateless
    /\ fresh /\ s.alpn = r.alpn /\ r.early # "Rejected"

\* The messages of the server's flight.
EmitServerHello(h, psk) ==
    Msg("SH", Plain, [share |-> h.share, suite |-> ChosenSuite, psk |-> psk # NoTicket])
EmitEncryptedExtensions(r, early) == Msg("EE", Hs, [alpn |-> r.alpn, early |-> early])
EmitCertificateReq == IF cfg.auth = "none" THEN <<>> ELSE <<Msg("CertReq", Hs, NoBody)>>
EmitCertificate == Msg("Cert", Hs, [cert |-> cfg.serverCert])
EmitCertificateVerify(tr) == Msg("CertVerify", Hs, [over |-> tr])
EmitFinished(tr) == Msg("Fin", Hs, [over |-> tr])

\* From ServerHello to Finished in one flight.  r already has its ALPN, its
\* session (NoTicket: a full handshake) and the transcript up to the hello.
ServerFlight(r, h, early) ==
    LET sh   == EmitServerHello(h, r.psk)
        ee   == EmitEncryptedExtensions(r, early)
        full == r.psk = NoTicket
        cert == IF full THEN EmitCertificateReq \o <<EmitCertificate>> ELSE <<>>
        tr1  == r.tr \o Entries(<<sh, ee>> \o cert)
        cv   == IF full THEN <<EmitCertificateVerify(tr1)>> ELSE <<>>
        tr2  == tr1 \o Entries(cv)
        fin  == EmitFinished(tr2)
    IN [out |-> <<sh>> \o (IF r.retried THEN <<>> ELSE <<Ccs>>) \o <<ee>> \o cert \o cv \o <<fin>>,
        hs |-> Append(r.tr, Entry(sh)), tr |-> Append(tr2, Entry(fin))]

\* The rest of handle_client_hello: the session is looked up, the keys of each
\* stage are installed and the state that waits for the client is chosen.
ServerAccept ==
    /\ SeesHello
    /\ \E fresh \in BOOLEAN :
       LET m == Head1("server")
           h == m.b
           r0 == Read("server")
           s == Resumed(h)
           r == [r0 EXCEPT !.tr = Append(@, Entry(m)), !.suite = ChosenSuite, !.group = h.share,
                           !.psk = s, !.peerCert = s.cert, !.alpn = ChosenAlpn]
           early == s # NoTicket /\ EarlyAllowed(r, h, s, fresh)
           flight == ServerFlight(r, h, early)
           auth == s = NoTicket /\ cfg.auth # "none"
           half == ~auth /\ cfg.halfRtt
           next == [r EXCEPT
             !.st = IF auth THEN "ExpectCertificate"
                    ELSE IF early THEN "ExpectEarlyData" ELSE "ExpectFinished",
             !.early = IF early THEN "Accepted" ELSE "Rejected",
             !.sec = [early |-> IF s = NoTicket THEN <<>> ELSE EarlySecret(s, r.tr),
                      hs |-> HandshakeSecret(s, h.share, flight.hs),
                      app |-> TrafficSecret(flight.tr)],
             !.rk = IF early THEN Early ELSE Hs,
             !.trial = IF h.early /\ ~early THEN SkipLimit ELSE 0,
             !.wk = App(0), !.tr = flight.tr]
       IN /\ fresh \/ h.early
          /\ HelloError(r0, h) = None /\ ChosenGroup(h) # None
          /\ ~BinderFails(r0, h) /\ ~AlpnFails
          /\ Step("server", IF half THEN StartOutgoing(next) ELSE next,
                  flight.out \o (IF half THEN Data(next) ELSE <<>>))
          /\ sessions' = SessionsAfter(h)
          /\ earlyTaken' = IF early THEN Append(earlyTaken, s.id) ELSE earlyTaken
    /\ UNCHANGED <<tickets, kxHint, nTickets>>

\* A binder that does not verify, or protocols with nothing in common: the
\* latter is found after ServerHello is out and its keys are installed.
ServerRefuseLate ==
    /\ SeesHello
    /\ LET r == Read("server")
           m == Head1("server")
           sh == EmitServerHello(m.b, Resumed(m.b))
           hs == [r EXCEPT !.st = "Failed", !.err = "NoApplicationProtocol", !.wk = Hs,
                           !.sec.hs = HandshakeSecret(Resumed(m.b), m.b.share,
                                                      r.tr \o Entries(<<m, sh>>))]
       IN /\ HelloError(r, m.b) = None /\ ChosenGroup(m.b) # None
          /\ IF BinderFails(r, m.b) THEN Fatal("server", r, "DecryptError")
             ELSE AlpnFails /\ Step("server", hs,
                    <<sh>> \o (IF r.retried THEN <<>> ELSE <<Ccs>>) \o <<AlertOf(hs, hs.err)>>)
          /\ sessions' = SessionsAfter(m.b)
    /\ UNCHANGED <<tickets, kxHint, nTickets, earlyTaken>>

\* ExpectAndSkipRejectedEarlyData: opaque records are skipped, up to a limit
\* counted here in records (max_early_data_size is documented to need slop for
\* the expansion of each record).
ServerSkip ==
    /\ ep["server"].st = "SkipEarlyData" /\ net["server"] # <<>>
    /\ Opaque("server", Head1("server")) /\ ep["server"].skip > 0
    /\ Step("server", [ep["server"] EXCEPT !.skip = @ - 1], <<>>)
    /\ UNCHANGED Stores

\* ExpectCertificate: no certificate will do unless one is mandatory.
ServerCertificate ==
    /\ Sees("server", "ExpectCertificate", "Cert")
    /\ LET m == Head1("server")
           r == [Read("server") EXCEPT !.tr = Append(@, Entry(m))]
       IN CASE m.b.cert = None /\ cfg.auth = "mandatory" -> Fatal("server", r, "CertificateRequired")
            [] m.b.cert = None /\ cfg.auth # "mandatory" ->
                 Step("server", [r EXCEPT !.st = "ExpectFinished"], <<>>)
            [] m.b.cert = "bad" -> Fatal("server", r, "BadCertificate")
            [] OTHER -> Step("server", [r EXCEPT !.st = "ExpectCertificateVerify", !.auth = m.b.cert], <<>>)
    /\ UNCHANGED Stores

ServerCertificateVerify ==
    /\ Sees("server", "ExpectCertificateVerify", "CertVerify")
    /\ LET m == Head1("server")
           r == Read("server")
       IN IF m.b.over = r.tr
          THEN Step("server", [r EXCEPT !.st = "ExpectFinished", !.peerCert = r.auth,
                                        !.tr = Append(@, Entry(m))], <<>>)
          ELSE Fatal("server", r, "DecryptError")
    /\ UNCHANGED Stores

\* ExpectEarlyData: data up to what the configuration accepts, then the end of
\* it, which is where the handshake keys take over.
ServerEarlyData ==
    /\ Sees("server", "ExpectEarlyData", "Data")
    /\ LET r == Read("server") IN
       IF r.earlyGot < ServerEarly
       THEN Step("server", [r EXCEPT !.earlyGot = @ + 1], <<>>)
       ELSE Fatal("server", r, "UnexpectedMessage")
    /\ UNCHANGED Stores

ServerEndOfEarlyData ==
    /\ Sees("server", "ExpectEarlyData", "EOED")
    /\ LET r == Read("server") IN
       Step("server", [r EXCEPT !.st = "ExpectFinished", !.rk = Hs,
                                !.tr = Append(@, Entry(Head1("server")))], <<>>)
    /\ UNCHANGED Stores

\* get_server_session_value, and emit_ticket for each ticket to be sent; only
\* tickets of a stateful server carry early data.
Issued(r) ==
    [i \in 1..cfg.tickets |->
        [id |-> nTickets + i, secret |-> TicketSecret(r, nTickets + i),
         early |-> IF cfg.stateless THEN 0 ELSE ServerEarly,
         suite |-> r.suite, alpn |-> r.alpn, cert |-> r.peerCert]]

\* ExpectFinished: the application read keys are installed before the check.
ServerFinished ==
    /\ Sees("server", "ExpectFinished", "Fin")
    /\ LET m == Head1("server")
           r == [Read("server") EXCEPT !.rk = App(0)]
           done == [r EXCEPT !.st = "ExpectTraffic", !.tr = Append(@, Entry(m))]
           new == Issued(done)
           nst == [i \in 1..Len(new) |-> Msg("NST", r.wk, [id |-> new[i].id, early |-> new[i].early])]
       IN IF m.b.over = r.tr
          THEN /\ Step("server", StartOutgoing(done), nst \o Data(done))
               /\ sessions' = sessions \union Elems(new)
               /\ nTickets' = nTickets + Len(new)
          ELSE Fatal("server", r, "DecryptError") /\ UNCHANGED <<sessions, nTickets>>
    /\ UNCHANGED <<tickets, kxHint, earlyTaken>>

(***************************************************************************)
(* What either end does with a record, whatever its state.                  *)
(***************************************************************************)
MaxDroppedCcs == 2      \* TLS13_MAX_DROPPED_CCS

\* process_msg: a change_cipher_spec of the handshake is dropped.
DropsCcs(e) == Head1(e).t = "CCS" /\ ~Traffic(e) /\ ep[e].suite # None
DropCcs(e) ==
    /\ Live(e) /\ net[e] # <<>> /\ Opens(e, Head1(e)) /\ DropsCcs(e)
    /\ IF ep[e].ccsGot > MaxDroppedCcs THEN Fatal(e, ep[e], "UnexpectedMessage")
       ELSE Step(e, [ep[e] EXCEPT !.ccsGot = @ + 1], <<>>)
    /\ UNCHANGED Stores

\* doing_trial_decryption, and the bad_record_mac it excuses.
Undecryptable(e) ==
    /\ Live(e) /\ net[e] # <<>>
    /\ ~Opens(e, Head1(e)) /\ ~Opaque(e, Head1(e))
    /\ IF ep[e].trial > 0
       THEN Step(e, [ep[e] EXCEPT !.trial = @ - 1], <<>>)
       ELSE Fatal(e, ep[e], "BadRecordMac")
    /\ UNCHANGED Stores

\* process_alert.
ReceiveAlert(e) ==
    /\ Live(e) /\ net[e] # <<>> /\ Head1(e).t = "Alert" /\ Opens(e, Head1(e))
    /\ Step(e, [Read(e) EXCEPT !.st = "Failed", !.err = "AlertReceived"], <<>>)
    /\ UNCHANGED Stores
ReceiveClose(e) ==
    /\ Live(e) /\ net[e] # <<>> /\ Head1(e).t = "CloseNotify" /\ Opens(e, Head1(e))
    /\ Step(e, [Read(e) EXCEPT !.closing = TRUE], <<>>)
    /\ UNCHANGED Stores

\* What each State object takes.
Expects(e) ==
    CASE ep[e].st = "ExpectServerHelloOrRetry" -> {"SH", "HRR"}
      [] ep[e].st = "ExpectServerHello" -> {"SH"}
      [] ep[e].st = "ExpectEncryptedExtensions" -> {"EE"}
      [] ep[e].st = "ExpectCertificateOrCertReq" -> {"Cert", "CertReq"}
      [] ep[e].st = "ExpectCertificate" -> {"Cert"}
      [] ep[e].st = "ExpectCertificateVerify" -> {"CertVerify"}
      [] ep[e].st = "ExpectFinished" -> {"Fin"}
      [] ep[e].st \in {"ExpectClientHello", "SkipEarlyData"} -> {"CH"}
      [] ep[e].st = "ExpectEarlyData" -> {"Data", "EOED"}
      [] ep[e].st = "ExpectTraffic" -> IF e = "client" THEN {"Data", "NST", "KU"} ELSE {"Data", "KU"}
      [] OTHER -> {}

\* process_main_protocol: anything else is an inappropriate message.
Unexpected(e) ==
    /\ Live(e) /\ net[e] # <<>>
    /\ LET m == Head1(e) IN
       \/ /\ Opens(e, m) /\ ~DropsCcs(e)
          /\ m.t \notin Expects(e) \union {"Alert", "CloseNotify"}
       \/ Opaque(e, m) /\ ~(ep[e].st = "SkipEarlyData" /\ ep[e].skip > 0)
    /\ Fatal(e, ep[e], "UnexpectedMessage")
    /\ UNCHANGED Stores

ReceiveData(e) ==
    /\ Sees(e, "ExpectTraffic", "Data")
    /\ Step(e, [Read(e) EXCEPT !.got = Append(@, Head1(e).b.n)], <<>>)
    /\ UNCHANGED Stores

\* handle_key_update: a requested update is prepared at once under the old key
\* (update_encrypter_and_notify), but queued until the next write.
ReceiveKeyUpdate(e) ==
    /\ Sees(e, "ExpectTraffic", "KU")
    /\ LET r == Read(e)
           update == Head1(e).b.request /\ ~r.ku
       IN Step(e, [r EXCEPT !.ku = @ \/ update, !.wk = IF update THEN NextKey(@) ELSE @,
                            !.rk = NextKey(@)], <<>>)
    /\ UNCHANGED Stores

\* perhaps_write_key_update.
QueuedUpdate(r) ==
    IF r.ku THEN <<Msg("KU", App(r.wk[2] - 1), [request |-> FALSE])>> ELSE <<>>

\* send_some_plaintext.
Write(e) ==
    LET r == [ep[e] EXCEPT !.wrote = @ + 1] IN
    /\ Live(e) /\ ep[e].wrote < MaxWrites /\ ~ep[e].closing
    /\ IF r.maySend
       THEN /\ ep' = [ep EXCEPT ![e] = [r EXCEPT !.ku = FALSE]]
            /\ net' = [net EXCEPT ![Peer(e)] =
                        @ \o QueuedUpdate(r) \o <<Msg("Data", r.wk, [n |-> r.wrote])>>]
       ELSE /\ ep' = [ep EXCEPT ![e] = [r EXCEPT !.buf = Append(@, r.wrote)]]
            /\ UNCHANGED net
    /\ UNCHANGED <<cfg, conn, faults, Stores>>

\* send_close_notify: the alert goes out under the current key, and a queued
\* key update stays where it is.
Close(e) ==
    /\ Traffic(e)
    /\ ep' = [ep EXCEPT ![e].st = "Closed"]
    /\ net' = [net EXCEPT ![Peer(e)] = Append(@, Msg("CloseNotify", ep[e].wk, NoBody))]
    /\ UNCHANGED <<cfg, conn, faults, Stores>>

\* Mutant of Eof: the error is reported and cleared, and the end reads on.
EofRetried(e) ==
    /\ Live(e) /\ net[e] = <<>> /\ Ended(Peer(e))
    /\ ep' = [ep EXCEPT ![e].err = IF @ = None THEN "UnexpectedEof" ELSE None]
    /\ UNCHANGED <<cfg, conn, net, faults, Stores>>
\* The peer is gone and everything it sent is read.
Eof(e) ==
    /\ Live(e) /\ net[e] = <<>> /\ Ended(Peer(e))
    /\ ep' = [ep EXCEPT ![e].st = "Closed",
                        ![e].err = IF ep[e].closing THEN None ELSE "UnexpectedEof"]
    /\ UNCHANGED <<cfg, conn, net, faults, Stores>>

(***************************************************************************)
(* The world: a peer that asks for a key update (rustls itself never does), *)
(* a session store that forgets, and a bounded number of faults: an end     *)
(* that dies, a clear-text message rewritten or repeated on the way, and a  *)
(* message that has no place in the handshake.                              *)
(***************************************************************************)
RequestKeyUpdate(e) ==
    /\ Traffic(e) /\ ep[e].wk[2] < cfg.maxEpoch /\ ~ep[e].ku
    /\ ep' = [ep EXCEPT ![e].wk = NextKey(@)]
    /\ net' = [net EXCEPT ![Peer(e)] = Append(@, Msg("KU", ep[e].wk, [request |-> TRUE]))]
    /\ UNCHANGED <<cfg, conn, faults, Stores>>

\* Only a lookup can tell when a session was evicted.
Evict ==
    /\ ~cfg.stateless /\ ep["client"].st = "Start"
    /\ \E s \in sessions : sessions' = sessions \ {s}
    /\ UNCHANGED <<cfg, conn, ep, net, tickets, kxHint, nTickets, earlyTaken, faults>>

Fault == faults < cfg.maxFaults /\ faults' = faults + 1

Abort(e) ==
    /\ Fault /\ Live(e)
    /\ ep' = [ep EXCEPT ![e].st = "Closed", ![e].err = "Aborted"]
    /\ UNCHANGED <<cfg, conn, net, Stores>>

Rewritten(m) ==
    CASE m.t = "SH" -> {[m EXCEPT !.b = [share |-> g, suite |-> s, psk |-> p]] :
                          g \in Elems(cfg.cGroups), s \in Elems(cfg.cSuites), p \in BOOLEAN}
      [] m.t = "HRR" -> {[m EXCEPT !.b.group = g] : g \in Elems(cfg.cGroups)}
      [] m.t = "CH" -> {[m EXCEPT !.b.share = g, !.b.early = x] :
                          g \in Elems(cfg.cGroups), x \in BOOLEAN}
      [] OTHER -> {}
Rewrite(e) ==
    /\ Fault /\ Live(e) /\ net[e] # <<>>
    /\ \E m \in Rewritten(Head1(e)) \ {Head1(e)} :
         net' = [net EXCEPT ![e] = <<m>> \o Tail(@)]
    /\ UNCHANGED <<cfg, conn, ep, Stores>>
Repeat(e) ==
    /\ Fault /\ Live(e) /\ net[e] # <<>> /\ Head1(e).k = Plain
    /\ net' = [net EXCEPT ![e] = <<Head(@)>> \o @]
    /\ UNCHANGED <<cfg, conn, ep, Stores>>
Stray(e) ==
    /\ Fault /\ Live(e)
    /\ net' = [net EXCEPT ![Peer(e)] = Append(@, Msg("Stray", ep[e].wk, NoBody))]
    /\ UNCHANGED <<cfg, conn, ep, Stores>>

NextConn ==
    /\ conn < cfg.maxConns /\ \A e \in Ends : Ended(e)
    /\ conn' = conn + 1
    /\ ep' = [client |-> Fresh("Start"), server |-> Fresh("ExpectClientHello")]
    /\ net' = [e \in Ends |-> <<>>]
    /\ UNCHANGED <<cfg, faults, Stores>>

Finished == conn = cfg.maxConns /\ (\A e \in Ends : Ended(e)) /\ UNCHANGED vars

ClientHandle ==
    \/ ClientRetry \/ ClientServerHello \/ ClientEncryptedExtensions \/ ClientCertificateRequest
    \/ ClientCertificate \/ ClientCertificateVerify \/ ClientFinished \/ ClientNewTicket
ServerHandle ==
    \/ ServerRefuse \/ ServerRetry \/ ServerAccept \/ ServerRefuseLate \/ ServerSkip
    \/ ServerCertificate \/ ServerCertificateVerify \/ ServerEarlyData
    \/ ServerEndOfEarlyData \/ ServerFinished
\* process_new_packets: some record is taken off the deframer and handled.
Process(e) ==
    \/ e = "client" /\ ClientHandle
    \/ e = "server" /\ ServerHandle
    \/ DropCcs(e) \/ Undecryptable(e) \/ ReceiveAlert(e) \/ ReceiveClose(e)
    \/ Unexpected(e) \/ ReceiveData(e) \/ ReceiveKeyUpdate(e)

Next ==
    \/ StartHandshake \/ WriteEarly \/ Evict \/ NextConn \/ Finished
    \/ \E e \in Ends :
         \/ Process(e) \/ Write(e) \/ Close(e) \/ Eof(e)
         \/ RequestKeyUpdate(e) \/ Abort(e) \/ Rewrite(e) \/ Repeat(e) \/ Stray(e)

\* The I/O loops keep feeding their end what has arrived or the end of the
\* stream, and a client that is created starts its handshake.  That some such
\* step is taken while one is possible is all that is assumed: CanProgress is
\* where Progress is enabled, and Fairness is its weak fairness spelled out.
Progress == StartHandshake \/ \E e \in Ends : Process(e) \/ Eof(e)
CanProgress ==
    \/ ep["client"].st = "Start"
    \/ \E e \in Ends : Live(e) /\ (net[e] # <<>> \/ Ended(Peer(e)))
Fairness == []<>(~CanProgress) \/ []<><<Progress>>_vars

Spec == Init /\ [][Next]_vars /\ Fairness

-----------------------------------------------------------------------------
(***************************************************************************)
(* Properties.                                                              *)
(***************************************************************************)
Keys == {Plain, Early, Hs} \union {App(n) : n \in 0..(2 * cfg.maxEpoch)}
EarlyStates == {"Disabled", "Ready", "Accepted", "AcceptedFinished", "Rejected"}

\* The record layer's keys, the early data states and the bounded counters of
\* both ends stay within what CommonState can hold.
TypeOK ==
    /\ conn \in 1..cfg.maxConns /\ faults \in 0..cfg.maxFaults
    /\ \A e \in Ends :
         /\ ep[e].rk \in Keys /\ ep[e].wk \in Keys
         /\ ep[e].early \in EarlyStates
         /\ ep[e].ccsGot \in 0..(MaxDroppedCcs + 1) /\ ep[e].wrote \in 0..MaxWrites
         /\ \A i \in 1..Len(net[e]) : net[e][i].k \in Keys
    /\ \A s \in sessions : s.id \in 1..nTickets

\* An end that has finished its handshake has negotiated what the other has:
\* suite, group, protocol and resumed session, and both derived every traffic
\* secret from the same transcript, whatever was rewritten on the way.
Agreement ==
    (\E e \in Ends : Traffic(e)) =>
        LET c == ep["client"]
            s == ep["server"]
        IN /\ c.suite = s.suite /\ c.group = s.group /\ c.alpn = s.alpn
           /\ c.psk.id = s.psk.id
           /\ c.sec.hs = s.sec.hs /\ c.sec.app = s.sec.app

\* Application data leaves a server that demands a client certificate only for
\* a client whose certificate was verified, now or in the resumed session, and
\* a client only talks to a server whose certificate was.  (half-RTT data and
\* resumption both skip the certificate states.)
Authenticated ==
    /\ ep["server"].maySend /\ cfg.auth = "mandatory" => ep["server"].peerCert = "good"
    /\ ep["client"].maySend => ep["client"].peerCert = "good"

\* Early data is accepted at most once for a ticket: the storage gives a
\* session out once, and a ticketer's tickets never carry early data.
EarlyDataOnce ==
    \A i, j \in 1..Len(earlyTaken) : earlyTaken[i] = earlyTaken[j] => i = j

\* Both ends agree on the fate of the early data when the handshake is over:
\* all of it was read, or none was and the client knows that it was rejected.
EarlyDataAgreed ==
    Traffic("server") =>
        LET c == ep["client"]
            s == ep["server"]
        IN IF s.early = "Accepted"
           THEN c.early = "AcceptedFinished" /\ s.earlyGot = c.earlyWrote
           ELSE c.early \in {"Disabled", "Rejected"} /\ s.earlyGot = 0

\* What an end reads is what the other wrote, in order and without a gap, over
\* buffered writes, half-RTT data and key updates.
DataInOrder ==
    \A e \in Ends : /\ ep[e].got = [i \in 1..Len(ep[e].got) |-> i]
                    /\ Len(ep[e].got) <= ep[Peer(e)].wrote

\* None of the assertions on the client's early data state fires.
NoPanic == \A e \in Ends : ep[e].st # "Panicked"

\* Two ends whose configurations have something in common.
Compatible ==
    /\ ChosenSuite # None /\ RetryGroup # None /\ ~AlpnFails /\ cfg.reality
    /\ cfg.serverCert = "good"
    /\ cfg.auth = "mandatory" => cfg.clientCert = "good"
    /\ cfg.auth # "none" => cfg.clientCert # "bad"

\* Without faults compatible ends never fail: retries, rejected early data in
\* all its ways (skipped after a retry, trial decryption), resumption binders
\* and key changes are all in step.  The exception is an end that closes with a
\* key update still queued: its close_notify goes out before the update and under the
\* new key, so that the peer cannot read it.
CompatibleEndsConnect ==
    Compatible /\ faults = 0 =>
        \A e \in Ends : ep[e].st = "Failed" => \E d \in Ends : ep[d].ku

\* Every handshake ends, in traffic or with an error: no end stays in the middle of one,
\* waiting for a message that the other does not mean to send.
HandshakeOver == \A e \in Ends : Traffic(e) \/ Ended(e)
HandshakeEnds == []<>HandshakeOver
=============================================================================
