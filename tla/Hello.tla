-------------------------------- MODULE Hello ---------------------------------
(***************************************************************************)
(* The ClientHello at the door of the Reality server (transport/reality.rs  *)
(* accept).  accept reads TLS records until it holds one ClientHello, takes *)
(* it apart with a parser of its own, authenticates the client by what it   *)
(* found, and hands the bytes it has read, with the rest of the stream,     *)
(* either to rustls, which parses the same bytes again (msgs/handshake.rs), *)
(* or to the fallback destination.  dispatcher/sniffer.rs is a third parser *)
(* of the same message, for streams that are not TLS to us.                 *)
(*                                                                         *)
(* A byte string is a sequence of cells.  A type, a length and a byte of    *)
(* contents are a cell each, so that every length field of the wire format  *)
(* can disagree with what follows it.  Version, random and compression      *)
(* methods, which all parsers skip alike, are left out.                     *)
(***************************************************************************)
EXTENDS Integers, SequencesExt

CONSTANTS
    Hellos,         \* the messages clients mean to send
    ServerNames,    \* server_names of the profile, nonempty
    ShortIds,       \* short_ids of the profile
    Values,         \* what a damaged cell may become
    SidLen,         \* 32: the length of a sealed session id
    KeyLen,         \* 32: the length of an X25519 key
    MaxRecords,     \* 8: records accept reads for one ClientHello
    MaxHello,       \* MAX_CLIENT_HELLO
    PeekSize        \* what the sniffer sees of a stream

Handshake == 22
ClientHello == 1
ServerName == 0
KeyShare == 1
HostName == 0
X25519 == 0
NotUtf8 == 9        \* a cell that is no text
None == <<-1>>

VARIABLES
    hello,      \* the message the client meant
    damaged,    \* whether a cell was changed, or something was put behind the message
    cuts,       \* the number of records it came in
    wire,       \* what the client sends
    pos,        \* how much of it accept and its successor have read
    buffer,     \* what accept has read
    payload,    \* the contents of the records read
    records,
    pc,         \* "header", "body", "tls", "fallback" or "failed"
    out         \* what rustls or the fallback destination has been given

vars == <<hello, damaged, cuts, wire, pos, buffer, payload, records, pc, out>>

(***************************************************************************)
(* The encoder (msgs/handshake.rs, msgs/codec.rs).                          *)
(***************************************************************************)
\* LengthPrefixedBuffer.
Vec(b) == <<Len(b)>> \o b
\* A ServerName or a KeyShareEntry.
EncodeItem(x) == <<x.kind>> \o Vec(x.body)
\* ClientExtension::encode: a list of items, or an extension with other contents.
EncodeExt(e) ==
    <<e.type>> \o Vec(IF e.type \in {ServerName, KeyShare}
                      THEN Vec(FlattenSeq([i \in DOMAIN e.list |-> EncodeItem(e.list[i])]))
                      ELSE e.list)
\* ClientHelloPayload::encode behind the type and length of a handshake message.
EncodeHello(h) ==
    <<ClientHello>> \o Vec(Vec(h.sid) \o Vec(h.suites)
                           \o Vec(FlattenSeq([i \in DOMAIN h.exts |-> EncodeExt(h.exts[i])])))

(***************************************************************************)
(* A length-prefixed string at the head of s, and what is behind it.        *)
(***************************************************************************)
HasVec(s) == Len(s) >= 1 /\ Len(s) >= 1 + s[1]
Body(s) == SubSeq(s, 2, 1 + s[1])
Behind(s) == SubSeq(s, 2 + s[1], Len(s))
Drop(s, n) == SubSeq(s, n + 1, Len(s))
Rest(s) == Drop(s, 1)
Text(s) == \A i \in DOMAIN s : s[i] # NotUtf8

(***************************************************************************)
(* parse_client_hello (transport/reality.rs): it goes as far as it can and  *)
(* keeps what it found.  It does not look at the length of the message.     *)
(***************************************************************************)
RECURSIVE HostIn(_)
\* The first host name of a list, unless it is no text.
HostIn(list) ==
    IF Len(list) < 2 \/ ~HasVec(Rest(list)) THEN None
    ELSE IF list[1] = HostName THEN IF Text(Body(Rest(list))) THEN Body(Rest(list)) ELSE None
    ELSE HostIn(Behind(Rest(list)))

RECURSIVE KeyAnyGroup(_)
\* Mutant of KeyIn: the first share of the right length, of whatever group.
KeyAnyGroup(list) ==
    IF Len(list) < 2 \/ ~HasVec(Rest(list)) THEN None
    ELSE IF list[2] = KeyLen THEN Body(Rest(list))
    ELSE KeyAnyGroup(Behind(Rest(list)))
RECURSIVE KeyInList(_)
KeyInList(list) ==
    IF Len(list) < 2 \/ ~HasVec(Rest(list)) THEN None
    ELSE IF list[1] = X25519 /\ list[2] = KeyLen THEN Body(Rest(list))
    ELSE KeyInList(Behind(Rest(list)))
\* The first X25519 share of the right length.
KeyIn(list) == KeyInList(list)

RECURSIVE Scan(_, _)
\* The extensions, until one does not fit or both are found.
Scan(exts, found) ==
    IF Len(exts) < 2 \/ ~HasVec(Rest(exts)) \/ (found.key # None /\ found.name # None) THEN found
    ELSE LET data == Body(Rest(exts))
             host == IF exts[1] = ServerName /\ HasVec(data) THEN HostIn(Body(data)) ELSE None
             key == IF exts[1] = KeyShare /\ HasVec(data) THEN KeyIn(Body(data)) ELSE None
         IN Scan(Behind(Rest(exts)),
                 [found EXCEPT !.name = IF host # None THEN host ELSE @,
                               !.key = IF key # None THEN key ELSE @])

NoInfo == [ok |-> FALSE, sid |-> <<>>, offset |-> 0, key |-> None, name |-> None]
parse_client_hello(p) ==
    IF Len(p) < 2 \/ p[1] # ClientHello \/ ~HasVec(Drop(p, 2)) THEN NoInfo
    ELSE LET afterSid == Behind(Drop(p, 2))
             info == [ok |-> TRUE, sid |-> Body(Drop(p, 2)), offset |-> 3, key |-> None, name |-> None]
         IN IF ~HasVec(afterSid) THEN NoInfo
            ELSE LET rest == Behind(afterSid)
                 IN IF rest = <<>> THEN info
                    ELSE IF ~HasVec(rest) THEN NoInfo
                    ELSE Scan(Body(rest), info)

(***************************************************************************)
(* The decoder of rustls: everything must fit exactly.                      *)
(***************************************************************************)
Bad == [ok |-> FALSE, items |-> <<>>]
RECURSIVE ReadItems(_)
\* A list of KeyShareEntry: Vec::read until nothing is left.
ReadItems(list) ==
    IF list = <<>> THEN [ok |-> TRUE, items |-> <<>>]
    ELSE IF ~HasVec(Rest(list)) THEN Bad
    ELSE LET rest == ReadItems(Behind(Rest(list)))
         IN [rest EXCEPT !.items = <<[kind |-> list[1], body |-> Body(Rest(list))]>> \o @]

RECURSIVE ReadNames(_)
\* A list of ServerName: an unknown type takes all that is left as its contents, and a
\* host name has to be one.
ReadNames(list) ==
    IF list = <<>> THEN [ok |-> TRUE, items |-> <<>>]
    ELSE IF list[1] # HostName THEN [ok |-> TRUE, items |-> <<[kind |-> list[1], body |-> Rest(list)]>>]
    ELSE IF ~HasVec(Rest(list)) \/ Body(Rest(list)) = <<>> \/ ~Text(Body(Rest(list))) THEN Bad
    ELSE LET rest == ReadNames(Behind(Rest(list)))
         IN [rest EXCEPT !.items = <<[kind |-> HostName, body |-> Body(Rest(list))]>> \o @]

\* ClientExtension::read on the contents of an extension.
ReadExt(type, data) ==
    LET list == IF type = ServerName THEN ReadNames(Body(data)) ELSE ReadItems(Body(data))
    IN IF type \notin {ServerName, KeyShare} THEN [ok |-> TRUE, items |-> data]
       ELSE IF ~HasVec(data) \/ Behind(data) # <<>> \/ ~list.ok THEN Bad
       ELSE list

RECURSIVE ReadExts(_)
ReadExts(exts) ==
    IF exts = <<>> THEN [ok |-> TRUE, items |-> <<>>]
    ELSE IF ~HasVec(Rest(exts)) \/ ~ReadExt(exts[1], Body(Rest(exts))).ok THEN Bad
    ELSE LET rest == ReadExts(Behind(Rest(exts)))
         IN [rest EXCEPT !.items =
               <<[type |-> exts[1], list |-> ReadExt(exts[1], Body(Rest(exts))).items]>> \o @]

\* process_client_hello and the key share checks: no extension, name type or group
\* twice, a host name if there is a list of names.
Once(s, field) == \A i, j \in DOMAIN s : s[i][field] = s[j][field] => i = j
FirstOf(items, kind) ==
    LET these == SelectSeq(items, LAMBDA x : x.kind = kind)
    IN IF these = <<>> THEN None ELSE these[1].body
ListOf(exts, type) ==
    LET these == SelectSeq(exts, LAMBDA e : e.type = type)
    IN IF these = <<>> THEN <<>> ELSE these[1].list
Acceptable(exts) ==
    /\ exts # <<>> /\ Once(exts, "type")
    /\ \A i \in DOMAIN exts : exts[i].type \in {ServerName, KeyShare} => Once(exts[i].list, "kind")
    /\ \A i \in DOMAIN exts : exts[i].type = ServerName => FirstOf(exts[i].list, HostName) # None
    /\ LET key == FirstOf(ListOf(exts, KeyShare), X25519) IN key = None \/ Len(key) = KeyLen

Rejected == [ok |-> FALSE, sid |-> <<>>, exts |-> <<>>, key |-> None, name |-> None]
\* ClientHelloPayload::read on a message, and what the server does with it.  Another
\* message may not follow in the record.
rustls_read(p) ==
    LET m == Body(Rest(p))
        suites == Behind(m)
        exts == ReadExts(Body(Behind(suites))).items
    IN IF \/ Len(p) < 2 \/ p[1] # ClientHello \/ ~HasVec(Rest(p)) \/ Behind(Rest(p)) # <<>>
          \/ ~HasVec(m) \/ m[1] > SidLen \/ ~HasVec(suites)
          \/ ~HasVec(Behind(suites)) \/ Behind(Behind(suites)) # <<>>
          \/ ~ReadExts(Body(Behind(suites))).ok \/ ~Acceptable(exts)
       THEN Rejected
       ELSE [ok |-> TRUE, sid |-> Body(m), exts |-> exts,
             key |-> FirstOf(ListOf(exts, KeyShare), X25519),
             name |-> FirstOf(ListOf(exts, ServerName), HostName)]

(***************************************************************************)
(* parse_sni_from_bytes (dispatcher/sniffer.rs): one record, the first      *)
(* extension that holds a name.  It bounds a list of names by the extension *)
(* and not by the length of the list.                                       *)
(***************************************************************************)
RECURSIVE SniffNames(_)
SniffNames(list) ==
    IF Len(list) < 2 \/ ~HasVec(Rest(list)) THEN None
    ELSE IF list[1] = HostName /\ Text(Body(Rest(list))) THEN Body(Rest(list))
    ELSE SniffNames(Behind(Rest(list)))
NextExt(exts) == Behind(Rest(exts))
RECURSIVE SniffExts(_)
SniffExts(exts) ==
    IF Len(exts) < 2 \/ ~HasVec(Rest(exts)) THEN None
    ELSE LET data == Body(Rest(exts))
             name == IF exts[1] = ServerName /\ HasVec(data) THEN SniffNames(Rest(data)) ELSE None
         IN IF exts[1] = ServerName /\ ~HasVec(data) THEN None
            ELSE IF name # None THEN name ELSE SniffExts(NextExt(exts))
parse_sni_from_bytes(b) ==
    LET p == Body(Rest(b))
        sid == Drop(p, 2)
        suites == Behind(sid)
        exts == Behind(suites)
    IN IF \/ Len(b) < 2 \/ b[1] # Handshake \/ ~HasVec(Rest(b))
          \/ Len(p) < 2 \/ p[1] # ClientHello \/ Len(p) < 2 + p[2]
          \/ ~HasVec(sid) \/ ~HasVec(suites) \/ ~HasVec(exts)
       THEN None ELSE SniffExts(Body(exts))

(***************************************************************************)
(* What clients send.                                                       *)
(***************************************************************************)
Record(body) == <<Handshake>> \o Vec(body)
\* The message in records, cut at the given places.
RECURSIVE Records(_, _)
Records(p, at) ==
    IF at = <<>> THEN Record(p)
    ELSE Record(SubSeq(p, 1, at[1])) \o Records(Drop(p, at[1]), [i \in DOMAIN Rest(at) |-> at[i + 1] - at[1]])
CutsOf(p) ==
    {<<>>} \union {<<c>> : c \in 1..(Len(p) - 1)} \union {<<1, c>> : c \in 2..(Len(p) - 1)}
    \union {<<1, 2, Len(p) - 1>>, <<1, 2, 3, Len(p) - 1>>}
\* The client's next flight.
Later == <<20, 1, 1>>

Init ==
    /\ hello \in Hellos
    /\ LET p == EncodeHello(hello) IN
         \/ \E at \in CutsOf(p) :
              damaged = FALSE /\ cuts = Len(at) + 1 /\ wire = Records(p, at) \o Later
         \/ \E i \in DOMAIN p, v \in Values :
              /\ v # p[i] /\ damaged = TRUE /\ cuts = 1
              /\ wire = Record([p EXCEPT ![i] = v]) \o Later
         \/ /\ damaged = TRUE /\ cuts = 1
            /\ \E more \in {Later, p} : wire = Record(p \o more) \o Later
         \/ damaged = TRUE /\ cuts = 1 /\ \E w \in {Later, <<Handshake, 0>>, p} : wire = w
    /\ pos = 0 /\ buffer = <<>> /\ payload = <<>> /\ records = 0 /\ pc = "header" /\ out = <<>>

(***************************************************************************)
(* accept.                                                                  *)
(***************************************************************************)
\* Mutant of Complete: the header of the message is not counted.
CompleteShort(p) == Len(p) >= 2 /\ (p[1] = ClientHello => Len(p) >= p[2])
\* The loop may stop: a whole ClientHello, or another message.
Complete(p) == Len(p) >= 2 /\ (p[1] = ClientHello => Len(p) >= 2 + p[2])

\* The message with the session id blanked, which the client sealed with its short id.
Zeroed(p, at) == [i \in DOMAIN p |-> IF i > at /\ i <= at + SidLen THEN 0 ELSE p[i]]

\* verify_client_reality: the session id opens under the key of this share and this
\* message, and holds a short id of ours at either place.
verify_client_reality(info, p) ==
    /\ Len(info.sid) = SidLen /\ info.key # None
    /\ hello.sealed /\ info.sid = hello.sid
    /\ info.key = FirstOf(ListOf(hello.exts, KeyShare), X25519)
    /\ Zeroed(p, info.offset) = Zeroed(EncodeHello(hello), 3)
    /\ hello.short \in ShortIds

\* The parser's verdict on what has been read.
Decision(p) ==
    LET info == parse_client_hello(p)
    IN IF info.ok /\ info.name \in ServerNames /\ verify_client_reality(info, p) THEN "tls" ELSE "fallback"

\* What has been read and the next record stay within the limit.
Fits(n) == Len(payload) + n <= MaxHello

\* Mutant of Kept: the header that is no handshake's is forgotten.
KeptNot(b) == <<>>
Kept(b) == b

\* A record's header: another kind of record ends the reading, one without contents or
\* too large the connection.
ReadHeader ==
    /\ pc = "header" /\ pos + 2 <= Len(wire)
    /\ pos' = pos + 2
    /\ LET b == buffer \o SubSeq(wire, pos + 1, pos + 2)
           n == wire[pos + 2]
       IN IF wire[pos + 1] # Handshake
          THEN buffer' = Kept(b) /\ pc' = Decision(payload)
          ELSE buffer' = b /\ pc' = IF n = 0 \/ ~Fits(n) THEN "failed" ELSE "body"
    /\ UNCHANGED <<hello, damaged, cuts, wire, payload, records, out>>

\* Its contents; the message may then be complete, or the limit reached.
ReadBody ==
    LET n == wire[pos]
        p == payload \o SubSeq(wire, pos + 1, pos + n)
    IN /\ pc = "body" /\ pos + n <= Len(wire)
       /\ pos' = pos + n /\ buffer' = buffer \o SubSeq(wire, pos + 1, pos + n)
       /\ payload' = p /\ records' = records + 1
       /\ pc' = IF Complete(p) \/ records + 1 = MaxRecords \/ Len(p) >= MaxHello THEN Decision(p) ELSE "header"
       /\ UNCHANGED <<hello, damaged, cuts, wire, out>>

\* The stream ends or the time is up in the middle of a record.
ReadFails ==
    /\ pc \in {"header", "body"} /\ pc' = "failed"
    /\ UNCHANGED <<hello, damaged, cuts, wire, pos, buffer, payload, records, out>>

\* fallback cannot reach its destination.
DialFails ==
    /\ pc = "fallback" /\ out = <<>> /\ pc' = "failed"
    /\ UNCHANGED <<hello, damaged, cuts, wire, pos, buffer, payload, records, out>>

\* PrefixedStream::poll_read, and write_all(prefix) before the copy loop: first what
\* accept has read, then the stream.
GivePrefix ==
    /\ pc \in {"tls", "fallback"} /\ Len(out) < Len(buffer)
    /\ \E n \in {1, Len(buffer) - Len(out)} : out' = out \o SubSeq(buffer, Len(out) + 1, Len(out) + n)
    /\ UNCHANGED <<hello, damaged, cuts, wire, pos, buffer, payload, records, pc>>
GiveRest ==
    /\ pc \in {"tls", "fallback"} /\ Len(out) >= Len(buffer) /\ pos < Len(wire)
    /\ out' = out \o Drop(wire, pos) /\ pos' = Len(wire)
    /\ UNCHANGED <<hello, damaged, cuts, wire, buffer, payload, records, pc>>

Next == ReadHeader \/ ReadBody \/ ReadFails \/ DialFails \/ GivePrefix \/ GiveRest

Spec == Init /\ [][Next]_vars

(***************************************************************************)
(* Properties.                                                              *)
(***************************************************************************)
\* The reading loop stays within its limits: MaxRecords records, MaxHello cells.
LimitsKept == records <= MaxRecords /\ Len(payload) <= MaxHello

\* Whoever takes over gets the client's bytes, each once and in order: nothing accept
\* has read is lost or repeated, whatever made it stop reading.
BytesConserved == IsPrefix(out, wire)

\* A client that sealed a well-formed hello with a known short id and name is taken for
\* one, in whatever records it sends it, and rustls then reads what the client meant.
GenuineAccepted ==
    LET means == [ok |-> TRUE, sid |-> hello.sid, exts |-> hello.exts,
                  key |-> FirstOf(ListOf(hello.exts, KeyShare), X25519),
                  name |-> FirstOf(ListOf(hello.exts, ServerName), HostName)]
        welcome == hello.sealed /\ hello.short \in ShortIds /\ means.name \in ServerNames
                   /\ means.key # None /\ Acceptable(hello.exts) /\ ~damaged /\ cuts <= MaxRecords
    IN welcome /\ pc \in {"tls", "fallback"} => pc = "tls" /\ rustls_read(payload) = means

\* A message that was changed on its way, or that something was put behind, is never
\* taken for its sender's.
UntouchedOnly == pc = "tls" => payload = EncodeHello(hello)

\* The two parsers of one message agree: whenever rustls accepts what the Reality parser
\* has authenticated by, it finds the same session id, key share and server name.
SameHello ==
    LET ours == parse_client_hello(payload)
        theirs == rustls_read(payload)
    IN pc \in {"tls", "fallback"} /\ ours.ok /\ theirs.ok =>
         ours.sid = theirs.sid /\ ours.key = theirs.key /\ ours.name = theirs.name

\* The sniffer, on its view of a stream that begins with a hello rustls would accept,
\* finds the name rustls finds, or none when it does not see it all.
SniffedName ==
    LET name == parse_sni_from_bytes(SubSeq(wire, 1, Min({PeekSize, Len(wire)})))
        theirs == rustls_read(Body(Rest(wire)))
    IN pos = 0 /\ Len(wire) >= 2 /\ HasVec(Rest(wire)) /\ theirs.ok => name \in {None, theirs.name}
=============================================================================
