------------------------------ MODULE Records ------------------------------
(***************************************************************************)
(* The record layer of one direction of a rustls connection: what the      *)
(* writer of one end accepts (vecbuf.rs, fragmenter.rs, common_state.rs),  *)
(* the records it makes, the transport that hands them over in arbitrary   *)
(* pieces, and the deframer of the other end (deframer.rs), which joins    *)
(* handshake messages in place in the buffer it reads into, with the       *)
(* reader the application uses (conn.rs).                                  *)
(*                                                                         *)
(* A cell stands for a few bytes that nothing tells apart.  A record is a  *)
(* head, its payload and the authentication tag, which remembers the       *)
(* sequence number and the payload it was computed over.  Handshake        *)
(* messages are one stream of cells, each message a header of HeaderSize   *)
(* cells and a body.  The peer of the deframer is rustls or any other      *)
(* implementation, which may put handshake cells into records as it likes. *)
(***************************************************************************)
EXTENDS Naturals, Sequences, FiniteSets, SequencesExt

CONSTANTS
  Bodies,        \* the body length of each handshake message, in order
  MaxBytes,      \* how many cells of data the application writes at most
  MaxFrag,       \* max_frag of the fragmenter
  Limit,         \* set_buffer_limit, both buffers of the writing side
  ReadLimit,     \* DEFAULT_RECEIVED_PLAINTEXT_LIMIT
  MaxWire,       \* OpaqueMessage::MAX_WIRE_SIZE
  MaxHandshake,  \* MAX_HANDSHAKE_SIZE
  ReadSize,      \* READ_SIZE
  SoftLimit,     \* SEQ_SOFT_LIMIT
  HardLimit,     \* SEQ_HARD_LIMIT
  Window,        \* how many cells the transport holds
  MaxSends,      \* how many operations the writing end performs
  MaxFaults      \* how often the peer or the transport misbehaves

VARIABLES
  traffic,     \* may_send_application_data of the writing end
  plaintext,   \* its sendable_plaintext: chunks
  write_seq,   \* record_layer.write_seq
  sendable,    \* its sendable_tls: one chunk for each record
  said,        \* how many cells of the handshake stream were sent
  accepted,    \* how many cells write() has accepted
  notified,    \* send_close_notify was called
  promised,    \* what was sealed before close_notify; a history variable
  ends,        \* where in the handshake stream a record ended; a history variable
  sends,       \* how many operations it has performed
  overflow,    \* the writing end ran out of stack
  wire,        \* the cells in the transport
  eof,         \* the transport has ended
  faults,
  buf,         \* the used prefix of MessageDeframer::buf
  capacity,    \* buf.len()
  joining,     \* joining_hs; end 0 when there is none
  read_seq,
  state,       \* ConnectionCore::state: "ok" or the error it holds
  busy,        \* process_new_packets is running
  first_error, \* the first error a call returned; a history variable
  returned,    \* what the last finished call of process_new_packets returned
  got,         \* the handshake messages handed to the state machine
  received,    \* received_plaintext
  closed,      \* has_received_close_notify
  seen_eof,    \* has_seen_eof
  taken,       \* what the application has read
  outcome      \* how the last read() ended: "data", "end" or "truncated"

sender == <<traffic, plaintext, write_seq, sendable, said, accepted, notified, promised, ends, sends, overflow>>
channel == <<wire, eof, faults>>
deframer == <<buf, capacity, joining, read_seq>>
core == <<state, busy, first_error, returned>>
delivered == <<got, received, closed>>
reader == <<seen_eof, taken, outcome>>
vars == <<sender, channel, deframer, core, delivered, reader>>

-----------------------------------------------------------------------------
HeaderSize == 2

Lesser(a, b) == IF a < b THEN a ELSE b

\* Where message m of the handshake stream ends.
MsgEnd[m \in 0..Len(Bodies)] ==
  IF m = 0 THEN 0 ELSE MsgEnd[m - 1] + HeaderSize + Bodies[m]

Hs(n) == [t |-> "hs", n |-> n]
App(n) == [t |-> "app", n |-> n]
Alert == [t |-> "alert", n |-> 0]
Ccs == [t |-> "ccs", n |-> 0]

HsCells(from, to) == [i \in 1..(to - from) |-> Hs(from + i)]

\* A sealed record: header, ciphertext and tag.
Record(payload, seq) ==
  <<[t |-> "head", len |-> Len(payload) + 1]>> \o payload
    \o <<[t |-> "tag", seq |-> seq, of |-> payload, sound |-> TRUE]>>

CcsRecord == <<[t |-> "head", len |-> 1], Ccs>>

NoJoin == [end |-> 0, from |-> 0, to |-> 0, expected |-> 0]

Init ==
  /\ traffic = FALSE /\ plaintext = <<>> /\ write_seq = 0 /\ sendable = <<>>
  /\ said = 0 /\ accepted = 0 /\ notified = FALSE /\ promised = 0 /\ ends = {0}
  /\ sends = 0 /\ overflow = FALSE
  /\ wire = <<>> /\ eof = FALSE /\ faults = 0
  /\ buf = <<>> /\ capacity = 0 /\ joining = NoJoin /\ read_seq = 0
  /\ state = "ok" /\ busy = FALSE /\ first_error = "none" /\ returned = "none"
  /\ got = <<>> /\ received = <<>> /\ closed = FALSE
  /\ seen_eof = FALSE /\ taken = <<>> /\ outcome = "data"

-----------------------------------------------------------------------------
(* The writing end *)

Bytes(chunks) == Len(FlattenSeq(chunks))

\* apply_limit of a ChunkVecBuffer
ApplyLimit(chunks, n) ==
  Lesser(n, IF Limit > Bytes(chunks) THEN Limit - Bytes(chunks) ELSE 0)

\* fragment_slice: payload.chunks(max_frag)
Fragments(cells) ==
  [i \in 1..((Len(cells) + MaxFrag - 1) \div MaxFrag) |->
     SubSeq(cells, (i - 1) * MaxFrag + 1, Lesser(i * MaxFrag, Len(cells)))]

\* send_single_fragment for each fragment.  At SEQ_SOFT_LIMIT it calls
\* send_close_notify, which sends a fragment with the same write_seq and so
\* calls send_close_notify again: the recursion has no end.  Past
\* SEQ_HARD_LIMIT fragments are dropped.
SendFragments(fragments) ==
  LET n == IF write_seq >= HardLimit THEN 0 ELSE Lesser(Len(fragments), HardLimit - write_seq)
  IN IF SoftLimit \in write_seq..(write_seq + Len(fragments) - 1)
     THEN /\ overflow' = TRUE
          /\ UNCHANGED <<write_seq, sendable>>
     ELSE /\ sendable' = sendable \o [i \in 1..n |-> Record(fragments[i], write_seq + i - 1)]
          /\ write_seq' = write_seq + n
          /\ UNCHANGED overflow

\* An operation of the writing end; none matters once the transport has ended.
Sends == ~overflow /\ ~eof /\ sends < MaxSends /\ sends' = sends + 1

\* Writer::write: before the handshake is done the data is kept, up to the
\* limit; afterwards as much as the limit on sendable_tls leaves is sealed.
Write(n) ==
  /\ Sends /\ accepted + n <= MaxBytes
  /\ LET kept == ApplyLimit(IF traffic THEN sendable ELSE plaintext, n)
         data == [i \in 1..kept |-> App(accepted + i)]
     IN /\ accepted' = accepted + kept
        /\ IF traffic
           THEN SendFragments(Fragments(data)) /\ UNCHANGED plaintext
           ELSE /\ plaintext' = IF data = <<>> THEN plaintext ELSE Append(plaintext, data)
                /\ UNCHANGED <<write_seq, sendable, overflow>>
  /\ UNCHANGED <<traffic, said, notified, promised, ends, channel, deframer, core, delivered, reader>>

\* start_outgoing_traffic: flush_plaintext seals the kept chunks, one by one
\* and without a limit.
StartOutgoingTraffic ==
  /\ Sends /\ ~traffic /\ said = MsgEnd[1]
  /\ traffic' = TRUE
  /\ plaintext' = <<>>
  /\ SendFragments(FlattenSeq([i \in 1..Len(plaintext) |-> Fragments(plaintext[i])]))
  /\ UNCHANGED <<said, accepted, notified, promised, ends, channel, deframer, core, delivered, reader>>

\* send_msg of the next handshake message, each in records of its own
SendMsg ==
  /\ Sends
  /\ \E m \in 1..Len(Bodies) :
       /\ said = MsgEnd[m - 1]
       /\ LET fragments == Fragments(HsCells(said, MsgEnd[m]))
          IN /\ SendFragments(fragments)
             /\ ends' = ends \union {Lesser(said + i * MaxFrag, MsgEnd[m]) : i \in 1..Len(fragments)}
       /\ said' = MsgEnd[m]
  /\ UNCHANGED <<traffic, plaintext, accepted, notified, promised, channel, deframer, core, delivered, reader>>

\* send_close_notify; what is still kept for the end of the handshake goes
\* out after it.
SendCloseNotify ==
  /\ Sends /\ ~notified
  /\ notified' = TRUE
  /\ promised' = accepted - Bytes(plaintext)
  /\ SendFragments(<<(<<Alert>>)>>)
  /\ UNCHANGED <<traffic, plaintext, said, accepted, ends, channel, deframer, core, delivered, reader>>

\* write_tls: the transport takes any number of cells, across records.
WriteTls(n) ==
  /\ ~overflow /\ ~eof /\ n <= Bytes(sendable) /\ Len(wire) + n <= Window
  /\ LET all == FlattenSeq(sendable)
         gone(i) == Bytes(SubSeq(sendable, 1, i))
     IN /\ wire' = wire \o SubSeq(all, 1, n)
        /\ sendable' = LET whole == CHOOSE i \in 0..Len(sendable) :
                                      /\ gone(i) <= n
                                      /\ i = Len(sendable) \/ gone(i + 1) > n
                           rest == SubSeq(sendable, whole + 1, Len(sendable))
                       IN IF gone(whole) = n THEN rest
                          ELSE [rest EXCEPT ![1] = SubSeq(@, n - gone(whole) + 1, Len(@))]
  /\ UNCHANGED <<traffic, plaintext, write_seq, said, accepted, notified, promised, ends, sends, overflow,
                 eof, faults, deframer, core, delivered, reader>>

-----------------------------------------------------------------------------
(* Another implementation, and faults *)

Misbehaves == faults < MaxFaults /\ ~overflow /\ faults' = faults + 1

\* Another implementation puts any next part of the handshake stream into a
\* record: a message split anywhere, several messages together.
ForeignRecord(n) ==
  /\ Sends /\ n \in 1..MaxFrag /\ said + n <= MsgEnd[Len(Bodies)]
  /\ SendFragments(<<HsCells(said, said + n)>>)
  /\ said' = said + n
  /\ ends' = ends \union {said + n}
  /\ UNCHANGED <<traffic, plaintext, accepted, notified, promised, channel, deframer, core, delivered, reader>>

\* A change_cipher_spec in clear, anywhere
ForeignCcs ==
  /\ Misbehaves
  /\ sendable' = Append(sendable, CcsRecord)
  /\ UNCHANGED <<traffic, plaintext, write_seq, said, accepted, notified, promised, ends, sends, overflow,
                 wire, eof, deframer, core, delivered, reader>>

\* A tag that does not verify
Corrupt ==
  /\ Misbehaves
  /\ \E i \in 1..Len(wire) :
       /\ wire[i].t = "tag"
       /\ wire' = [wire EXCEPT ![i].sound = FALSE]
  /\ UNCHANGED <<sender, eof, deframer, core, delivered, reader>>

\* The connection is cut, anywhere
Cut ==
  /\ Misbehaves /\ ~eof
  /\ eof' = TRUE
  /\ UNCHANGED <<sender, wire, deframer, core, delivered, reader>>

\* The writing end closes the transport after its close_notify.
CloseTransport ==
  /\ ~overflow /\ ~eof /\ notified /\ sendable = <<>>
  /\ eof' = TRUE
  /\ UNCHANGED <<sender, wire, faults, deframer, core, delivered, reader>>

-----------------------------------------------------------------------------
(* MessageDeframer *)

Joining == joining.end > 0
Joined == joining.to - joining.from

\* Mutant: the buffer is resized only when it is empty.
CapacityOnce == IF buf = <<>> THEN Lesser(MaxWire, ReadSize) ELSE capacity

\* prepare_read
AllowMax == IF Joining THEN MaxHandshake ELSE MaxWire
Capacity ==
  LET need == Lesser(AllowMax, Len(buf) + ReadSize)
  IN IF need > capacity \/ buf = <<>> \/ capacity > AllowMax THEN need ELSE capacity

Start == IF Joining THEN joining.end ELSE 0
Complete == Joining /\ joining.expected > 0 /\ joining.expected <= Joined

\* OpaqueMessage::read finds a whole record at Start.
Whole ==
  /\ Start < Len(buf)
  /\ Start + 1 + buf[Start + 1].len <= Len(buf)

\* The caller reads when process_new_packets has left nothing to do, as
\* complete_io and its documentation have it.
MayRead == ~busy /\ state = "ok" /\ ~Complete /\ ~Whole

\* read_tls, n the cells the transport has just then
ReadTls(n) ==
  /\ MayRead
  /\ Bytes(received) <= ReadLimit
  /\ Len(buf) < AllowMax
  /\ n \in 1..Lesser(Capacity - Len(buf), Len(wire))
  /\ buf' = buf \o SubSeq(wire, 1, n)
  /\ wire' = SubSeq(wire, n + 1, Len(wire))
  /\ capacity' = Capacity
  /\ UNCHANGED <<sender, eof, faults, joining, read_seq, core, delivered, reader>>

\* read_tls, the buffer being full: an InvalidData error, and the caller
\* gives the connection up.
ReadFull ==
  /\ MayRead
  /\ Bytes(received) <= ReadLimit
  /\ Len(buf) >= AllowMax
  /\ state' = "BufferFull"
  /\ UNCHANGED <<sender, channel, deframer, busy, first_error, returned, delivered, reader>>

\* read_tls at the end of the transport
ReadEof ==
  /\ MayRead /\ ~seen_eof
  /\ Bytes(received) <= ReadLimit
  /\ Len(buf) < AllowMax
  /\ eof /\ wire = <<>>
  /\ seen_eof' = TRUE
  /\ capacity' = Capacity
  /\ UNCHANGED <<sender, channel, buf, joining, read_seq, core, delivered, taken, outcome>>

\* payload_size: 0 while the header is not complete
TooLarge(cells) ==
  /\ Len(cells) >= HeaderSize
  /\ \E m \in 1..Len(Bodies) : cells[1] = Hs(MsgEnd[m - 1] + 1) /\ Bodies[m] > MaxHandshake

\* Mutant: the length without the header.
PayloadSizeBody(cells) ==
  IF Len(cells) < HeaderSize THEN 0
  ELSE Bodies[CHOOSE m \in 1..Len(Bodies) : cells[1].n \in (MsgEnd[m - 1] + 1)..MsgEnd[m]]

PayloadSize(cells) ==
  IF Len(cells) < HeaderSize THEN 0
  ELSE HeaderSize + (LET m == CHOOSE m \in 1..Len(Bodies) :
                                cells[1].n \in (MsgEnd[m - 1] + 1)..MsgEnd[m]
                     IN Bodies[m])

\* discard
Discard(cells, n) == SubSeq(cells, n + 1, Len(cells))

\* copy_from_slice into buf after position `at`
Overwritten(cells, at, new) ==
  [i \in 1..Len(cells) |-> IF i \in (at + 1)..(at + Len(new)) THEN new[i - at] ELSE cells[i]]

RecordEnd == Start + 1 + buf[Start + 1].len
Payload == SubSeq(buf, Start + 2, RecordEnd - 1)
Tag == buf[RecordEnd]
PlainCcs == Tag = Ccs

\* decrypt_incoming: the tag verifies for the payload and for read_seq.
Decrypts == ~PlainCcs /\ Tag.sound /\ Tag.seq = read_seq /\ Tag.of = Payload

\* An error of pop or deframe.  process_new_packets returns it with `?`, so
\* the state stays what mem::replace left there.
DeframeError(e) ==
  /\ busy' = FALSE
  /\ returned' = e
  /\ first_error' = IF first_error = "none" THEN e ELSE first_error
  /\ UNCHANGED state

\* process_new_packets, on a connection that has failed
ProcessFailed ==
  /\ ~busy /\ state # "ok" /\ returned # state /\ state # "BufferFull"
  /\ returned' = state
  /\ UNCHANGED <<sender, channel, deframer, state, busy, first_error, delivered, reader>>

ProcessNewPackets ==
  /\ ~busy /\ state = "ok" /\ (Whole \/ Complete)
  /\ busy' = TRUE
  /\ state' = "HandshakeNotComplete"
  /\ UNCHANGED <<sender, channel, deframer, first_error, returned, delivered, reader>>

\* pop finds nothing more: Ok(None), and the call ends.
PopNone ==
  /\ busy /\ ~Complete /\ ~Whole
  /\ busy' = FALSE
  /\ state' = "ok"
  /\ returned' = "ok"
  /\ UNCHANGED <<sender, channel, deframer, first_error, delivered, reader>>

\* A change_cipher_spec in clear; process_msg drops it.  Between the
\* fragments of a handshake message it is taken for ciphertext.
PopCcs ==
  /\ busy /\ ~Complete /\ Whole /\ PlainCcs /\ ~Joining
  /\ buf' = Discard(buf, RecordEnd)
  /\ UNCHANGED <<sender, channel, capacity, joining, read_seq, core, delivered, reader>>

PopUndecryptable ==
  /\ busy /\ ~Complete /\ Whole /\ ~Decrypts
  /\ PlainCcs => Joining
  /\ DeframeError("DecryptError")
  /\ UNCHANGED <<sender, channel, deframer, delivered, reader>>

\* Another type of record between the fragments of a handshake message
PopInterleaved ==
  /\ busy /\ ~Complete /\ Whole /\ Decrypts
  /\ Joining /\ Payload[1].t # "hs"
  /\ read_seq' = read_seq + 1
  /\ DeframeError("Interleaved")
  /\ UNCHANGED <<sender, channel, buf, capacity, joining, delivered, reader>>

\* Application data and alerts are handed on as they are.
PopOther ==
  /\ busy /\ ~Complete /\ Whole /\ Decrypts
  /\ ~Joining /\ Payload[1].t # "hs"
  /\ read_seq' = read_seq + 1
  /\ buf' = Discard(buf, RecordEnd)
  /\ IF Payload[1].t = "app"
     THEN received' = Append(received, Payload) /\ UNCHANGED closed
     ELSE closed' = TRUE /\ UNCHANGED received
  /\ UNCHANGED <<sender, channel, capacity, joining, core, got, reader>>

\* append_hs: the payload is copied behind what was joined already, over the
\* records it came from.
Appended ==
  LET at == IF Joining THEN joining.to ELSE 0
      cells == Overwritten(buf, at, Payload)
  IN [buf |-> cells, from |-> IF Joining THEN joining.from ELSE 0, to |-> at + Len(Payload)]

PopHandshake ==
  /\ busy /\ ~Complete /\ Whole /\ Decrypts /\ Payload[1].t = "hs"
  /\ read_seq' = read_seq + 1
  /\ LET a == Appended
         cells == SubSeq(a.buf, a.from + 1, a.to)
     IN IF (Joining => joining.expected = 0) /\ TooLarge(cells)
        THEN /\ DeframeError("PayloadTooLarge")
             /\ UNCHANGED <<buf, joining>>
        ELSE /\ buf' = a.buf
             /\ joining' = [end |-> RecordEnd, from |-> a.from, to |-> a.to,
                            expected |-> IF Joining /\ joining.expected > 0
                                         THEN joining.expected ELSE PayloadSize(cells)]
             /\ UNCHANGED core
  /\ UNCHANGED <<sender, channel, capacity, delivered, reader>>

\* `aligned`: the next message has not begun in the same record.
Aligned(rest) == rest = <<>>

\* A complete handshake message is handed on.
PopMessage ==
  /\ busy /\ Complete
  /\ LET from == joining.from
         size == joining.expected
         rest == SubSeq(buf, from + size + 1, joining.to)
         message == SubSeq(buf, from + 1, from + size)
     IN IF TooLarge(rest)
        THEN /\ DeframeError("PayloadTooLarge")
             /\ UNCHANGED <<buf, joining, got>>
        ELSE /\ got' = Append(got, [cells |-> message, aligned |-> Aligned(rest)])
             /\ IF rest # <<>>
                THEN /\ joining' = [joining EXCEPT !.from = from + size,
                                                   !.expected = PayloadSize(rest)]
                     /\ UNCHANGED buf
                ELSE joining' = NoJoin /\ buf' = Discard(buf, joining.end)
             /\ UNCHANGED core
  /\ UNCHANGED <<sender, channel, capacity, read_seq, received, closed, reader>>

\* peer_cleanly_closed: a close_notify was received, and the deframer has
\* nothing pending, no part of a record behind it either.
CleanlyClosed == closed /\ buf = <<>>

\* What read() reports: a clean end, or a transport that ended before one
Outcome(n) == IF n > 0 THEN "data" ELSE IF CleanlyClosed THEN "end" ELSE "truncated"

\* Reader::read with room for n cells
Read(n) ==
  /\ ~busy
  /\ LET all == FlattenSeq(received)
         k == Lesser(n, Len(all))
     IN /\ taken' = taken \o SubSeq(all, 1, k)
        /\ received' = IF k = Len(all) THEN <<>>
                       ELSE <<SubSeq(all, k + 1, Len(all))>>
        /\ outcome' = Outcome(k)
        /\ k = 0 => CleanlyClosed \/ seen_eof
  /\ UNCHANGED <<sender, channel, deframer, core, got, closed, seen_eof>>

-----------------------------------------------------------------------------
Pop == \/ PopNone \/ PopCcs \/ PopUndecryptable \/ PopInterleaved
       \/ PopOther \/ PopHandshake \/ PopMessage

\* What the two ends do by themselves while there is something to do, in
\* the smallest pieces
Progress ==
  \/ WriteTls(1) \/ ReadTls(1) \/ ReadEof
  \/ ProcessNewPackets \/ Pop
  \/ received # <<>> /\ Read(1)
\* Where Progress is enabled.
CanProgress ==
  \/ busy \/ received # <<>>
  \/ state = "ok" /\ (Whole \/ Complete)
  \/ ~overflow /\ ~eof /\ sendable # <<>> /\ Len(wire) < Window
  \/ /\ MayRead /\ Bytes(received) <= ReadLimit /\ Len(buf) < AllowMax
     /\ IF wire # <<>> THEN Capacity > Len(buf) ELSE eof /\ ~seen_eof

Next ==
  \/ \E n \in 1..MaxBytes : Write(n)
  \/ StartOutgoingTraffic
  \/ SendMsg
  \/ SendCloseNotify
  \/ \E n \in 1..MaxFrag : ForeignRecord(n)
  \/ ForeignCcs
  \/ Corrupt
  \/ Cut
  \/ CloseTransport
  \/ ReadFull
  \/ ProcessFailed
  \/ \E n \in 1..Bytes(sendable) : WriteTls(n)
  \/ \E n \in 1..Len(wire) : ReadTls(n)
  \/ ReadEof
  \/ ProcessNewPackets
  \/ Pop
  \/ \E n \in 1..MaxBytes : Read(n)

Fairness == []<>(~CanProgress) \/ []<><<Progress>>_vars
Spec == Init /\ [][Next]_vars /\ Fairness

-----------------------------------------------------------------------------
(* Properties *)

\* The buffers keep to their bounds: the plaintext kept during the handshake
\* to the limit, the deframer's buffer to what it was resized to, and what
\* was joined in place to the records it came from.
TypeOK ==
  /\ Bytes(plaintext) <= Limit
  /\ Len(buf) <= capacity /\ capacity <= MaxHandshake
  /\ joining.from <= joining.to /\ joining.to <= joining.end /\ joining.end <= Len(buf)
  /\ write_seq <= HardLimit /\ read_seq <= write_seq
  /\ state \in {"ok", "HandshakeNotComplete", "BufferFull"}

\* However the handshake stream is cut into records and the records into
\* reads, every message reaches the state machine whole, once and in order.
MessagesWhole ==
  \A i \in 1..Len(got) : i <= Len(Bodies) /\ got[i].cells = HsCells(MsgEnd[i - 1], MsgEnd[i])

\* `aligned`, on which the change of keys relies, is set exactly for the
\* messages that end with their record.
AlignmentTrue == \A i \in 1..Len(got) : got[i].aligned = (MsgEnd[i] \in ends)

\* Joining in place never spoils a record that is still to be read: without
\* a fault no record fails to decrypt.
OnlyFaultsUndecryptable == first_error = "DecryptError" => faults > 0

\* The application reads the written cells in order, none twice, whatever
\* was kept during the handshake, limited or fragmented.
DataInOrder ==
  LET all == taken \o FlattenSeq(received)
  IN all = [i \in 1..Len(all) |-> App(i)]

\* A clean end of the stream is only reported when everything written before
\* the close_notify has been read.
CleanEndMeansAll == outcome = "end" => Len(taken) >= promised

\* The message buffer only fills up while a handshake message is joined: a
\* single record always fits.
FullOnlyWhileJoining == state = "BufferFull" => Joining

\* After an error nothing more is delivered.
Quiet == first_error # "none" => UNCHANGED <<got, closed, buf>>

\* The reader catches up: again and again it has taken everything accepted since the
\* handshake was over, unless the connection has failed.
DataArrives ==
  []<>(traffic => Len(taken) >= accepted \/ overflow \/ faults > 0 \/ first_error # "none"
                    \/ state = "BufferFull" \/ (eof /\ sendable # <<>>))
=============================================================================
