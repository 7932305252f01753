----------------------------- MODULE UdpOutbound ------------------------------
(***************************************************************************)
(* UDP over one accepted connection (outbound/udp.rs).  The handler reads   *)
(* frames from the client's stream, opens an outbound socket per session    *)
(* and sends; each session has a reader task that puts what its socket      *)
(* receives into a bounded channel, and one writer task empties the channel *)
(* into the client's stream.  Three framings share this shape:              *)
(*   multiplexed  a session per association id (socks5.rs speaks it),       *)
(*   packetaddr   a session per destination,                                *)
(*   standard     one session, whose reader writes to the stream itself.    *)
(* The handler future is raced against the kick of the registry             *)
(* (dispatcher/mod.rs): a kick drops it wherever it awaits, and with it the *)
(* session table, but not the tasks it has spawned.                         *)
(***************************************************************************)
EXTENDS Integers, Sequences, FiniteSets

CONSTANTS
    Modes,          \* the framings to explore
    Ids,            \* association ids (multiplexed)
    Dests,          \* destination addresses
    Socks,          \* outbound sockets; a freed one is used again
    ChannelSize,    \* capacity of the downlink channel
    IdleLimit,      \* a session idle for longer than this is closed,
    CleanupEvery,   \* at the first frame more than this after the last cleanup
    MaxTime,        \* bound: the clock
    MaxDatagrams    \* bound: datagrams received

None == "none"
Shared == "localhost:0"     \* the key of every named destination behind a proxy
Keys == Ids \union Dests \union {Shared}

VARIABLES
    mode, proxy,    \* the framing, and whether the outbound has a SOCKS proxy
    now,
    pc,             \* the handler: "read", "resolve", "open", "ended" or "kicked"
    frame,          \* the frame in its hands
    sessions,       \* sockets: the session table
    reader,         \* reader[s]: the task of socket s
    active,         \* last_active of s
    lastCleanup,
    channel,        \* the downlink channel
    writer,         \* the writer task: "run" or "ended"; none in handle_standard
    broken,         \* a write to the client's stream has failed
    rx,             \* rx_counter, in datagrams
    given,          \* history: datagrams written to the client
    silenced,       \* history: sockets whose reader met a datagram of length zero
    used,           \* history: when s last carried a datagram
    lookups         \* history: names given to the system's resolver

vars == <<mode, proxy, now, pc, frame, sessions, reader, active, lastCleanup, channel,
          writer, broken, rx, given, silenced, used, lookups>>
tasks == <<reader, channel, writer, broken, rx, given, silenced>>

Alive == pc \in {"read", "resolve", "open"}

(***************************************************************************)
(* Frames.  One that the framing cannot go past ends the stream; one that   *)
(* is passed over (an IPv6 destination, a malformed address of known        *)
(* length) changes nothing and is left out; the others name a destination,  *)
(* by address or by name.                                                   *)
(***************************************************************************)
NoFrame == [id |-> None, dest |-> None, named |-> FALSE]
PacketaddrFrames == [id : {None}, dest : Dests, named : BOOLEAN]
MultiplexedFrames == [id : Ids, dest : Dests, named : BOOLEAN]

\* The session a frame belongs to.
KeyOf(f) ==
    IF mode = "multiplexed" THEN f.id
    ELSE IF proxy /\ f.named THEN Shared
    ELSE f.dest

\* Whether the handler asks the system's resolver about a frame's destination:
\* packetaddr leaves names to the proxy, multiplexed does not.
Resolves(f) == f.named /\ (mode = "multiplexed" \/ ~proxy)

(***************************************************************************)
(* The session table.                                                       *)
(***************************************************************************)
Open == {k \in Keys : sessions[k] # None}
Free == {s \in Socks : reader[s] = None}

\* Mutant of Aborted: the tasks of the closed sessions go on.
AbortedNothing(rdr, S) == rdr
\* The reader tasks once those of the sockets in S are aborted.
Aborted(rdr, S) == [s \in Socks |-> IF s \in S THEN None ELSE rdr[s]]

\* last_active when a reader has received something.
Touched(s) == [active EXCEPT ![s] = now]

\* What the loop does after a frame was sent: close idle sessions when it is time.
Cleanup(tbl, rdr, act) ==
    LET idle == {k \in Keys : tbl[k] # None /\ now - act[tbl[k]] > IdleLimit}
        gone == {tbl[k] : k \in idle}
    IN IF mode # "standard" /\ now - lastCleanup > CleanupEvery
       THEN /\ sessions' = [k \in Keys |-> IF k \in idle THEN None ELSE tbl[k]]
            /\ reader' = Aborted(rdr, gone)
            /\ silenced' = silenced \ gone
            /\ lastCleanup' = now
       ELSE sessions' = tbl /\ reader' = rdr /\ UNCHANGED <<silenced, lastCleanup>>

\* The end of the stream: drain the table, abort every reader, drop the channel.
End ==
    /\ pc' = "ended" /\ frame' = NoFrame
    /\ reader' = Aborted(reader, {sessions[k] : k \in Open})
    /\ sessions' = [k \in Keys |-> None] /\ silenced' = {}
    /\ UNCHANGED <<mode, proxy, now, active, lastCleanup, channel, writer, broken, rx, given, used, lookups>>

(***************************************************************************)
(* The handler.                                                             *)
(***************************************************************************)
Init ==
    /\ mode \in Modes /\ proxy \in BOOLEAN
    /\ now = 0 /\ lastCleanup = 0
    /\ frame \in (IF mode = "standard" THEN PacketaddrFrames ELSE {NoFrame})
    /\ pc = (IF mode = "standard" THEN "open" ELSE "read")
    /\ sessions = [k \in Keys |-> None]
    /\ reader = [s \in Socks |-> None] /\ active = [s \in Socks |-> 0]
    /\ channel = <<>> /\ broken = FALSE
    /\ writer = (IF mode = "standard" THEN None ELSE "run")
    /\ rx = 0 /\ given = 0
    /\ silenced = {} /\ used = [s \in Socks |-> 0] /\ lookups = {}

\* Send on the session's socket, count, and clean up.
SendOn(k, tbl, rdr) ==
    LET act == [active EXCEPT ![tbl[k]] = now]
    IN /\ active' = act /\ used' = [used EXCEPT ![tbl[k]] = now]
       /\ Cleanup(tbl, rdr, act)
       /\ pc' = "read" /\ frame' = NoFrame

\* A frame whose destination is known: to its session, or to open one.
Deliver(f) ==
    IF sessions[KeyOf(f)] # None
    THEN SendOn(KeyOf(f), sessions, reader)
    ELSE /\ pc' = "open" /\ frame' = f
         /\ UNCHANGED <<sessions, reader, active, lastCleanup, silenced, used>>

\* A frame of the loops of handle_packetaddr and handle_multiplexed.
ReadFrame(f) ==
    /\ pc = "read"
    /\ IF Resolves(f)
       THEN /\ pc' = "resolve" /\ frame' = f
            /\ lookups' = lookups \union {<<f.dest, proxy>>}
            /\ UNCHANGED <<sessions, reader, active, lastCleanup, silenced, used>>
       ELSE Deliver(f) /\ UNCHANGED lookups
    /\ UNCHANGED <<mode, proxy, now, channel, writer, broken, rx, given>>

ReadPacketaddr == mode = "packetaddr" /\ \E f \in PacketaddrFrames : ReadFrame(f)
ReadMultiplexed == mode = "multiplexed" /\ \E f \in MultiplexedFrames : ReadFrame(f)

\* handle_standard: every frame goes to the one destination.
ReadStandard ==
    /\ pc = "read" /\ mode = "standard"
    /\ \E k \in Open : SendOn(k, sessions, reader)
    /\ UNCHANGED <<mode, proxy, now, channel, writer, broken, rx, given, lookups>>

\* A frame that ends the stream, or the end of it.
ReadEnd == pc = "read" /\ End

\* The answer of the resolver; a name without an address is passed over.
Resolved ==
    /\ pc = "resolve"
    /\ \/ Deliver(frame)
       \/ /\ pc' = "read" /\ frame' = NoFrame
          /\ UNCHANGED <<sessions, reader, active, lastCleanup, silenced, used>>
    /\ UNCHANGED <<mode, proxy, now, channel, writer, broken, rx, given, lookups>>

\* create_outbound_udp: bind a socket, behind a proxy after a UDP ASSOCIATE.  The
\* session is entered and its reader spawned, and the frame that opened it is sent.
\* handle_standard has no frame yet.
Opened(s) ==
    /\ pc = "open" /\ s \in Free
    /\ LET k == KeyOf(frame)
           tbl == [sessions EXCEPT ![k] = s]
           rdr == [reader EXCEPT ![s] = "run"]
       IN SendOn(k, tbl, rdr)
    /\ UNCHANGED <<mode, proxy, now, channel, writer, broken, rx, given, lookups>>

\* The socket cannot be had: the frame is passed over, or the handler fails.
OpenFails ==
    /\ pc = "open"
    /\ IF mode = "standard" THEN End
       ELSE /\ pc' = "read" /\ frame' = NoFrame
            /\ UNCHANGED <<mode, proxy, now, sessions, active, lastCleanup, used, lookups, tasks>>

(***************************************************************************)
(* The tasks it spawns.                                                     *)
(***************************************************************************)
\* A reader that ends; its socket is free once no session holds it either.
Exit == IF Alive THEN "done" ELSE None
Receive(s, when) ==
    /\ reader[s] = "run" /\ rx < MaxDatagrams /\ when
    /\ UNCHANGED <<mode, proxy, now, pc, frame, sessions, lastCleanup, writer, lookups>>

\* A datagram of length zero ends the reader, not the session.
ReceiveEmpty(s) ==
    /\ Receive(s, TRUE)
    /\ reader' = [reader EXCEPT ![s] = Exit]
    /\ silenced' = IF Alive THEN silenced \union {s} ELSE silenced
    /\ UNCHANGED <<active, channel, broken, rx, given, used>>

\* What the proxy sends without a SOCKS header that parse_socks5_udp accepts counts
\* as activity and is dropped.
ReceiveJunk(s) ==
    /\ Receive(s, proxy)
    /\ active' = Touched(s) /\ used' = [used EXCEPT ![s] = now]
    /\ UNCHANGED <<reader, channel, broken, rx, given, silenced>>

\* rx_counter after a datagram that found room in the channel or did not.
Counted(room) == rx' = IF room THEN rx + 1 ELSE rx

\* try_send succeeds.
HasRoom == writer = "run" /\ Len(channel) < ChannelSize

\* A datagram: framed and tried on the channel.  Without room it is dropped; when
\* the writer is gone the reader ends.
ReceiveFrom(s) ==
    /\ active' = Touched(s) /\ used' = [used EXCEPT ![s] = now]
    /\ Counted(HasRoom)
    /\ channel' = IF HasRoom THEN Append(channel, s) ELSE channel
    /\ reader' = IF writer = "run" THEN reader ELSE [reader EXCEPT ![s] = Exit]
    /\ UNCHANGED <<broken, given, silenced>>
ReceivePacketaddr(s) == Receive(s, mode = "packetaddr") /\ ReceiveFrom(s)
ReceiveMultiplexed(s) == Receive(s, mode = "multiplexed") /\ ReceiveFrom(s)

\* handle_standard: the reader writes the datagram to the stream, then counts it; it
\* ends when the stream fails.
ReceiveStandard(s) ==
    /\ Receive(s, mode = "standard")
    /\ used' = [used EXCEPT ![s] = now]
    /\ \/ ~broken /\ given' = given + 1 /\ rx' = rx + 1 /\ UNCHANGED <<reader, broken>>
       \/ broken' = TRUE /\ reader' = [reader EXCEPT ![s] = Exit] /\ UNCHANGED <<given, rx>>
    /\ UNCHANGED <<active, channel, silenced>>

\* The stream takes a frame, or fails and the writer ends with what was queued.
WriterWrites ==
    /\ writer = "run" /\ channel # <<>>
    /\ channel' = Tail(channel) /\ given' = given + 1
    /\ UNCHANGED <<mode, proxy, now, pc, frame, sessions, reader, active, lastCleanup, writer,
                   broken, rx, silenced, used, lookups>>
WriterFails ==
    /\ writer = "run" /\ channel # <<>>
    /\ writer' = "ended" /\ broken' = TRUE /\ channel' = <<>>
    /\ UNCHANGED <<mode, proxy, now, pc, frame, sessions, reader, active, lastCleanup, rx, given,
                   silenced, used, lookups>>
\* Mutant of WriterEnds: the writer's own copy of the sender keeps the channel open.
WriterEndsNever == FALSE /\ UNCHANGED vars
\* Every sender is gone: the handler's and those of the readers.
WriterEnds ==
    /\ writer = "run" /\ channel = <<>>
    /\ ~Alive /\ \A s \in Socks : reader[s] # "run"
    /\ writer' = "ended"
    /\ UNCHANGED <<mode, proxy, now, pc, frame, sessions, reader, active, lastCleanup, channel, broken, rx,
                   given, silenced, used, lookups>>

\* The registry's signal: the future of the handler is dropped, its table with it.
\* Dropping a JoinHandle detaches the task; a reader that is still running keeps its
\* socket and its sender.
Kick ==
    /\ Alive
    /\ pc' = "kicked" /\ frame' = NoFrame
    /\ sessions' = [k \in Keys |-> None] /\ silenced' = {}
    /\ reader' = [s \in Socks |-> IF reader[s] = "done" THEN None ELSE reader[s]]
    /\ UNCHANGED <<mode, proxy, now, active, lastCleanup, channel, writer, broken, rx, given, used, lookups>>

Tick ==
    /\ now < MaxTime /\ now' = now + 1
    /\ UNCHANGED <<mode, proxy, pc, frame, sessions, active, lastCleanup, used, lookups, tasks>>

Next ==
    \/ ReadPacketaddr \/ ReadMultiplexed \/ ReadStandard \/ ReadEnd \/ Resolved \/ OpenFails
    \/ \E s \in Socks :
          \/ Opened(s) \/ ReceiveEmpty(s) \/ ReceiveJunk(s)
          \/ ReceivePacketaddr(s) \/ ReceiveMultiplexed(s) \/ ReceiveStandard(s)
    \/ WriterWrites \/ WriterFails \/ WriterEnds
    \/ Kick \/ Tick

\* The writer is a task that is ready once its channel is closed.  A client that does
\* not read may hold up a write for ever.
Fairness == WF_vars(WriterEnds)
Spec == Init /\ [][Next]_vars /\ Fairness

(***************************************************************************)
(* Properties.                                                              *)
(***************************************************************************)
TypeOK ==
    /\ mode \in Modes /\ proxy \in BOOLEAN /\ now \in 0..MaxTime /\ lastCleanup \in 0..now
    /\ pc \in {"read", "resolve", "open", "ended", "kicked"}
    /\ frame \in PacketaddrFrames \union MultiplexedFrames \union {NoFrame}
    /\ sessions \in [Keys -> Socks \union {None}]
    /\ reader \in [Socks -> {None, "run", "done"}]
    /\ active \in [Socks -> 0..now] /\ used \in [Socks -> 0..now]
    /\ channel \in Seq(Socks) /\ Len(channel) <= ChannelSize
    /\ writer \in {"run", "ended", None} /\ broken \in BOOLEAN
    /\ rx \in 0..MaxDatagrams /\ given \in 0..MaxDatagrams
    /\ silenced \subseteq Socks /\ lookups \subseteq (Dests \X BOOLEAN)

\* While its session is in the table a socket is listened to, unless an empty
\* datagram has ended its reader (`Ok((0, _)) => break`) or the client's stream has
\* failed: neither what the proxy sends malformed nor a full channel ends it.
SessionsListen ==
    \A k \in Open :
        reader[sessions[k]] = "run" \/ sessions[k] \in silenced \/ broken

\* A reader task ends with its session: after a cleanup, and after the stream has
\* ended, none goes on receiving.  Only a kick, which drops the table without
\* aborting, leaves readers behind.
ReadersOwned ==
    \A s \in Socks : reader[s] = "run" => pc = "kicked" \/ \E k \in Open : sessions[k] = s

\* The traffic counted for the client is what was written to its stream and what
\* still waits to be; a datagram dropped because the channel was full is not counted.
DownlinkCounted == ~broken => rx = given + Len(channel)

\* No name leaves through the system's resolver when the outbound has a proxy, except
\* in the multiplexed framing, which resolves every name itself.
DatagramNamesLeft == \A l \in lookups : l[2] => mode = "multiplexed"

\* A session that carried a datagram, in either direction, within the idle limit is
\* not closed while the stream goes on.
KeepsActive ==
    \A k \in Open : sessions'[k] = None /\ pc' = "read" => now - used[sessions[k]] > IdleLimit

\* When the handler is gone the client's stream is released, unless frames wait that
\* the client does not read, or a kick has left a reader that keeps the channel open.
Orphaned == pc = "kicked" /\ \E s \in Socks : reader[s] = "run"
StreamReleased ==
    <>[](~Alive) => <>[](writer # "run") \/ <>[](channel # <<>>) \/ <>[]Orphaned

\* Within the bounds of the tables and the channel, a socket is listened to while its
\* session is in the table, a reader task ends with its session except after a kick,
\* and what is counted for the client is what it was given or waits for it.
SessionsSound == TypeOK /\ SessionsListen /\ ReadersOwned /\ DownlinkCounted

(***************************************************************************)
(* What makes them inductive (OutboundProofs).                              *)
(***************************************************************************)
\* The constants: the three framings, bounds that are numbers, and names of sockets
\* that are not the mark of an empty place.
UdpAssumption ==
    /\ Modes \subseteq {"multiplexed", "packetaddr", "standard"}
    /\ None \notin Socks
    /\ {ChannelSize, IdleLimit, CleanupEvery, MaxTime, MaxDatagrams} \subseteq Nat

\* The frame in the handler's hands is of its framing, and one for which a socket is
\* being opened has no session yet: nothing enters one behind the handler's back.
FrameFits ==
    /\ pc \in {"resolve", "open"} =>
          frame \in (IF mode = "multiplexed" THEN MultiplexedFrames ELSE PacketaddrFrames)
    /\ pc = "open" => sessions[KeyOf(frame)] = None

\* Each session has a socket of its own with a reader task, and without a handler
\* there is none.
TableSound ==
    /\ \A k \in Open : reader[sessions[k]] # None
    /\ \A k, l \in Open : sessions[k] = sessions[l] => k = l
    /\ ~Alive => Open = {}

\* The writer runs while the client's stream takes what it writes, and ends before
\* the handler only if the stream fails; handle_standard has none.
WriterSound ==
    /\ writer = None <=> mode = "standard"
    /\ writer = "run" => ~broken
    /\ writer = "ended" /\ Alive => broken

\* last_active is the time of the last datagram wherever the cleanup reads it.
ActiveExact == mode # "standard" => active = used

IInv ==
    /\ TypeOK /\ SessionsListen /\ ReadersOwned /\ DownlinkCounted /\ DatagramNamesLeft
    /\ FrameFits /\ TableSound /\ WriterSound /\ ActiveExact
=============================================================================
