--------------------------------- MODULE Mux ----------------------------------
(***************************************************************************)
(* The multiplexing pool (transport/mux.rs): connections to one server,     *)
(* each with a writer task that serves a high and a low priority queue, a   *)
(* reader task that hands frames to the streams, and streams leased from    *)
(* the first connection with room.                                          *)
(***************************************************************************)
EXTENDS Integers, Sequences, SequencesExt, FiniteSets

CONSTANTS
    Conns,              \* connections; one that nothing refers to is used again
    Streams,            \* callers of lease_stream, with the stream each holds
    MinConnections, MaxConnections, MaxStreams,
    Burst,              \* 32: high priority frames in a row before a low one
    QueueSize,          \* capacity of a connection's queues
    DataSize,           \* capacity of a stream's queue
    MaxLeases, MaxFrames    \* bounds

None == "none"

VARIABLES
    pool,       \* connections, in order
    conn,       \* the connections
    stream,     \* the callers
    warm,       \* the pre_warm task: "check", "connecting" or "done"
    heard,      \* the server's: streams whose open frame it got
    leases,     \* history: leases so far; each stream knows its number
    frames,     \* history: data frames from the server so far
    strayed,    \* history: a stream was handed a frame meant for another one
    gap         \* history: a stream got a frame after one it had not got

vars == <<pool, conn, stream, warm, heard, leases, frames, strayed, gap>>

NoConn == [state |-> None, writer |-> FALSE, reader |-> FALSE, high |-> <<>>, low |-> <<>>,
           burst |-> 0, waited |-> 0, next |-> 1, count |-> 0, ids |-> {}, leaked |-> 0]
NewConn == [state |-> "used", writer |-> TRUE, reader |-> TRUE, high |-> <<>>, low |-> <<>>,
            burst |-> 0, waited |-> 0, next |-> 1, count |-> 0, ids |-> {}, leaked |-> 0]
NoStream == [pc |-> "idle", conn |-> None, id |-> 0, udp |-> FALSE, lease |-> 0,
             data |-> <<>>, seen |-> 0, full |-> FALSE]
NewStream(k, id, udp, n) == [pc |-> "opening", conn |-> k, id |-> id, udp |-> udp, lease |-> n,
                             data |-> <<>>, seen |-> 0, full |-> FALSE]

Init ==
    /\ pool = <<>> /\ conn = [k \in Conns |-> NoConn]
    /\ stream = [s \in Streams |-> NoStream]
    /\ warm = "check" /\ heard = {} /\ leases = 0 /\ frames = 0 /\ strayed = FALSE /\ gap = FALSE

\* Streams st of connection k, those being opened included.
Of(st, k) == {s \in Streams : st[s].pc \in {"opening", "live"} /\ st[s].conn = k}
Held(k) == Of(stream, k)
Pooled(p) == {p[i] : i \in DOMAIN p}
\* Connections whose record can be reclaimed: both tasks gone, in no pool, no stream.
Reclaimed(c, p, st) ==
    [k \in Conns |->
        IF ~c[k].writer /\ ~c[k].reader /\ k \notin Pooled(p) /\ Of(st, k) = {} THEN NoConn ELSE c[k]]

(***************************************************************************)
(* lease_stream.                                                            *)
(***************************************************************************)
\* p is what retain leaves of the pool: the connections whose tasks run, in its order.
Kept(p) ==
    /\ Pooled(p) = {k \in Pooled(pool) : conn[k].writer /\ conn[k].reader}
    /\ \A i, j \in DOMAIN p : i < j => \E x, y \in DOMAIN pool : x < y /\ pool[x] = p[i] /\ pool[y] = p[j]
Roomy(p) == {i \in DOMAIN p : conn[p[i]].count < MaxStreams}

\* next_stream_id.fetch_add(1).
NewId(k) == conn[k].next

\* A new connection may be opened.
PoolHasRoom(p) == Len(p) < MaxConnections

\* The stream gets a number and a place on connection k.
Placed(s, udp, k, p) ==
    /\ stream' = [stream EXCEPT ![s] = NewStream(k, NewId(k), udp, leases + 1)]
    /\ conn' = Reclaimed([conn EXCEPT ![k].next = @ + 1, ![k].count = @ + 1, ![k].ids = @ \union {NewId(k)}],
                         p, stream')
    /\ leases' = leases + 1
\* A connection is opened for it, or it is refused.
NotPlaced(s, p) ==
    /\ stream' = [stream EXCEPT ![s].pc = IF PoolHasRoom(p) THEN "connecting" ELSE "idle"]
    /\ conn' = Reclaimed(conn, p, stream)
    /\ UNCHANGED leases

\* One turn of the loop, under the pool's lock: dead connections are dropped, the
\* first with room gets the stream; else a new one is opened, or the lease fails.
Lease(s, udp) ==
    /\ stream[s].pc \in {"idle", "lease"} /\ leases < MaxLeases
    /\ \E p \in SeqOf(Conns, Len(pool)) :
          /\ Kept(p) /\ pool' = p
          /\ \/ \E i \in Roomy(p) : (\A j \in Roomy(p) : i <= j) /\ Placed(s, udp, p[i], p)
             \/ Roomy(p) = {} /\ NotPlaced(s, p)
    /\ UNCHANGED <<warm, heard, frames, strayed, gap>>

\* connect_one succeeded; the connection joins the pool and the loop starts again.
Connected(s, k) ==
    /\ stream[s].pc = "connecting" /\ conn[k].state = None
    /\ conn' = [conn EXCEPT ![k] = NewConn] /\ pool' = Append(pool, k)
    /\ stream' = [stream EXCEPT ![s].pc = "lease"]
    /\ UNCHANGED <<warm, heard, leases, frames, strayed, gap>>
ConnectFails(s) ==
    /\ stream[s].pc = "connecting"
    /\ stream' = [stream EXCEPT ![s] = NoStream]
    /\ UNCHANGED <<pool, conn, warm, heard, leases, frames, strayed, gap>>

\* A data or close frame of a stream: the writer treats them alike.
Other == [id |-> 0, lease |-> 0]
Queue(s) == IF stream[s].udp THEN conn[stream[s].conn].high ELSE conn[stream[s].conn].low
Put(c, s, cmd) ==
    LET k == stream[s].conn
        f == IF cmd = "open" THEN [id |-> stream[s].id, lease |-> stream[s].lease] ELSE Other
    IN IF stream[s].udp THEN [c EXCEPT ![k].high = Append(@, f)] ELSE [c EXCEPT ![k].low = Append(@, f)]
CanPut(s) == conn[stream[s].conn].writer /\ Len(Queue(s)) < QueueSize

\* The open frame is queued and the stream handed out.
Opened(s) ==
    /\ stream[s].pc = "opening" /\ CanPut(s)
    /\ conn' = Put(conn, s, "open") /\ stream' = [stream EXCEPT ![s].pc = "live"]
    /\ UNCHANGED <<pool, warm, heard, leases, frames, strayed, gap>>
\* The writer is gone, or the caller gives up while the queue is full: there is no
\* stream yet whose drop would return its place and its number.
OpenFails(s) ==
    /\ stream[s].pc = "opening" /\ ~CanPut(s)
    /\ LET k == stream[s].conn
       IN /\ stream' = [stream EXCEPT ![s] = NoStream]
          /\ conn' = Reclaimed([conn EXCEPT ![k].leaked = @ + 1], pool, stream')
    /\ UNCHANGED <<pool, warm, heard, leases, frames, strayed, gap>>

\* pre_warm: connections up to the minimum, until one fails.
WarmCheck ==
    /\ warm = "check"
    /\ warm' = IF Len(pool) >= MinConnections THEN "done" ELSE "connecting"
    /\ UNCHANGED <<pool, conn, stream, heard, leases, frames, strayed, gap>>
WarmConnected(k) ==
    /\ warm = "connecting" /\ conn[k].state = None
    /\ conn' = [conn EXCEPT ![k] = NewConn] /\ pool' = Append(pool, k) /\ warm' = "check"
    /\ UNCHANGED <<stream, heard, leases, frames, strayed, gap>>
WarmFails ==
    /\ warm = "connecting" /\ warm' = "done"
    /\ UNCHANGED <<pool, conn, stream, heard, leases, frames, strayed, gap>>

(***************************************************************************)
(* The stream.                                                              *)
(***************************************************************************)
Write(s) ==
    /\ stream[s].pc = "live" /\ CanPut(s)
    /\ conn' = Put(conn, s, "data")
    /\ UNCHANGED <<pool, stream, warm, heard, leases, frames, strayed, gap>>

\* Mutant of Returned: the place is not given back.
ReturnedNot(c, k, id) == [c EXCEPT ![k].ids = @ \ {id}]
\* Drop: the number and the place are given back.
Returned(c, k, id) == [c EXCEPT ![k].ids = @ \ {id}, ![k].count = @ - 1]

\* poll_shutdown tries to send a close frame; so does drop, which also returns the
\* stream's place.  Without room in the queue the server is not told.
Shutdown(s) ==
    /\ stream[s].pc = "live" /\ CanPut(s)
    /\ conn' = Put(conn, s, "close")
    /\ UNCHANGED <<pool, stream, warm, heard, leases, frames, strayed, gap>>
Drop(s) ==
    /\ stream[s].pc = "live"
    /\ LET k == stream[s].conn
           c == IF CanPut(s) THEN Put(conn, s, "close") ELSE conn
       IN /\ stream' = [stream EXCEPT ![s] = NoStream]
          /\ conn' = Reclaimed(Returned(c, k, stream[s].id), pool, stream')
    /\ UNCHANGED <<pool, warm, heard, leases, frames, strayed, gap>>

\* poll_read takes the next chunk; an empty one is the end of the stream.
Read(s) ==
    /\ stream[s].pc = "live" /\ stream[s].data # <<>>
    /\ LET f == Head(stream[s].data)
       IN /\ gap' = (gap \/ (f # 0 /\ f # stream[s].seen + 1 /\ ~stream[s].full))
          /\ stream' = [stream EXCEPT ![s].data = Tail(@), ![s].seen = IF f = 0 THEN @ ELSE f]
    /\ UNCHANGED <<pool, conn, warm, heard, leases, frames, strayed>>

(***************************************************************************)
(* The tasks of a connection.                                               *)
(***************************************************************************)
Senders(k, udp) == k \in Pooled(pool) \/ \E s \in Held(k) : stream[s].udp = udp

\* Which queue the writer asks first.
LowFirst(k) == conn[k].burst >= Burst

\* The queue the biased select takes a frame from.
TakesLow(k) == conn[k].low # <<>> /\ (LowFirst(k) \/ conn[k].high = <<>>)
\* The select meets a closed and empty queue before it finds a frame.
Closed(k) ==
    LET high == ~Senders(k, TRUE) /\ conn[k].high = <<>>
        low == ~Senders(k, FALSE) /\ conn[k].low = <<>>
    IN IF LowFirst(k) THEN low \/ (high /\ conn[k].low = <<>>)
       ELSE high \/ (low /\ conn[k].high = <<>>)

WriterWrites(k) ==
    /\ conn[k].writer /\ ~Closed(k) /\ (conn[k].high # <<>> \/ conn[k].low # <<>>)
    /\ LET low == TakesLow(k)
           f == IF low THEN Head(conn[k].low) ELSE Head(conn[k].high)
       IN /\ conn' = IF low
                     THEN [conn EXCEPT ![k].low = Tail(@), ![k].burst = 0, ![k].waited = 0]
                     ELSE [conn EXCEPT ![k].high = Tail(@),
                                       ![k].burst = IF @ < Burst + 1 THEN @ + 1 ELSE @,
                                       ![k].waited = IF conn[k].low # <<>> THEN @ + 1 ELSE 0]
          /\ heard' = IF f # Other /\ conn[k].reader
                      THEN heard \union {[conn |-> k, id |-> f.id, lease |-> f.lease, n |-> 0]}
                      ELSE heard
    /\ UNCHANGED <<pool, stream, warm, leases, frames, strayed, gap>>

\* The connection fails, or every sender of a queue is gone.
WriterEnds(k) ==
    /\ conn[k].writer
    /\ LET c == [conn EXCEPT ![k].writer = FALSE, ![k].high = <<>>, ![k].low = <<>>,
                             ![k].burst = 0, ![k].waited = 0]
       IN conn' = Reclaimed(c, pool, stream)
    /\ UNCHANGED <<pool, stream, warm, heard, leases, frames, strayed, gap>>

\* try_send to a stream.
Deliver(q, f) == IF Len(q) < DataSize THEN Append(q, f) ELSE q

\* A frame of the server for a stream it was asked to open, data or close (0): to the
\* stream registered under its number, if any.
ReaderReads(k, h, close) ==
    /\ conn[k].reader /\ h \in heard /\ h.conn = k /\ frames < MaxFrames
    /\ frames' = frames + 1
    /\ LET n == IF close THEN 0 ELSE h.n + 1
           to == {s \in Held(k) : stream[s].id = h.id /\ h.id \in conn[k].ids}
       IN /\ stream' = [s \in Streams |->
                IF s \in to
                THEN [stream[s] EXCEPT !.data = Deliver(@, n), !.full = @ \/ Len(stream[s].data) >= DataSize]
                ELSE stream[s]]
          /\ strayed' = (strayed \/ \E s \in to : stream[s].lease # h.lease)
          /\ heard' = (heard \ {h}) \union {IF close THEN h ELSE [h EXCEPT !.n = n]}
    /\ UNCHANGED <<pool, conn, warm, leases, gap>>

\* The server closes the connection, or it fails.
ReaderEnds(k) ==
    /\ conn[k].reader
    /\ conn' = Reclaimed([conn EXCEPT ![k].reader = FALSE], pool, stream)
    /\ heard' = {h \in heard : h.conn # k}
    /\ UNCHANGED <<pool, stream, warm, leases, frames, strayed, gap>>

Next ==
    \/ \E s \in Streams :
          \/ \E udp \in BOOLEAN : Lease(s, udp)
          \/ \E k \in Conns : Connected(s, k)
          \/ ConnectFails(s) \/ Opened(s) \/ OpenFails(s)
          \/ Write(s) \/ Shutdown(s) \/ Drop(s) \/ Read(s)
    \/ WarmCheck \/ WarmFails \/ \E k \in Conns : WarmConnected(k)
    \/ \E k \in Conns :
          \/ WriterWrites(k) \/ WriterEnds(k) \/ ReaderEnds(k)
          \/ \E h \in heard, close \in BOOLEAN : ReaderReads(k, h, close)
Spec == Init /\ [][Next]_vars

(***************************************************************************)
(* Properties.                                                              *)
(***************************************************************************)
Frame == [id : 0..MaxLeases, lease : 0..MaxLeases]
TypeOK ==
    /\ pool \in Seq(Conns) /\ Len(pool) = Cardinality(Pooled(pool))
    /\ \A k \in Conns :
          /\ conn[k].high \in Seq(Frame) /\ Len(conn[k].high) <= QueueSize
          /\ conn[k].low \in Seq(Frame) /\ Len(conn[k].low) <= QueueSize
          /\ conn[k].next \in 1..(MaxLeases + 1) /\ conn[k].ids \subseteq 1..MaxLeases
          /\ conn[k].count \in 0..MaxStreams
    /\ \A s \in Streams :
          /\ stream[s].pc \in {"idle", "lease", "connecting", "opening", "live"}
          /\ stream[s].conn \in Conns \union {None}
          /\ stream[s].data \in Seq(0..MaxFrames) /\ Len(stream[s].data) <= DataSize
    /\ warm \in {"check", "connecting", "done"} /\ leases \in 0..MaxLeases /\ frames \in 0..MaxFrames

\* A low priority frame is overtaken by at most Burst high priority ones, whenever in
\* a run of them it was queued.
LowPriorityServed == \A k \in Conns : conn[k].waited <= Burst

\* stream_count is the number of streams of a connection, those being opened included,
\* plus the places lost by leases that failed or were dropped before there was a
\* stream; the same for the numbers registered.
CountsExact ==
    \A k \in Conns :
        /\ conn[k].count = Cardinality(Held(k)) + conn[k].leaked
        /\ Cardinality(conn[k].ids) = conn[k].count
        /\ \A s \in Held(k) : stream[s].id \in conn[k].ids

\* No stream is handed a frame the server sent to an earlier stream of the connection,
\* however late it comes.
StreamsSeparate == ~strayed

\* What a stream reads has a gap only when its queue was full: run_connection_reader
\* throws a frame away rather than wait.
GapOnlyWhenFull == ~gap

(***************************************************************************)
(* What makes them inductive (MuxProofs).                                    *)
(***************************************************************************)
\* The limits are numbers, and no connection has the name of none.
MuxAssumption ==
    /\ {MinConnections, MaxConnections, MaxStreams, Burst, QueueSize, DataSize, MaxLeases, MaxFrames} \subseteq Nat
    /\ IsFiniteSet(Streams) /\ None \notin Conns

ConnType == [state : {None, "used"}, writer : BOOLEAN, reader : BOOLEAN, high : Seq(Frame), low : Seq(Frame),
             burst : Nat, waited : Nat, next : Nat \ {0}, count : Nat, ids : SUBSET (1..MaxLeases), leaked : Nat]
StreamType == [pc : {"idle", "lease", "connecting", "opening", "live"}, conn : Conns \union {None},
               id : 0..MaxLeases, udp : BOOLEAN, lease : 0..MaxLeases, data : Seq(0..MaxFrames),
               seen : Nat, full : BOOLEAN]
HeardType == [conn : Conns, id : 0..MaxLeases, lease : 0..MaxLeases, n : 0..MaxFrames]
Typed(c, st, hd) == c \in [Conns -> ConnType] /\ st \in [Streams -> StreamType] /\ hd \subseteq HeardType

\* A connection that is not in use has no tasks; the writer counts what it let wait; and at
\* most every lease took a number.
ConnOK(r, lv) ==
    /\ r.state = None => ~r.writer /\ ~r.reader
    /\ r.waited <= r.burst /\ r.waited <= Burst
    /\ Len(r.high) <= QueueSize /\ Len(r.low) <= QueueSize
    /\ r.next <= lv + 1 /\ r.ids \subseteq 1..(r.next - 1) /\ r.count <= MaxStreams

\* The connections of the pool differ and are in use.
PoolOK(p, c) ==
    /\ p \in Seq(Conns) /\ \A i, j \in DOMAIN p : p[i] = p[j] => i = j
    /\ \A i \in DOMAIN p : c[p[i]].state = "used"

\* A stream's connection is in use, and has a place and a number for it, its alone.
PlacesOK(c, st) ==
    /\ \A s \in Streams : st[s].pc \in {"opening", "live"} => st[s].conn \in Conns /\ c[st[s].conn].state = "used"
    /\ \A k \in Conns :
          /\ c[k].count = Cardinality(Of(st, k)) + c[k].leaked
          /\ IsFiniteSet(c[k].ids) /\ Cardinality(c[k].ids) = c[k].count
          /\ \A s \in Of(st, k) : st[s].id \in c[k].ids
          /\ \A s, t \in Of(st, k) : st[s].id = st[t].id => s = t

\* A frame on connection k: its number was given out, and if a stream has it, it is the one
\* that sent the frame when it was opened.
Known(f, k, c, st) ==
    /\ f.id < c[k].next
    /\ \A s \in Of(st, k) : st[s].id = f.id => st[s].pc = "live" /\ st[s].lease = f.lease

\* The frames of a queue are known, those without a number are alike, and no open frame is
\* twice in it, nor in two queues.
QueueOK(q, k, c, st) ==
    \A i \in 1..Len(q) :
        /\ Known(q[i], k, c, st)
        /\ q[i].id = 0 => q[i] = Other
        /\ \A j \in 1..Len(q) : q[i].id = q[j].id => i = j \/ q[i].id = 0
Apart(q, r) == \A i \in 1..Len(q), j \in 1..Len(r) : q[i].id = r[j].id => q[i].id = 0

\* What the server heard it hears once, on a connection whose reader runs.
HeardOK(h, c, st, hd) ==
    /\ c[h.conn].reader /\ h.id # 0 /\ Known(h, h.conn, c, st)
    /\ \A i \in 1..Len(c[h.conn].high) : c[h.conn].high[i].id # h.id
    /\ \A i \in 1..Len(c[h.conn].low) : c[h.conn].low[i].id # h.id
    /\ \A g \in hd : g.conn = h.conn /\ g.id = h.id => g = h
FramesOK(c, st, hd) ==
    /\ \A k \in Conns : QueueOK(c[k].high, k, c, st) /\ QueueOK(c[k].low, k, c, st) /\ Apart(c[k].high, c[k].low)
    /\ \A h \in hd : HeardOK(h, c, st, hd)

\* The chunks in data, zeros apart, are those after seen up to n, in order.
InOrder(data, seen, n) ==
    /\ seen <= n
    /\ \A i \in 1..Len(data) : data[i] # 0 => seen < data[i] /\ data[i] <= n
    /\ \A i, j \in 1..Len(data) : i < j /\ data[i] # 0 /\ data[j] # 0 => data[i] < data[j]
    /\ \A v \in (seen + 1)..n : \E i \in 1..Len(data) : data[i] = v

\* A stream whose queue was never full has all chunks the server sent it, in order.
DataOK(c, st, hd) ==
    \A s \in Streams : st[s].pc \in {"opening", "live"} /\ ~st[s].full =>
        \E n \in Nat :
            /\ InOrder(st[s].data, st[s].seen, n)
            /\ \A h \in hd : h.conn = st[s].conn /\ h.id = st[s].id => h.n = n
            /\ \/ \E h \in hd : h.conn = st[s].conn /\ h.id = st[s].id
               \/ c[st[s].conn].reader => n = 0

IInv ==
    /\ Typed(conn, stream, heard)
    /\ PoolOK(pool, conn) /\ (\A k \in Conns : ConnOK(conn[k], leases)) /\ PlacesOK(conn, stream)
    /\ FramesOK(conn, stream, heard) /\ DataOK(conn, stream, heard)
    /\ \A s \in Streams : Len(stream[s].data) <= DataSize
    /\ \A h \in heard : h.n <= frames
    /\ warm \in {"check", "connecting", "done"} /\ leases \in 0..MaxLeases /\ frames \in 0..MaxFrames
    /\ ~strayed /\ ~gap
=============================================================================
