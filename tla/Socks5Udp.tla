------------------------------ MODULE Socks5Udp -------------------------------
(***************************************************************************)
(* UDP in the client (inbound/socks5.rs).  Every SOCKS5 UDP association is  *)
(* a handler with a socket of its own; what its applications send is        *)
(* numbered by the association id of their address and put on a bounded     *)
(* queue to the one VLESS tunnel, whose downstream half finds the           *)
(* association of a reply by that number.  A cleanup task forgets idle      *)
(* associations.                                                            *)
(*                                                                         *)
(* The client runs on several threads (bin/client.rs), so the two maps are  *)
(* behind blocking locks and the tasks interleave at each of them.  The     *)
(* server beyond the tunnel is UdpOutbound in its multiplexed framing: it   *)
(* sends a reply with an id only on a stream on which it got that id, to    *)
(* what the frame with it asked, at any time and any number of times.       *)
(***************************************************************************)
EXTENDS Integers, Sequences, FiniteSets

CONSTANTS
    Addrs,      \* addresses applications send from
    Handlers,   \* SOCKS5 UDP associations, each with its socket
    IdSpace,    \* 2^16: the number of association ids
    QueueSize,  \* capacity of the upstream queue
    IdleLimit,  \* an association idle for longer is forgotten
    MaxTime,    \* bound: the clock
    MaxIssued   \* bound: ids issued

None == "none"
Cleaner == "cleanup"
Ids == 0..(IdSpace - 1)
NoId == IdSpace

VARIABLES
    now,
    sessLock, assocLock,    \* who holds CLIENT_SESSIONS and ASSOC_MAP
    sessions,               \* CLIENT_SESSIONS: the id of an address
    assoc,                  \* ASSOC_MAP: the association of an id
    issued,                 \* NEXT_ASSOC_ID is (issued + 1) % IdSpace
    handler,                \* handler[h]: its state, and the sender of the datagram it holds
    queue,                  \* UDP_UPSTREAM_TX
    tunnel,                 \* "down" or "up"
    heard,                  \* the server's: frames it got on the present stream
    cleaner,                \* the cleanup task: where it is, and to_remove
    strayed                 \* history: a reply went to an address that did not ask

vars == <<now, sessLock, assocLock, sessions, assoc, issued, handler, queue, tunnel, heard,
          cleaner, strayed>>

NoAssoc == [addr |-> None, active |-> 0]
Idle(h) == [pc |-> h, from |-> None]

Init ==
    /\ now = 0 /\ sessLock = None /\ assocLock = None
    /\ sessions = [a \in Addrs |-> NoId] /\ assoc = [i \in Ids |-> NoAssoc] /\ issued = 0
    /\ handler = [h \in Handlers |-> Idle("none")]
    /\ queue = <<>> /\ tunnel = "down" /\ heard = {}
    /\ cleaner = [pc |-> "sleep", out |-> {}] /\ strayed = FALSE

(***************************************************************************)
(* handle_socks5_connection after a UDP ASSOCIATE: a select loop over the   *)
(* control connection and the socket.                                       *)
(***************************************************************************)
Associate(h) ==
    /\ handler[h].pc = "none"
    /\ handler' = [handler EXCEPT ![h] = Idle("loop")]
    /\ UNCHANGED <<now, sessLock, assocLock, sessions, assoc, issued, queue, tunnel, heard, cleaner, strayed>>

\* The control connection ends; the associations made here stay until they are idle.
Disassociate(h) ==
    /\ handler[h].pc = "loop"
    /\ handler' = [handler EXCEPT ![h] = Idle("none")]
    /\ UNCHANGED <<now, sessLock, assocLock, sessions, assoc, issued, queue, tunnel, heard, cleaner, strayed>>

\* A well-formed datagram of an application; fragments and malformed ones are
\* passed over.  get_or_create_association locks the sessions first,
Datagram(h, a) ==
    /\ handler[h].pc = "loop"
    /\ issued + Cardinality({g \in Handlers : handler[g].pc \in {"lock", "locked"}}) < MaxIssued
    /\ handler' = [handler EXCEPT ![h] = [pc |-> "lock", from |-> a]]
    /\ UNCHANGED <<now, sessLock, assocLock, sessions, assoc, issued, queue, tunnel, heard, cleaner, strayed>>

\* Mutant of LockSessions: both locks are taken here, and the second one again below.
LockSessionsBoth(h) ==
    /\ handler[h].pc = "lock" /\ sessLock = None /\ assocLock = None
    /\ sessLock' = h /\ assocLock' = h /\ handler' = [handler EXCEPT ![h].pc = "locked"]
    /\ UNCHANGED <<now, sessions, assoc, issued, queue, tunnel, heard, cleaner, strayed>>
\* (the first lock)
LockSessions(h) ==
    /\ handler[h].pc = "lock" /\ sessLock = None
    /\ sessLock' = h /\ handler' = [handler EXCEPT ![h].pc = "locked"]
    /\ UNCHANGED <<now, assocLock, sessions, assoc, issued, queue, tunnel, heard, cleaner, strayed>>

\* Mutant of NewId: the lowest id that is not in use.
NewIdLowest == CHOOSE i \in Ids : \/ assoc[i] = NoAssoc /\ \A j \in Ids : assoc[j] = NoAssoc => i <= j
                                  \/ \A j \in Ids : assoc[j] # NoAssoc
\* NEXT_ASSOC_ID.fetch_add(1): from 1, wrapping.
NewId == (issued + 1) % IdSpace

\* try_send succeeds.
HasRoom == Len(queue) < QueueSize

\* then the associations, finds or makes the entry, and releases both.  The packet
\* is tried on the queue and dropped when it is full.
Enqueue(h) ==
    LET a == handler[h].from
        known == sessions[a] # NoId
        i == IF known THEN sessions[a] ELSE NewId
    IN /\ handler[h].pc = "locked" /\ assocLock = None
       /\ issued' = IF known THEN issued ELSE issued + 1
       /\ sessions' = [sessions EXCEPT ![a] = i]
       /\ assoc' = IF known
                   THEN IF assoc[i] = NoAssoc THEN assoc ELSE [assoc EXCEPT ![i].active = now]
                   ELSE [assoc EXCEPT ![i] = [addr |-> a, active |-> now]]
       /\ queue' = IF HasRoom THEN Append(queue, [id |-> i, from |-> a]) ELSE queue
       /\ sessLock' = None /\ handler' = [handler EXCEPT ![h] = Idle("loop")]
       /\ UNCHANGED <<now, assocLock, tunnel, heard, cleaner, strayed>>

(***************************************************************************)
(* run_global_vless_udp_tunnel.                                             *)
(***************************************************************************)
\* connect_to_vless succeeds; a failure is followed by a pause and another try.
Connect ==
    /\ tunnel = "down" /\ tunnel' = "up"
    /\ UNCHANGED <<now, sessLock, assocLock, sessions, assoc, issued, handler, queue, heard, cleaner, strayed>>

\* The upstream half writes a packet, or fails with it in its hands.
Upstream ==
    /\ tunnel = "up" /\ queue # <<>>
    /\ queue' = Tail(queue)
    /\ \/ heard' = heard \union {Head(queue)} /\ UNCHANGED tunnel
       \/ heard' = {} /\ tunnel' = "down"
    /\ UNCHANGED <<now, sessLock, assocLock, sessions, assoc, issued, handler, cleaner, strayed>>

\* The downstream half: a reply marks its association active and is sent to its
\* address from its socket; one without an association is dropped.
Downstream(m) ==
    /\ tunnel = "up" /\ assocLock = None
    /\ m \in heard
    /\ assoc' = IF assoc[m.id] = NoAssoc THEN assoc ELSE [assoc EXCEPT ![m.id].active = now]
    /\ strayed' = (strayed \/ assoc[m.id].addr \notin {m.from, None})
    /\ UNCHANGED <<now, sessLock, assocLock, sessions, issued, handler, queue, tunnel, heard, cleaner>>

\* The server closes the stream, or a frame cannot be read.
Disconnect ==
    /\ tunnel = "up" /\ tunnel' = "down" /\ heard' = {}
    /\ UNCHANGED <<now, sessLock, assocLock, sessions, assoc, issued, handler, queue, cleaner, strayed>>

(***************************************************************************)
(* spawn_association_cleanup_task: collect under one lock, release it, then  *)
(* take both, associations first, and remove what was collected.            *)
(***************************************************************************)
Scan ==
    /\ cleaner.pc = "sleep" /\ assocLock = None
    /\ LET out == {[id |-> i, addr |-> assoc[i].addr] :
                     i \in {j \in Ids : assoc[j] # NoAssoc /\ now - assoc[j].active > IdleLimit}}
       IN out # {} /\ cleaner' = [pc |-> "scanned", out |-> out]
    /\ UNCHANGED <<now, sessLock, assocLock, sessions, assoc, issued, handler, queue, tunnel, heard, strayed>>

CleanerLocks ==
    /\ cleaner.pc = "scanned" /\ assocLock = None
    /\ assocLock' = Cleaner /\ cleaner' = [cleaner EXCEPT !.pc = "locked"]
    /\ UNCHANGED <<now, sessLock, sessions, assoc, issued, handler, queue, tunnel, heard, strayed>>

\* The addresses whose session is removed.
Forgotten(out) == {o.addr : o \in out}

Remove ==
    /\ cleaner.pc = "locked" /\ sessLock = None
    /\ assoc' = [i \in Ids |-> IF \E o \in cleaner.out : o.id = i THEN NoAssoc ELSE assoc[i]]
    /\ sessions' = [a \in Addrs |-> IF a \in Forgotten(cleaner.out) THEN NoId ELSE sessions[a]]
    /\ assocLock' = None /\ cleaner' = [pc |-> "sleep", out |-> {}]
    /\ UNCHANGED <<now, sessLock, issued, handler, queue, tunnel, heard, strayed>>

Tick ==
    /\ now < MaxTime /\ now' = now + 1
    /\ UNCHANGED <<sessLock, assocLock, sessions, assoc, issued, handler, queue, tunnel, heard, cleaner, strayed>>

Next ==
    \/ \E h \in Handlers :
          \/ Associate(h) \/ Disassociate(h) \/ LockSessions(h) \/ Enqueue(h)
          \/ \E a \in Addrs : Datagram(h, a)
    \/ Connect \/ Upstream \/ Disconnect \/ \E m \in heard : Downstream(m)
    \/ Scan \/ CleanerLocks \/ Remove \/ Tick

\* A thread that waits for a lock goes on when it is free.
Fairness ==
    /\ \A h \in Handlers : SF_vars(LockSessions(h)) /\ SF_vars(Enqueue(h))
    /\ SF_vars(CleanerLocks) /\ WF_vars(Remove)
Spec == Init /\ [][Next]_vars /\ Fairness

(***************************************************************************)
(* Properties.                                                              *)
(***************************************************************************)
TypeOK ==
    /\ now \in 0..MaxTime /\ issued \in 0..MaxIssued
    /\ sessLock \in Handlers \union {None} /\ assocLock \in Handlers \union {None, Cleaner}
    /\ sessions \in [Addrs -> Ids \union {NoId}]
    /\ assoc \in [Ids -> [addr : Addrs \union {None}, active : 0..now]]
    /\ handler \in [Handlers -> [pc : {"none", "loop", "lock", "locked"}, from : Addrs \union {None}]]
    /\ queue \in Seq([id : Ids, from : Addrs]) /\ Len(queue) <= QueueSize
    /\ heard \subseteq [id : Ids, from : Addrs] /\ tunnel \in {"up", "down"}
    /\ cleaner \in [pc : {"sleep", "scanned", "locked"}, out : SUBSET [id : Ids, addr : Addrs]]
    /\ strayed \in BOOLEAN

\* Until the 16-bit counter has gone round, an address's number and the association
\* of that number name each other: an address never keeps a number whose association
\* is gone, for then every reply to it would be dropped for good.
MapsAgree ==
    issued < IdSpace =>
        /\ \A a \in Addrs : sessions[a] # NoId => assoc[sessions[a]].addr = a
        /\ \A i \in Ids : assoc[i] # NoAssoc => sessions[assoc[i].addr] = i

\* Until the counter has gone round, a reply reaches only the address whose datagram
\* it answers, however late it comes and whatever was forgotten or reconnected in
\* between: get_or_create_association never gives a number twice.
RepliesReachSender == issued <= IdSpace => ~strayed

\* Within their bounds, the two maps of get_or_create_association name each other, and
\* a reply reaches only the address whose datagram it answers.
AssociationsSound == TypeOK /\ MapsAgree /\ RepliesReachSender

\* The handler holds the sessions and wants the associations, and the cleanup the
\* other way round: neither can go on, and no other task that needs a map can.
LockCycle == assocLock = Cleaner /\ sessLock # None

\* A datagram is put on the queue or dropped, and its handler goes back to its loop,
\* unless the two locks were taken in opposite orders.
DatagramsHandled ==
    \A h \in Handlers : []<>(handler[h].pc \in {"none", "loop"} \/ LockCycle)

-----------------------------------------------------------------------------
\* What makes them inductive (DoorsProofs).

\* There are finitely many handlers, and none is no address.
SocksAssumption ==
    /\ IsFiniteSet(Handlers) /\ None \notin Addrs /\ IdSpace \in Nat \ {0}
    /\ {QueueSize, IdleLimit, MaxTime, MaxIssued} \subseteq Nat

\* The handlers that may still have a number issued keep within the bound.
Asking == {h \in Handlers : handler[h].pc \in {"lock", "locked"}}
BoundKept == issued + Cardinality(Asking) <= MaxIssued

\* An entry without an address is no entry, and a handler that asks does so for an address.
Addressed ==
    /\ \A i \in Ids : assoc[i].addr = None => assoc[i] = NoAssoc
    /\ \A h \in Asking : handler[h].from # None

\* The how-manieth number i is of the first round.
Rank(i) == IF i = 0 THEN IdSpace ELSE i

\* A number in use was issued before.
IssuedBefore ==
    /\ \A i \in Ids : assoc[i] # NoAssoc => Rank(i) <= issued
    /\ \A a \in Addrs : sessions[a] # NoId => assoc[sessions[a]].addr = a
    /\ \A i \in Ids : assoc[i] # NoAssoc => sessions[assoc[i].addr] = i

\* So was that of a packet on its way or with the server, and it went to nobody but
\* the packet's sender.
Packets == {queue[n] : n \in DOMAIN queue} \union heard
PacketsOwned == \A m \in Packets : Rank(m.id) <= issued /\ assoc[m.id].addr \in {m.from, None}

\* What the cleanup task collected has not changed owner while it waited for the locks.
CollectedStands == \A o \in cleaner.out : assoc[o.id].addr = o.addr

IInv ==
    /\ TypeOK /\ BoundKept /\ Addressed
    /\ issued <= IdSpace => IssuedBefore /\ PacketsOwned /\ CollectedStands /\ ~strayed
=============================================================================
