----------------------------- MODULE Handshake -----------------------------
(***************************************************************************)
(* Admission control of inbound Reality handshakes.                        *)
(*                                                                         *)
(* accept_reality_bounded (inbound/mod.rs) takes one permit of a global    *)
(* semaphore and one slot of a per-host counter, holds both in a           *)
(* HandshakeGuard while RealityServerRustls::accept (transport/reality.rs) *)
(* reads the ClientHello and either finishes the TLS handshake or relays   *)
(* the peer to the camouflage destination, and gives both back when the    *)
(* guard is dropped: on success, on error, or when the 3 s timer fires.    *)
(*                                                                         *)
(* The runtime is current-thread, so everything up to the first await of   *)
(* accept_reality_bounded is one action, and so is every resumption.       *)
(***************************************************************************)
EXTENDS Naturals, FiniteSets, Functions

CONSTANTS
    Conns,        \* accepted TCP sockets that can be open at the same time
    Addrs,        \* peer addresses as the kernel reports them
    HostOf,       \* to_ipv4 applied: an IPv4-mapped IPv6 address is its IPv4 host
    Permits,      \* permits of handshake_semaphore (4)
    PerHost,      \* handshakes one host may have in progress (2)
    MapCapacity,  \* hosts active_handshakes_per_ip may track (1000)
    NoAddr        \* the address of a connection slot nobody uses

Hosts == Range(HostOf)

ASSUME HandshakeAssumption ==
    /\ DOMAIN HostOf = Addrs
    /\ IsFiniteSet(Conns)
    /\ Permits \in Nat \ {0}
    /\ PerHost \in Nat \ {0}
    /\ MapCapacity \in Nat \ {0}
    /\ NoAddr \notin Addrs

VARIABLES
    permits,  \* available permits of handshake_semaphore
    active,   \* active_handshakes_per_ip: tracked host -> handshakes in progress
    phase,    \* where each connection is
    src       \* the peer address of each open connection

vars == <<permits, active, phase, src>>

\* The awaits inside RealityServerRustls::accept, all under the guard.
Guarded == {"reading", "tls", "fallback"}
Phases  == Guarded \cup {"idle", "refused", "established"}

TypeOK ==
    /\ permits \in 0..Permits
    /\ DOMAIN active \subseteq Hosts
    /\ \A h \in DOMAIN active : active[h] \in Nat
    /\ phase \in [Conns -> Phases]
    /\ src \in [Conns -> Addrs \cup {NoAddr}]

Init ==
    /\ permits = Permits
    /\ active = [h \in {} |-> 0]
    /\ phase = [c \in Conns |-> "idle"]
    /\ src = [c \in Conns |-> NoAddr]

-----------------------------------------------------------------------------
\* map.get(&ip).cloned().unwrap_or(0)
Count(h) == IF h \in DOMAIN active THEN active[h] ELSE 0

\* map.insert(ip, current_cnt + 1)
Track(h) == [x \in DOMAIN active \cup {h} |-> IF x = h THEN Count(h) + 1 ELSE active[x]]

\* A plausible bug: the last guard leaves a zero entry behind.
UntrackKeepsEntry(h) == IF h \in DOMAIN active THEN [active EXCEPT ![h] = @ - 1] ELSE active

\* HandshakeGuard::drop: the count goes down, and the last one removes the entry.
Untrack(h) ==
    IF h \notin DOMAIN active THEN active
    ELSE IF active[h] > 1 THEN [active EXCEPT ![h] = @ - 1]
    ELSE Restrict(active, DOMAIN active \ {h})

\* Err is returned before the guard exists: a permit that was acquired is
\* released with the local that holds it, and the map is left alone.
Refuse(c) ==
    /\ phase' = [phase EXCEPT ![c] = "refused"]
    /\ UNCHANGED <<permits, active, src>>

\* try_acquire_owned fails.
RejectNoPermit(c) ==
    /\ phase[c] = "idle"
    /\ permits = 0
    /\ Refuse(c)

\* current_cnt >= 2
RejectHostLimit(c, a) ==
    /\ phase[c] = "idle"
    /\ permits > 0
    /\ Count(HostOf[a]) >= PerHost
    /\ Refuse(c)

\* map.len() >= 1000 && current_cnt == 0
RejectMapFull(c, a) ==
    /\ phase[c] = "idle"
    /\ permits > 0
    /\ Count(HostOf[a]) = 0
    /\ Cardinality(DOMAIN active) >= MapCapacity
    /\ Refuse(c)

Admit(c, a) ==
    LET h == HostOf[a] IN
    /\ phase[c] = "idle"
    /\ permits > 0
    /\ Count(h) < PerHost
    /\ Count(h) = 0 => Cardinality(DOMAIN active) < MapCapacity
    /\ permits' = permits - 1
    /\ active' = Track(h)
    /\ phase' = [phase EXCEPT ![c] = "reading"]
    /\ src' = [src EXCEPT ![c] = a]

\* The ClientHello carries an allowed SNI and a valid Reality session id.
HelloAccepted(c) ==
    /\ phase[c] = "reading"
    /\ phase' = [phase EXCEPT ![c] = "tls"]
    /\ UNCHANGED <<permits, active, src>>

\* Any other bytes: the peer is relayed to the camouflage destination.
HelloUnknown(c) ==
    /\ phase[c] = "reading"
    /\ phase' = [phase EXCEPT ![c] = "fallback"]
    /\ UNCHANGED <<permits, active, src>>

\* The guard is dropped and accept_reality_bounded returns.
Release(c, next) ==
    /\ permits' = permits + 1
    /\ active' = Untrack(HostOf[src[c]])
    /\ phase' = [phase EXCEPT ![c] = next]
    /\ src' = [src EXCEPT ![c] = IF next = "idle" THEN NoAddr ELSE @]

TlsDone(c) ==
    /\ phase[c] = "tls"
    /\ Release(c, "established")

\* A read error, a refused record, a failed TLS handshake, or a finished
\* fallback relay ("Fallback completed" is an error too).
HandshakeFails(c) ==
    /\ phase[c] \in Guarded
    /\ Release(c, "idle")

\* A plausible bug: only the ClientHello read is under the timer.
HandshakeTimeoutReadOnly(c) ==
    /\ phase[c] = "reading"
    /\ Release(c, "idle")

\* tokio::time::timeout(3 s) drops server.accept wherever it awaits.
HandshakeTimeout(c) ==
    /\ phase[c] \in Guarded
    /\ Release(c, "idle")

\* The accept task ends: the refused socket, or the proxied connection that
\* followed a successful handshake, is closed.
Close(c) ==
    /\ phase[c] \in {"refused", "established"}
    /\ phase' = [phase EXCEPT ![c] = "idle"]
    /\ src' = [src EXCEPT ![c] = NoAddr]
    /\ UNCHANGED <<permits, active>>

Next ==
    \E c \in Conns :
        \/ RejectNoPermit(c)
        \/ \E a \in Addrs :
              \/ RejectHostLimit(c, a)
              \/ RejectMapFull(c, a)
              \/ Admit(c, a)
        \/ HelloAccepted(c)
        \/ HelloUnknown(c)
        \/ TlsDone(c)
        \/ HandshakeFails(c)
        \/ HandshakeTimeout(c)
        \/ Close(c)

\* The tokio timer is the only thing that must happen: peers may stay silent.
Fairness == \A c \in Conns : WF_vars(HandshakeTimeout(c))

Spec == Init /\ [][Next]_vars /\ Fairness

-----------------------------------------------------------------------------
\* The connections whose HandshakeGuard is alive, all of them and one host's.
InHandshake == {c \in Conns : phase[c] \in Guarded}
FromHost(h) == {c \in InHandshake : HostOf[src[c]] = h}

\* Every permit of the semaphore is either available or held by exactly one
\* live guard: no early return, error or timeout of accept_reality_bounded
\* leaks a permit or gives one back twice.
PermitsConserved == permits + Cardinality(InHandshake) = Permits

\* active_handshakes_per_ip is exact: a tracked host has as many handshakes in
\* progress as its count says, and a host with none is not tracked, so the
\* map cannot fill up with dead entries and lock out new hosts.
CountsExact ==
    \A h \in Hosts :
        IF h \in DOMAIN active
        THEN active[h] = Cardinality(FromHost(h)) /\ active[h] > 0
        ELSE FromHost(h) = {}

\* One machine never holds more than PerHost handshake slots, whichever of its
\* addresses (IPv4 or IPv4-mapped IPv6) the connections arrive from.
HostLimit == \A h \in Hosts : Cardinality(FromHost(h)) <= PerHost

\* The map never tracks more hosts than there are permits in use, so with more
\* room than permits the "IP tracking map is full" refusal cannot happen.
MapBounded == Cardinality(DOMAIN active) + permits <= Permits

\* Connections under a guard know their peer. With the counts and the permits
\* this is inductive; it is what DoorsProofs proves.
SrcKnown == \A c \in InHandshake : src[c] \in Addrs

IInv == TypeOK /\ SrcKnown /\ PermitsConserved /\ CountsExact /\ HostLimit

\* Silent peers cannot keep the door shut: whenever every permit is taken, or
\* a host has used up its share, the 3 s timer makes room again.
DoorReopens == /\ []<>(permits > 0)
               /\ \A h \in Hosts : []<>(Count(h) < PerHost)
=============================================================================
