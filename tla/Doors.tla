-------------------------------- MODULE Doors ---------------------------------
(***************************************************************************)
(* The ways in and what stands at them: the admission of Handshake, and      *)
(* beside it the UDP associations of Socks5Udp, the limit of SubLimiter, the *)
(* snapshots of Dashboard and the relays of Relays, each at its own pace.    *)
(* The properties stated here hold for every interleaving because the parts  *)
(* share no variable.                                                        *)
(***************************************************************************)
EXTENDS Handshake, Integers, Sequences

CONSTANTS
    SocksAddrs, Handlers, IdSpace, QueueSize, IdleLimit, MaxTime, MaxIssued,    \* of Socks5Udp
    Peers, Trusted, Clients, Window, Limit, PruneAbove,                         \* of SubLimiter
    LagWindow, MonitorWindow, StaleAge,                                         \* of Dashboard
    Size, BufSize, MinLen, MaxLen                                               \* of Relays

VARIABLES
    now, sessLock, assocLock, sessions, assoc, issued, handler, queue, tunnel, heard, cleaner, strayed,
    map, served,
    lagAge, pollAge, dashAge, connsAge, generated, due, building, needs, quiet,
    carrier, relaying, taken, hand, written, at, first, counted, zero

socksVars == <<now, sessLock, assocLock, sessions, assoc, issued, handler, queue, tunnel, heard, cleaner, strayed>>
limiterVars == <<map, served>>
dashboardVars == <<lagAge, pollAge, dashAge, connsAge, generated, due, building, needs, quiet>>
relayVars == <<carrier, relaying, taken, hand, written, at, first, counted, zero>>
doorsVars == <<vars, socksVars, limiterVars, dashboardVars, relayVars>>

S == INSTANCE Socks5Udp WITH Addrs <- SocksAddrs
L == INSTANCE SubLimiter
B == INSTANCE Dashboard WITH pc <- building
Y == INSTANCE Relays WITH kind <- carrier, handler <- relaying, read <- taken, pc <- at

HandshakeStep == Next /\ UNCHANGED <<socksVars, limiterVars, dashboardVars, relayVars>>
SocksStep == S!Next /\ UNCHANGED <<vars, limiterVars, dashboardVars, relayVars>>
LimiterStep == L!Next /\ UNCHANGED <<vars, socksVars, dashboardVars, relayVars>>
DashboardStep == B!Next /\ UNCHANGED <<vars, socksVars, limiterVars, relayVars>>
RelayStep == Y!Next /\ UNCHANGED <<vars, socksVars, limiterVars, dashboardVars>>

DoorsInit == Init /\ S!Init /\ L!Init /\ B!Init /\ Y!Init
DoorsNext == HandshakeStep \/ SocksStep \/ LimiterStep \/ DashboardStep \/ RelayStep
DoorsSpec == DoorsInit /\ [][DoorsNext]_doorsVars

\* (Socks5Udp) Within their bounds, the two maps of get_or_create_association name each other
\* whenever their locks are free, and a reply reaches only the address whose datagram it answers.
AssociationsSound == S!AssociationsSound
\* (SubLimiter) No address is served more than Limit times in any window.
LimitHolds == L!LimitHolds
\* (Dashboard) Once the event loop keeps up, what is served is at most two periods old.
SnapshotsRecent == B!SnapshotsRecent
\* (Relays) The receiver gets the beginning of what was sent, after a clean end all of it, and
\* the counters have what was written, or nothing where an error is reported.
RelayedAndCounted == Y!PiecesInOrder /\ Y!CountsReported

\* (Socks5Udp, Relays) A datagram is put on the queue or dropped, unless the two locks were
\* taken in opposite orders; and a relay ends when its peers have closed, although its
\* connection was shut down.
HandlersGoOn == (S!Fairness => S!DatagramsHandled) /\ (Y!Fairness => Y!RelaysEnd)
=============================================================================
