-------------------------------- MODULE Tables --------------------------------
(***************************************************************************)
(* Three of the tables that tasks and threads share: the ticket keys of      *)
(* TicketSwitcher, and beside them the session stores of SessionCache and    *)
(* the connections and streams of Mux, each at its own pace.  The properties *)
(* stated here hold for every interleaving because the parts share no        *)
(* variable.                                                                *)
(***************************************************************************)
EXTENDS TicketSwitcher, Sequences

CONSTANTS
    Servers, ClientSize, ServerSize, PerServer, Offsets, Modulus, Milli, Skew,
    Stated, MaxLifetime, MaxSessions, CacheTime,                                \* of SessionCache
    Conns, Streams, MinConnections, MaxConnections, MaxStreams, Burst,
    QueueSize, DataSize, MaxLeases, MaxFrames                                   \* of Mux

VARIABLES
    serverClock, clientClock, client, server, issued, sent, hellos, offered, resumed,
    pool, conn, stream, warm, heard, leases, frames, strayed, gap

cacheVars == <<serverClock, clientClock, client, server, issued, sent, hellos, offered, resumed>>
muxVars == <<pool, conn, stream, warm, heard, leases, frames, strayed, gap>>
tablesVars == <<vars, cacheVars, muxVars>>

C == INSTANCE SessionCache WITH clock <- serverClock, MaxTime <- CacheTime
X == INSTANCE Mux

SwitcherStep == Next /\ UNCHANGED <<cacheVars, muxVars>>
CacheStep == C!Next /\ UNCHANGED <<vars, muxVars>>
MuxStep == X!Next /\ UNCHANGED <<vars, cacheVars>>

TablesInit == Init /\ C!Init /\ X!Init
TablesNext == SwitcherStep \/ CacheStep \/ MuxStep
TablesSpec == TablesInit /\ [][TablesNext]_tablesVars

\* (SessionCache) The queue of a cache names exactly the keys of its map and bounds it; a
\* client offers no ticket in two connections, a session is resumed once however often its
\* ClientHello arrives, and as fresh exactly when the skew allowed covers the time that ticket
\* and ClientHello were on the way together with what one clock gained on the other.
SessionsSpentOnce == C!CachesConsistent /\ C!TicketsSpentOnce /\ C!ResumedOnce /\ C!FreshIfRecent

\* (Mux) Within the bounds of queues and pool, stream_count is the number of streams plus the
\* places lost by failed leases, no stream is handed a frame meant for an earlier one or has a
\* gap unless its queue was full, and at most Burst frames overtake a low priority one.
StreamsSound == X!TypeOK /\ X!CountsExact /\ X!StreamsSeparate /\ X!GapOnlyWhenFull /\ X!LowPriorityServed
=============================================================================
