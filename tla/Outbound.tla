------------------------------- MODULE Outbound --------------------------------
(***************************************************************************)
(* The engine's outbound side: UdpOutbound, and beside it the dialling of   *)
(* Dial and the probes of WarpHealth, each at its own pace.  The properties *)
(* stated here say what the side promises as a whole; they hold for every   *)
(* interleaving because the parts share no variable: a datagram's own       *)
(* resolution is a step of UdpOutbound, and Dial's caches are not its own.   *)
(***************************************************************************)
EXTENDS UdpOutbound

CONSTANTS
    Calls, Requests, MaxEntries, MinTtl, MaxTtl, NegativeTtl, Ttls, Sizes, MaxDialTime,    \* of Dial
    DownAfter, OpenAfter                                                                 \* of WarpHealth

VARIABLES
    dialNow, cache, inflight, chans, calls, asked, abandoned,       \* of Dial
    health, failures, sleeping, up, failed                          \* of WarpHealth

dialVars == <<dialNow, cache, inflight, chans, calls, asked, abandoned>>
warpVars == <<health, failures, sleeping, up, failed>>
outboundVars == <<dialVars, vars, warpVars>>

D == INSTANCE Dial WITH now <- dialNow, MaxTime <- MaxDialTime
W == INSTANCE WarpHealth

DialStep == D!Next /\ UNCHANGED <<vars, warpVars>>
UdpStep == Next /\ UNCHANGED <<dialVars, warpVars>>
WarpStep == W!Next /\ UNCHANGED <<dialVars, vars>>

OutboundInit == D!Init /\ Init /\ W!Init
OutboundNext == DialStep \/ UdpStep \/ WarpStep
OutboundSpec == OutboundInit /\ [][OutboundNext]_outboundVars

\* (Dial, UdpOutbound) A call or datagram that goes through a proxy gives the system resolver
\* no name but the proxy's, except in the multiplexed framing, and connects to an address
\* that was resolved behind the proxy; a direct one to one that was not.
NamesLeftToProxy == D!NoDnsLeak /\ D!RoutesSeparate /\ DatagramNamesLeft
\* (Dial) Of one name at most one lookup is under way on each route; a flight in the table has
\* a leader that will end it, unless it was dropped; no answer, shared or cached, is taken
\* after its time to live; and the caches stay within max_entries.
LookupsShared == D!TypeOK /\ D!OneLookup /\ D!FlightsHaveLeaders /\ D!AnswersFresh
\* (Dial) Every dial ends, except one that waits on a remote nothing bounds.
CallsEnd == D!Fairness => D!CallsEnd

\* (UdpOutbound) A session used within the idle limit is not closed by the cleanup, and when
\* the handler is gone the client's stream is released.
SessionsEndInTime == [][KeepsActive]_vars /\ (Fairness => StreamReleased)

\* (WarpHealth) Traffic is kept off the proxy exactly while its last probes failed, and a
\* proxy that is up again and stays up is used again.
WarpFollowsProbes == []W!CutExactlyWhenDown /\ (W!Fairness => W!UsedAgain)
=============================================================================
