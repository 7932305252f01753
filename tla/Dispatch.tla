------------------------------ MODULE Dispatch ------------------------------
(***************************************************************************)
(* From the VLESS request to the relay: who a connection belongs to, where *)
(* it is sent, and how it is ended.                                        *)
(*                                                                         *)
(* parse_vless_inbound (inbound/vless.rs) authenticates the client id and  *)
(* then awaits the rest of the request; dispatch_connection                *)
(* (dispatcher/mod.rs) looks the id up again, resolves the route           *)
(* (router/mod.rs), chooses the outbound handler (outbound/mod.rs),        *)
(* registers the connection under the account and spawns its task, which   *)
(* ends with the handler or with the shutdown signal of disconnect_user    *)
(* (state.rs).  delete_user, create_user and reload_config (api/mod.rs)    *)
(* change the accounts, and a reload the outbounds, at any await between.  *)
(*                                                                         *)
(* A client uses one of three ids of its account, one per route mode.  A   *)
(* destination is what the router can tell of it: whether it is local, in  *)
(* an enabled domain set of either kind, and which outbound the first      *)
(* custom rule that matches it names; Router has the matching itself.      *)
(*                                                                         *)
(* What an outbound is goes by its protocol and whether it names a proxy;  *)
(* nothing checks that either fits the tag (config.rs), and the tag may    *)
(* have none at all.                                                       *)
(***************************************************************************)
EXTENDS FiniteSets, Naturals, RoutePolicy

CONSTANTS
    Conns,      \* client connections
    Users,      \* accounts
    NoUser,     \* no account
    Dests,      \* destinations, records as below
    Configs,    \* the lists of outbounds a configuration may have, by tag
    MaxEdits    \* bound on changes of the configuration and of WARP's health

Tags      == {"direct", "warp", "block"}
Carriers  == {"none", "direct", "proxy", "server", "dropped"}

\* OutboundConfig.  "fragment" and unknown protocols are "other"; "none" stands
\* for a tag without an outbound.
Outbounds ==
    [protocol : {"freedom", "vless", "blackhole", "other", "none"}, proxy : BOOLEAN]
Missing   == [protocol |-> "none", proxy |-> FALSE]

ASSUME DispatchAssumption ==
    /\ NoUser \notin Users
    /\ Dests \subseteq [local : BOOLEAN, warpSet : BOOLEAN, directSet : BOOLEAN,
                        rule : Tags \cup {"none"}]
    /\ Configs \subseteq [Tags -> Outbounds] /\ Configs # {}
    /\ \A f \in Configs, t \in Tags : f[t].protocol = "none" => f[t] = Missing
    /\ MaxEdits \in Nat

VARIABLES
    users,     \* EngineState.users: the accounts
    outbounds, \* EngineState.config.outbounds, by tag
    warpUp,    \* is_warp_allowed
    phase,     \* "new", "parsing", "dialing", "relaying" or "gone"
    owner,     \* the account whose id was authenticated
    mode,      \* the route mode of that id
    account,   \* ConnectionInfo.user_uuid
    route,     \* ConnectionInfo.outbound_tag
    udp,       \* the request's command was UDP
    carrier,   \* where the handler sends the traffic
    registry,  \* active_connections
    signal,    \* shutdown_tx was taken and sent
    metered,   \* the relay found a UserStats to count for
    found,     \* history: what its tag's outbound was when it was dispatched
    deleted,   \* history: accounts that delete_user removed
    raced,     \* history: connections whose owner was removed while parsing
    dropped,   \* history: accounts that reload_config removed
    edits      \* history: changes

conn == <<phase, owner, mode, account, route, udp, carrier, registry, metered, found>>
vars == <<users, outbounds, warpUp, phase, owner, mode, account, route, udp, carrier, registry,
          signal, metered, found, deleted, raced, dropped, edits>>

TypeOK ==
    /\ users \in SUBSET Users /\ outbounds \in Configs /\ warpUp \in BOOLEAN
    /\ phase \in [Conns -> {"new", "parsing", "dialing", "relaying", "gone"}]
    /\ owner \in [Conns -> Users \cup {NoUser}]
    /\ mode \in [Conns -> Modes]
    /\ account \in [Conns -> Users \cup {NoUser}]
    /\ route \in [Conns -> Tags \cup {"none"}]
    /\ udp \in [Conns -> BOOLEAN]
    /\ carrier \in [Conns -> Carriers]
    /\ registry = {c \in Conns : phase[c] \in {"dialing", "relaying"}}
    /\ signal \in [Conns -> BOOLEAN]
    /\ metered \in [Conns -> BOOLEAN]
    /\ found \in [Conns -> Outbounds]
    /\ deleted \in SUBSET Users /\ dropped \in SUBSET Users
    /\ raced \in SUBSET Conns
    /\ edits \in Nat

Init ==
    /\ users \in SUBSET Users
    /\ outbounds \in Configs
    /\ warpUp = TRUE
    /\ phase = [c \in Conns |-> "new"]
    /\ owner = [c \in Conns |-> NoUser]
    /\ mode = [c \in Conns |-> "Smart"]
    /\ account = [c \in Conns |-> NoUser]
    /\ route = [c \in Conns |-> "none"]
    /\ udp = [c \in Conns |-> FALSE]
    /\ carrier = [c \in Conns |-> "none"]
    /\ registry = {}
    /\ signal = [c \in Conns |-> FALSE]
    /\ metered = [c \in Conns |-> FALSE]
    /\ found = [c \in Conns |-> Missing]
    /\ deleted = {} /\ raced = {} /\ dropped = {}
    /\ edits = 0

-----------------------------------------------------------------------------
\* A plausible bug: a missing "warp" outbound is not replaced by the default.
OutboundAsConfigured(tag) == outbounds[tag]

\* The outbound of a tag as configured; a missing "warp" becomes freedom through
\* the local WARP proxy.
Outbound(tag) ==
    IF tag = "warp" /\ outbounds[tag] = Missing
    THEN [protocol |-> "freedom", proxy |-> TRUE] ELSE outbounds[tag]

\* The handler for an outbound: UDP takes the proxy of an outbound only if its
\* protocol is not freedom; TCP, and everything to a VLESS server, goes by
\* get_outbound_handler.
Carrier(o, isUdp) ==
    IF o.protocol = "vless" THEN "server"
    ELSE IF isUdp THEN IF o.protocol # "freedom" /\ o.proxy THEN "proxy" ELSE "direct"
    ELSE IF o.protocol = "blackhole" THEN "dropped"
    ELSE IF o.protocol = "freedom" /\ o.proxy THEN "proxy" ELSE "direct"

-----------------------------------------------------------------------------
\* is_user_allowed: the id is one of a current account's (and the account is
\* neither expired nor used up).
Authenticate(c, u, m) ==
    /\ phase[c] = "new"
    /\ u \in users
    /\ phase' = [phase EXCEPT ![c] = "parsing"]
    /\ owner' = [owner EXCEPT ![c] = u]
    /\ mode' = [mode EXCEPT ![c] = m]
    /\ UNCHANGED <<users, outbounds, warpUp, account, route, udp, carrier, registry, signal, metered, found, deleted, raced, dropped, edits>>

\* The task is over: what it held and its ConnectionInfo are dropped.
Forget(c) ==
    /\ phase' = [phase EXCEPT ![c] = "gone"]
    /\ owner' = [owner EXCEPT ![c] = NoUser]
    /\ mode' = [mode EXCEPT ![c] = "Smart"]
    /\ account' = [account EXCEPT ![c] = NoUser]
    /\ route' = [route EXCEPT ![c] = "none"]
    /\ udp' = [udp EXCEPT ![c] = FALSE]
    /\ carrier' = [carrier EXCEPT ![c] = "none"]
    /\ signal' = [signal EXCEPT ![c] = FALSE]
    /\ metered' = [metered EXCEPT ![c] = FALSE]
    /\ found' = [found EXCEPT ![c] = Missing]
    /\ raced' = raced \ {c}

\* The rest of the request is malformed or names an IPv6 address in IPv4-only
\* mode, a VLESS outbound lacks its settings, or the client leaves.
ParseFails(c) ==
    /\ phase[c] = "parsing"
    /\ Forget(c)
    /\ UNCHANGED <<users, outbounds, warpUp, registry, deleted, dropped, edits>>

\* The mode of an id that is no longer there is Smart.
ModeNow(c) == IF owner[c] \in users THEN mode[c] ELSE "Smart"

\* The route is WARP and WARP is down: the connection is dropped.
FailClosed(c, d) ==
    /\ phase[c] = "parsing"
    /\ resolve_route(ModeNow(c), d) = "warp"
    /\ ~warpUp
    /\ Forget(c)
    /\ UNCHANGED <<users, outbounds, warpUp, registry, deleted, dropped, edits>>

\* A plausible bug: the connection is registered under the id it came with, as
\* far as that is an account's id.
RegisterById(c, d, isUdp) ==
    LET tag == resolve_route(ModeNow(c), d) IN
    /\ phase[c] = "parsing"
    /\ tag = "warp" => warpUp
    /\ route' = [route EXCEPT ![c] = tag]
    /\ udp' = [udp EXCEPT ![c] = isUdp]
    /\ carrier' = [carrier EXCEPT ![c] = Carrier(Outbound(tag), isUdp)]
    /\ found' = [found EXCEPT ![c] = outbounds[tag]]
    /\ account' = [account EXCEPT ![c] = IF owner[c] \in users /\ mode[c] = "Smart" THEN owner[c] ELSE NoUser]
    /\ registry' = registry \cup {c}
    /\ phase' = [phase EXCEPT ![c] = "dialing"]
    /\ UNCHANGED <<users, outbounds, warpUp, owner, mode, signal, metered, deleted, raced, dropped, edits>>

\* dispatch_connection after its last await: mode and route, handler, account,
\* registration and the spawned task.
Register(c, d, isUdp) ==
    LET tag == resolve_route(ModeNow(c), d) IN
    /\ phase[c] = "parsing"
    /\ tag = "warp" => warpUp
    /\ route' = [route EXCEPT ![c] = tag]
    /\ udp' = [udp EXCEPT ![c] = isUdp]
    /\ carrier' = [carrier EXCEPT ![c] = Carrier(Outbound(tag), isUdp)]
    /\ found' = [found EXCEPT ![c] = outbounds[tag]]
    /\ account' = [account EXCEPT ![c] = IF owner[c] \in users THEN owner[c] ELSE NoUser]
    /\ registry' = registry \cup {c}
    /\ phase' = [phase EXCEPT ![c] = "dialing"]
    /\ UNCHANGED <<users, outbounds, warpUp, owner, mode, signal, metered, deleted, raced, dropped, edits>>

\* The destination answers; the relay looks its UserStats up.
Dialled(c) ==
    /\ phase[c] = "dialing"
    /\ carrier[c] # "dropped"
    /\ phase' = [phase EXCEPT ![c] = "relaying"]
    /\ metered' = [metered EXCEPT ![c] = account[c] \in users]
    /\ UNCHANGED <<users, outbounds, warpUp, owner, mode, account, route, udp, carrier, registry, signal, found, deleted, raced, dropped, edits>>

\* The task ends: the handler returned, or select! saw the signal.
Deregister(c) ==
    /\ Forget(c)
    /\ registry' = registry \ {c}
    /\ UNCHANGED <<users, outbounds, warpUp, deleted, dropped, edits>>

HandlerEnds(c) == c \in registry /\ Deregister(c)

\* A plausible bug: the signal only interrupts a relay that has begun.
KickedRelaying(c) == phase[c] = "relaying" /\ signal[c] /\ Deregister(c)

Kicked(c) == c \in registry /\ signal[c] /\ Deregister(c)

-----------------------------------------------------------------------------

disconnect_user(u) ==
    signal' = [c \in Conns |-> signal[c] \/ (c \in registry /\ account[c] = u)]

RacedBy(u) == {c \in Conns : phase[c] = "parsing" /\ owner[c] = u}

\* delete_user: update_config, then disconnect_user.
DeleteUser(u) ==
    /\ edits < MaxEdits /\ edits' = edits + 1
    /\ users' = users \ {u}
    /\ disconnect_user(u)
    /\ deleted' = deleted \cup {u}
    /\ raced' = raced \cup RacedBy(u)
    /\ UNCHANGED <<outbounds, warpUp, dropped>>
    /\ UNCHANGED conn

\* reload_config without the account: update_config only.
ReloadDrops(u) ==
    /\ edits < MaxEdits /\ edits' = edits + 1
    /\ users' = users \ {u}
    /\ dropped' = dropped \cup {u}
    /\ raced' = raced \cup RacedBy(u)
    /\ UNCHANGED <<outbounds, warpUp, signal, deleted>>
    /\ UNCHANGED conn

\* reload_config with other outbounds: what was dispatched keeps its handler.
ReloadOutbounds(f) ==
    /\ edits < MaxEdits /\ edits' = edits + 1
    /\ outbounds' = f
    /\ UNCHANGED <<users, warpUp, signal, deleted, raced, dropped>>
    /\ UNCHANGED conn

\* create_user
CreateUser(u) ==
    /\ edits < MaxEdits /\ edits' = edits + 1
    /\ users' = users \cup {u}
    /\ UNCHANGED <<outbounds, warpUp, signal, deleted, raced, dropped>>
    /\ UNCHANGED conn

\* The health probe changes its mind.
WarpProbe ==
    /\ edits < MaxEdits /\ edits' = edits + 1
    /\ warpUp' = ~warpUp
    /\ UNCHANGED <<users, outbounds, signal, deleted, raced, dropped>>
    /\ UNCHANGED conn

Next ==
    \/ \E c \in Conns :
          \/ \E u \in Users, m \in Modes : Authenticate(c, u, m)
          \/ ParseFails(c)
          \/ \E d \in Dests : FailClosed(c, d) \/ \E isUdp \in BOOLEAN : Register(c, d, isUdp)
          \/ Dialled(c) \/ HandlerEnds(c) \/ Kicked(c)
    \/ \E u \in Users : DeleteUser(u) \/ ReloadDrops(u) \/ CreateUser(u)
    \/ \E f \in Configs : ReloadOutbounds(f)
    \/ WarpProbe

\* A task that was woken by the signal runs.
Fairness == \A c \in Conns : WF_vars(Kicked(c))

Spec == Init /\ [][Next]_vars /\ Fairness

-----------------------------------------------------------------------------
\* Whoever is deleted loses the connections, whichever of the three ids they
\* were opened with: what is still registered has the signal.  The exceptions
\* are a request that was authenticated and not yet registered at the moment
\* of the deletion, and an account that reload_config left out.
DeletedAreKicked ==
    \A c \in registry :
        owner[c] \in users \/ signal[c] \/ c \in raced \/ owner[c] \in dropped

\* Only connections of a deleted account are ended by policy.
OnlyDeletedAreKicked == \A c \in Conns : signal[c] => owner[c] \in deleted

\* The signal ends the connection, while it dials too.
KickEnds == \A c \in Conns : (signal[c] /\ c \in registry) ~> c \notin registry

\* A relay whose account is there is counted and limited, unless the account
\* was removed and created again around it.
AccountedFor ==
    \A c \in Conns : phase[c] = "relaying" /\ owner[c] \in users /\ ~metered[c]
                     => owner[c] \in deleted \cup dropped

\* Every registered connection counts for the account that was authenticated,
\* and those of a deleted account, and no others, are sent the signal to end.
KickedExactly == TypeOK /\ AccountedFor /\ DeletedAreKicked /\ OnlyDeletedAreKicked

\* An outbound that TCP leaves by without a proxy.
Bare(o) == o.protocol = "other" \/ (o.protocol = "freedom" /\ ~o.proxy)

\* TCP that is routed to WARP leaves directly only if the configuration it was
\* dispatched under gives "warp" an outbound that does so; where there is none
\* it takes the proxy.  Nothing in config.rs refuses such an outbound.
WarpTcpFailsClosed ==
    \A c \in Conns : route[c] = "warp" /\ ~udp[c] =>
        /\ carrier[c] = "direct" => Bare(found[c])
        /\ found[c] = Missing => carrier[c] = "proxy"

\* All traffic of a Browsing WARP client goes through WARP, except to the
\* direct exceptions: what is routed to WARP does not leave directly.
WarpNeverDirect == \A c \in Conns : route[c] = "warp" => carrier[c] # "direct"

\* Low Latency mode never selects WARP.
LowLatencyNeverWarp == \A c \in registry : mode[c] = "LowLatencyDirect" => route[c] # "warp"

-----------------------------------------------------------------------------
\* What makes the two invariants above inductive (DispatchProofs).

\* A connection has an owner from its authentication to the end of its task.
Served(c) == phase[c] \in {"parsing", "dialing", "relaying"}

\* The bookkeeping of a connection.  Before and after it is served nothing is
\* left of it.  An owner who is no longer there was deleted or left out by a
\* reload; while the request is parsed that is remembered as a race.
\* Registration takes the authenticated account, or none after a race, and a
\* relay goes uncounted only if its account was removed.
Books(c) ==
    /\ IF Served(c) THEN owner[c] \in Users /\ owner[c] \in users \cup deleted \cup dropped
                    ELSE owner[c] = NoUser /\ c \notin raced
    /\ c \notin registry => ~signal[c] /\ route[c] = "none"
    /\ c \in raced => owner[c] \in deleted \cup dropped
    /\ phase[c] = "parsing" => owner[c] \in users \/ c \in raced
    /\ c \in registry => account[c] = owner[c] \/ (account[c] = NoUser /\ c \in raced)
    /\ phase[c] = "relaying" /\ ~metered[c] => owner[c] \in deleted \cup dropped

IInv ==
    /\ TypeOK /\ DeletedAreKicked /\ OnlyDeletedAreKicked /\ WarpTcpFailsClosed
    /\ \A c \in Conns : Books(c)
=============================================================================
