------------------------------ MODULE Provision -------------------------------
(***************************************************************************)
(* The control plane: the configuration (config.rs), the indexes, Reality   *)
(* runtimes and listeners that EngineState derives from it (state.rs), the  *)
(* handlers of the API that change it (api/mod.rs) and the start of the     *)
(* process (main.rs, inbound/mod.rs).                                       *)
(*                                                                          *)
(* The server runs on a current-thread runtime: what a handler does between *)
(* two awaits is one step.  A handler dropped at an await (its connection   *)
(* was closed) gives up there.  How a save reaches the disk is modelled in  *)
(* Persistence; here one step saves the current configuration.              *)
(***************************************************************************)
EXTENDS Integers, Sequences, SequencesExt, FiniteSets

CONSTANTS
    Requests,           \* handlers that may be in progress at once
    Payloads,           \* what may be asked for: [tag, port] of a profile; a tag stands
                        \* for the name and the inbound tag, which are checked alike
    Accounts,           \* [id, email] of accounts
    MaxOps              \* bound: requests, restarts and first uses of an account

DefaultTag == "vless-inbound-443"
DefaultPort == 0
Idle == [pc |-> "idle"]
NoAccount == [id |-> "none", email |-> "none"]
\* A listener without a runtime.
None == [id |-> 0, tag |-> "none", port |-> DefaultPort]

VARIABLES
    config,     \* [profiles : sequence of [id, tag, port],
                \*  inbounds : sequence of [tag, port, clients],
                \*  sets : which of two versions of the WARP and direct domain sets]
    tables,     \* routing_tables: the sets they were compiled from
    users,      \* UserStats by user: the email and whether traffic was counted
    stats,      \* email -> user
    sub_tokens, \* token -> user
    runtimes,   \* reality_runtimes: the profiles that have one
    listeners,  \* active_listeners: port -> the profile whose keys it answers with
    permit,     \* CONTROL_PLANE_CPU's only permit is free
    req,        \* handlers in progress
    disk,       \* config.json
    dirty,      \* a save is due
    ops,        \* requests, restarts and first uses so far
    twins,      \* history: the process was started with two profiles or inbounds of one tag
    granted,    \* history: accounts answered with success and not taken back since
    revoked     \* history: tokens replaced or removed and not brought back since

vars == <<config, tables, users, stats, sub_tokens, runtimes, listeners, permit, req, disk, dirty,
          ops, twins, granted, revoked>>
indexes == <<users, stats, sub_tokens, runtimes, listeners, tables>>

(***************************************************************************)
(* The configuration.                                                       *)
(***************************************************************************)
Clients(c) == FlattenSeq([i \in DOMAIN c.inbounds |-> c.inbounds[i].clients])
Ids(c) == {cl.id : cl \in ToSet(Clients(c))}
First(c, u) == SelectSeq(Clients(c), LAMBDA cl : cl.id = u)[1]
Tokens(c) == {cl.token : cl \in ToSet(Clients(c))} \ {0}
Profiles(c) == ToSet(c.profiles)
Edited(c, Op(_)) == [c EXCEPT !.inbounds = [i \in DOMAIN @ |-> [@[i] EXCEPT !.clients = Op(@)]]]

\* A number for the profile or token of this request.
Fresh == 10 * (ops + 2)
Starts == ops < MaxOps /\ ops' = ops + 1

DefaultConfig ==
    [profiles |-> <<[id |-> 1, tag |-> DefaultTag, port |-> DefaultPort]>>,
     inbounds |-> <<[tag |-> DefaultTag, port |-> DefaultPort, clients |-> <<>>]>>,
     sets |-> FALSE]

\* Tags that more than one profile, or more than one inbound, has.
Twice(s) == {s[i].tag : i \in {x \in DOMAIN s : \E y \in DOMAIN s : y # x /\ s[y].tag = s[x].tag}}
TwinTags(c) == Twice(c.profiles) \union Twice(c.inbounds)

\* migrate_if_needed: a configuration without profiles gets one for each inbound.
Migrated(c) ==
    IF c.profiles # <<>> THEN c
    ELSE [c EXCEPT !.profiles = [i \in DOMAIN c.inbounds |->
             [id |-> Fresh + i, tag |-> c.inbounds[i].tag, port |-> c.inbounds[i].port]]]

\* The indexes by email, of the emails the clients are to have, and by token: of several
\* clients the last is kept.
ByEmail(c, emails) ==
    LET s == Clients(c) IN [e \in ToSet(emails) |->
        s[CHOOSE i \in DOMAIN s : emails[i] = e /\ \A j \in (i + 1)..Len(s) : emails[j] # e].id]
ByToken(c) == [t \in Tokens(c) |-> (CHOOSE cl \in ToSet(Clients(c)) : cl.token = t).id]

(***************************************************************************)
(* update_config, of the configuration c.                                   *)
(***************************************************************************)
\* Mutant of UserStatsOf: always made from the configuration.
UserStatsOfConfig(c, u) == [email |-> First(c, u).email, used |-> First(c, u).used]
\* The UserStats of a user: the one there was, with what can be edited updated.
UserStatsOf(c, u) ==
    [email |-> First(c, u).email,
     used |-> IF u \in DOMAIN users THEN users[u].used ELSE First(c, u).used]

\* Mutant of Swapped: the profile is looked up by its tag.
SwappedByTag(c, ls) ==
    [p \in DOMAIN ls |->
        IF \E q \in Profiles(c) : q.tag = ls[p].tag THEN CHOOSE q \in Profiles(c) : q.tag = ls[p].tag ELSE ls[p]]
\* The runtimes are given to the listeners of their profiles' ports.
Swapped(c, ls) ==
    [p \in DOMAIN ls |->
        IF \E q \in Profiles(c) : q.port = p THEN CHOOSE q \in Profiles(c) : q.port = p ELSE ls[p]]

\* RouteModeTables::compile.
Compiled(c) == c.sets

update_config(c, ls) ==
    LET new == [u \in Ids(c) |-> UserStatsOf(c, u)]
    IN /\ config' = c
       /\ users' = new
       /\ stats' = ByEmail(c, [i \in DOMAIN Clients(c) |-> new[Clients(c)[i].id].email])
       /\ sub_tokens' = ByToken(c)
       /\ runtimes' = Profiles(c)
       /\ listeners' = Swapped(c, ls)
       /\ tables' = Compiled(c)
       /\ dirty' = TRUE

(***************************************************************************)
(* Start.                                                                   *)
(***************************************************************************)
\* TcpInbound::start, before any request is served: the port is bound and the listener
\* registered with the runtime of a profile that has the inbound's tag (whichever the
\* map gives first); without one it takes plain connections.
Opened(c) ==
    LET inb == ToSet(c.inbounds)
        Of(p) == CHOOSE i \in inb : i.port = p
        Same(p) == {q \in Profiles(c) : q.tag = Of(p).tag}
        ports == {i.port : i \in inb}
    IN {f \in [ports -> Profiles(c) \union {None}] :
           \A p \in ports : f[p] \in (IF Same(p) = {} THEN {None} ELSE Same(p))}

Init ==
    /\ config = DefaultConfig /\ tables = DefaultConfig.sets /\ disk = DefaultConfig
    /\ users = <<>> /\ stats = <<>> /\ sub_tokens = <<>> /\ runtimes = Profiles(DefaultConfig)
    /\ listeners \in Opened(DefaultConfig)
    /\ permit = TRUE /\ req = [r \in Requests |-> Idle]
    /\ dirty = FALSE /\ ops = 0 /\ twins = FALSE /\ granted = {} /\ revoked = {}

\* A crash, and the start from what was saved last: EngineState::new and the listeners.
\* Everything that was not saved is gone, and what was taken back meanwhile is back.
Restart ==
    /\ Starts
    /\ LET c == Migrated(disk)
       IN /\ config' = c
          /\ users' = [u \in Ids(c) |-> [email |-> First(c, u).email, used |-> First(c, u).used]]
          /\ stats' = ByEmail(c, [i \in DOMAIN Clients(c) |-> Clients(c)[i].email])
          /\ sub_tokens' = ByToken(c)
          /\ runtimes' = Profiles(c)
          /\ listeners' \in Opened(c)
          /\ tables' = c.sets
          /\ dirty' = (c # disk)
          /\ twins' = (twins \/ TwinTags(c) # {})
          /\ granted' = granted \intersect Ids(c) /\ revoked' = revoked \ Tokens(c)
    /\ permit' = TRUE /\ req' = [r \in Requests |-> Idle]
    /\ UNCHANGED disk

\* The configuration with the counters of the users: what is written.
Overlaid(c) ==
    Edited(c, LAMBDA s : [i \in DOMAIN s |->
        [s[i] EXCEPT !.used = IF s[i].id \in DOMAIN users THEN users[s[i].id].used ELSE @]])

\* persist_config_to_disk, by a handler or the periodic task, and the worker.  When no
\* counter differs the worker may write nothing (Persistence has when it does not).
Save ==
    /\ dirty /\ dirty' = FALSE
    /\ disk' \in {Overlaid(config)} \union (IF Overlaid(config) = config THEN {disk} ELSE {})
    /\ UNCHANGED <<config, indexes, permit, req, ops, twins, granted, revoked>>

\* A connection of the user is served and counted (Quota).
Traffic(u) ==
    /\ Starts /\ u \in DOMAIN users /\ ~users[u].used
    /\ users' = [users EXCEPT ![u].used = TRUE] /\ dirty' = TRUE
    /\ UNCHANGED <<config, tables, stats, sub_tokens, runtimes, listeners, permit, req, disk,
                   twins, granted, revoked>>

(***************************************************************************)
(* The handlers that change clients in one step.                            *)
(***************************************************************************)
Client(a, token) == [id |-> a.id, email |-> a.email, token |-> token, used |-> FALSE, by |-> "account"]
Taken(a) == \E cl \in ToSet(Clients(config)) : cl.id = a.id \/ cl.email = a.email
Has(s, u) == \E i \in DOMAIN s : s[i].id = u

\* The new client in every inbound of the tag that does not have the user.
Inserted(c, tag, cl) ==
    [c EXCEPT !.inbounds = [i \in DOMAIN @ |->
        IF @[i].tag = tag /\ ~Has(@[i].clients, cl.id)
        THEN [@[i] EXCEPT !.clients = Append(@, cl)] ELSE @[i]]]

\* create_vpn_account, for an existing profile or the default inbound.
CreateAccount(a, tag) ==
    /\ ~Taken(a) 
    /\ tag \in {q.tag : q \in Profiles(config)} \union {DefaultTag}
    /\ LET c == Inserted(config, tag, Client(a, Fresh))
       IN c # config /\ update_config(c, listeners)
    /\ Starts /\ granted' = granted \union {a.id}
    /\ UNCHANGED <<permit, req, disk, twins, revoked>>

\* create_user: the client as given, into every inbound without the user; nothing is
\* checked.
CreateUser(a) ==
    LET cl == [Client(a, 0) EXCEPT !.by = "user"]
        c == Edited(config, LAMBDA s : IF Has(s, a.id) THEN s ELSE Append(s, cl))
    IN /\ Starts /\ update_config(c, listeners) /\ c # config
       /\ granted' = granted \union {a.id}
       /\ UNCHANGED <<permit, req, disk, twins, revoked>>

\* delete_user's retain.
Without(c, u) == Edited(c, LAMBDA s : SelectSeq(s, LAMBDA cl : cl.id # u))

\* delete_user; its connections are shut down (Dispatch).
DeleteUser(u) ==
    /\ Starts /\ u \in Ids(config)
    /\ update_config(Without(config, u), listeners)
    /\ granted' = granted \ {u}
    /\ revoked' = revoked \union {t \in DOMAIN sub_tokens : sub_tokens[t] = u}
    /\ UNCHANGED <<permit, req, disk, twins>>

\* The token of every client of the user.
Renewed(c, u, t) ==
    Edited(c, LAMBDA s : [i \in DOMAIN s |-> IF s[i].id = u THEN [s[i] EXCEPT !.token = t] ELSE s[i]])

regenerate_sub_token(u) ==
    /\ u \in Ids(config) 
    /\ update_config(Renewed(config, u, Fresh), listeners)
    /\ Starts
    /\ revoked' = revoked \union {t \in DOMAIN sub_tokens : sub_tokens[t] = u}
    /\ UNCHANGED <<permit, req, disk, twins, granted>>

\* The handlers that create, update or delete a WARP or direct domain set, and
\* apply_routing_update.
ChangeSets ==
    /\ Starts
    /\ config' = [config EXCEPT !.sets = ~@] /\ tables' = config'.sets /\ dirty' = TRUE
    /\ UNCHANGED <<users, stats, sub_tokens, runtimes, listeners, permit, req, disk, twins, granted, revoked>>

(***************************************************************************)
(* create_reality_profile_and_listener, for create_reality_profile and for  *)
(* create_vpn_account with a custom profile.                                *)
(***************************************************************************)
Conflict(p) ==
    \/ \E q \in Profiles(config) : q.tag = p.tag \/ q.port = p.port
    \/ \E i \in DOMAIN config.inbounds : config.inbounds[i].tag = p.tag \/ config.inbounds[i].port = p.port
    \/ p.port \in DOMAIN listeners

\* The checks, up to the first await.
CreateProfile(r, p, a) ==
    /\ req[r] = Idle  /\ ~Conflict(p) /\ (a = NoAccount \/ ~Taken(a))
    /\ req' = [req EXCEPT ![r] = [pc |-> "permit", profile |-> [id |-> Fresh, tag |-> p.tag, port |-> p.port],
                                  account |-> a]]
    /\ Starts
    /\ UNCHANGED <<config, indexes, permit, disk, dirty, twins, granted, revoked>>

\* The runtime is built on a blocking thread under the permit.
Acquire(r) ==
    /\ req[r].pc = "permit" /\ permit /\ permit' = FALSE
    /\ req' = [req EXCEPT ![r].pc = "build"]
    /\ UNCHANGED <<config, indexes, disk, dirty, ops, twins, granted, revoked>>

\* The handler r gives its permit back when it leaves the build, dropped or not.
Returned(r, pc) == req[r].pc = "build"

\* Leaves an await: the next one, or the end.
Leaves(r, pc) ==
    /\ req' = [req EXCEPT ![r] = IF pc = "idle" THEN Idle ELSE [@ EXCEPT !.pc = pc]]
    /\ permit' = (permit \/ Returned(r, pc))
    /\ UNCHANGED <<config, indexes, disk, dirty, ops, twins, granted, revoked>>

Built(r) == req[r].pc = "build" /\ Leaves(r, "bind")
\* The runtime cannot be built, the target does not pass the check of a reload, or the
\* handler is dropped.
GivesUp(r) == req[r].pc # "idle" /\ Leaves(r, "idle")

\* The port can be bound.
BindFree(p) == p.port \notin DOMAIN listeners

\* The port is bound and the profile published: listener, runtime, configuration; then,
\* without an await in between, the account of create_vpn_account.
Bind(r) ==
    /\ req[r].pc = "bind" /\ BindFree(req[r].profile)
    /\ LET p == req[r].profile
           a == req[r].account
           ls == [x \in DOMAIN listeners \union {p.port} |-> IF x = p.port THEN p ELSE listeners[x]]
           c == [config EXCEPT !.profiles = Append(@, p),
                     !.inbounds = Append(@, [tag |-> p.tag, port |-> p.port, clients |-> <<>>])]
       IN IF a = NoAccount
          THEN /\ config' = c /\ listeners' = ls /\ runtimes' = runtimes \union {p} /\ dirty' = TRUE
               /\ UNCHANGED <<tables, users, stats, sub_tokens, granted>>
          ELSE /\ update_config(Inserted(c, p.tag, [Client(a, p.id) EXCEPT !.by = "custom"]), ls)
               /\ granted' = granted \union {a.id}
    /\ req' = [req EXCEPT ![r] = Idle]
    /\ UNCHANGED <<permit, disk, ops, twins, revoked>>

BindFails(r) == req[r].pc = "bind" /\ ~BindFree(req[r].profile) /\ Leaves(r, "idle")

(***************************************************************************)
(* reload_config: the administrator sends back a configuration read before, *)
(* perhaps without its last profile or inbound; it is checked against the   *)
(* network, then replaces what there is by then.                            *)
(***************************************************************************)
Edits(c) ==
    {c} \union (IF c.profiles = <<>> THEN {} ELSE {[c EXCEPT !.profiles = Front(@)]})
        \union (IF Len(c.inbounds) = 1 THEN {} ELSE {[c EXCEPT !.profiles = Front(@), !.inbounds = Front(@)]})

ReadConfig(r) ==
    /\ req[r] = Idle /\ Starts
    /\ \E c \in Edits(config) : req' = [req EXCEPT ![r] = [pc |-> "preflight", copy |-> c]]
    /\ UNCHANGED <<config, indexes, permit, disk, dirty, twins, granted, revoked>>

reload_config(r) ==
    /\ req[r].pc = "preflight" /\ update_config(req[r].copy, listeners)
    /\ req' = [req EXCEPT ![r] = Idle]
    /\ granted' = granted \intersect Ids(req[r].copy) /\ revoked' = revoked \ Tokens(req[r].copy)
    /\ UNCHANGED <<permit, disk, ops, twins>>

Handler(r) == Acquire(r) \/ Built(r) \/ Bind(r) \/ BindFails(r) \/ reload_config(r)
Next ==
    \/ Restart \/ Save \/ ChangeSets
    \/ \E a \in Accounts :
          \/ Traffic(a.id) \/ CreateUser(a) \/ DeleteUser(a.id) \/ regenerate_sub_token(a.id)
          \/ \E tag \in {p.tag : p \in Payloads} \union {DefaultTag} : CreateAccount(a, tag)
    \/ \E r \in Requests :
          \/ \E p \in Payloads, a \in Accounts \union {NoAccount} : CreateProfile(r, p, a)
          \/ ReadConfig(r) \/ Handler(r) \/ GivesUp(r)
Spec == Init /\ [][Next]_vars

(***************************************************************************)
(* Properties.                                                              *)
(***************************************************************************)
Profile == [id : Nat, tag : {p.tag : p \in Payloads} \union {DefaultTag, None.tag},
            port : {p.port : p \in Payloads} \union {DefaultPort}]
TypeOK ==
    /\ config.profiles \in Seq(Profile) /\ disk.profiles \in Seq(Profile)
    /\ DOMAIN users = Ids(config) /\ DOMAIN sub_tokens = Tokens(config) /\ runtimes = Profiles(config)
    /\ \A p \in DOMAIN listeners : listeners[p] \in Profile
    /\ \A r \in Requests : req[r].pc \in {"idle", "permit", "build", "bind", "preflight"}
    /\ permit = ~\E r \in Requests : req[r].pc = "build"

\* No two profiles of the configuration, and no two inbounds, have the same port, even
\* when two requests for it passed the check of create_reality_profile_and_listener:
\* only one of them binds it, and nothing is published without.
PortsUnique ==
    /\ \A i, j \in DOMAIN config.profiles : config.profiles[i].port = config.profiles[j].port => i = j
    /\ \A i, j \in DOMAIN config.inbounds : config.inbounds[i].port = config.inbounds[j].port => i = j

\* A listener answers with the keys of its own port's profile, through every reload and
\* restart; unless the process was started with two profiles or inbounds of one tag, which two
\* requests at once can make: TcpInbound::start goes by the tag.
ListenersServeTheirProfile ==
    \/ twins
    \/ \A p \in DOMAIN listeners : listeners[p] # None => listeners[p].port = p

\* Two users share an email only if one of them came by create_user, which does not
\* check, or by create_vpn_account with a custom profile, which checks before its awaits.
EmailsUnique ==
    \A x, y \in ToSet(Clients(config)) :
        x.email = y.email /\ x.id # y.id => {x.by, y.by} \intersect {"custom", "user"} # {}

\* A subscription token that was replaced or whose user was deleted no longer answers,
\* in whichever inbounds the user was; only an older configuration sent back, or a crash
\* before the save, brings it back.
RevokedTokensDead == revoked \intersect DOMAIN sub_tokens = {}

\* An account that was answered with success can connect until it is deleted, or an older
\* configuration is sent back, or the process stops before the save: no handler undoes
\* the work of another one that ran during its awaits.
GrantedAccountsKept == granted \subseteq DOMAIN users

\* Connections are routed by the domain sets of the configuration in force, also after
\* a configuration that was read before the sets were edited is sent back.
TablesCurrent == tables = config.sets

\* The traffic counted for a user is never forgotten while the process runs and the user
\* stays, whatever is reloaded: update_config keeps the UserStats there are.
KeepsUsage ==
    \A u \in DOMAIN users \intersect DOMAIN users' : users[u].used => users'[u].used \/ Restart
=============================================================================
