------------------------------- MODULE MCTables -------------------------------
(***************************************************************************)
(* The tables that tasks and threads share: Provision (accounts, profiles    *)
(* and listeners) and the three of Tables.  focus names the component that   *)
(* runs, from its own initial state, and the others stay where they began:   *)
(* the union of a run of each.                                              *)
(***************************************************************************)
EXTENDS Tables, TLC

CONSTANT Pair   \* two requests, connections or servers (and threads), interchangeable

VARIABLES
    focus,
    config, tables, users, stats, sub_tokens, runtimes, listeners, permit, req, disk, dirty, ops, twins, granted, revoked

provisionVars == <<config, tables, users, stats, sub_tokens, runtimes, listeners, permit, req, disk, dirty, ops,
                   twins, granted, revoked>>
allVars == <<focus, provisionVars, tablesVars>>

P == INSTANCE Provision WITH
    Requests <- Pair, MaxOps <- 3,
    Payloads <- {[tag |-> "t1", port |-> 1], [tag |-> "t1", port |-> 2]},
    Accounts <- {[id |-> "u1", email |-> "e1"], [id |-> "u2", email |-> "e1"]}

\* The instance is one the theorems of TablesProofs speak of.
ASSUME TablesConstants == TicketAssumption /\ C!CacheAssumption /\ X!MuxAssumption

\* bound: leases and frames from the server in Mux, together
MaxEvents == 4

AllInit ==
    /\ focus \in {"provision", "mux", "switcher", "cache"}
    /\ P!Init /\ TablesInit

AllNext ==
    /\ UNCHANGED focus
    /\ \/ focus = "provision" /\ P!Next /\ UNCHANGED tablesVars
       \/ focus = "mux" /\ MuxStep /\ leases' + frames' <= MaxEvents /\ UNCHANGED provisionVars
       \/ focus = "switcher" /\ SwitcherStep /\ UNCHANGED provisionVars
       \/ focus = "cache" /\ CacheStep /\ UNCHANGED provisionVars

AllSpec == AllInit /\ [][AllNext]_allVars
Symmetry == Permutations(Pair) \union Permutations(Streams)

\* (Provision) The tables name the clients, tokens and profiles of the configuration and the
\* permit is away exactly while a request holds it; no two profiles or inbounds have the same
\* port, a listener answers with the keys of its own port's profile, and two users share an
\* email only by the two handlers that do not hold the check.
ProfilesSeparate == P!TypeOK /\ P!PortsUnique /\ P!ListenersServeTheirProfile /\ P!EmailsUnique
\* (Provision) No handler undoes what another has answered with success: accounts stay, a
\* replaced or deleted token no longer answers, connections are routed by the domain sets in
\* force, and a user's traffic is never forgotten while the process runs and the user stays.
GrantsKept ==
    /\ [](P!RevokedTokensDead /\ P!GrantedAccountsKept /\ P!TablesCurrent)
    /\ [][P!KeepsUsage]_allVars
=============================================================================
