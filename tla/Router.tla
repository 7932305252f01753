-------------------------------- MODULE Router --------------------------------
(***************************************************************************)
(* Domain sets, the tables compiled from them, and the decision for one      *)
(* request (router/mod.rs; the handlers of the sets in api/mod.rs).          *)
(*                                                                         *)
(* Names are short sequences of characters, since the label boundary is what *)
(* the matching is about: "a" is also written "A", "." separates labels, ":" *)
(* a port.  An IPv4 address has two parts of 0 to 3, four bits in all.       *)
(* Left out: IPv6, which dispatch_connection refuses before it routes, and   *)
(* with it the brackets get_host looks for.  A regular expression            *)
(* is a literal text: with it, and with one that does not compile, the code  *)
(* looks for the text anywhere in the name.                                  *)
(***************************************************************************)
EXTENDS Integers, Sequences, SequencesExt, FiniteSets

CONSTANTS
    Sets,       \* domain sets: [exact, suffixes, enabled]
    RuleLists,  \* config.routing.rules
    Requests,   \* [mode, dest, port, inbound, sni]
    MaxSets,    \* bound on the sets of a configuration
    Private,    \* addresses that are loopback, private, link-local, ...
    Reserved,   \* 9091, 9100 and 40000: the engine's own ports
    LocalHost   \* "localhost"

VARIABLES
    config,     \* [warp, direct, rules]: Config, as far as routes go
    tables,     \* EngineState.routing_tables
    asked,      \* the request being routed, at most one
    outbound    \* the tag resolve_route answered

vars == <<config, tables, asked, outbound>>

-----------------------------------------------------------------------------
Lower(s) == [i \in DOMAIN s |-> IF s[i] = "A" THEN "a" ELSE s[i]]
Occurs(s, t) == \E i \in 0 .. Len(t) - Len(s) : SubSeq(t, i + 1, i + Len(s)) = s

\* Router::get_host: what precedes the last colon.
get_host(dest) ==
    LET d == Lower(dest)
        colons == {i \in DOMAIN d : d[i] = ":"}
    IN IF colons = {} THEN d ELSE SubSeq(d, 1, Max(colons) - 1)

Digits == <<"0", "1", "2", "3">>
ValueOf(c) == (CHOOSE i \in 1 .. 4 : Digits[i] = c) - 1
\* parse::<IpAddr>: the address a text is, if it is one.
Address(host) ==
    IF Len(host) = 3 /\ host[2] = "." /\ {host[1], host[3]} \subseteq ToSet(Digits)
    THEN {4 * ValueOf(host[1]) + ValueOf(host[3])} ELSE {}

\* Mutant of match_domain_suffix: any name that ends so.
match_domain_suffix_anywhere(domain, suffix) == IsSuffix(Lower(suffix), Lower(domain))
\* A name matches a suffix that is all of it or follows a dot.
match_domain_suffix(domain, suffix) ==
    LET d == Lower(domain)
        s == Lower(suffix)
        before == Len(d) - Len(s)
    IN d = s \/ (IsSuffix(s, d) /\ before > 0 /\ d[before] = ".")

\* A pattern of a rule: [kind, text].
matches_rule_domain(pattern, host) ==
    LET h == Lower(host)
        p == Lower(pattern.text)
    IN IF pattern.kind \in {"keyword", "regexp"} THEN Occurs(p, h)
       ELSE h = p \/ (IsSuffix(p, h) /\ h[Len(h) - Len(p)] = ".")

\* A network [base, bits] has the addresses from its first to its last; a bare
\* address is one of all four bits.
matches_cidr(net, ip) ==
    LET size == 2 ^ (4 - net.bits)
        first == net.base - (net.base % size)
    IN first <= ip /\ ip <= first + size - 1

is_private_or_local(host) == host = LocalHost \/ Address(host) \cap Private # {}

\* RouteModeTables::compile: the names of the enabled sets, in lower case.
Enabled(sets) == {s \in ToSet(sets) : s.enabled}
Names(sets, field) == UNION {{Lower(n) : n \in s[field]} : s \in Enabled(sets)}
compile(c) ==
    [warp   |-> [exact |-> Names(c.warp, "exact"), suffixes |-> Names(c.warp, "suffixes")],
     direct |-> [exact |-> Names(c.direct, "exact"), suffixes |-> Names(c.direct, "suffixes")],
     rules  |-> c.rules]

\* Router::matches_domain: the destination or the name that was sniffed.
matches_domain(q, table) ==
    \E n \in {get_host(q.dest)} \union {Lower(s) : s \in q.sni} :
        n \in table.exact \/ \E s \in table.suffixes : match_domain_suffix(n, s)

\* Every condition a rule has holds; a condition it does not have is an empty set.
RuleMatches(r, q) ==
    LET host == get_host(q.dest) IN
    /\ \A ps \in r.domain : \E p \in ps, n \in {host} \union q.sni : matches_rule_domain(p, n)
    /\ \A nets \in r.ip : \E net \in nets, ip \in Address(host) : matches_cidr(net, ip)
    /\ \A ports \in r.port : q.port \in ports
    /\ \A tags \in r.inbound : q.inbound \in tags

\* Router::resolve_route.
Decision(q) ==
    LET host == get_host(q.dest)
        matching == SelectSeq(tables.rules, LAMBDA r : RuleMatches(r, q))
    IN IF host = LocalHost \/ q.port \in Reserved \/ is_private_or_local(host) THEN "direct"
       ELSE IF q.mode = "BrowsingWarp" /\ matches_domain(q, tables.direct) THEN "direct"
       ELSE IF q.mode = "Smart" /\ matches_domain(q, tables.warp) THEN "warp"
       ELSE IF matching # <<>> THEN matching[1].tag
       ELSE IF q.mode = "BrowsingWarp" THEN "warp" ELSE "direct"

-----------------------------------------------------------------------------
Init ==
    /\ config \in [warp : {<<>>}, direct : {<<>>}, rules : RuleLists]
    /\ tables = compile(config)
    /\ asked = {} /\ outbound = "none"

\* EngineState::apply_routing_update: both kinds of sets, and the tables.
apply_routing_update(new) ==
    /\ config' = [config EXCEPT !.warp = new.warp, !.direct = new.direct]
    /\ tables' = compile(config')

\* The handlers that create, change and delete a set; a set that is not there is
\* not found.
CreateSet(kind, s) ==
    /\ Len(config.warp) + Len(config.direct) < MaxSets
    /\ apply_routing_update([config EXCEPT ![kind] = Append(@, s)])
UpdateSet(kind, i, s) ==
    /\ i \in DOMAIN config[kind]
    /\ apply_routing_update([config EXCEPT ![kind][i] = s])
DeleteSet(kind, i) ==
    /\ i \in DOMAIN config[kind]
    /\ apply_routing_update([config EXCEPT ![kind] = RemoveAt(@, i)])

\* dispatch_connection loads the tables and resolves the route.
Route(q) ==
    /\ asked' = {q} /\ outbound' = Decision(q)
    /\ UNCHANGED <<config, tables>>

Next ==
    /\ asked = {}
    /\ \/ \E kind \in {"warp", "direct"} :
             /\ \/ \E s \in Sets : CreateSet(kind, s)
                \/ \E i \in 1 .. MaxSets, s \in Sets : UpdateSet(kind, i, s)
                \/ \E i \in 1 .. MaxSets : DeleteSet(kind, i)
             /\ UNCHANGED <<asked, outbound>>
       \/ \E q \in Requests : Route(q)

Spec == Init /\ [][Next]_vars

-----------------------------------------------------------------------------
\* What the sets and rules mean: names are sequences of labels, without regard to
\* case; a name is under a domain if its last labels are the domain's; an address
\* is in a network if their first bits agree.
Labels(name) ==
    LET n == Lower(name)
        ends == SetToSortSeq({i \in DOMAIN n : n[i] = "."} \union {0, Len(n) + 1}, <)
    IN [k \in 1 .. Len(ends) - 1 |-> SubSeq(n, ends[k] + 1, ends[k + 1] - 1)]
Under(name, domain) == IsSuffix(Labels(domain), Labels(name))
NamesOf(q) == {get_host(q.dest)} \union q.sni
Listed(q, sets) ==
    \E i \in DOMAIN sets, n \in NamesOf(q) :
        /\ sets[i].enabled
        /\ \/ \E e \in sets[i].exact : Labels(e) = Labels(n)
           \/ \E s \in sets[i].suffixes : Under(n, s)
InNetwork(ip, net) == \A b \in 1 .. net.bits : (ip \div 2 ^ (4 - b)) % 2 = (net.base \div 2 ^ (4 - b)) % 2
Meant(r, q) ==
    /\ \A ps \in r.domain : \E p \in ps, n \in NamesOf(q) :
          IF p.kind \in {"plain", "domain"} THEN Under(n, p.text)
          ELSE \E x \in Suffixes(Lower(n)) : IsPrefix(Lower(p.text), x)
    /\ \A nets \in r.ip : \E net \in nets, ip \in Address(get_host(q.dest)) : InNetwork(ip, net)
    /\ \A ports \in r.port : q.port \in ports
    /\ \A tags \in r.inbound : q.inbound \in tags
FirstMeant(q) ==
    LET meant == {i \in DOMAIN config.rules : Meant(config.rules[i], q)}
    IN IF meant = {} THEN "none" ELSE config.rules[CHOOSE i \in meant : \A j \in meant : i <= j].tag
Facts(q) ==
    [local     |-> is_private_or_local(get_host(q.dest)) \/ q.port \in Reserved,
     warpSet   |-> Listed(q, config.warp),
     directSet |-> Listed(q, config.direct),
     rule      |-> FirstMeant(q)]

P == INSTANCE RoutePolicy

\* Whatever sets were created, changed and deleted before, resolve_route answers
\* by the present configuration, in RoutePolicy's order of precedence, with names
\* compared label by label and networks bit by bit: "bb" is not under "b", and a
\* disabled or deleted set has no effect.  That order has the custom rules before
\* the default of every mode, Low Latency included, which is not what the
\* requirements say of it: Dispatch states that as LowLatencyNeverWarp.
RouteFollowsPolicy == \A q \in asked : outbound = P!resolve_route(q.mode, Facts(q))
=============================================================================
