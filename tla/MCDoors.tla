------------------------------- MODULE MCDoors --------------------------------
(***************************************************************************)
(* Doors on small instances, and beside it Hello and Router.  focus names the *)
(* component that runs, from its own initial state, and the others stay where *)
(* they began: the union of a run of each.                                  *)
(*                                                                         *)
(* Handshake: four sockets and three hosts, one of which also appears as an  *)
(* IPv4-mapped IPv6 address; three permits, two per host and a map of two    *)
(* hosts, so that each of the three refusals happens.                        *)
(***************************************************************************)
EXTENDS Doors

CONSTANTS h1, h1v6, h2, h3
MCAddrs == {h1, h1v6, h2, h3}
MCHostOf == [a \in MCAddrs |-> IF a = h1v6 THEN h1 ELSE a]

VARIABLES
    focus,
    hello, damaged, cuts, wire, pos, buffer, payload, records, accepting, out,
    config, tables, asked, outbound

helloVars == <<hello, damaged, cuts, wire, pos, buffer, payload, records, accepting, out>>
routerVars == <<config, tables, asked, outbound>>
allVars == <<focus, doorsVars, helloVars, routerVars>>

\* Hellos: names, key shares and extensions of each kind, in different orders, some twice,
\* one unsealed, one with an unknown short id, one with a short session id, and one with
\* an extension whose contents look like a server name.
Host(n) == [kind |-> 0, body |-> n]
Share(g, k) == [kind |-> g, body |-> k]
Sni(names) == [type |-> 0, list |-> names]
Ks(shares) == [type |-> 1, list |-> shares]
Other == [type |-> 2, list |-> <<>>]
Nested == [type |-> 2, list |-> <<0, 4, 3, 0, 1, 8>>]
Means(exts) == [sid |-> <<7, 7>>, suites |-> <<5>>, exts |-> exts, sealed |-> TRUE, short |-> "s"]
MCHellos ==
    {Means(<<Sni(<<Host(<<3>>)>>), Ks(<<Share(0, <<4>>)>>)>>),
     Means(<<Nested, Sni(<<Host(<<3>>)>>), Ks(<<Share(0, <<4>>)>>)>>),
     Means(<<Ks(<<Share(1, <<4>>), Share(0, <<6>>)>>), Other, Sni(<<Host(<<3>>)>>)>>),
     [Means(<<Other, Ks(<<Share(0, <<4>>)>>), Sni(<<Host(<<3>>)>>)>>) EXCEPT !.short = "t"],
     [Means(<<Sni(<<Host(<<8>>)>>), Ks(<<Share(0, <<4>>)>>)>>) EXCEPT !.sid = <<7>>],
     Means(<<Sni(<<Host(<<3>>)>>), Sni(<<Host(<<8>>)>>), Ks(<<Share(0, <<4>>)>>)>>),
     [Means(<<Sni(<<[kind |-> 1, body |-> <<2>>], Host(<<3>>)>>), Ks(<<Share(0, <<4, 4>>)>>)>>) EXCEPT !.sealed = FALSE]}

H == INSTANCE Hello WITH
    pc <- accepting, Hellos <- MCHellos, ServerNames <- {<<3>>}, ShortIds <- {"s"},
    Values <- {0, 1, 2, 3, 4, 5, 6, 9}, SidLen <- 2, KeyLen <- 1, MaxRecords <- 4, MaxHello <- 34, PeekSize <- 30
\* Router: names on both sides of a label boundary and in both cases; of two addresses the
\* first is private; a disabled set; rules with one condition of each kind, and with two.
Name(b) == <<b>>
Sub(a, b) == <<a, ".", b>>
MCSets ==
    {[exact |-> {Sub("b", "A")}, suffixes |-> {}, enabled |-> TRUE],
     [exact |-> {}, suffixes |-> {Name("b")}, enabled |-> TRUE],
     [exact |-> {Name("b")}, suffixes |-> {Name("a")}, enabled |-> FALSE]}
Rule(tag) == [domain |-> {}, ip |-> {}, port |-> {}, inbound |-> {}, tag |-> tag]
Pattern(kind, text) == [kind |-> kind, text |-> text]
MCRuleLists ==
    {<<>>,
     <<[Rule("block") EXCEPT !.domain = {{Pattern("domain", Name("A"))}}, !.port = {{443}}],
       [Rule("warp") EXCEPT !.inbound = {{"in"}}, !.domain = {{Pattern("plain", Name("b"))}}]>>,
     <<[Rule("block") EXCEPT !.domain = {{Pattern("keyword", <<"a", "b">>), Pattern("regexp", <<".", "b">>)}}]>>,
     <<[Rule("block") EXCEPT !.ip = {{[base |-> 13, bits |-> 3], [base |-> 8, bits |-> 4]}}]>>}
MCRequests ==
    [mode : {"Smart", "BrowsingWarp", "LowLatencyDirect"},
     dest : {Name("b"), Name("l"), <<"a", "b">>, Sub("a", "b"), <<"a", ".", "b", ":", "1">>, Sub("b", "a"),
             Sub("1", "2"), Sub("3", "0"), Sub("3", "2")},
     port : {443}, inbound : {"in"}, sni : {{}, {Sub("b", "A")}, {<<"b", "a">>}}]
    \union [mode : {"Smart", "LowLatencyDirect"}, dest : {Sub("b", "a")}, port : {80, 9091},
            inbound : {"in", "other"}, sni : {{}, {Name("b")}}]
R == INSTANCE Router WITH
    Sets <- MCSets, RuleLists <- MCRuleLists, Requests <- MCRequests, MaxSets <- 2,
    Private <- 4 .. 7, Reserved <- {9091}, LocalHost <- Name("l")
\* A first payload of up to three bytes in pieces of none to two, and a second read.
MCSize == [w \in {"up", "down"} |-> IF w = "up" THEN 4 ELSE 1]

\* The instance is one the theorems of DoorsProofs speak of.
ASSUME DoorsConstants == S!SocksAssumption /\ L!LimiterAssumption /\ B!DashboardAssumption /\ Y!RelayAssumption

NoHello ==
    /\ hello = <<>> /\ damaged = FALSE /\ cuts = 0 /\ wire = <<>> /\ pos = 0 /\ buffer = <<>>
    /\ payload = <<>> /\ records = 0 /\ accepting = "header" /\ out = <<>>
AllInit ==
    /\ focus \in {"handshake", "hello", "socks", "limiter", "dashboard", "router", "relays"}
    /\ DoorsInit
    /\ focus # "relays" => carrier = "vless"
    /\ IF focus = "router" THEN R!Init ELSE config = <<>> /\ tables = <<>> /\ asked = {} /\ outbound = "none"
    /\ IF focus = "hello" THEN H!Init ELSE NoHello

AllNext ==
    /\ UNCHANGED focus
    /\ \/ focus = "handshake" /\ HandshakeStep /\ UNCHANGED <<helloVars, routerVars>>
       \/ focus = "socks" /\ SocksStep /\ UNCHANGED <<helloVars, routerVars>>
       \/ focus = "limiter" /\ LimiterStep /\ UNCHANGED <<helloVars, routerVars>>
       \/ focus = "dashboard" /\ DashboardStep /\ UNCHANGED <<helloVars, routerVars>>
       \/ focus = "relays" /\ RelayStep /\ UNCHANGED <<helloVars, routerVars>>
       \/ focus = "hello" /\ H!Next /\ UNCHANGED <<doorsVars, routerVars>>
       \/ focus = "router" /\ R!Next /\ UNCHANGED <<doorsVars, helloVars>>

\* Handshake's Fairness asks nothing of a Handshake that does not run.
AllSpec == AllInit /\ [][AllNext]_allVars /\ Fairness

\* (Hello) accept takes a ClientHello for a Reality client's exactly when it was sealed by one
\* and not changed on its way, in whatever records it comes, and rustls then reads what the
\* client meant.
SealedOnly == focus = "hello" => H!GenuineAccepted /\ H!UntouchedOnly
\* (Hello) The Reality parser and rustls find the same session id, key share and name in the
\* same bytes, and the sniffer the same name or none.
ParsersAgree == focus = "hello" => H!SameHello /\ H!SniffedName
\* (Hello) However accept ends, whoever takes over gets the client's bytes, each once and in
\* order, and no more was read of it than MaxRecords records and MaxHello bytes.
BytesConserved == focus = "hello" => H!BytesConserved /\ H!LimitsKept

\* (Router) The tables answer by the present sets and rules, label by label, in the code's order
\* of precedence; where that differs from the requirements is LowLatencyNeverWarp's matter.
RouteFollowsPolicy == R!RouteFollowsPolicy
=============================================================================
