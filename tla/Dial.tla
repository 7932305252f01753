-------------------------------- MODULE Dial ---------------------------------
(***************************************************************************)
(* Name resolution and dialling (transport/mod.rs, transport/dns_cache.rs): *)
(* the two DNS caches, the two SingleFlight tables that coalesce lookups,   *)
(* the resolver that asks the system for names on the direct route and the  *)
(* DNS servers behind the SOCKS proxy for names on the WARP route, and      *)
(* dial_tcp, which uses both.  A call is one task that dials, and may be    *)
(* dropped at an await by its caller's timeout or by the deadline of the    *)
(* WARP lookup.  Validated configurations have ipv4_only = true, so the     *)
(* branches for the other value are dead and left out.                      *)
(*                                                                         *)
(* Between two awaits a task runs to the end as far as the clock is         *)
(* concerned; other tasks still interleave at each lock it takes: main.rs   *)
(* runs a current-thread runtime, bin/client.rs a multi-thread one.         *)
(***************************************************************************)
EXTENDS Integers, Sequences, FiniteSets

CONSTANTS
    Calls,          \* the dialling tasks
    Requests,       \* what they may be asked to dial
    MaxEntries,     \* max_entries of a cache
    MinTtl, MaxTtl, \* the bounds of a positive entry's time to live
    NegativeTtl,    \* negative_ttl
    Ttls, Sizes,    \* the times to live and the numbers of addresses of answers
    MaxTime         \* bound: the clock

Routes == {"Direct", "Warp"}
Goals == {"proxy", "dest", "dns", "direct"}
None == "none"

VARIABLES
    now,
    cache,      \* cache[route]: the entries of that route's DnsCache
    inflight,   \* inflight[route][name]: the channel of the flight in progress, or 0
    chans,      \* the watch channels in use: a value or none, and whether the sender lives
    calls,      \* the tasks
    asked,      \* history: the names given to the system resolver, and through which
                \* proxy the call that did so goes
    abandoned   \* history: the keys of the flights whose leader was dropped

vars == <<now, cache, inflight, chans, calls, asked, abandoned>>

(***************************************************************************)
(* Endpoints and addresses.                                                 *)
(***************************************************************************)
Literals == {"v4", "v6"}
Names == ({r.dest : r \in Requests} \union {r.proxy.host : r \in Requests}) \ (Literals \union {None})

\* reject_ipv6_ip under ipv4_only.
reject_ipv6_ip(ip) == ip = "v6"

\* parse_endpoint of host, host:port and what looks like IPv6: the port is the
\* one given, never a second one, and zero or nothing after a colon is refused.
NoProxy == [host |-> None, colons |-> 0, port |-> None]
parse_endpoint(input, default) ==
    CASE input.colons > 1 \/ input.host = "" -> [ok |-> FALSE, port |-> None]
      [] input.colons = 1 /\ input.host # "" ->
           [ok |-> input.port \notin {None, "0"}, port |-> input.port]
      [] OTHER -> [ok |-> TRUE, port |-> default]

Err == [ok |-> FALSE, n |-> 0, via |-> None, at |-> 0, ttl |-> 0]
Clamp(ttl) == IF ttl < MinTtl THEN MinTtl ELSE IF ttl > MaxTtl THEN MaxTtl ELSE ttl

(***************************************************************************)
(* DnsCache.                                                                *)
(***************************************************************************)
Without(f, S) == [k \in DOMAIN f \ S |-> f[k]]
Expired(f) == {k \in DOMAIN f : now >= f[k].exp}

\* get: a live entry, positive or negative.
Live(f, name) == name \in DOMAIN f /\ now < f[name].exp

\* insert: a full cache first loses its expired entries, or any one.
MakeRoom(f) ==
    IF Cardinality(DOMAIN f) < MaxEntries THEN {f}
    ELSE IF Expired(f) # {} THEN {Without(f, Expired(f))}
    ELSE {Without(f, {k}) : k \in DOMAIN f}
Entry(v) == [v |-> v, exp |-> now + IF v.ok THEN Clamp(v.ttl) ELSE NegativeTtl]
Inserted(f, name, v) ==
    {[k \in DOMAIN g \union {name} |-> IF k = name THEN Entry(v) ELSE g[k]] : g \in MakeRoom(f)}

(***************************************************************************)
(* A task: which of its resolutions it is at (goal), where in it (pc), the  *)
(* flights it leads, the one it follows, the answer in its hands and when   *)
(* it took it, the DNS server it is at and the addresses left to try.       *)
(***************************************************************************)
ChanIds == 1..(3 * Cardinality(Calls) + 2 * Cardinality(Names))
Quiet == [sent |-> FALSE, val |-> Err, open |-> TRUE]
Fresh == [pc |-> "idle", kind |-> None, dest |-> None, proxy |-> NoProxy, bind |-> None,
          goal |-> None, lead |-> [g \in Goals |-> 0], wait |-> 0, ans |-> Err,
          srv |-> 0, left |-> 0, took |-> 0]

Init ==
    /\ now = 0
    /\ cache = [r \in Routes |-> <<>>]
    /\ inflight = [r \in Routes |-> [n \in Names |-> 0]]
    /\ chans = [i \in ChanIds |-> Quiet] /\ calls = [c \in Calls |-> Fresh]
    /\ asked = {} /\ abandoned = {}

\* dial_tcp resolves the proxy itself directly and, through it, the destination.
Route(goal) == IF goal = "dest" THEN "Warp" ELSE "Direct"
\* Mutant of CacheOf: one cache for both routes.
CacheOfBoth(route) == "Direct"
\* The cache of a route.
CacheOf(route) == route
NameOf(r) == IF r.goal \in {"proxy", "dns"} THEN r.proxy.host ELSE r.dest

\* The callers that put a deadline around the whole dial: the VLESS outbound, and
\* the preflight and validation of a Reality destination.
Timed(r) == r.kind \in {"vless", "preflight"}
Ended(c) == calls[c].pc \in {"done", "failed"}
Fail(r) == [Fresh EXCEPT !.pc = "failed"]
Succeed(r) == [Fresh EXCEPT !.pc = "done"]
Goto(r, goal) == [r EXCEPT !.goal = goal, !.pc = "resolve", !.ans = Err, !.took = 0, !.wait = 0]

(***************************************************************************)
(* What a task does with an answer.                                         *)
(***************************************************************************)
\* The lookup through the proxy tries the next DNS server, or gives up.
DnsServers == 2
Answer(r, v) == [Goto(r, "dest") EXCEPT !.pc = "answered", !.ans = v, !.srv = 0, !.left = 0]
NextServer(r) ==
    IF r.srv < DnsServers THEN [Goto(r, "dns") EXCEPT !.srv = @ + 1, !.left = 0]
    ELSE Answer(r, Err)

\* With the proxy's address known the destination is resolved through it.
AfterProxy(r) ==
    IF r.dest \notin Literals THEN Goto(r, "dest")
    ELSE IF reject_ipv6_ip(r.dest) THEN Fail(r)
    ELSE [r EXCEPT !.pc = "connect", !.left = 1]

Proceed(r, v) ==
    LET q == [r EXCEPT !.ans = v, !.took = now] IN
    CASE ~v.ok /\ r.goal = "dns" -> NextServer(q)
      [] ~v.ok /\ r.goal # "dns" -> Fail(q)
      [] v.ok /\ r.goal = "proxy" -> AfterProxy(q)
      [] OTHER -> [q EXCEPT !.pc = "connect", !.left = IF r.goal = "dns" THEN 1 ELSE v.n]

Literal(name) == [ok |-> ~reject_ipv6_ip(name), n |-> 1, via |-> None, at |-> now, ttl |-> 0]

(***************************************************************************)
(* The steps of a task.                                                     *)
(***************************************************************************)
\* dial_tcp, or the dial of a Reality fallback or preflight.
StartCall(c) ==
    /\ calls[c].pc = "idle"
    /\ \E q \in Requests :
         LET r == [pc |-> "resolve", kind |-> q.kind, dest |-> q.dest, proxy |-> q.proxy, bind |-> q.bind,
                   goal |-> IF q.proxy = NoProxy THEN "direct" ELSE "proxy", lead |-> [g \in Goals |-> 0],
                   wait |-> 0, ans |-> Err, srv |-> 0, left |-> 0, took |-> 0]
         IN calls' = [calls EXCEPT ![c] =
              IF q.proxy = NoProxy \/ parse_endpoint(q.proxy, 1080).ok THEN r ELSE Fail(r)]
    /\ UNCHANGED <<now, cache, inflight, chans, asked, abandoned>>

\* resolve_ipv4 up to its first await: a literal, a cached answer, a flight to
\* follow, or a flight to lead.  Leading a WARP lookup starts a dial of its own.
ResolveLiteral(c) ==
    LET r == calls[c] IN
    /\ r.pc = "resolve" /\ NameOf(r) \in Literals
    /\ calls' = [calls EXCEPT ![c] = Proceed(r, Literal(NameOf(r)))]
    /\ UNCHANGED <<now, cache, inflight, chans, asked, abandoned>>

ResolveCached(c) ==
    LET r == calls[c]
        f == cache[CacheOf(Route(r.goal))]
    IN /\ r.pc = "resolve" /\ NameOf(r) \notin Literals /\ Live(f, NameOf(r))
       /\ calls' = [calls EXCEPT ![c] = Proceed(r, f[NameOf(r)].v)]
       /\ UNCHANGED <<now, cache, inflight, chans, asked, abandoned>>

\* A channel nobody holds any more.
InUse(i) ==
    \/ \E r \in Routes, n \in Names : inflight[r][n] = i
    \/ \E c \in Calls : calls[c].wait = i \/ \E g \in Goals : calls[c].lead[g] = i
NewChan == CHOOSE i \in ChanIds : ~InUse(i)

FlightOf(r) == inflight[Route(r.goal)][NameOf(r)]

ResolveFlight(c) ==
    LET r == calls[c]
        route == Route(r.goal)
        led == [r EXCEPT !.lead[r.goal] = NewChan]
    IN /\ r.pc = "resolve" /\ NameOf(r) \notin Literals
       /\ ~Live(cache[CacheOf(route)], NameOf(r))
       /\ cache' = [cache EXCEPT ![CacheOf(route)] = Without(@, {NameOf(r)})]
       /\ IF FlightOf(r) # 0
          THEN /\ calls' = [calls EXCEPT ![c] = [r EXCEPT !.pc = "waiting", !.wait = FlightOf(r)]]
               /\ UNCHANGED <<inflight, chans>>
          ELSE /\ chans' = [chans EXCEPT ![NewChan] = Quiet]
               /\ inflight' = [inflight EXCEPT ![route][NameOf(r)] = NewChan]
               /\ calls' = [calls EXCEPT ![c] =
                    IF route = "Direct" THEN [led EXCEPT !.pc = "lookup"]
                    ELSE NextServer([led EXCEPT !.srv = 0])]
       /\ asked' = asked \union
            (IF FlightOf(r) = 0 /\ route = "Direct" THEN {[proxy |-> r.proxy.host, name |-> NameOf(r)]} ELSE {})
       /\ UNCHANGED <<now, abandoned>>

\* The system's answer to a direct lookup: duplicates and IPv6 are dropped, no
\* address left is an error.
Lookup(c) ==
    /\ calls[c].pc = "lookup"
    /\ \E n \in Sizes :
         calls' = [calls EXCEPT ![c].pc = "answered",
           ![c].ans = IF n = 0 THEN Err
                      ELSE [ok |-> TRUE, n |-> n, via |-> "Direct", at |-> now, ttl |-> 300]]
    /\ UNCHANGED <<now, cache, inflight, chans, asked, abandoned>>

\* parse_dns_response: anything but a complete answer to our question is an
\* error; of the A records each address counts once.
Responses == [id : BOOLEAN, qr : BOOLEAN, rcode : BOOLEAN, tc : BOOLEAN, question : BOOLEAN,
              a : Sizes, ttl : Ttls]
parse_dns_response(p) ==
    IF p.id /\ p.qr /\ p.rcode /\ ~p.tc /\ p.question /\ p.a > 0
    THEN [ok |-> TRUE, n |-> p.a, via |-> "Warp", at |-> now, ttl |-> p.ttl] ELSE Err

\* resolve_dns_over_tcp_socks: the response, or a broken stream.
Query(c) ==
    LET r == calls[c] IN
    /\ r.pc = "query"
    /\ \E v \in {parse_dns_response(p) : p \in Responses} :
         calls' = [calls EXCEPT ![c] =
           IF v.ok THEN Answer(r, v) ELSE NextServer(r)]
    /\ UNCHANGED <<now, cache, inflight, chans, asked, abandoned>>

\* Mutant of Remove: an error leaves the key in the table.
RemoveOnSuccess(c) ==
    LET r == calls[c] IN
    /\ r.pc = "answered"
    /\ inflight' = IF r.ans.ok THEN [inflight EXCEPT ![Route(r.goal)][NameOf(r)] = 0] ELSE inflight
    /\ calls' = [calls EXCEPT ![c].pc = "removed"]
    /\ UNCHANGED <<now, cache, chans, asked, abandoned>>
\* The end of SingleFlight::execute: the key is removed, then the followers are
\* told, then the cache is filled.
Remove(c) ==
    LET r == calls[c] IN
    /\ r.pc = "answered"
    /\ inflight' = [inflight EXCEPT ![Route(r.goal)][NameOf(r)] = 0]
    /\ calls' = [calls EXCEPT ![c].pc = "removed"]
    /\ UNCHANGED <<now, cache, chans, asked, abandoned>>
Send(c) ==
    LET r == calls[c] IN
    /\ r.pc = "removed"
    /\ chans' = [chans EXCEPT ![r.lead[r.goal]] = [sent |-> TRUE, val |-> r.ans, open |-> FALSE]]
    /\ calls' = [calls EXCEPT ![c].pc = "sent", ![c].lead[r.goal] = 0]
    /\ UNCHANGED <<now, cache, inflight, asked, abandoned>>
Insert(c) ==
    LET r == calls[c]
        route == CacheOf(Route(r.goal))
    IN /\ r.pc = "sent"
       /\ \E f \in Inserted(cache[route], NameOf(r), r.ans) : cache' = [cache EXCEPT ![route] = f]
       /\ calls' = [calls EXCEPT ![c] = Proceed(r, r.ans)]
       /\ UNCHANGED <<now, inflight, chans, asked, abandoned>>

\* Mutant of Woken: a follower waits for a value only.
WokenByValue(r) == chans[r.wait].sent
\* A follower has its answer, or an error when the sender is gone without one.
Woken(r) == chans[r.wait].sent \/ ~chans[r.wait].open
Wake(c) ==
    LET r == calls[c] IN
    /\ r.pc = "waiting" /\ Woken(r)
    /\ calls' = [calls EXCEPT ![c].pc = "sent", ![c].wait = 0,
         ![c].ans = IF chans[r.wait].sent THEN chans[r.wait].val ELSE Err]
    /\ UNCHANGED <<now, cache, inflight, chans, asked, abandoned>>

\* The next address, or the end of the dial.
TryNext(r) ==
    IF r.left > 1 THEN [r EXCEPT !.left = @ - 1, !.pc = "connect"]
    ELSE IF r.goal = "dns" THEN NextServer(r) ELSE Fail(r)
\* dial_tcp_with_bind: an IPv6 bind address fails every attempt.
Bindable(r) == r.bind # "v6"
\* One attempt, bounded by its timeout and by the deadline of the whole loop.
Connect(c) ==
    LET r == calls[c] IN
    /\ r.pc = "connect"
    /\ \E outcome \in {"connected", "refused", "deadline"} :
         /\ outcome = "connected" => Bindable(r)
         /\ calls' = [calls EXCEPT ![c] =
              CASE outcome = "connected" ->
                     IF r.goal = "direct" THEN Succeed(r)
                     ELSE [r EXCEPT !.pc = "shake", !.took = 0, !.ans = Err]
                [] outcome = "refused" -> TryNext(r)
                [] OTHER -> IF r.goal = "dns" THEN NextServer(r) ELSE Fail(r)]
    /\ UNCHANGED <<now, cache, inflight, chans, asked, abandoned>>

\* The SOCKS5 greeting and CONNECT, which nothing bounds in time.
Shake(c) ==
    LET r == calls[c] IN
    /\ r.pc = "shake"
    /\ \E ok \in BOOLEAN :
         calls' = [calls EXCEPT ![c] =
           IF ~ok THEN TryNext(r)
           ELSE IF r.goal = "dns" THEN [r EXCEPT !.pc = "query"] ELSE Succeed(r)]
    /\ UNCHANGED <<now, cache, inflight, chans, asked, abandoned>>

(***************************************************************************)
(* Timeouts drop a task at an await, with the senders of the flights it     *)
(* leads.  The key of such a flight stays in the table.                     *)
(***************************************************************************)
AtAwait(r) == r.pc \in {"lookup", "waiting", "connect", "shake", "query"}
Led(r, goals) == {r.lead[g] : g \in goals} \ {0}
Drop(r, goals) ==
    /\ chans' = [i \in ChanIds |->
                   IF i \in Led(r, goals) THEN [chans[i] EXCEPT !.open = FALSE] ELSE chans[i]]
    /\ abandoned' = abandoned \union
         {k \in Routes \X Names : inflight[k[1]][k[2]] \in Led(r, goals)}
    /\ UNCHANGED <<now, cache, inflight, asked>>

\* The 2.5 s deadline of a WARP lookup.
WarpTimeout(c) ==
    LET r == calls[c] IN
    /\ AtAwait(r) /\ r.goal = "dns"
    /\ Drop(r, {"dns"})
    /\ calls' = [calls EXCEPT ![c] = [Answer(r, Err) EXCEPT !.lead["dns"] = 0]]
\* The caller's.
CallerTimeout(c) ==
    LET r == calls[c] IN
    /\ AtAwait(r) /\ Timed(r)
    /\ Drop(r, Goals)
    /\ calls' = [calls EXCEPT ![c] = Fail(r)]

\* A second passes only when every task waits for something outside.
Runnable(r) ==
    \/ r.pc \in {"resolve", "answered", "removed", "sent"}
    \/ r.pc = "waiting" /\ Woken(r)
Tick ==
    /\ now < MaxTime /\ \A c \in Calls : ~Runnable(calls[c])
    /\ now' = now + 1
    /\ UNCHANGED <<cache, inflight, chans, calls, asked, abandoned>>

Local(c) ==
    \/ ResolveLiteral(c) \/ ResolveCached(c) \/ ResolveFlight(c)
    \/ Remove(c) \/ Send(c) \/ Insert(c) \/ Wake(c) \/ Connect(c)
Timeout(c) == WarpTimeout(c) \/ CallerTimeout(c)
Outside(c) == Lookup(c) \/ Query(c) \/ Shake(c)

Next == Tick \/ \E c \in Calls : StartCall(c) \/ Local(c) \/ Outside(c) \/ Timeout(c)

\* The runtime runs what can run and timers fire; nothing makes the system
\* resolver, a proxy or a DNS server answer.
Fairness == \A c \in Calls : WF_vars(Local(c)) /\ WF_vars(Timeout(c))

Spec == Init /\ [][Next]_vars /\ Fairness

-----------------------------------------------------------------------------
\* The caches stay within max_entries, and every channel number names one.
TypeOK ==
    /\ now \in 0..MaxTime
    /\ \A r \in Routes : Cardinality(DOMAIN cache[r]) <= MaxEntries
    /\ \A c \in Calls : /\ calls[c].wait \in {0} \union ChanIds
                        /\ \A g \in Goals : calls[c].lead[g] \in {0} \union ChanIds
                        /\ calls[c].srv \in 0..DnsServers
                        /\ calls[c].left \in Nat /\ \E n \in Sizes \union {1} : calls[c].left <= n

\* "refusing to fall back to system DNS (would cause DNS leak)": whatever its
\* caches, flights, failures and timeouts, a call that goes through a proxy
\* gives the system resolver no name but the proxy's.
NoDnsLeak ==
    \A a \in asked : a.proxy # None => a.name = a.proxy

\* An address a proxied call connects to was resolved behind the proxy, and one
\* a direct call connects to was not, though both may ask for the same name at
\* the same time.
RoutesSeparate ==
    \A c \in Calls :
        calls[c].pc = "connect" /\ calls[c].ans.via # None =>
            calls[c].ans.via = (IF calls[c].goal = "dest" THEN "Warp" ELSE "Direct")

\* Of one name at most one lookup is under way on each route: concurrent callers
\* are coalesced.
Looking(c, g) == calls[c].lead[g] # 0 /\ calls[c].pc \notin {"removed", "sent"}
LeadName(c, g) == IF g \in {"proxy", "dns"} THEN calls[c].proxy.host ELSE calls[c].dest
OneLookup ==
    \A c, d \in Calls, g, h \in Goals :
        Looking(c, g) /\ Looking(d, h) /\ Route(g) = Route(h) /\ LeadName(c, g) = LeadName(d, h)
            => calls[c].lead[g] = calls[d].lead[h]

\* A flight in the table has a leader that will
\* end it, unless that leader was dropped by a timeout (a dropped leader leaves its
\* key behind for good).
FlightsHaveLeaders ==
    \A r \in Routes, n \in Names :
        inflight[r][n] # 0 /\ <<r, n>> \notin abandoned =>
            \E c \in Calls, g \in Goals : calls[c].lead[g] = inflight[r][n]

\* No answer is taken, however it was shared between callers and cached, whose
\* time to live has run out since the lookup that got it.
AnswersFresh ==
    \A c \in Calls :
        LET r == calls[c] IN
        r.pc = "connect" /\ r.ans.via # None =>
            r.took - r.ans.at < Clamp(r.ans.ttl)

\* Waiting on a remote that nothing in the code bounds: the system resolver or
\* the proxy, in person or through the leader of a flight.
AtMercy(c) ==
    LET r == calls[c] IN
    /\ r.goal # "dns" /\ ~Timed(r)
    /\ \/ r.pc \in {"lookup", "shake"}
       \/ /\ r.pc = "waiting"
          /\ \E d \in Calls : /\ calls[d].pc = "lookup" /\ calls[d].lead[calls[d].goal] = r.wait
                              /\ calls[d].goal # "dns" /\ ~Timed(calls[d])

\* Every dial ends, except one that waits on such a remote: in particular nobody
\* waits for ever on a flight whose leader was dropped, and a caller with a
\* deadline always gets an answer.
CallsEnd == \A c \in Calls : <>[](calls[c].pc = "idle" \/ Ended(c) \/ AtMercy(c))
-----------------------------------------------------------------------------
(***************************************************************************)
(* The inductive invariant.                                                 *)
(***************************************************************************)
\* What the constants satisfy: finitely many tasks, a cache that holds at least one
\* entry for at least a second, and requests that name what is to be dialled.
DialAssumption ==
    /\ IsFiniteSet(Calls) /\ IsFiniteSet(Requests)
    /\ MaxEntries \in Nat \ {0} /\ MinTtl \in Nat \ {0} /\ MaxTtl \in Nat /\ MinTtl <= MaxTtl
    /\ NegativeTtl \in Nat /\ Ttls \subseteq Nat /\ Sizes \subseteq Nat /\ MaxTime \in Nat
    /\ \A q \in Requests : q.dest # None /\ (q.proxy.host = None => q.proxy = NoProxy)

Answers == [ok : BOOLEAN, n : Sizes \union {0, 1}, via : Routes \union {None}, at : Nat, ttl : Nat]
Pcs == {"idle", "resolve", "lookup", "waiting", "query", "answered", "removed", "sent", "connect",
        "shake", "done", "failed"}
Kinds == {q.kind : q \in Requests} \union {None}
Targets == {q.dest : q \in Requests} \union {None}
Proxies == {q.proxy : q \in Requests} \union {NoProxy}
Binds == {q.bind : q \in Requests} \union {None}
GoalsOrNone == Goals \union {None}
ChansOrNone == {0} \union ChanIds
Leads == [Goals -> ChansOrNone]
Servers == 0..DnsServers
CallRecords ==
    [pc : Pcs, kind : Kinds, dest : Targets, proxy : Proxies, bind : Binds, goal : GoalsOrNone, lead : Leads,
     wait : ChansOrNone, ans : Answers, srv : Servers, left : Nat, took : Nat]
CacheEntries == [v : Answers, exp : Nat]

Types ==
    /\ now \in 0..MaxTime
    /\ DOMAIN cache = Routes
    /\ \A r \in Routes : DOMAIN cache[r] \subseteq Names /\ cache[r] \in [DOMAIN cache[r] -> CacheEntries]
    /\ inflight \in [Routes -> [Names -> ChansOrNone]]
    /\ chans \in [ChanIds -> [sent : BOOLEAN, val : Answers, open : BOOLEAN]]
    /\ calls \in [Calls -> CallRecords]

\* A task that dials has a goal, leads the flight of its goal exactly from the lookup to
\* the answer's delivery, and besides at most the WARP lookup it asks a DNS server for.
Busy(r) == r.pc \notin {"idle", "done", "failed"}
Leading(r) == r.pc \in {"lookup", "answered", "removed"}
Sound(r) ==
    /\ r.wait # 0 <=> r.pc = "waiting"
    /\ \E n \in Sizes \union {1} : r.left <= n
    /\ ~Busy(r) => \A g \in Goals : r.lead[g] = 0
    /\ Busy(r) => /\ r.goal \in Goals /\ r.dest # None
                  /\ (r.goal = "direct") <=> (r.proxy = NoProxy)
                  /\ r.proxy.host = None => r.proxy = NoProxy
                  /\ r.goal \in {"dest", "dns"} => r.dest \notin Literals
                  /\ \A g \in Goals : r.lead[g] # 0 <=> (g = r.goal /\ Leading(r)) \/ (g = "dest" /\ r.goal = "dns")
    /\ Leading(r) \/ r.pc \in {"waiting", "sent"} => NameOf(r) \notin Literals
    /\ r.pc = "lookup" => r.goal # "dest"
    /\ r.pc = "query" => r.goal = "dns"

\* The answer in a task's hands came by the route it asked for, and now, or was not
\* stale when it was taken.
Current(r) ==
    /\ r.pc \in {"answered", "removed", "sent", "connect"} => r.ans.via \in {None, Route(r.goal)}
    /\ r.pc \in {"answered", "removed", "sent"} /\ r.ans.via # None => r.ans.ok /\ r.ans.at = now
    /\ r.pc = "connect" /\ r.ans.via # None => r.took - r.ans.at < Clamp(r.ans.ttl)
    /\ r.pc = "shake" => r.ans.via = None

CallsSound == \A c \in Calls : Sound(calls[c]) /\ Current(calls[c])

\* What is cached was found by the cache's route and expires when its time to live ends.
CachesSound ==
    \A r \in Routes : \A n \in DOMAIN cache[r] :
        LET e == cache[r][n] IN
        e.v.via # None => e.v.via = r /\ e.v.ok /\ e.exp = e.v.at + Clamp(e.v.ttl)

\* Whoever uses a channel uses it for one name on one route, and so is what was sent on it.
Uses(i, t) ==
    /\ \A r \in Routes, n \in Names : inflight[r][n] = i => t = <<r, n>>
    /\ \A c \in Calls, g \in Goals : calls[c].lead[g] = i => t = <<Route(g), LeadName(c, g)>>
    /\ \A c \in Calls : calls[c].wait = i => t = <<Route(calls[c].goal), NameOf(calls[c])>>
    /\ chans[i].sent => chans[i].val.via \in {None, t[1]} /\ (chans[i].val.via # None => chans[i].val.ok)
ChansNamed == \A i \in ChanIds : \E t \in Routes \X (Names \union {None}) : Uses(i, t)

\* A channel has one leader; until the leader removes it the flight is in the table.
Holds(c, g) == calls[c].lead[g] # 0 /\ ~(g = calls[c].goal /\ calls[c].pc = "removed")
OneLeader ==
    \A c, d \in Calls, g, h \in Goals :
        calls[c].lead[g] # 0 /\ calls[c].lead[g] = calls[d].lead[h] => c = d /\ g = h
LeadersHold ==
    \A c \in Calls, g \in Goals :
        /\ Holds(c, g) => inflight[Route(g)][LeadName(c, g)] = calls[c].lead[g]
        /\ calls[c].lead[g] # 0 /\ ~Holds(c, g) => inflight[Route(g)][LeadName(c, g)] # calls[c].lead[g]

\* A flight in the table has no answer yet, and who waits for an answer that is there has
\* waited no longer than it is old.
FlightsOpen == \A r \in Routes, n \in Names : inflight[r][n] # 0 => ~chans[inflight[r][n]].sent
AnswersPrompt ==
    \A c \in Calls :
        LET i == calls[c].wait IN
        calls[c].pc = "waiting" /\ chans[i].sent /\ chans[i].val.via # None => chans[i].val.at = now

CachesBounded == \A r \in Routes : Cardinality(DOMAIN cache[r]) <= MaxEntries

IInv ==
    /\ Types /\ CachesBounded /\ NoDnsLeak /\ CallsSound /\ CachesSound /\ ChansNamed /\ OneLeader /\ LeadersHold
    /\ FlightsOpen /\ AnswersPrompt /\ FlightsHaveLeaders
=============================================================================
