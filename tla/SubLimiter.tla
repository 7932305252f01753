------------------------------ MODULE SubLimiter ------------------------------
(***************************************************************************)
(* The limit on requests for subscriptions (check_sub_rate_limit and        *)
(* get_client_ip, api/mod.rs).                                              *)
(***************************************************************************)
EXTENDS Integers, Sequences, FiniteSets

CONSTANTS
    Peers,      \* addresses connections come from
    Trusted,    \* loopback and the trusted proxies among them
    Clients,    \* addresses a proxy may name in X-Forwarded-For
    Window,     \* 60 s
    Limit,      \* 10 requests in a window
    PruneAbove  \* 1000 addresses

VARIABLES
    map,        \* SUB_LIMITER: address -> ages of the requests let through
    served      \* history: the same of every address ever let through, up to the window

vars == <<map, served>>
Sources == Peers \union Clients

Init == map = <<>> /\ served = [a \in Sources |-> <<>>]

\* Where the requests of the window begin: they are pushed in the order of their times.
FirstRecent(s) ==
    CHOOSE k \in 1 .. Len(s) + 1 :
        /\ \A i \in 1 .. k - 1 : s[i] >= Window
        /\ \A i \in k .. Len(s) : s[i] < Window
\* retain.
Recent(s) == SubSeq(s, FirstRecent(s), Len(s))

\* Mutant of Pruned: all of it.
PrunedAll(m) == IF Cardinality(DOMAIN m) > PruneAbove THEN <<>> ELSE m
\* Above the limit of addresses the ones without a recent request are dropped.
Pruned(m) ==
    IF Cardinality(DOMAIN m) <= PruneAbove THEN m
    ELSE [a \in {x \in DOMAIN m : Recent(m[x]) # <<>>} |-> Recent(m[a])]

\* get_client_ip: the header is believed when the peer is trusted.
ClientIp(peer, forwarded) == IF peer \in Trusted /\ forwarded # {} THEN forwarded ELSE {peer}

\* serve_subscription and the handler of the client's configuration, up to the answer 429.
Request(peer, forwarded) ==
    \E a \in ClientIp(peer, forwarded) :
        LET m == Pruned(map)
            mine == IF a \in DOMAIN m THEN Recent(m[a]) ELSE <<>>
            now == IF Len(mine) >= Limit THEN mine ELSE Append(mine, 0)
        IN /\ map' = [x \in DOMAIN m \union {a} |-> IF x = a THEN now ELSE m[x]]
           /\ served' = IF Len(mine) >= Limit THEN served
                        ELSE [served EXCEPT ![a] = Append(Recent(@), 0)]

Older(s) == [i \in DOMAIN s |-> IF s[i] < Window THEN s[i] + 1 ELSE s[i]]
Tick ==
    /\ map' = [a \in DOMAIN map |-> Older(map[a])]
    /\ served' = [a \in Sources |-> Recent(Older(served[a]))]

Next == Tick \/ \E peer \in Peers, f \in SUBSET Clients : Cardinality(f) <= 1 /\ Request(peer, f)
Spec == Init /\ [][Next]_vars

\* No address is served more than Limit times in any window, whatever other addresses ask
\* and whenever the map is pruned.
LimitHolds == \A a \in Sources : Len(Recent(served[a])) <= Limit

-----------------------------------------------------------------------------
\* What makes it inductive (DoorsProofs).
LimiterAssumption == Window \in Nat \ {0} /\ Limit \in Nat

\* Ages of requests in the order in which they came, and of such within the window.
Ages(s) ==
    /\ s \in Seq(0 .. Window)
    /\ \A i, j \in DOMAIN s : i <= j => s[j] <= s[i]
RecentAges(s) == Ages(s) /\ \A i \in DOMAIN s : s[i] < Window

\* What the map remembers of an address: of one it dropped or never saw, nothing.
Remembered(m, a) == IF a \in DOMAIN m THEN Recent(m[a]) ELSE <<>>

IInv ==
    /\ DOMAIN map \subseteq Sources /\ \A a \in DOMAIN map : Ages(map[a])
    /\ served \in [Sources -> Seq(0 .. Window)]
    /\ \A a \in Sources :
          RecentAges(served[a]) /\ Len(served[a]) <= Limit /\ served[a] = Remembered(map, a)
=============================================================================
