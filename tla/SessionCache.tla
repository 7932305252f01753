---------------------------- MODULE SessionCache ----------------------------
(***************************************************************************)
(* Where resumable TLS 1.3 sessions are kept (limited_cache.rs, the        *)
(* memory caches of client/handy.rs and server/handy.rs) and how the age   *)
(* of a ticket is checked (msgs/persist.rs).  A NewSessionTicket may be    *)
(* delayed or lost, and a ClientHello delayed and delivered more than      *)
(* once.  Each operation of a cache runs under its mutex.                  *)
(*                                                                         *)
(* Server and client have a clock each: the server notes on its own when   *)
(* it sent a ticket, the client on its own when it got it.  The clocks may *)
(* be apart and run at any two rates; neither is set back.                 *)
(*                                                                         *)
(* Sessions are numbered as they are issued.  Milliseconds are counted     *)
(* modulo Modulus (2^32 in the code), Milli of them to a second.           *)
(***************************************************************************)
EXTENDS Integers, Sequences, FiniteSets, SequencesExt

CONSTANTS
  Servers,      \* the server names a client connects to
  ClientSize,   \* capacity of the client's cache, in servers
  ServerSize,   \* capacity of the server's cache, in sessions
  PerServer,    \* MAX_TLS13_TICKETS_PER_SERVER
  Offsets,      \* values of age_add
  Modulus, Milli,
  Skew,         \* MAX_FRESHNESS_SKEW_MS
  Stated,       \* the lifetime a NewSessionTicket states
  MaxLifetime,  \* MAX_TICKET_LIFETIME
  MaxSessions,  \* bound on the sessions issued
  MaxTime       \* bound on the clocks

VARIABLES
  clock,        \* the server's
  clientClock,  \* the client's
  client,   \* ClientSessionMemoryCache: [map, oldest]
  server,   \* ServerSessionMemoryCache: [map, oldest]
  issued,   \* how many sessions were issued
  sent,     \* the NewSessionTickets that were sent and may arrive
  hellos,   \* the ClientHellos that were sent and may arrive
  offered,  \* how often each session was offered; a history variable
  resumed   \* the resumptions, with what freshness should tell; a history variable

vars == <<clock, clientClock, client, server, issued, sent, hellos, offered, resumed>>

Empty == [map |-> <<>>, oldest |-> <<>>]

Init ==
  /\ clock = 0 /\ clientClock = 0
  /\ client = Empty /\ server = Empty
  /\ issued = 0 /\ sent = {} /\ hellos = {}
  /\ offered = [i \in 1..MaxSessions |-> 0]
  /\ resumed = <<>>

-----------------------------------------------------------------------------
(* LimitedCache *)

Has(cache, k) == k \in DOMAIN cache.map

\* HashMap::remove
Dropped(map, k) == [x \in DOMAIN map \ {k} |-> map[x]]

\* Mutant: the key stays in the queue.
RemovedHalf(cache, k) ==
  IF Has(cache, k) THEN [cache EXCEPT !.map = Dropped(@, k)] ELSE cache

\* remove: the queue is searched for the key.
PlaceIn(queue, k) == CHOOSE i \in DOMAIN queue : queue[i] = k /\ \A j \in 1..i-1 : queue[j] # k
Removed(cache, k) ==
  IF Has(cache, k)
  THEN [map |-> Dropped(cache.map, k), oldest |-> RemoveAt(cache.oldest, PlaceIn(cache.oldest, k))]
  ELSE cache

\* insert and get_or_insert_default_and_edit: a new key goes to the end of
\* the queue and, when the queue is full, pushes the oldest key out.
Inserted(cache, k, v, size) ==
  IF Has(cache, k) THEN [map |-> [cache.map EXCEPT ![k] = v], oldest |-> cache.oldest]
  ELSE LET map == [x \in DOMAIN cache.map \union {k} |-> IF x = k THEN v ELSE cache.map[x]]
           oldest == Append(cache.oldest, k)
       IN IF Len(oldest) = size
          THEN [map |-> Dropped(map, Head(oldest)), oldest |-> Tail(oldest)]
          ELSE [map |-> map, oldest |-> oldest]

-----------------------------------------------------------------------------
NoData == [hint |-> FALSE, tickets |-> <<>>]
DataOf(s) == IF Has(client, s) THEN client.map[s] ELSE NoData

\* insert_tls13_ticket: at most PerServer tickets, the oldest goes first.
Ticketed(data, ticket) ==
  [hint |-> data.hint,
   tickets |-> Append(IF Len(data.tickets) = PerServer THEN Tail(data.tickets) ELSE data.tickets, ticket)]

\* ClientSessionCommon::new: a ticket is kept for a week at most.
KeptFor == IF Stated < MaxLifetime THEN Stated ELSE MaxLifetime

\* emit_ticket puts the session, of the server's time, into the server's cache
\* and sends the ticket.
Issue(s, add) ==
  /\ issued < MaxSessions
  /\ issued' = issued + 1
  /\ server' = Inserted(server, issued', [created |-> clock, add |-> add], ServerSize)
  /\ sent' = sent \union {[id |-> issued', name |-> s, add |-> add]}
  /\ UNCHANGED <<clock, clientClock, client, hellos, offered, resumed>>

\* handle_new_ticket_tls13: the client keeps the ticket, of its own time.  got,
\* the server's time by then, is history.
Receive(ticket) ==
  /\ ticket \in sent
  /\ sent' = sent \ {ticket}
  /\ client' = Inserted(client, ticket.name,
                 Ticketed(DataOf(ticket.name), [id |-> ticket.id, epoch |-> clientClock,
                                                add |-> ticket.add, got |-> clock]), ClientSize)
  /\ UNCHANGED <<clock, clientClock, server, issued, hellos, offered, resumed>>

\* set_kx_hint
SetKxHint(s) ==
  /\ ~DataOf(s).hint
  /\ client' = Inserted(client, s, [hint |-> TRUE, tickets |-> DataOf(s).tickets], ClientSize)
  /\ UNCHANGED <<clock, clientClock, server, issued, sent, hellos, offered, resumed>>

\* has_expired
Expired(ticket) == KeptFor # 0 /\ ticket.epoch + KeptFor < clientClock

\* obfuscated_ticket_age
ObfuscatedAge(ticket) == ((clientClock - ticket.epoch) * Milli + ticket.add) % Modulus

\* pop_back: what take_tls13_ticket leaves
Taken(data) == [hint |-> data.hint, tickets |-> Front(data.tickets)]

\* The ClientHello that offers a ticket.  at and got are the server's time at
\* the sending and when the ticket came, held is the client's time between: history.
Offer(ticket) ==
  [id |-> ticket.id, age |-> ObfuscatedAge(ticket), at |-> clock, got |-> ticket.got,
   held |-> clientClock - ticket.epoch]

\* find_session takes the newest ticket; an expired one is dropped.
Connect(s) ==
  /\ DataOf(s).tickets # <<>>
  /\ LET ticket == Last(DataOf(s).tickets)
     IN /\ client' = [map |-> [client.map EXCEPT ![s] = Taken(@)], oldest |-> client.oldest]
        /\ IF Expired(ticket) THEN UNCHANGED <<hellos, offered>>
           ELSE /\ hellos' = hellos \union {Offer(ticket)}
                /\ offered' = [offered EXCEPT ![ticket.id] = @ + 1]
  /\ UNCHANGED <<clock, clientClock, server, issued, sent, resumed>>

\* Mutant: the server's age wraps as well.
FreshWrapping(session, hello) ==
  LET theirs == (hello.age + Modulus - session.add) % Modulus
      ours == ((clock - session.created) * Milli) % Modulus
  IN (theirs <= ours + Skew) /\ (ours <= theirs + Skew)

\* set_freshness: the client's age has wrapped, the server's saturates.
Fresh(session, hello) ==
  LET theirs == (hello.age + Modulus - session.add) % Modulus
      real == (clock - session.created) * Milli
      ours == IF real < Modulus THEN real ELSE Modulus - 1
  IN (theirs <= ours + Skew) /\ (ours <= theirs + Skew)

\* What passed on the server's clock while the ticket and the ClientHello were on
\* the way, and what that clock gained on the client's in between.
Transit(session, hello) == (hello.got - session.created) + (clock - hello.at)
Gained(hello) == (hello.at - hello.got) - hello.held

\* attempt_tls13_ticket_decryption: take.  The ClientHello may arrive again.
Resume(hello) ==
  /\ hello \in hellos /\ Has(server, hello.id)
  /\ server' = Removed(server, hello.id)
  /\ LET session == server.map[hello.id]
     IN resumed' = Append(resumed, [id |-> hello.id, fresh |-> Fresh(session, hello),
                                    transit |-> Transit(session, hello), gained |-> Gained(hello)])
  /\ UNCHANGED <<clock, clientClock, client, issued, sent, hellos, offered>>

\* A second passes on one of the clocks.
Tick ==
  /\ \/ clock < MaxTime /\ clock' = clock + 1 /\ clientClock' = clientClock
     \/ clientClock < MaxTime /\ clientClock' = clientClock + 1 /\ clock' = clock
  /\ UNCHANGED <<client, server, issued, sent, hellos, offered, resumed>>

Next ==
  \/ \E s \in Servers : (\E add \in Offsets : Issue(s, add)) \/ SetKxHint(s) \/ Connect(s)
  \/ \E ticket \in sent : Receive(ticket)
  \/ \E hello \in hellos : Resume(hello)
  \/ Tick

Spec == Init /\ [][Next]_vars

-----------------------------------------------------------------------------
Consistent(cache, size) ==
  /\ ToSet(cache.oldest) = DOMAIN cache.map
  /\ Len(cache.oldest) = Cardinality(DOMAIN cache.map)
  /\ Len(cache.oldest) < size

\* The queue of a cache names exactly the keys of its map, each once, and so
\* bounds it, whatever is inserted, replaced, taken and pushed out.
CachesConsistent == Consistent(client, ClientSize) /\ Consistent(server, ServerSize)

\* A client never offers one ticket in two connections.
TicketsSpentOnce == \A i \in 1..MaxSessions : offered[i] <= 1

\* A session is resumed once, however often its ClientHello arrives.
ResumedOnce == \A i, j \in 1..Len(resumed) : resumed[i].id = resumed[j].id => i = j

\* A resumption is taken for fresh, and may so carry early data, exactly when
\* the allowed skew covers what its comment says it does: the time the
\* NewSessionTicket and the ClientHello were on the way, and what the server's
\* clock gained on the client's while the client held the ticket.  The offset
\* of the clocks, and time in the client's hands, do not count.
FreshIfRecent ==
  \A i \in 1..Len(resumed) :
     LET apart == (resumed[i].transit + resumed[i].gained) * Milli
     IN resumed[i].fresh <=> -Skew <= apart /\ apart <= Skew

-----------------------------------------------------------------------------
\* What makes them inductive (TablesProofs).

\* There is room in the caches, age_add is a number of the width of the age, and a week and
\* a minute are less milliseconds than it can count.
CacheAssumption ==
  /\ {ClientSize, ServerSize, PerServer, Modulus} \subseteq Nat \ {0}
  /\ {Milli, Skew, Stated, MaxLifetime, MaxSessions, MaxTime} \subseteq Nat
  /\ Offsets \subseteq 0..(Modulus - 1)
  /\ KeptFor > 0 /\ KeptFor * Milli + Skew < Modulus - 1

Ticket == [id : 1..issued, epoch : 0..clientClock, add : Offsets, got : 0..clock]
Data == [hint : BOOLEAN, tickets : Seq(Ticket)]
Session == [created : 0..clock, add : Offsets]
NewTicket == [id : 1..issued, name : Servers, add : Offsets]
ClientHello == [id : 1..issued, age : Nat, at : 0..clock, got : 0..clock, held : Nat]
Resumption == [id : 1..issued, fresh : BOOLEAN, transit : Int, gained : Int]

\* The queue of a cache of values in V.
Queued(cache, V, size) ==
  /\ cache = [map |-> cache.map, oldest |-> cache.oldest]
  /\ cache.map \in [DOMAIN cache.map -> V]
  /\ cache.oldest \in Seq(DOMAIN cache.map) /\ Len(cache.oldest) < size
  /\ \A k \in DOMAIN cache.map : \E i \in 1..Len(cache.oldest) : cache.oldest[i] = k
  /\ \A i, j \in 1..Len(cache.oldest) : cache.oldest[i] = cache.oldest[j] => i = j

TypeOK ==
  /\ clock \in Nat /\ clientClock \in Nat /\ issued \in 0..MaxSessions
  /\ Queued(client, Data, ClientSize)
  /\ Queued(server, Session, ServerSize) /\ DOMAIN server.map \subseteq 1..issued
  /\ sent \subseteq NewTicket /\ hellos \subseteq ClientHello
  /\ offered \in [1..MaxSessions -> 0..1]
  /\ resumed \in Seq(Resumption)

\* The tickets the client has of a server.
Tickets(s) == client.map[s].tickets
Places(s) == 1..Len(Tickets(s))

\* No session has two tickets, in hand or on the way; what has one was never offered, and what
\* is still to be issued neither.
TicketsNew ==
  /\ \A t, u \in sent : t.id = u.id => t = u
  /\ \A t \in sent : /\ offered[t.id] = 0
                     /\ \A s \in DOMAIN client.map : \A i \in Places(s) : Tickets(s)[i].id # t.id
  /\ \A s, t \in DOMAIN client.map : \A i \in Places(s), j \in Places(t) :
        Tickets(s)[i].id = Tickets(t)[j].id => s = t /\ i = j
  /\ \A s \in DOMAIN client.map : \A i \in Places(s) : offered[Tickets(s)[i].id] = 0
  /\ \A i \in 1..MaxSessions : i > issued => offered[i] = 0

\* A ticket has the age_add the server keeps for its session, and came after that was made;
\* a ClientHello tells how long the client held it, and was sent before it expired.
Matches(session, hello) ==
  /\ session.created <= hello.got /\ hello.got <= hello.at /\ hello.held <= KeptFor
  /\ hello.age = (hello.held * Milli + session.add) % Modulus
Goes(session, ticket) == session.created <= ticket.got /\ session.add = ticket.add
TicketsAgree ==
  /\ \A t \in sent : Has(server, t.id) => server.map[t.id].add = t.add
  /\ \A s \in DOMAIN client.map : \A i \in Places(s) :
        Has(server, Tickets(s)[i].id) => Goes(server.map[Tickets(s)[i].id], Tickets(s)[i])
  /\ \A hello \in hellos : Has(server, hello.id) => Matches(server.map[hello.id], hello)

\* What was resumed is gone.
ResumedGone == \A i \in 1..Len(resumed) : ~Has(server, resumed[i].id)

IInv == TypeOK /\ TicketsNew /\ TicketsAgree /\ ResumedGone /\ ResumedOnce /\ FreshIfRecent
=============================================================================
