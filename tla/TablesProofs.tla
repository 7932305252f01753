------------------------------ MODULE TablesProofs -----------------------------
(***************************************************************************)
(* The shared tables of Tables.  First TicketSwitcher, for any number of     *)
(* threads, any lifetime of a key and any delay of a thread: a ticket is     *)
(* accepted for a key's lifetime, no key is used past it, and the keys in    *)
(* use are distinct; then SessionCache, for any servers and any sizes of the *)
(* caches: a ticket is offered once, a session resumed once, and as fresh    *)
(* exactly when the skew covers the time ticket and ClientHello were on the  *)
(* way and what one clock gained on the other; then the Mux of MuxProofs     *)
(* and last the tables together.  The inductive invariants are IInv of       *)
(* TicketSwitcher, C!IInv of SessionCache and MP!IInv of Mux.                *)
(***************************************************************************)
EXTENDS Tables, SequenceTheorems, FiniteSetTheorems, TLAPS

Thread == [pc : {"idle", "roll", "generate", "place"}, now : 0..clock,
           op : {"none", "encrypt", "decrypt"}, recovering : BOOLEAN, made : Nat]

\* TicketTraced of a ticket of key k made at time a, when cur is current and prev
\* previous since time s.
Traced(k, a, cur, prev, s) ==
  k # 0 => k = cur \/ (k = prev /\ a <= s) \/ s + MaxDelay > a + Lifetime

\* What the invariant says of one thread in a call.
LEMMA ThreadFacts ==
  ASSUME TicketAssumption, IInv, NEW t \in Threads
  PROVE  /\ thread[t] \in Thread /\ thread[t].now \in Nat /\ thread[t].now <= clock
         /\ clock \in Nat /\ since \in Nat /\ since <= clock
         /\ Lifetime \in Nat /\ MaxDelay \in Nat /\ next_switch_time \in Nat
         /\ thread[t].pc # "idle" => clock <= thread[t].now + MaxDelay
         /\ thread[t].pc # "idle" => thread[t].op = "encrypt" \/ ticket.key # 0
BY DEF IInv, TypeOK, ThreadsOnTime, TicketAssumption, Thread

\* A call that ends with keys that are not too old and trace the ticket.
LEMMA UseStep ==
  ASSUME TicketAssumption, IInv, NEW t \in Threads, thread[t].pc # "idle",
         NEW cur \in Nat \ {0}, NEW prev \in Nat, NEW from \in 0..clock,
         clock <= from + Lifetime + MaxDelay,
         Traced(ticket.key, ticket.at, cur, prev, from),
         Use(t, cur, prev, from), clock' = clock
  PROVE  /\ thread' = [thread EXCEPT ![t] = Idle]
         /\ ticket' \in [key : Nat, at : 0..clock]
         /\ ticket.key # 0 => ticket' = ticket
         /\ Traced(ticket'.key, ticket'.at, cur, prev, from)
         /\ AcceptedLongEnough' /\ KeyNotOverused'
<1>1. /\ clock \in Nat /\ Lifetime \in Nat /\ MaxDelay \in Nat /\ clock \in 0..clock
      /\ ticket \in [key : Nat, at : 0..clock]
      /\ thread[t].op = "encrypt" \/ ticket.key # 0
  BY ThreadFacts DEF IInv, TypeOK
<1>2. thread' = [thread EXCEPT ![t] = Idle]
  BY DEF Use
<1>3. CASE thread[t].op = "encrypt"
  <2>1. /\ ticket' = IF ticket.key = 0 THEN [key |-> cur, at |-> clock] ELSE ticket
        /\ result' = [op |-> "encrypt", ok |-> TRUE, age |-> clock - from]
    BY <1>3 DEF Use
  <2>2. AcceptedLongEnough' /\ KeyNotOverused'
    BY <1>1, <2>1 DEF AcceptedLongEnough, KeyNotOverused
  <2>3. /\ ticket' \in [key : Nat, at : 0..clock]
        /\ ticket.key # 0 => ticket' = ticket
        /\ Traced(ticket'.key, ticket'.at, cur, prev, from)
    BY <1>1, <2>1 DEF Traced
  <2>. QED
    BY <1>2, <2>2, <2>3
<1>4. CASE thread[t].op # "encrypt"
  <2>1. /\ result' = [op |-> "decrypt", ok |-> ticket.key \in {cur, prev}, age |-> clock - ticket.at]
        /\ ticket' = ticket
    BY <1>4 DEF Use
  <2>2. ticket.key # 0 /\ ticket.at \in 0..clock
    BY <1>1, <1>4
  <2>3. ticket.key \notin {cur, prev} => clock - ticket.at > Lifetime - MaxDelay
    BY <1>1, <2>2 DEF Traced
  <2>4. AcceptedLongEnough' /\ KeyNotOverused'
    BY <2>1, <2>3 DEF AcceptedLongEnough, KeyNotOverused
  <2>. QED
    BY <1>1, <1>2, <2>1, <2>4
<1>. QED
  BY <1>3, <1>4

\* A thread that goes on, in its call or out of it, while the clock stands still: the
\* others are as they were.
LEMMA OthersOnTime ==
  ASSUME TicketAssumption, IInv, NEW t \in Threads, NEW r \in Thread,
         thread' = [thread EXCEPT ![t] = r], clock' = clock, since' \in 0..clock, since <= since',
         ticket.key # 0 => ticket'.key # 0,
         r.pc # "idle" => /\ clock <= r.now + MaxDelay
                          /\ r.op = "encrypt" \/ ticket.key # 0
                          /\ r.pc \in {"generate", "place"} /\ ~r.recovering => r.now <= since'
  PROVE  /\ thread' \in [Threads -> Thread] /\ ThreadsOnTime'
         /\ thread'[t] = r /\ \A u \in Threads \ {t} : thread'[u] = thread[u]
<1>1. thread \in [Threads -> Thread] /\ since \in Nat /\ clock \in Nat
  BY DEF IInv, TypeOK, Thread
<1>2. /\ thread' \in [Threads -> Thread]
      /\ thread'[t] = r /\ \A u \in Threads \ {t} : thread'[u] = thread[u]
  BY <1>1
<1>3. ASSUME NEW u \in Threads, thread'[u].pc # "idle"
      PROVE  /\ clock' <= thread'[u].now + MaxDelay
             /\ thread'[u].op = "encrypt" \/ ticket'.key # 0
             /\ thread'[u].pc \in {"generate", "place"} /\ ~thread'[u].recovering => thread'[u].now <= since'
  <2>1. CASE u = t
    BY <1>2, <1>3, <2>1
  <2>2. CASE u # t
    <3>1. thread'[u] = thread[u] /\ thread[u].now \in Nat
      BY <1>1, <1>2, <2>2 DEF Thread
    <3>2. since' \in Nat
      BY <1>1
    <3>. QED
      BY <1>1, <1>3, <3>1, <3>2 DEF IInv, ThreadsOnTime
  <2>. QED
    BY <2>1, <2>2
<1>. QED
  BY <1>2, <1>3 DEF ThreadsOnTime

\* A thread that is not left with keys of its own: those it may have had are the only
\* ones that come to be in use.
LEMMA FreshKept ==
  ASSUME IInv, NEW t \in Threads, NEW r, r.pc # "place",
         thread' = [thread EXCEPT ![t] = r], generated' = generated,
         \A k \in {next', current', previous'} :
            k \in {0, next, current, previous} \/ (thread[t].pc = "place" /\ k \in Made(t))
  PROVE  MadeFresh'
<1>1. /\ generated \in Nat
      /\ thread \in [Threads -> [pc : {"idle", "roll", "generate", "place"}, now : 0..clock,
                                 op : {"none", "encrypt", "decrypt"}, recovering : BOOLEAN, made : Nat]]
      /\ MadeFresh
  BY DEF IInv, TypeOK
<1>2. \A k \in {next', current', previous'} : k <= generated'
  BY <1>1 DEF MadeFresh
<1>3. ASSUME NEW u \in Threads, thread'[u].pc = "place"
      PROVE  u # t /\ thread'[u] = thread[u] /\ Made(u)' = Made(u)
  BY <1>1, <1>3 DEF Made
<1>4. ASSUME NEW u \in Threads, thread'[u].pc = "place", NEW k \in Made(u)'
      PROVE  /\ k # 0 /\ k <= generated' /\ k \notin {next', current', previous'}
             /\ \A w \in Threads \ {u} : thread'[w].pc = "place" => k \notin Made(w)'
  <2>1. u # t /\ thread[u].pc = "place" /\ k \in Made(u)
    BY <1>3, <1>4
  <2>2. /\ k # 0 /\ k <= generated /\ k \notin {next, current, previous}
        /\ \A w \in Threads \ {u} : thread[w].pc = "place" => k \notin Made(w)
    BY <1>1, <2>1 DEF MadeFresh
  <2>3. k \notin {next', current', previous'}
    BY <2>1, <2>2
  <2>4. ASSUME NEW w \in Threads \ {u}, thread'[w].pc = "place"
        PROVE  k \notin Made(w)'
    <3>1. thread'[w] = thread[w] /\ Made(w)' = Made(w)
      BY <1>3, <2>4
    <3>. QED
      BY <2>2, <2>4, <3>1
  <2>. QED
    BY <2>2, <2>3, <2>4
<1>. QED
  BY <1>2, <1>4 DEF MadeFresh

\* When a switch is due, the keys of the moment can be demoted.
LEMMA DemoteOnTime ==
  ASSUME TicketAssumption, IInv, NEW t \in Threads, thread[t].pc # "idle", Due(t), NEW k
  PROVE  /\ Traced(ticket.key, ticket.at, k, current, clock)
         /\ thread[t].now + Lifetime <= clock + Lifetime
         /\ clock + Lifetime <= (thread[t].now + Lifetime) + MaxDelay
         /\ thread[t].now + Lifetime \in Nat
<1>1. /\ ticket.at \in Nat /\ ticket.at <= clock
      /\ since + Lifetime <= next_switch_time + MaxDelay /\ TicketTraced
  BY ThreadFacts DEF IInv, TypeOK, SwitchOnTime
<1>2. thread[t].now > next_switch_time
  BY DEF Due
<1>. QED
  BY <1>1, <1>2, ThreadFacts DEF Traced, TicketTraced

\* A call of a thread preserves the invariant,
LEMMA CallIInv ==
  ASSUME TicketAssumption, IInv, NEW t \in Threads, NEW op \in {"encrypt", "decrypt"}, Call(t, op)
  PROVE  IInv'
<1>. DEFINE r == [pc |-> "roll", now |-> clock, op |-> op, recovering |-> FALSE, made |-> 0]
<1>1. /\ thread' = [thread EXCEPT ![t] = r]
      /\ op = "decrypt" => ticket.key # 0
      /\ UNCHANGED <<clock, next, current, previous, next_switch_time, since, generated, ticket, result>>
  BY DEF Call, keys
<1>2. clock \in Nat /\ MaxDelay \in Nat /\ since \in 0..clock /\ since \in Nat
  BY ThreadFacts DEF IInv, TypeOK
<1>3. r \in Thread /\ r.pc = "roll" /\ r.now = clock /\ r.op = op
  <2>1. clock \in 0..clock
    BY <1>2
  <2>. QED
    BY <2>1 DEF Thread
<1>. HIDE DEF r
<1>4. thread' \in [Threads -> Thread] /\ ThreadsOnTime'
  <2>1. /\ clock <= r.now + MaxDelay /\ ~(r.pc \in {"generate", "place"})
        /\ r.op = "encrypt" \/ ticket.key # 0
    BY <1>1, <1>2, <1>3
  <2>2. clock' = clock /\ since' \in 0..clock /\ since <= since' /\ ticket' = ticket
    BY <1>1, <1>2
  <2>. QED
    BY <1>1, <1>3, <2>1, <2>2, OthersOnTime
<1>5. MadeFresh'
  BY <1>1, <1>3, FreshKept
<1>6. TypeOK'
  BY <1>1, <1>4 DEF IInv, TypeOK, Thread
<1>. QED
  BY <1>1, <1>4, <1>5, <1>6
     DEF IInv, SwitchOnTime, TicketTraced, AcceptedLongEnough, KeyNotOverused, KeysDistinct

\* A thread that leaves its call.
LEMMA EndOnTime ==
  ASSUME TicketAssumption, IInv, NEW t \in Threads,
         thread' = [thread EXCEPT ![t] = Idle], clock' = clock, since' \in 0..clock, since <= since',
         ticket.key # 0 => ticket'.key # 0
  PROVE  thread' \in [Threads -> Thread] /\ ThreadsOnTime' /\ Idle.pc = "idle"
<1>1. clock \in Nat /\ 0 \in 0..clock
  BY ThreadFacts
<1>2. Idle \in Thread /\ Idle.pc = "idle"
  BY <1>1 DEF Idle, Thread
<1>. QED
  BY <1>2, OthersOnTime

\* and so do keys that are not due,
LEMMA KeepIInv ==
  ASSUME TicketAssumption, IInv, NEW t \in Threads, Keep(t)
  PROVE  IInv'
<1>1. /\ thread[t].pc = "roll" /\ ~Due(t) /\ Use(t, current, previous, since)
      /\ UNCHANGED <<clock, next, current, previous, next_switch_time, since, generated>>
  BY DEF Keep, keys
<1>2. clock <= since + Lifetime + MaxDelay
  <2>1. next_switch_time <= since + Lifetime
    BY DEF IInv, SwitchOnTime
  <2>. QED
    BY <1>1, <2>1, ThreadFacts DEF Due
<1>3. /\ current \in Nat \ {0} /\ previous \in Nat /\ since \in 0..clock /\ since \in Nat
      /\ Traced(ticket.key, ticket.at, current, previous, since)
  BY ThreadFacts DEF IInv, TypeOK, TicketTraced, Traced
<1>4. /\ thread' = [thread EXCEPT ![t] = Idle]
      /\ ticket' \in [key : Nat, at : 0..clock]
      /\ ticket.key # 0 => ticket' = ticket
      /\ Traced(ticket'.key, ticket'.at, current, previous, since)
      /\ AcceptedLongEnough' /\ KeyNotOverused'
  BY <1>1, <1>2, <1>3, UseStep
<1>5. thread' \in [Threads -> Thread] /\ ThreadsOnTime'
  <2>1. since' \in 0..clock /\ since <= since' /\ clock' = clock
    BY <1>1, <1>3
  <2>2. ticket.key # 0 => ticket'.key # 0
    BY <1>4
  <2>. QED
    BY <1>4, <2>1, <2>2, EndOnTime
<1>6. MadeFresh'
  BY <1>1, <1>4, FreshKept DEF Idle
<1>7. TypeOK'
  BY <1>1, <1>4, <1>5 DEF IInv, TypeOK, Thread
<1>. QED
  BY <1>1, <1>4, <1>5, <1>6, <1>7
     DEF IInv, SwitchOnTime, TicketTraced, Traced, KeysDistinct

\* switching them,
LEMMA SwitchIInv ==
  ASSUME TicketAssumption, IInv, NEW t \in Threads, Switch(t)
  PROVE  IInv'
<1>1. /\ thread[t].pc = "roll" /\ Due(t)
      /\ UNCHANGED <<clock, generated, ticket, result>>
  BY DEF Switch
<1>2. /\ thread \in [Threads -> Thread] /\ thread[t] \in Thread
      /\ clock \in Nat /\ clock \in 0..clock /\ since \in 0..clock /\ since <= clock
      /\ thread[t].now \in Nat /\ thread[t].now <= clock
      /\ clock <= thread[t].now + MaxDelay
      /\ thread[t].op = "encrypt" \/ ticket.key # 0
  BY <1>1, ThreadFacts DEF IInv, TypeOK, Thread
<1>3. CASE next # 0
  <2>. DEFINE r == [thread[t] EXCEPT !.pc = "generate"]
  <2>1. /\ previous' = current /\ current' = next /\ next' = 0 /\ since' = clock
        /\ next_switch_time' = thread[t].now + Lifetime
        /\ thread' = [thread EXCEPT ![t] = r]
    BY <1>2, <1>3 DEF Switch
  <2>2. r \in Thread /\ r.pc = "generate" /\ r.now = thread[t].now /\ r.op = thread[t].op
    BY <1>2 DEF Thread
  <2>. HIDE DEF r
  <2>3. thread' \in [Threads -> Thread] /\ ThreadsOnTime'
    <3>1. clock' = clock /\ since' \in 0..clock /\ since <= since' /\ ticket' = ticket
      BY <1>1, <1>2, <2>1
    <3>2. clock <= r.now + MaxDelay /\ r.now <= since' /\ (r.op = "encrypt" \/ ticket.key # 0)
      BY <1>2, <2>1, <2>2
    <3>. QED
      BY <2>1, <2>2, <3>1, <3>2, OthersOnTime
  <2>4. MadeFresh'
    BY <1>1, <2>1, <2>2, FreshKept
  <2>5. /\ Traced(ticket.key, ticket.at, next, current, clock)
        /\ thread[t].now + Lifetime <= clock + Lifetime
        /\ clock + Lifetime <= (thread[t].now + Lifetime) + MaxDelay
        /\ thread[t].now + Lifetime \in Nat
    BY <1>1, DemoteOnTime
  <2>6. SwitchOnTime' /\ TicketTraced'
    BY <1>1, <2>1, <2>5 DEF SwitchOnTime, TicketTraced, Traced
  <2>7. KeysDistinct'
    BY <1>3, <2>1 DEF IInv, KeysDistinct, TypeOK
  <2>8. TypeOK'
    BY <1>1, <1>2, <1>3, <2>1, <2>3, <2>5 DEF IInv, TypeOK, Thread
  <2>. QED
    BY <1>1, <2>3, <2>4, <2>6, <2>7, <2>8 DEF IInv, AcceptedLongEnough, KeyNotOverused
<1>4. CASE next = 0
  <2>. DEFINE r == [thread[t] EXCEPT !.pc = "generate", !.recovering = TRUE]
  <2>1. /\ UNCHANGED <<next, current, previous, next_switch_time, since>>
        /\ thread' = [thread EXCEPT ![t] = r]
    BY <1>2, <1>4 DEF Switch, keys
  <2>2. r \in Thread /\ r.pc = "generate" /\ r.now = thread[t].now /\ r.op = thread[t].op /\ r.recovering
    BY <1>2 DEF Thread
  <2>. HIDE DEF r
  <2>3. thread' \in [Threads -> Thread] /\ ThreadsOnTime'
    <3>1. clock' = clock /\ since' \in 0..clock /\ since <= since' /\ ticket' = ticket
      BY <1>1, <1>2, <2>1
    <3>2. clock <= r.now + MaxDelay /\ (r.op = "encrypt" \/ ticket.key # 0)
      BY <1>2, <2>1, <2>2
    <3>. QED
      BY <2>1, <2>2, <3>1, <3>2, OthersOnTime
  <2>4. MadeFresh'
    BY <1>1, <2>1, <2>2, FreshKept
  <2>5. TypeOK'
    BY <1>1, <2>1, <2>3 DEF IInv, TypeOK, Thread
  <2>. QED
    BY <1>1, <2>1, <2>3, <2>4, <2>5
       DEF IInv, SwitchOnTime, TicketTraced, AcceptedLongEnough, KeyNotOverused, KeysDistinct
<1>. QED
  BY <1>3, <1>4

\* The keys of a call are numbered after all that were generated before.
LEMMA GenerateIInv ==
  ASSUME TicketAssumption, IInv, NEW t \in Threads, Generate(t)
  PROVE  IInv'
<1>. DEFINE n == IF thread[t].recovering THEN 2 ELSE 1
            r == [thread[t] EXCEPT !.pc = "place", !.made = generated + 1]
<1>1. /\ thread \in [Threads -> Thread] /\ thread[t] \in Thread /\ generated \in Nat
      /\ clock \in Nat /\ since \in 0..clock /\ since <= since
  BY ThreadFacts DEF IInv, TypeOK, Thread
<1>2. /\ thread[t].pc = "generate" /\ generated' = generated + n
      /\ thread' = [thread EXCEPT ![t] = r]
      /\ UNCHANGED <<clock, next, current, previous, next_switch_time, since, ticket, result>>
  BY <1>1 DEF Generate, keys
<1>3. /\ r \in Thread /\ r.pc = "place" /\ r.now = thread[t].now /\ r.op = thread[t].op
      /\ r.recovering = thread[t].recovering /\ r.made = generated + 1
  <2>1. generated + 1 \in Nat
    BY <1>1
  <2>2. r \in Thread /\ r.pc = "place" /\ r.made = generated + 1
    BY <1>1, <2>1 DEF Thread
  <2>3. r.now = thread[t].now /\ r.op = thread[t].op
    BY <1>1 DEF Thread
  <2>4. r.recovering = thread[t].recovering
    BY <1>1 DEF Thread
  <2>. QED
    BY <2>2, <2>3, <2>4
<1>4. n \in {1, 2} /\ (r.recovering => n = 2)
  <2>1. r.recovering => thread[t].recovering
    BY <1>3, Zenon
  <2>. HIDE DEF r
  <2>. QED
    BY <2>1
<1>. HIDE DEF r, n
<1>5. /\ thread' \in [Threads -> Thread] /\ ThreadsOnTime'
      /\ thread'[t] = r /\ \A u \in Threads \ {t} : thread'[u] = thread[u]
  <2>1. clock' = clock /\ since' \in 0..clock /\ since <= since' /\ ticket' = ticket /\ since' = since
    BY <1>1, <1>2
  <2>2. /\ clock <= r.now + MaxDelay
        /\ r.op = "encrypt" \/ ticket.key # 0
        /\ ~r.recovering => r.now <= since
    BY <1>2, <1>3 DEF IInv, ThreadsOnTime
  <2>. QED
    BY <1>2, <1>3, <2>1, <2>2, OthersOnTime
<1>6. MadeFresh'
  <2>1. \A k \in Made(t)' : k \in Nat /\ k > generated /\ k <= generated'
    BY <1>1, <1>2, <1>3, <1>4, <1>5 DEF Made
  <2>2. /\ \A k \in {next, current, previous} : k \in Nat /\ k <= generated /\ k <= generated'
        /\ generated' \in Nat
    BY <1>1, <1>2, <1>4 DEF IInv, TypeOK, MadeFresh
  <2>3. ASSUME NEW u \in Threads \ {t}, thread'[u].pc = "place"
        PROVE  /\ thread[u].pc = "place" /\ Made(u)' = Made(u)
               /\ \A k \in Made(u) : k \in Nat /\ k # 0 /\ k <= generated /\ k <= generated'
                                     /\ k \notin {next, current, previous}
    <3>1. thread'[u] = thread[u] /\ thread[u].made \in Nat
      BY <1>1, <1>5 DEF Thread
    <3>2. thread[u].pc = "place" /\ Made(u)' = Made(u)
      BY <2>3, <3>1 DEF Made
    <3>3. \A k \in Made(u) : k \in Nat
      BY <3>1 DEF Made
    <3>4. \A k \in Made(u) : k # 0 /\ k <= generated /\ k \notin {next, current, previous}
      BY <3>2 DEF IInv, MadeFresh
    <3>. QED
      BY <1>1, <1>2, <1>4, <3>2, <3>3, <3>4
  <2>4. ASSUME NEW u \in Threads, thread'[u].pc = "place", NEW k \in Made(u)'
        PROVE  /\ k # 0 /\ k <= generated' /\ k \notin {next', current', previous'}
               /\ \A w \in Threads \ {u} : thread'[w].pc = "place" => k \notin Made(w)'
    <3>1. CASE u = t
      <4>1. k \in Nat /\ k > generated /\ k <= generated'
        BY <2>1, <2>4, <3>1
      <4>2. k # 0 /\ k \notin {next', current', previous'}
        BY <1>1, <1>2, <2>2, <4>1
      <4>3. \A w \in Threads \ {t} : thread'[w].pc = "place" => k \notin Made(w)'
        BY <1>1, <2>3, <4>1
      <4>. QED
        BY <3>1, <4>1, <4>2, <4>3
    <3>2. CASE u # t
      <4>1. /\ thread[u].pc = "place" /\ k \in Made(u) /\ k \in Nat
            /\ k # 0 /\ k <= generated /\ k <= generated' /\ k \notin {next, current, previous}
        BY <2>3, <2>4, <3>2
      <4>2. ASSUME NEW w \in Threads \ {u}, thread'[w].pc = "place"
            PROVE  k \notin Made(w)'
        <5>1. CASE w = t
          BY <1>1, <2>1, <4>1, <5>1
        <5>2. CASE w # t
          <6>1. thread[w].pc = "place" /\ Made(w)' = Made(w)
            BY <2>3, <4>2, <5>2
          <6>. QED
            BY <4>1, <4>2, <6>1 DEF IInv, MadeFresh
        <5>. QED
          BY <5>1, <5>2
      <4>. QED
        BY <1>2, <4>1, <4>2
    <3>. QED
      BY <3>1, <3>2
  <2>. QED
    BY <1>2, <2>2, <2>4 DEF MadeFresh
<1>7. TypeOK'
  <2>1. generated' \in Nat
    BY <1>1, <1>2, <1>4
  <2>. QED
    BY <1>2, <1>5, <2>1 DEF IInv, TypeOK, Thread
<1>. QED
  BY <1>2, <1>5, <1>6, <1>7
     DEF IInv, SwitchOnTime, TicketTraced, AcceptedLongEnough, KeyNotOverused, KeysDistinct

\* a generator that fails,
LEMMA GeneratorFailsIInv ==
  ASSUME TicketAssumption, IInv, NEW t \in Threads, GeneratorFails(t)
  PROVE  IInv'
<1>1. /\ thread' = [thread EXCEPT ![t] = Idle]
      /\ UNCHANGED <<clock, next, current, previous, next_switch_time, since, generated, ticket, result>>
  BY DEF GeneratorFails, keys
<1>2. since' \in 0..clock /\ since <= since'
  BY <1>1, ThreadFacts
<1>3. thread' \in [Threads -> Thread] /\ ThreadsOnTime'
  BY <1>1, <1>2, EndOnTime
<1>4. MadeFresh'
  BY <1>1, FreshKept DEF Idle
<1>5. TypeOK'
  BY <1>1, <1>3 DEF IInv, TypeOK, Thread
<1>. QED
  BY <1>1, <1>3, <1>4, <1>5
     DEF IInv, SwitchOnTime, TicketTraced, AcceptedLongEnough, KeyNotOverused, KeysDistinct

\* A thread that recovers and finds the switch still due demotes the current key; any
\* other only provides the next one.
LEMMA PlaceIInv ==
  ASSUME TicketAssumption, IInv, NEW t \in Threads, Place(t)
  PROVE  IInv'
<1>. DEFINE made == thread[t].made
            replaces == thread[t].recovering /\ Due(t)
<1>1. /\ thread[t].pc = "place" /\ next' = made
      /\ current' = IF replaces THEN made + 1 ELSE current
      /\ previous' = IF replaces THEN current ELSE previous
      /\ next_switch_time' = IF replaces THEN thread[t].now + Lifetime ELSE next_switch_time
      /\ since' = IF replaces THEN clock ELSE since
      /\ Use(t, current', previous', since')
      /\ clock' = clock /\ generated' = generated
  BY DEF Place
<1>2. /\ thread \in [Threads -> Thread] /\ made \in Nat
      /\ clock \in Nat /\ Lifetime \in Nat /\ MaxDelay \in Nat /\ next_switch_time \in Nat
      /\ since \in Nat /\ since <= clock /\ current \in Nat \ {0} /\ previous \in Nat
      /\ thread[t].now \in Nat /\ clock <= thread[t].now + MaxDelay
  BY <1>1, ThreadFacts DEF IInv, TypeOK, Thread
<1>3. /\ made \in Made(t) /\ (replaces => made + 1 \in Made(t))
      /\ \A k \in Made(t) : k # 0 /\ k \notin {next, current, previous}
  BY <1>1 DEF Made, IInv, MadeFresh
<1>4. /\ current' \in Nat \ {0} /\ previous' \in Nat /\ since' \in 0..clock /\ since <= since'
      /\ next_switch_time' \in Nat /\ SwitchOnTime'
      /\ Traced(ticket.key, ticket.at, current', previous', since')
      /\ clock <= since' + Lifetime + MaxDelay
      /\ KeysDistinct'
  <2>1. CASE replaces
    <3>1. /\ current' = made + 1 /\ previous' = current /\ since' = clock
          /\ next_switch_time' = thread[t].now + Lifetime
      BY <1>1, <2>1
    <3>2. /\ Traced(ticket.key, ticket.at, made + 1, current, clock)
          /\ thread[t].now + Lifetime <= clock + Lifetime
          /\ clock + Lifetime <= (thread[t].now + Lifetime) + MaxDelay
          /\ thread[t].now + Lifetime \in Nat
      BY <1>1, <2>1, DemoteOnTime
    <3>3. SwitchOnTime'
      BY <3>1, <3>2 DEF SwitchOnTime
    <3>4. KeysDistinct'
      BY <1>1, <1>2, <1>3, <2>1, <3>1 DEF KeysDistinct
    <3>5. Traced(ticket.key, ticket.at, current', previous', since')
      BY <3>1, <3>2
    <3>. QED
      BY <1>2, <3>1, <3>2, <3>3, <3>4, <3>5
  <2>2. CASE ~replaces
    <3>1. UNCHANGED <<current, previous, since, next_switch_time>>
      BY <1>1, <2>2
    <3>2. next_switch_time <= since + Lifetime /\ SwitchOnTime' /\ TicketTraced
      BY <3>1 DEF IInv, SwitchOnTime
    <3>3. Traced(ticket.key, ticket.at, current', previous', since')
      BY <3>1, <3>2 DEF Traced, TicketTraced
    <3>4. clock <= since + Lifetime + MaxDelay
      <4>1. CASE thread[t].recovering
        BY <1>2, <2>2, <3>2, <4>1 DEF Due
      <4>2. CASE ~thread[t].recovering
        <5>1. thread[t].now <= since
          BY <1>1, <4>2 DEF IInv, ThreadsOnTime
        <5>. QED
          BY <1>2, <5>1
      <4>. QED
        BY <4>1, <4>2
    <3>5. KeysDistinct'
      BY <1>1, <1>3, <3>1 DEF IInv, KeysDistinct
    <3>. QED
      BY <1>2, <3>1, <3>2, <3>3, <3>4, <3>5
  <2>. QED
    BY <2>1, <2>2
<1>5. \A k \in {next', current', previous'} :
         k \in {0, next, current, previous} \/ (thread[t].pc = "place" /\ k \in Made(t))
  BY <1>1, <1>3
<1>. HIDE DEF made, replaces
<1>6. /\ thread' = [thread EXCEPT ![t] = Idle]
      /\ ticket' \in [key : Nat, at : 0..clock]
      /\ ticket.key # 0 => ticket' = ticket
      /\ Traced(ticket'.key, ticket'.at, current', previous', since')
      /\ AcceptedLongEnough' /\ KeyNotOverused'
  <2>1. thread[t].pc # "idle"
    BY <1>1
  <2>. QED
    BY <1>1, <1>4, <2>1, UseStep
<1>7. thread' \in [Threads -> Thread] /\ ThreadsOnTime'
  <2>1. ticket.key # 0 => ticket'.key # 0
    BY <1>6
  <2>. QED
    BY <1>1, <1>4, <1>6, <2>1, EndOnTime
<1>8. MadeFresh'
  BY <1>1, <1>5, <1>6, FreshKept DEF Idle
<1>9. TypeOK'
  BY <1>1, <1>2, <1>4, <1>6, <1>7 DEF IInv, TypeOK, Thread
<1>10. TicketTraced'
  BY <1>6 DEF TicketTraced, Traced
<1>. QED
  BY <1>4, <1>6, <1>7, <1>8, <1>9, <1>10 DEF IInv

\* and the clock.
LEMMA TickIInv ==
  ASSUME TicketAssumption, IInv, Tick
  PROVE  IInv'
<1>1. /\ \A t \in Threads : thread[t].pc # "idle" => clock < thread[t].now + MaxDelay
      /\ clock' = clock + 1
      /\ UNCHANGED <<next, current, previous, next_switch_time, since, generated, thread, ticket, result>>
  BY DEF Tick, keys
<1>2. clock \in Nat /\ MaxDelay \in Nat
  BY DEF IInv, TypeOK, TicketAssumption
<1>3. clock' \in Nat /\ \A x \in 0..clock : x \in 0..clock'
  BY <1>1, <1>2
<1>4. TypeOK'
  <2>1. thread' \in [Threads -> Thread']
    BY <1>1, <1>3 DEF IInv, TypeOK, Thread
  <2>2. ticket' \in [key : Nat, at : 0..clock'] /\ since' \in 0..clock'
    BY <1>1, <1>3 DEF IInv, TypeOK
  <2>. QED
    BY <1>1, <1>3, <2>1, <2>2 DEF IInv, TypeOK, Thread
<1>5. ThreadsOnTime'
  <2>1. ASSUME NEW t \in Threads, thread[t].pc # "idle"
        PROVE  /\ clock + 1 <= thread[t].now + MaxDelay
               /\ thread[t].op = "encrypt" \/ ticket.key # 0
               /\ thread[t].pc \in {"generate", "place"} /\ ~thread[t].recovering => thread[t].now <= since
    <3>1. thread[t].now \in Nat /\ clock < thread[t].now + MaxDelay
      BY <1>1, <2>1, ThreadFacts
    <3>. QED
      BY <1>2, <2>1, <3>1 DEF IInv, ThreadsOnTime
  <2>. QED
    BY <1>1, <2>1 DEF ThreadsOnTime
<1>6. MadeFresh'
  BY <1>1 DEF IInv, MadeFresh, Made
<1>. QED
  BY <1>1, <1>4, <1>5, <1>6
     DEF IInv, SwitchOnTime, TicketTraced, AcceptedLongEnough, KeyNotOverused, KeysDistinct

\* Each step has its lemma.
LEMMA NextIInv ==
  ASSUME TicketAssumption, IInv, [Next]_vars
  PROVE  IInv'
<1>1. CASE \E t \in Threads, op \in {"encrypt", "decrypt"} : Call(t, op)
  BY <1>1, CallIInv
<1>2. CASE \E t \in Threads : Keep(t) \/ Switch(t) \/ Generate(t) \/ GeneratorFails(t) \/ Place(t)
  BY <1>2, KeepIInv, SwitchIInv, GenerateIInv, GeneratorFailsIInv, PlaceIInv
<1>3. CASE Tick
  BY <1>3, TickIInv
<1>4. CASE UNCHANGED vars
  BY <1>4 DEF vars, keys, IInv, TypeOK, ThreadsOnTime, SwitchOnTime, MadeFresh, Made, TicketTraced,
              AcceptedLongEnough, KeyNotOverused, KeysDistinct
<1>. QED
  BY <1>1, <1>2, <1>3, <1>4 DEF Next

\* The invariant holds at first.
LEMMA InitIInv ==
  ASSUME TicketAssumption, Init
  PROVE  IInv
<1>1. /\ clock = 0 /\ next = 2 /\ current = 1 /\ previous = 0 /\ next_switch_time = Lifetime
      /\ generated = 2 /\ since = 0 /\ thread = [t \in Threads |-> Idle]
      /\ ticket = [key |-> 0, at |-> 0] /\ result = [op |-> "none", ok |-> TRUE, age |-> 0]
      /\ Lifetime \in Nat /\ MaxDelay \in Nat
  BY DEF Init, TicketAssumption
<1>2. \A t \in Threads : thread[t] = Idle /\ thread[t].pc = "idle"
  BY <1>1 DEF Idle
<1>3. TypeOK
  <2>1. 0 \in 0..clock
    BY <1>1
  <2>2. Idle \in Thread
    BY <2>1 DEF Idle, Thread
  <2>. QED
    BY <1>1, <2>1, <2>2 DEF TypeOK, Thread
<1>4. ThreadsOnTime /\ MadeFresh
  BY <1>1, <1>2 DEF ThreadsOnTime, MadeFresh
<1>5. SwitchOnTime /\ TicketTraced /\ KeysDistinct
  BY <1>1 DEF SwitchOnTime, TicketTraced, KeysDistinct
<1>6. AcceptedLongEnough /\ KeyNotOverused
  BY <1>1 DEF AcceptedLongEnough, KeyNotOverused
<1>. QED
  BY <1>3, <1>4, <1>5, <1>6 DEF IInv

\* The inductive invariant of the rotation of ticket keys (TicketSwitcher::maybe_roll).
THEOREM SpecIInv ==
  ASSUME TicketAssumption
  PROVE  Spec => []IInv
<1>1. Init => IInv
  BY InitIInv
<1>2. IInv /\ [Next]_vars => IInv'
  BY NextIInv
<1>. QED
  BY <1>1, <1>2, PTL DEF Spec

\* However many calls roll the keys, fail to generate one and recover, in any
\* interleaving and for any lifetime and delay: a ticket is accepted for a key's
\* lifetime after it was made, no key makes tickets past its own, and the keys in
\* use are distinct (TicketSwitcher::maybe_roll, encrypt and decrypt).
THEOREM TicketKeysHold ==
  ASSUME TicketAssumption
  PROVE  Spec => []TicketKeysSound
<1>1. IInv => TicketKeysSound
  BY DEF IInv, TicketKeysSound
<1>. QED
  BY <1>1, SpecIInv, PTL
-----------------------------------------------------------------------------
(* SessionCache. *)

\* Cache's finite sets and cardinalities are the library's.
LEMMA CacheSets ==
    ASSUME NEW T
    PROVE  (C!IsFiniteSet(T) <=> IsFiniteSet(T)) /\ C!Cardinality(T) = Cardinality(T)
<1>1. C!IsFiniteSet(T) <=> IsFiniteSet(T)
  BY DEF C!IsFiniteSet, IsFiniteSet
<1>2. C!Cardinality(T) = Cardinality(T)
  BY DEF C!Cardinality, Cardinality
<1>. QED
  BY <1>1, <1>2

\* The parts of a cache.
LEMMA QueuedParts ==
    ASSUME NEW V, NEW size \in Nat, NEW cache, C!Queued(cache, V, size)
    PROVE  /\ Len(cache.oldest) \in Nat /\ DOMAIN cache.oldest = 1..Len(cache.oldest)
           /\ \A i \in 1..Len(cache.oldest) : cache.oldest[i] \in DOMAIN cache.map
           /\ \A k \in DOMAIN cache.map : cache.map[k] \in V
<1>1. cache.oldest \in Seq(DOMAIN cache.map) /\ cache.map \in [DOMAIN cache.map -> V]
  BY DEF C!Queued
<1>2. \A i \in 1..Len(cache.oldest) : cache.oldest[i] \in DOMAIN cache.map
  BY <1>1, ElementOfSeq
<1>. QED
  BY <1>1, <1>2

\* A queue so kept names the keys of the map, each once.
LEMMA QueuedConsistent ==
    ASSUME NEW V, NEW size \in Nat, NEW cache, C!Queued(cache, V, size)
    PROVE  C!Consistent(cache, size)
<1>. DEFINE q == cache.oldest
            n == Len(cache.oldest)
<1>1. n \in Nat /\ DOMAIN q = 1..n /\ \A i \in 1..n : q[i] \in DOMAIN cache.map
  BY QueuedParts
<1>2. /\ \A k \in DOMAIN cache.map : \E i \in 1..n : q[i] = k
      /\ \A i, j \in 1..n : q[i] = q[j] => i = j
      /\ n < size
  BY DEF C!Queued
<1>3. C!ToSet(q) = DOMAIN cache.map
  <2>1. C!ToSet(q) = {q[i] : i \in 1..n}
    BY <1>1 DEF C!ToSet
  <2>2. \A k : k \in DOMAIN cache.map <=> \E i \in 1..n : q[i] = k
    BY <1>1, <1>2
  <2>. QED
    BY <2>1, <2>2
<1>4. q \in [1..n -> DOMAIN cache.map]
  <2>1. q \in Seq(DOMAIN cache.map)
    BY DEF C!Queued
  <2>. QED
    BY <2>1, LenProperties
<1>5. q \in Bijection(1..n, DOMAIN cache.map)
  BY <1>1, <1>2, <1>4 DEF Bijection, Injection, Surjection, IsInjective
<1>6. Cardinality(DOMAIN cache.map) = n
  <2>1. IsFiniteSet(1..n) /\ Cardinality(1..n) = n
    BY <1>1, FS_Interval
  <2>2. \E f : f \in Bijection(1..n, DOMAIN cache.map)
    BY <1>5
  <2>. QED
    BY <2>1, <2>2, FS_Bijection DEF ExistsBijection
<1>. QED
  BY <1>2, <1>3, <1>6, CacheSets DEF C!Consistent

\* Inserting keeps a cache.
LEMMA InsertedKept ==
    ASSUME NEW V, NEW size \in Nat \ {0}, NEW cache, C!Queued(cache, V, size), NEW k, NEW v \in V
    PROVE  /\ C!Queued(C!Inserted(cache, k, v, size), V, size)
           /\ \A x \in DOMAIN C!Inserted(cache, k, v, size).map :
                 \/ x = k /\ C!Inserted(cache, k, v, size).map[x] = v
                 \/ x # k /\ x \in DOMAIN cache.map /\ C!Inserted(cache, k, v, size).map[x] = cache.map[x]
<1>. DEFINE q == cache.oldest
            n == Len(cache.oldest)
            m == cache.map
            after == C!Inserted(cache, k, v, size)
<1>1. n \in Nat /\ DOMAIN q = 1..n /\ (\A i \in 1..n : q[i] \in DOMAIN m) /\ (\A x \in DOMAIN m : m[x] \in V)
  BY QueuedParts
<1>2. /\ \A x \in DOMAIN m : \E i \in 1..n : q[i] = x
      /\ \A i, j \in 1..n : q[i] = q[j] => i = j
      /\ n < size /\ q \in Seq(DOMAIN m) /\ m \in [DOMAIN m -> V] /\ cache = [map |-> m, oldest |-> q]
  BY DEF C!Queued
<1>3. CASE k \in DOMAIN m
  <2>2. after = [map |-> [m EXCEPT ![k] = v], oldest |-> q]
    BY <1>3 DEF C!Inserted, C!Has
  <2>3. after.map = [m EXCEPT ![k] = v] /\ after.oldest = q
    BY <2>2
  <2>. HIDE DEF m
  <2>31. /\ [m EXCEPT ![k] = v] \in [DOMAIN m -> V] /\ DOMAIN [m EXCEPT ![k] = v] = DOMAIN m
         /\ \A x \in DOMAIN m : [m EXCEPT ![k] = v][x] = IF x = k THEN v ELSE m[x]
    BY <1>2, <1>3
  <2>. HIDE DEF after
  <2>4. after.map \in [DOMAIN m -> V] /\ DOMAIN after.map = DOMAIN m
    BY <2>3, <2>31
  <2>5. \A x \in DOMAIN m : after.map[x] = IF x = k THEN v ELSE m[x]
    BY <2>3, <2>31
  <2>. USE DEF m
  <2>6. C!Queued(after, V, size)
    BY <1>2, <2>2, <2>3, <2>4 DEF C!Queued
  <2>. QED
    BY <2>4, <2>5, <2>6 DEF after
<1>4. CASE k \notin DOMAIN m
  <2>. DEFINE m1 == [x \in DOMAIN m \union {k} |-> IF x = k THEN v ELSE m[x]]
              q1 == Append(q, k)
  <2>1. after = IF Len(q1) = size THEN [map |-> C!Dropped(m1, Head(q1)), oldest |-> Tail(q1)]
                ELSE [map |-> m1, oldest |-> q1]
    BY <1>4 DEF C!Inserted, C!Has
  <2>2. DOMAIN m1 = DOMAIN m \union {k} /\ \A x \in DOMAIN m1 : m1[x] = IF x = k THEN v ELSE m[x]
    OBVIOUS
  <2>3. m1 \in [DOMAIN m \union {k} -> V]
    BY <1>1
  <2>4. q \in Seq(DOMAIN m1)
    BY <1>2, <2>2, SeqMonotonic
  <2>. HIDE DEF m1
  <2>5. q1 \in Seq(DOMAIN m1) /\ Len(q1) = n + 1 /\ (\A i \in 1..n : q1[i] = q[i]) /\ q1[n + 1] = k
    BY <2>2, <2>4, AppendProperties
  <2>. HIDE DEF q1
  <2>6. \A i \in 1..n + 1 : i \in 1..n \/ i = n + 1
    BY <1>1
  <2>7. \A i, j \in 1..n + 1 : q1[i] = q1[j] => i = j
    <3>1. \A i \in 1..n : q1[i] # k
      BY <1>1, <1>4, <2>5
    <3>. QED
      BY <1>2, <2>5, <2>6, <3>1
  <2>8. \A x \in DOMAIN m1 : \E i \in 1..n + 1 : q1[i] = x
    <3>1. n + 1 \in 1..n + 1 /\ 1..n \subseteq 1..n + 1
      BY <1>1
    <3>. QED
      BY <1>2, <2>2, <2>5, <3>1
  <2>9. CASE n + 1 = size
    <3>1. after = [map |-> C!Dropped(m1, Head(q1)), oldest |-> Tail(q1)]
      BY <2>1, <2>5, <2>9
    <3>. DEFINE q2 == Tail(q1)
                m2 == C!Dropped(m1, Head(q1))
    <3>2. q1 # <<>> /\ Head(q1) = q1[1] /\ Len(q1) >= 1 /\ 1 \in 1..n + 1
      BY <1>1, <2>5
    <3>3. /\ q2 \in Seq(DOMAIN m1) /\ Len(q2) = n
          /\ \A i \in 1..n : q2[i] = q1[i + 1] /\ i + 1 \in 1..n + 1
      BY <1>1, <2>5, <3>2, HeadTailProperties
    <3>4. /\ m2 = [x \in DOMAIN m1 \ {q1[1]} |-> m1[x]] /\ DOMAIN m2 = DOMAIN m1 \ {q1[1]}
          /\ \A x \in DOMAIN m2 : m2[x] = m1[x]
      BY <3>2 DEF C!Dropped
    <3>5. m2 \in [DOMAIN m2 -> V]
      BY <2>2, <2>3, <3>4
    <3>. HIDE DEF q2, m2
    <3>6. \A i \in 1..n : q2[i] \in DOMAIN m2
      <4>1. ASSUME NEW i \in 1..n PROVE q1[i + 1] \in DOMAIN m1 /\ q1[i + 1] # q1[1]
        <5>1. i + 1 \in 1..n + 1 /\ i + 1 # 1 /\ i + 1 \in 1..Len(q1)
          BY <1>1, <2>5
        <5>. QED
          BY <2>5, <2>7, <3>2, <5>1, ElementOfSeq
      <4>. QED
        BY <3>3, <3>4, <4>1
    <3>7. q2 \in Seq(DOMAIN m2)
      <4>1. q2 \in [1..n -> DOMAIN m1]
        BY <3>3, LenProperties
      <4>2. q2 \in [1..n -> DOMAIN m2]
        BY <3>6, <4>1
      <4>. QED
        BY <1>1, <4>2, SeqDef
    <3>8. \A i, j \in 1..n : q2[i] = q2[j] => i = j
      <4>1. \A i, j \in Nat : i + 1 = j + 1 => i = j
        OBVIOUS
      <4>. QED
        BY <2>7, <3>3, <4>1
    <3>9. \A x \in DOMAIN m2 : \E i \in 1..n : q2[i] = x
      <4>1. ASSUME NEW x \in DOMAIN m2 PROVE \E i \in 1..n : q2[i] = x
        <5>1. PICK j \in 1..n + 1 : q1[j] = x
          BY <2>8, <3>4
        <5>2. j # 1
          BY <3>4, <5>1
        <5>3. j - 1 \in 1..n /\ (j - 1) + 1 = j
          BY <1>1, <5>2
        <5>. QED
          BY <3>3, <5>1, <5>3
      <4>. QED
        BY <4>1
    <3>10. after = [map |-> m2, oldest |-> q2] /\ after.map = m2 /\ after.oldest = q2
      BY <3>1 DEF m2, q2
    <3>. HIDE DEF after
    <3>11. C!Queued(after, V, size)
      BY <1>1, <1>2, <3>3, <3>5, <3>7, <3>8, <3>9, <3>10 DEF C!Queued
    <3>12. \A x \in DOMAIN after.map : \/ x = k /\ after.map[x] = v
                                       \/ x # k /\ x \in DOMAIN m /\ after.map[x] = m[x]
      BY <2>2, <3>4, <3>10
    <3>. QED
      BY <3>11, <3>12 DEF after
  <2>10. CASE n + 1 # size
    <3>1. after = [map |-> m1, oldest |-> q1] /\ after.map = m1 /\ after.oldest = q1
      BY <2>1, <2>5, <2>10
    <3>2. n + 1 < size
      BY <1>1, <1>2, <2>10
    <3>. HIDE DEF after
    <3>3. C!Queued(after, V, size)
      BY <2>2, <2>3, <2>5, <2>7, <2>8, <3>1, <3>2 DEF C!Queued
    <3>4. \A x \in DOMAIN after.map : \/ x = k /\ after.map[x] = v
                                      \/ x # k /\ x \in DOMAIN m /\ after.map[x] = m[x]
      BY <2>2, <3>1
    <3>. QED
      BY <3>3, <3>4 DEF after
  <2>. QED
    BY <2>9, <2>10
<1>. QED
  BY <1>3, <1>4

\* What is left when one element is taken out of a sequence.
LEMMA RemoveAtProperties ==
    ASSUME NEW S, NEW s \in Seq(S), NEW i \in 1..Len(s)
    PROVE  /\ C!RemoveAt(s, i) \in Seq(S) /\ Len(C!RemoveAt(s, i)) = Len(s) - 1
           /\ \A j \in 1..Len(s) - 1 : C!RemoveAt(s, i)[j] = s[IF j < i THEN j ELSE j + 1]
<1>. DEFINE n == Len(s)
<1>1. n \in Nat /\ i \in Nat /\ 1 <= i /\ i <= n /\ \A j \in 1..n : s[j] \in S
  BY LenProperties, ElementOfSeq
<1>. HIDE DEF n
<1>2. /\ 1 \in Int /\ i - 1 \in Int /\ i + 1 \in Int /\ n \in Int
      /\ \A j \in 1..i-1 : j \in 1..n
      /\ \A j \in i+1..n : j \in 1..n
  BY <1>1
<1>3. \E a : a = SubSeq(s, 1, i - 1) /\ a \in Seq(S) /\ Len(a) = i - 1 /\ \A j \in 1..i-1 : a[j] = s[j]
  <2>1. \A l \in Int : (\A j \in 1..l : s[j] \in S) =>
           /\ SubSeq(s, 1, l) \in Seq(S)
           /\ Len(SubSeq(s, 1, l)) = IF 1 <= l THEN l - 1 + 1 ELSE 0
           /\ \A j \in 1..l-1+1 : SubSeq(s, 1, l)[j] = s[1 + j - 1]
    <3>. SUFFICES ASSUME NEW l \in Int, \A j \in 1..l : s[j] \in S
                  PROVE  /\ SubSeq(s, 1, l) \in Seq(S)
                         /\ Len(SubSeq(s, 1, l)) = IF 1 <= l THEN l - 1 + 1 ELSE 0
                         /\ \A j \in 1..l-1+1 : SubSeq(s, 1, l)[j] = s[1 + j - 1]
      OBVIOUS
    <3>. QED
      BY <1>2, SubSeqProperties, SMT
  <2>. DEFINE a == SubSeq(s, 1, i - 1)
  <2>2. /\ a \in Seq(S)
        /\ Len(a) = IF 1 <= i - 1 THEN (i - 1) - 1 + 1 ELSE 0
        /\ \A j \in 1..(i-1)-1+1 : a[j] = s[1 + j - 1]
    BY <1>1, <1>2, <2>1, Zenon
  <2>. HIDE DEF a
  <2>3. Len(a) = i - 1
    BY <1>1, <2>2
  <2>4. ASSUME NEW j \in 1..i-1 PROVE a[j] = s[j]
    <3>1. j \in 1..(i-1)-1+1 /\ 1 + j - 1 = j
      BY <1>1
    <3>. QED
      BY <2>2, <3>1
  <2>. QED
    BY <2>2, <2>3, <2>4, Zenon DEF a
<1>4. \E b : b = SubSeq(s, i + 1, n) /\ b \in Seq(S) /\ Len(b) = n - i /\ \A j \in 1..n-i : b[j] = s[i + j]
  <2>1. \A l \in Int : (\A j \in l..n : s[j] \in S) =>
           /\ SubSeq(s, l, n) \in Seq(S)
           /\ Len(SubSeq(s, l, n)) = IF l <= n THEN n - l + 1 ELSE 0
           /\ \A j \in 1..n-l+1 : SubSeq(s, l, n)[j] = s[l + j - 1]
    <3>. SUFFICES ASSUME NEW l \in Int, \A j \in l..n : s[j] \in S
                  PROVE  /\ SubSeq(s, l, n) \in Seq(S)
                         /\ Len(SubSeq(s, l, n)) = IF l <= n THEN n - l + 1 ELSE 0
                         /\ \A j \in 1..n-l+1 : SubSeq(s, l, n)[j] = s[l + j - 1]
      OBVIOUS
    <3>. QED
      BY <1>2, SubSeqProperties, SMT
  <2>. DEFINE b == SubSeq(s, i + 1, n)
  <2>2. /\ b \in Seq(S)
        /\ Len(b) = IF i + 1 <= n THEN n - (i + 1) + 1 ELSE 0
        /\ \A j \in 1..n-(i+1)+1 : b[j] = s[(i + 1) + j - 1]
    BY <1>1, <1>2, <2>1, Zenon
  <2>. HIDE DEF b
  <2>3. Len(b) = n - i
    BY <1>1, <2>2
  <2>4. ASSUME NEW j \in 1..n-i PROVE b[j] = s[i + j]
    <3>1. j \in 1..n-(i+1)+1 /\ (i + 1) + j - 1 = i + j
      BY <1>1
    <3>. QED
      BY <2>2, <3>1
  <2>. QED
    BY <2>2, <2>3, <2>4, Zenon DEF b
<1>5. PICK a : a = SubSeq(s, 1, i - 1) /\ a \in Seq(S) /\ Len(a) = i - 1 /\ \A j \in 1..i-1 : a[j] = s[j]
  BY <1>3, Zenon
<1>6. PICK b : b = SubSeq(s, i + 1, n) /\ b \in Seq(S) /\ Len(b) = n - i /\ \A j \in 1..n-i : b[j] = s[i + j]
  BY <1>4, Zenon
<1>. DEFINE r == C!RemoveAt(s, i)
<1>7. r = a \o b
  BY <1>5, <1>6, Zenon DEF C!RemoveAt, n
<1>. HIDE DEF r
<1>8. /\ r \in Seq(S) /\ Len(r) = Len(a) + Len(b)
      /\ \A j \in 1..Len(a) + Len(b) : r[j] = IF j <= Len(a) THEN a[j] ELSE b[j - Len(a)]
  BY <1>5, <1>6, <1>7, ConcatProperties
<1>9. Len(r) = n - 1
  BY <1>1, <1>5, <1>6, <1>8
<1>10. ASSUME NEW j \in 1..n-1 PROVE r[j] = s[IF j < i THEN j ELSE j + 1]
  <2>1. j \in 1..Len(a) + Len(b) /\ (j <= Len(a) <=> j < i)
    BY <1>1, <1>5, <1>6
  <2>2. CASE j < i
    <3>1. j \in 1..i-1
      BY <1>1, <2>2
    <3>. QED
      BY <1>5, <1>8, <2>1, <2>2, <3>1
  <2>3. CASE ~(j < i)
    <3>1. j - Len(a) \in 1..n-i /\ i + (j - Len(a)) = j + 1
      <4>1. \A x, y, m \in Int : x \in 1..m-1 /\ ~(x < y) => x - (y - 1) \in 1..m-y /\ y + (x - (y - 1)) = x + 1
        OBVIOUS
      <4>2. j \in Int /\ i \in Int /\ n \in Int /\ Len(a) = i - 1
        BY <1>1, <1>5
      <4>. QED
        BY <2>3, <4>1, <4>2
    <3>2. r[j] = b[j - Len(a)]
      BY <1>8, <2>1, <2>3
    <3>. QED
      BY <1>6, <2>3, <3>1, <3>2
  <2>. QED
    BY <2>2, <2>3
<1>. QED
  BY <1>8, <1>9, <1>10, Zenon DEF r, n

\* Taking a key out of the queue keeps a cache.
LEMMA RemovedKept ==
    ASSUME NEW V, NEW size \in Nat \ {0}, NEW cache, C!Queued(cache, V, size), NEW k, C!Has(cache, k)
    PROVE  /\ C!Queued(C!Removed(cache, k), V, size)
           /\ \A x : x \in DOMAIN C!Removed(cache, k).map <=> x \in DOMAIN cache.map /\ x # k
           /\ \A x \in DOMAIN cache.map \ {k} : C!Removed(cache, k).map[x] = cache.map[x]
<1>. DEFINE q == cache.oldest
            n == Len(cache.oldest)
            m == cache.map
            i == C!PlaceIn(q, k)
            m1 == C!Dropped(m, k)
            q1 == C!RemoveAt(q, i)
            after == C!Removed(cache, k)
<1>1. n \in Nat /\ DOMAIN q = 1..n /\ (\A j \in 1..n : q[j] \in DOMAIN m) /\ (\A x \in DOMAIN m : m[x] \in V)
  BY QueuedParts
<1>2. /\ \A x \in DOMAIN m : \E j \in 1..n : q[j] = x
      /\ \A j, l \in 1..n : q[j] = q[l] => j = l
      /\ n < size /\ q \in Seq(DOMAIN m) /\ m \in [DOMAIN m -> V] /\ k \in DOMAIN m
  BY DEF C!Queued, C!Has
<1>3. i \in 1..n /\ q[i] = k
  <2>1. PICK j \in 1..n : q[j] = k
    BY <1>2
  <2>2. \A l \in 1..j-1 : l \in 1..n /\ l # j
    BY <1>1
  <2>3. \A l \in 1..j-1 : q[l] # k
    BY <1>2, <2>1, <2>2
  <2>. QED
    BY <1>1, <2>1, <2>3 DEF C!PlaceIn
<1>4. after = [map |-> m1, oldest |-> q1] /\ after.map = m1 /\ after.oldest = q1
  BY DEF C!Removed
<1>. HIDE DEF i, after
<1>5. /\ m1 = [x \in DOMAIN m \ {k} |-> m[x]] /\ DOMAIN m1 = DOMAIN m \ {k}
      /\ \A x \in DOMAIN m1 : m1[x] = m[x]
  BY DEF C!Dropped
<1>6. m1 \in [DOMAIN m1 -> V]
  BY <1>1, <1>5
<1>7. /\ q1 \in Seq(DOMAIN m) /\ Len(q1) = n - 1
      /\ \A j \in 1..n-1 : q1[j] = q[IF j < i THEN j ELSE j + 1]
  <2>1. q \in Seq(DOMAIN m) /\ i \in 1..Len(q)
    BY <1>2, <1>3
  <2>2. C!RemoveAt(q, i) \in Seq(DOMAIN m) /\ Len(C!RemoveAt(q, i)) = Len(q) - 1
    BY <2>1, RemoveAtProperties
  <2>3. \A j \in 1..Len(q) - 1 : C!RemoveAt(q, i)[j] = q[IF j < i THEN j ELSE j + 1]
    BY <2>1, RemoveAtProperties
  <2>. QED
    BY <2>2, <2>3
<1>. HIDE DEF q1, m1
<1>. DEFINE At(j) == IF j < i THEN j ELSE j + 1
<1>8. /\ \A j \in 1..n-1 : At(j) \in 1..n /\ At(j) # i
      /\ \A j, l \in 1..n-1 : At(j) = At(l) => j = l
      /\ \A j \in 1..n : j # i => \E l \in 1..n-1 : At(l) = j
  <2>1. \A j \in 1..n-1 : At(j) \in 1..n /\ At(j) # i
    BY <1>1, <1>3
  <2>2. \A j, l \in 1..n-1 : At(j) = At(l) => j = l
    BY <1>1, <1>3
  <2>3. ASSUME NEW j \in 1..n, j # i PROVE \E l \in 1..n-1 : At(l) = j
    <3>1. CASE j < i
      <4>1. j \in 1..n-1 /\ At(j) = j
        BY <1>1, <1>3, <3>1
      <4>. QED
        BY <4>1
    <3>2. CASE ~(j < i)
      <4>1. j - 1 \in 1..n-1 /\ At(j - 1) = j
        BY <1>1, <1>3, <2>3, <3>2
      <4>. QED
        BY <4>1
    <3>. QED
      BY <3>1, <3>2
  <2>. QED
    BY <2>1, <2>2, <2>3
<1>. HIDE DEF At
<1>9. \A j \in 1..n-1 : q1[j] = q[At(j)]
  BY <1>7 DEF At
<1>10. \A j \in 1..n-1 : q1[j] \in DOMAIN m1
  <2>1. ASSUME NEW j \in 1..n-1 PROVE q1[j] \in DOMAIN m /\ q1[j] # k
    BY <1>1, <1>2, <1>3, <1>8, <1>9
  <2>. QED
    BY <1>5, <2>1
<1>11. q1 \in Seq(DOMAIN m1)
  <2>1. n - 1 \in Nat
    BY <1>1, <1>3
  <2>2. q1 \in [1..n-1 -> DOMAIN m]
    BY <1>7, LenProperties
  <2>3. q1 \in [1..n-1 -> DOMAIN m1]
    BY <1>10, <2>2
  <2>. QED
    BY <2>1, <2>3, SeqDef
<1>12. ASSUME NEW j \in 1..n-1, NEW l \in 1..n-1, q1[j] = q1[l] PROVE j = l
  <2>1. At(j) \in 1..n /\ At(l) \in 1..n /\ q[At(j)] = q[At(l)]
    BY <1>8, <1>9, <1>12
  <2>2. At(j) = At(l)
    BY <1>2, <2>1
  <2>. QED
    BY <1>8, <2>2
<1>13. ASSUME NEW x \in DOMAIN m1 PROVE \E j \in 1..n-1 : q1[j] = x
  <2>1. PICK j \in 1..n : q[j] = x
    BY <1>2, <1>5
  <2>2. j # i
    BY <1>3, <1>5, <2>1
  <2>3. PICK l \in 1..n-1 : At(l) = j
    BY <1>8, <2>2
  <2>. QED
    BY <1>9, <2>1, <2>3
<1>14. n - 1 < size
  BY <1>1, <1>2
<1>15. C!Queued(after, V, size)
  <2>1. after = [map |-> after.map, oldest |-> after.oldest] /\ after.map \in [DOMAIN after.map -> V]
    BY <1>4, <1>6
  <2>2. after.map = m1 /\ after.oldest = q1 /\ Len(q1) = n - 1
    BY <1>4, <1>7
  <2>. QED
    BY <1>11, <1>12, <1>13, <1>14, <2>1, <2>2 DEF C!Queued
<1>. QED
  BY <1>4, <1>5, <1>15 DEF after

\* A value in the map may change to another of its kind.
LEMMA ReplacedKept ==
    ASSUME NEW V, NEW size \in Nat, NEW cache, C!Queued(cache, V, size), NEW k \in DOMAIN cache.map, NEW v \in V
    PROVE  /\ C!Queued([map |-> [cache.map EXCEPT ![k] = v], oldest |-> cache.oldest], V, size)
           /\ DOMAIN [cache.map EXCEPT ![k] = v] = DOMAIN cache.map
           /\ \A x \in DOMAIN cache.map : [cache.map EXCEPT ![k] = v][x] = IF x = k THEN v ELSE cache.map[x]
<1>. DEFINE m == cache.map
            m1 == [m EXCEPT ![k] = v]
            after == [map |-> m1, oldest |-> cache.oldest]
<1>1. m \in [DOMAIN m -> V] /\ k \in DOMAIN m
  BY DEF C!Queued
<1>. HIDE DEF m
<1>2. /\ m1 \in [DOMAIN m -> V] /\ DOMAIN m1 = DOMAIN m
      /\ \A x \in DOMAIN m : m1[x] = IF x = k THEN v ELSE m[x]
  BY <1>1
<1>. HIDE DEF m1
<1>3. after.map = m1 /\ after.oldest = cache.oldest /\ after = [map |-> after.map, oldest |-> after.oldest]
  OBVIOUS
<1>4. /\ cache.oldest \in Seq(DOMAIN m) /\ Len(cache.oldest) < size
      /\ \A x \in DOMAIN m : \E i \in 1..Len(cache.oldest) : cache.oldest[i] = x
      /\ \A i, j \in 1..Len(cache.oldest) : cache.oldest[i] = cache.oldest[j] => i = j
  BY DEF C!Queued, m
<1>. HIDE DEF after
<1>5. C!Queued(after, V, size)
  BY <1>2, <1>3, <1>4 DEF C!Queued
<1>. QED
  BY <1>2, <1>5 DEF after, m, m1

\* The kind of values may be widened: times pass, and sessions are issued.
LEMMA QueuedWider ==
    ASSUME NEW V, NEW W, NEW size, NEW cache, C!Queued(cache, V, size), \A v \in V : v \in W
    PROVE  C!Queued(cache, W, size)
<1>1. cache.map \in [DOMAIN cache.map -> W]
  BY DEF C!Queued
<1>. QED
  BY <1>1 DEF C!Queued

-----------------------------------------------------------------------------
\* The age of a ticket, counted modulo Modulus.
LEMMA ModFacts ==
    ASSUME NEW M \in Nat \ {0}, NEW x \in 0..(M - 1)
    PROVE  x % M = x /\ (x + M) % M = x
OBVIOUS

\* Multiplication is monotone.
LEMMA TimesFacts ==
    ASSUME NEW x \in Nat, NEW y \in Nat, NEW z \in Nat
    PROVE  /\ x * z \in Nat /\ (x + y) * z = x * z + y * z
           /\ x <= y => x * z <= y * z
<1>1. x * z \in Nat /\ (x + y) * z = x * z + y * z
  OBVIOUS
<1>2. ASSUME x <= y PROVE x * z <= y * z
  <2>1. y - x \in Nat /\ y = x + (y - x)
    BY <1>2
  <2>2. \A a, b \in Nat : (a + b) * z = a * z + b * z /\ b * z \in Nat /\ a * z \in Nat
    OBVIOUS
  <2>3. y * z = x * z + (y - x) * z /\ (y - x) * z \in Nat
    BY <2>1, <2>2
  <2>. QED
    BY <2>2, <2>3
<1>. QED
  BY <1>1, <1>2

\* A product of a difference.
LEMMA MinusFacts ==
    ASSUME NEW x \in Nat, NEW y \in Nat, NEW z \in Nat
    PROVE  (x - y) * z = x * z - y * z
OBVIOUS

\* The freshness check sees how long ticket and ClientHello were on the way and what one clock
\* gained on the other, though the client's age wraps and the server's saturates.
LEMMA FreshIsRecent ==
    ASSUME C!CacheAssumption, serverClock \in Nat, NEW session, NEW hello,
           session.created \in Nat, session.add \in Offsets,
           hello.at \in 0..serverClock, hello.got \in 0..serverClock, hello.held \in Nat,
           C!Matches(session, hello)
    PROVE  LET apart == (C!Transit(session, hello) + C!Gained(hello)) * Milli
           IN C!Fresh(session, hello) <=> -Skew <= apart /\ apart <= Skew
<1>. DEFINE M == Modulus
            e == hello.held
            g == serverClock - session.created
            a == e * Milli
            r == g * Milli
            c == session.add
<1>1. /\ M \in Nat \ {0} /\ Milli \in Nat /\ Skew \in Nat /\ C!KeptFor \in Nat
      /\ c \in 0..(M - 1) /\ C!KeptFor * Milli + Skew < M - 1
  BY DEF C!CacheAssumption, C!KeptFor
<1>2. e \in Nat /\ e <= C!KeptFor /\ g \in Nat /\ hello.age = (a + c) % M
  BY <1>1 DEF C!Matches
<1>3. C!Transit(session, hello) + C!Gained(hello) = g - e
  BY DEF C!Transit, C!Gained
<1>. HIDE DEF e, g, M
<1>4. /\ a \in Nat /\ r \in Nat /\ a <= C!KeptFor * Milli /\ C!KeptFor * Milli \in Nat
      /\ (g - e) * Milli = r - a
  BY <1>1, <1>2, TimesFacts, MinusFacts
<1>. DEFINE K == C!KeptFor * Milli
<1>. HIDE DEF a, r, c, K
<1>5. a \in 0..(M - 1) /\ a + Skew < M - 1 /\ K \in Nat
  BY <1>1, <1>4 DEF K
<1>6. (((a + c) % M) + M - c) % M = a
  <2>1. CASE a + c < M
    <3>1. a + c \in 0..(M - 1)
      BY <1>1, <1>5, <2>1
    <3>2. (a + c) % M = a + c
      BY <1>1, <3>1, ModFacts
    <3>3. (a + c) + M - c = a + M
      BY <1>1, <1>5
    <3>. QED
      BY <1>1, <1>5, <3>2, <3>3, ModFacts
  <2>2. CASE ~(a + c < M)
    <3>1. a + c - M \in 0..(M - 1) /\ (a + c - M) + M = a + c
      BY <1>1, <1>5, <2>2
    <3>2. (a + c) % M = a + c - M
      BY <1>1, <3>1, ModFacts
    <3>3. (a + c - M) + M - c = a
      BY <1>1, <1>5
    <3>. QED
      BY <1>1, <1>5, <3>2, <3>3, ModFacts
  <2>. QED
    BY <2>1, <2>2
<1>. DEFINE ours == IF r < M THEN r ELSE M - 1
<1>7. C!Fresh(session, hello) <=> a <= ours + Skew /\ ours <= a + Skew
  BY <1>2, <1>6 DEF C!Fresh, c, r, g, M
<1>8. (a <= ours + Skew /\ ours <= a + Skew) <=> (-Skew <= r - a /\ r - a <= Skew)
  BY <1>1, <1>4, <1>5
<1>. QED
  BY <1>3, <1>4, <1>7, <1>8

-----------------------------------------------------------------------------
\* What the parts of the type are.
LEMMA TypeParts ==
    ASSUME C!CacheAssumption, C!TypeOK
    PROVE  /\ serverClock \in Nat /\ clientClock \in Nat
           /\ issued \in Nat /\ issued <= MaxSessions /\ MaxSessions \in Nat
           /\ {ClientSize, ServerSize, PerServer} \subseteq Nat \ {0}
           /\ \A s \in DOMAIN client.map : client.map[s] \in C!Data
           /\ \A s \in DOMAIN client.map : C!Tickets(s) \in Seq(C!Ticket) /\ Len(C!Tickets(s)) \in Nat
           /\ \A s \in DOMAIN client.map : \A i \in C!Places(s) : C!Tickets(s)[i] \in C!Ticket
           /\ \A i \in DOMAIN server.map : server.map[i] \in C!Session /\ i \in 1..issued
<1>1. /\ serverClock \in Nat /\ clientClock \in Nat
      /\ issued \in Nat /\ issued <= MaxSessions /\ MaxSessions \in Nat
      /\ {ClientSize, ServerSize, PerServer} \subseteq Nat \ {0}
  BY DEF C!CacheAssumption, C!TypeOK
<1>2. \A s \in DOMAIN client.map : client.map[s] \in C!Data
  <2>1. C!Queued(client, C!Data, ClientSize) /\ ClientSize \in Nat
    BY <1>1 DEF C!TypeOK
  <2>. QED
    BY <2>1, QueuedParts
<1>3. \A i \in DOMAIN server.map : server.map[i] \in C!Session /\ i \in 1..issued
  <2>1. C!Queued(server, C!Session, ServerSize) /\ ServerSize \in Nat /\ DOMAIN server.map \subseteq 1..issued
    BY <1>1 DEF C!TypeOK
  <2>. QED
    BY <2>1, QueuedParts
<1>4. \A s \in DOMAIN client.map : C!Tickets(s) \in Seq(C!Ticket)
  BY <1>2 DEF C!Data, C!Tickets
<1>5. \A s \in DOMAIN client.map : Len(C!Tickets(s)) \in Nat
  BY <1>4, LenProperties
<1>6. \A s \in DOMAIN client.map : \A i \in C!Places(s) : C!Tickets(s)[i] \in C!Ticket
  BY <1>4, ElementOfSeq DEF C!Places
<1>. QED
  BY <1>1, <1>2, <1>3, <1>4, <1>5, <1>6

\* What the client has of a server, be it nothing.
LEMMA DataOfParts ==
    ASSUME C!CacheAssumption, C!TypeOK, NEW s
    PROVE  /\ C!DataOf(s) \in C!Data /\ C!DataOf(s).hint \in BOOLEAN /\ C!DataOf(s).tickets \in Seq(C!Ticket)
           /\ C!DataOf(s).tickets # <<>> => s \in DOMAIN client.map
           /\ s \in DOMAIN client.map => C!DataOf(s) = client.map[s] /\ C!DataOf(s).tickets = C!Tickets(s)
           /\ s \notin DOMAIN client.map => Len(C!DataOf(s).tickets) = 0
<1>1. C!NoData \in C!Data /\ C!NoData.tickets = <<>>
  <2>1. <<>> \in Seq(C!Ticket)
    OBVIOUS
  <2>. QED
    BY <2>1 DEF C!NoData, C!Data
<1>2. s \in DOMAIN client.map => C!DataOf(s) = client.map[s] /\ client.map[s] \in C!Data
  BY TypeParts DEF C!DataOf, C!Has
<1>3. s \notin DOMAIN client.map => C!DataOf(s) = C!NoData
  BY DEF C!DataOf, C!Has
<1>4. C!DataOf(s) \in C!Data
  BY <1>1, <1>2, <1>3
<1>5. C!DataOf(s).hint \in BOOLEAN /\ C!DataOf(s).tickets \in Seq(C!Ticket)
  BY <1>4 DEF C!Data
<1>. QED
  BY <1>1, <1>2, <1>3, <1>4, <1>5 DEF C!Tickets

\* As time passes and sessions are issued, everything keeps its type.
LEMMA TypesWiden ==
    ASSUME C!CacheAssumption, C!TypeOK, serverClock' \in Nat, clientClock' \in Nat, issued' \in 0..MaxSessions,
           serverClock <= serverClock', clientClock <= clientClock', issued <= issued'
    PROVE  /\ C!Queued(client, C!Data', ClientSize)
           /\ C!Queued(server, C!Session', ServerSize) /\ DOMAIN server.map \subseteq 1..issued'
           /\ sent \subseteq C!NewTicket' /\ hellos \subseteq C!ClientHello'
           /\ resumed \in Seq(C!Resumption')
<1>1. /\ 0..serverClock \subseteq 0..serverClock' /\ 0..clientClock \subseteq 0..clientClock'
      /\ 1..issued \subseteq 1..issued'
  BY TypeParts
<1>2. C!Ticket \subseteq C!Ticket'
  BY <1>1 DEF C!Ticket
<1>3. \A t \in Seq(C!Ticket) : t \in Seq(C!Ticket')
  BY <1>2, SeqMonotonic
<1>4. \A d \in C!Data : d \in C!Data'
  BY <1>3 DEF C!Data
<1>5. \A x \in C!Session : x \in C!Session'
  BY <1>1 DEF C!Session
<1>6. C!Queued(client, C!Data', ClientSize) /\ C!Queued(server, C!Session', ServerSize)
  BY <1>4, <1>5, QueuedWider DEF C!TypeOK
<1>7. DOMAIN server.map \subseteq 1..issued'
  BY <1>1 DEF C!TypeOK
<1>8. C!NewTicket \subseteq C!NewTicket'
  BY <1>1 DEF C!NewTicket
<1>9. C!ClientHello \subseteq C!ClientHello'
  BY <1>1 DEF C!ClientHello
<1>10. C!Resumption \subseteq C!Resumption'
  BY <1>1 DEF C!Resumption
<1>11. resumed \in Seq(C!Resumption')
  BY <1>10, SeqMonotonic DEF C!TypeOK
<1>12. sent \subseteq C!NewTicket' /\ hellos \subseteq C!ClientHello'
  BY <1>8, <1>9 DEF C!TypeOK
<1>. QED
  BY <1>6, <1>7, <1>11, <1>12

\* How far a new ticket moves the others up: the oldest goes when there are too many.
MovesUp(data) == IF Len(data.tickets) = PerServer THEN 1 ELSE 0

\* A new ticket goes behind the old ones, of which the oldest may go.
LEMMA TicketedKept ==
    ASSUME PerServer \in Nat \ {0}, NEW T, NEW data, data.hint \in BOOLEAN, data.tickets \in Seq(T), NEW tk \in T
    PROVE  /\ C!Ticketed(data, tk) \in [hint : BOOLEAN, tickets : Seq(T)]
           /\ Len(C!Ticketed(data, tk).tickets) \in Nat
           /\ MovesUp(data) \in 0..1
           /\ \A i \in 1..Len(C!Ticketed(data, tk).tickets) :
                \/ i = Len(C!Ticketed(data, tk).tickets) /\ C!Ticketed(data, tk).tickets[i] = tk
                \/ /\ i + MovesUp(data) \in 1..Len(data.tickets)
                   /\ C!Ticketed(data, tk).tickets[i] = data.tickets[i + MovesUp(data)]
<1>. DEFINE old == data.tickets
            kept == IF Len(old) = PerServer THEN Tail(old) ELSE old
            new == Append(kept, tk)
            off == MovesUp(data)
<1>1. C!Ticketed(data, tk) = [hint |-> data.hint, tickets |-> new]
  BY DEF C!Ticketed
<1>2. old \in Seq(T) /\ Len(old) \in Nat /\ off = IF Len(old) = PerServer THEN 1 ELSE 0
  BY LenProperties DEF MovesUp
<1>. HIDE DEF old, off
<1>3. /\ kept \in Seq(T) /\ Len(kept) = Len(old) - off
      /\ \A i \in 1..Len(kept) : kept[i] = old[i + off]
  <2>1. CASE Len(old) = PerServer
    <3>1. old # <<>>
      BY <2>1
    <3>. QED
      BY <1>2, <2>1, <3>1, HeadTailProperties
  <2>2. CASE Len(old) # PerServer
    BY <1>2, <2>2
  <2>. QED
    BY <2>1, <2>2
<1>. HIDE DEF kept
<1>4. /\ new \in Seq(T) /\ Len(new) = Len(kept) + 1 /\ new[Len(kept) + 1] = tk
      /\ \A i \in 1..Len(kept) : new[i] = kept[i]
  BY <1>3, AppendProperties
<1>5. off \in 0..1
  BY <1>2
<1>. HIDE DEF new
<1>6. Len(kept) \in Nat
  BY <1>3, LenProperties
<1>7. ASSUME NEW i \in 1..Len(new)
      PROVE  \/ i = Len(new) /\ new[i] = tk
             \/ i + off \in 1..Len(old) /\ new[i] = old[i + off]
  <2>1. CASE i = Len(new)
    BY <1>4, <2>1
  <2>2. CASE i # Len(new)
    <3>1. i \in 1..Len(kept) /\ i + off \in 1..Len(old)
      BY <1>2, <1>3, <1>4, <1>5, <1>6, <2>2
    <3>. QED
      BY <1>3, <1>4, <3>1
  <2>. QED
    BY <2>1, <2>2
<1>8. Len(new) \in Nat
  BY <1>4, <1>6
<1>9. C!Ticketed(data, tk).tickets = new /\ C!Ticketed(data, tk) \in [hint : BOOLEAN, tickets : Seq(T)]
  BY <1>1, <1>4
<1>. QED
  BY <1>5, <1>7, <1>8, <1>9 DEF old, off

\* All but the last.
LEMMA FrontProperties ==
    ASSUME NEW S, NEW s \in Seq(S), s # <<>>
    PROVE  /\ C!Front(s) \in Seq(S) /\ Len(C!Front(s)) = Len(s) - 1 /\ Len(s) \in Nat \ {0}
           /\ \A i \in 1..Len(s) - 1 : C!Front(s)[i] = s[i]
           /\ C!Last(s) = s[Len(s)]
<1>1. Len(s) \in Nat \ {0} /\ \A i \in 1..Len(s) : s[i] \in S
  BY EmptySeq, ElementOfSeq
<1>2. C!Front(s) = SubSeq(s, 1, Len(s) - 1)
  BY DEF C!Front
<1>. DEFINE n == Len(s) - 1
<1>3. 1 \in Int /\ n \in Int /\ n - 1 + 1 = n /\ n \in Nat /\ \A i \in 1..n : s[i] \in S /\ 1 + i - 1 = i
  BY <1>1
<1>. HIDE DEF n
<1>4. SubSeq(s, 1, n) \in Seq(S) /\ Len(SubSeq(s, 1, n)) = IF 1 <= n THEN n - 1 + 1 ELSE 0
  BY <1>3, SubSeqProperties
<1>5. \A i \in 1..n - 1 + 1 : SubSeq(s, 1, n)[i] = s[1 + i - 1]
  BY <1>3, SubSeqProperties
<1>. DEFINE f == SubSeq(s, 1, n)
<1>. HIDE DEF f
<1>6. f \in Seq(S) /\ Len(f) = n /\ \A i \in 1..n : f[i] = s[i]
  BY <1>3, <1>4, <1>5 DEF f
<1>. QED
  BY <1>1, <1>2, <1>6 DEF f, n, C!Last

-----------------------------------------------------------------------------
\* The invariant holds at first, every step preserves it, and so it holds always.
LEMMA CacheInit ==
    ASSUME C!CacheAssumption, C!Init
    PROVE  C!IInv
<1>1. /\ serverClock = 0 /\ clientClock = 0 /\ issued = 0 /\ sent = {} /\ hellos = {} /\ resumed = <<>>
      /\ MaxSessions \in Nat
      /\ offered = [i \in 1..MaxSessions |-> 0]
      /\ client = [map |-> <<>>, oldest |-> <<>>] /\ server = [map |-> <<>>, oldest |-> <<>>]
      /\ ClientSize \in Nat \ {0} /\ ServerSize \in Nat \ {0}
  BY DEF C!Init, C!Empty, C!CacheAssumption
<1>2. \A V, size : size \in Nat \ {0} => C!Queued([map |-> <<>>, oldest |-> <<>>], V, size)
  <2>1. ASSUME NEW V, NEW size \in Nat \ {0} PROVE C!Queued([map |-> <<>>, oldest |-> <<>>], V, size)
    <3>1. DOMAIN <<>> = {} /\ <<>> \in [{} -> V] /\ <<>> \in Seq({}) /\ Len(<<>>) = 0 /\ 1..0 = {}
      <4>1. DOMAIN <<>> = {} /\ Len(<<>>) = 0 /\ 1..0 = {} /\ <<>> \in Seq({})
        OBVIOUS
      <4>2. <<>> = [x \in {} |-> x]
        <5>1. <<>> \in Seq({}) /\ Len(<<>>) = 0
          BY <4>1
        <5>2. <<>> \in [1..0 -> {}]
          BY <5>1, LenProperties
        <5>. QED
          BY <4>1, <5>2
      <4>. QED
        BY <4>1, <4>2
    <3>2. [map |-> <<>>, oldest |-> <<>>].map = <<>> /\ [map |-> <<>>, oldest |-> <<>>].oldest = <<>>
      OBVIOUS
    <3>3. 0 < size
      OBVIOUS
    <3>. QED
      BY <3>1, <3>2, <3>3 DEF C!Queued
  <2>. QED
    BY <2>1
<1>3. client.map = <<>> /\ server.map = <<>> /\ DOMAIN client.map = {} /\ DOMAIN server.map = {}
  BY <1>1
<1>4. C!Queued(client, C!Data, ClientSize) /\ C!Queued(server, C!Session, ServerSize)
  BY <1>1, <1>2
<1>5. resumed \in Seq(C!Resumption) /\ Len(resumed) = 0
  BY <1>1
<1>6. offered \in [1..MaxSessions -> 0..1] /\ \A i \in 1..MaxSessions : offered[i] = 0
  BY <1>1
<1>7. C!TypeOK
  BY <1>1, <1>3, <1>4, <1>5, <1>6 DEF C!TypeOK
<1>8. C!TicketsNew /\ C!TicketsAgree
  BY <1>1, <1>3, <1>6 DEF C!TicketsNew, C!TicketsAgree
<1>9. C!ResumedGone /\ C!ResumedOnce /\ C!FreshIfRecent
  BY <1>5 DEF C!ResumedGone, C!ResumedOnce, C!FreshIfRecent
<1>. QED
  BY <1>7, <1>8, <1>9 DEF C!IInv

\* The place ticket i of server x had before server s was given a ticket.
Before(s, off, x, i) == IF x = s THEN i + off ELSE i

\* Every ticket was there before, or is the new one behind the others of server s.
OldOrNew(s, off, new) ==
  /\ \A x \in DOMAIN client'.map : Len(C!Tickets(x)') \in Nat
  /\ \A x \in DOMAIN client'.map : \A i \in 1..Len(C!Tickets(x)') :
       \/ x = s /\ i = Len(C!Tickets(x)') /\ C!Tickets(x)'[i] = new
       \/ /\ x \in DOMAIN client.map /\ Before(s, off, x, i) \in C!Places(x)
          /\ C!Tickets(x)'[i] = C!Tickets(x)[Before(s, off, x, i)]
Unknown(id) == \A x \in DOMAIN client.map : \A i \in C!Places(x) : C!Tickets(x)[i].id # id

\* Where a client's tickets only move up, go, and one new comes last, no two are of one session.
LEMMA TicketsMoved ==
    ASSUME C!TicketsNew, NEW s, NEW off \in 0..1, NEW new, OldOrNew(s, off, new), Unknown(new.id)
    PROVE  \A x, y \in DOMAIN client'.map : \A i \in C!Places(x)', j \in C!Places(y)' :
              C!Tickets(x)'[i].id = C!Tickets(y)'[j].id => x = y /\ i = j
<1>. SUFFICES ASSUME NEW x \in DOMAIN client'.map, NEW y \in DOMAIN client'.map,
                     NEW i \in 1..Len(C!Tickets(x)'), NEW j \in 1..Len(C!Tickets(y)'),
                     C!Tickets(x)'[i].id = C!Tickets(y)'[j].id
              PROVE  x = y /\ i = j
  BY DEF C!Places
<1>. DEFINE P == Before(s, off, x, i)
            Q == Before(s, off, y, j)
            IsNew(z, l) == z = s /\ l = Len(C!Tickets(z)') /\ C!Tickets(z)'[l] = new
<1>1. \/ IsNew(x, i)
      \/ x \in DOMAIN client.map /\ P \in C!Places(x) /\ C!Tickets(x)'[i] = C!Tickets(x)[P]
  BY DEF OldOrNew
<1>2. \/ IsNew(y, j)
      \/ y \in DOMAIN client.map /\ Q \in C!Places(y) /\ C!Tickets(y)'[j] = C!Tickets(y)[Q]
  BY DEF OldOrNew
<1>3. IsNew(x, i) /\ IsNew(y, j) => x = y /\ i = j
  OBVIOUS
<1>. DEFINE Old(z, l, p) == z \in DOMAIN client.map /\ p \in C!Places(z) /\ C!Tickets(z)'[l] = C!Tickets(z)[p]
<1>4. ~(IsNew(x, i) /\ Old(y, j, Q)) /\ ~(Old(x, i, P) /\ IsNew(y, j))
  BY DEF Unknown
<1>5. ASSUME Old(x, i, P), Old(y, j, Q) PROVE x = y /\ i = j
  <2>1. x = y /\ P = Q
    BY <1>5 DEF C!TicketsNew
  <2>2. i \in Int /\ j \in Int /\ off \in Int
    BY DEF OldOrNew
  <2>. QED
    BY <2>1, <2>2 DEF Before
<1>. QED
  BY <1>1, <1>2, <1>3, <1>4, <1>5

\* A session issued is put into the server's cache, and its ticket sent.
LEMMA CacheIssue ==
    ASSUME C!CacheAssumption, C!IInv, NEW s \in Servers, NEW add \in Offsets, C!Issue(s, add)
    PROVE  C!IInv'
<1>. DEFINE t == [id |-> issued + 1, name |-> s, add |-> add]
            v == [created |-> serverClock, add |-> add]
<1>1. /\ C!TypeOK /\ C!TicketsNew /\ C!TicketsAgree /\ C!ResumedGone /\ C!ResumedOnce /\ C!FreshIfRecent
  BY DEF C!IInv
<1>2. /\ issued' = issued + 1 /\ issued < MaxSessions
      /\ server' = C!Inserted(server, issued + 1, v, ServerSize) /\ sent' = sent \union {t}
      /\ UNCHANGED <<serverClock, clientClock, client, hellos, offered, resumed>>
  BY DEF C!Issue
<1>3. /\ serverClock \in Nat /\ clientClock \in Nat /\ issued \in Nat /\ MaxSessions \in Nat
      /\ issued + 1 \in 1..issued' /\ issued' \in 0..MaxSessions /\ ServerSize \in Nat \ {0}
  BY <1>1, <1>2, TypeParts
<1>4. /\ C!Queued(client, C!Data', ClientSize)
      /\ C!Queued(server, C!Session', ServerSize) /\ DOMAIN server.map \subseteq 1..issued'
      /\ sent \subseteq C!NewTicket' /\ hellos \subseteq C!ClientHello'
      /\ resumed \in Seq(C!Resumption')
  BY <1>1, <1>2, <1>3, TypesWiden
<1>5. t \in C!NewTicket' /\ v \in C!Session' /\ t.id = issued + 1 /\ t.add = add /\ v.add = add
  BY <1>2, <1>3 DEF C!NewTicket, C!Session
<1>. HIDE DEF t, v
<1>6. /\ C!Queued(server', C!Session', ServerSize)
      /\ \A x \in DOMAIN server'.map :
            \/ x = issued + 1 /\ server'.map[x] = v
            \/ x # issued + 1 /\ x \in DOMAIN server.map /\ server'.map[x] = server.map[x]
  <2>1. ServerSize \in Nat \ {0} /\ C!Queued(server, C!Session', ServerSize) /\ v \in C!Session'
    BY <1>3, <1>4, <1>5
  <2>2. C!Queued(C!Inserted(server, issued + 1, v, ServerSize), C!Session', ServerSize)
    BY <2>1, InsertedKept, Zenon
  <2>3. \A x \in DOMAIN C!Inserted(server, issued + 1, v, ServerSize).map :
            \/ x = issued + 1 /\ C!Inserted(server, issued + 1, v, ServerSize).map[x] = v
            \/ /\ x # issued + 1 /\ x \in DOMAIN server.map
               /\ C!Inserted(server, issued + 1, v, ServerSize).map[x] = server.map[x]
    BY <2>1, InsertedKept, ZenonT(60)
  <2>. QED
    BY <1>2, <2>2, <2>3, Zenon
<1>7. C!TypeOK'
  <2>1. DOMAIN server'.map \subseteq 1..issued'
    BY <1>3, <1>4, <1>6
  <2>2. offered \in [1..MaxSessions -> 0..1]
    BY <1>1 DEF C!TypeOK
  <2>3. sent' \subseteq C!NewTicket'
    BY <1>2, <1>4, <1>5
  <2>. QED
    BY <1>2, <1>3, <1>4, <1>6, <2>1, <2>2, <2>3 DEF C!TypeOK
\* What was there before has other numbers.
<1>8. \A x \in DOMAIN client.map : \A i \in C!Places(x) : C!Tickets(x)[i].id # issued + 1
  <2>1. \A x \in DOMAIN client.map : \A i \in C!Places(x) : C!Tickets(x)[i].id \in 1..issued
    BY <1>1, TypeParts DEF C!Ticket
  <2>. QED
    BY <1>3, <2>1
<1>9. \A u \in sent : u.id # issued + 1
  BY <1>1, <1>3 DEF C!TypeOK, C!NewTicket
<1>10. \A hello \in hellos : hello.id # issued + 1
  BY <1>1, <1>3 DEF C!TypeOK, C!ClientHello
<1>11. C!TicketsNew'
  <2>1. ASSUME NEW u \in sent', NEW w \in sent', u.id = w.id PROVE u = w
    BY <1>1, <1>2, <1>5, <1>9, <2>1 DEF C!TicketsNew
  <2>2. ASSUME NEW u \in sent' PROVE offered[u.id] = 0
    <3>1. issued + 1 \in 1..MaxSessions /\ issued + 1 > issued
      BY <1>2, <1>3
    <3>. QED
      BY <1>1, <1>2, <1>5, <3>1 DEF C!TicketsNew
  <2>3. ASSUME NEW u \in sent', NEW x \in DOMAIN client.map, NEW i \in C!Places(x) PROVE C!Tickets(x)[i].id # u.id
    BY <1>1, <1>2, <1>5, <1>8 DEF C!TicketsNew
  <2>4. \A i \in 1..MaxSessions : i > issued' => offered[i] = 0
    <3>1. \A i \in 1..MaxSessions : i > issued + 1 => i > issued
      BY <1>3
    <3>. QED
      BY <1>1, <1>2, <3>1 DEF C!TicketsNew
  <2>5. \A x, y \in DOMAIN client.map : \A i \in C!Places(x), j \in C!Places(y) :
           C!Tickets(x)[i].id = C!Tickets(y)[j].id => x = y /\ i = j
    BY <1>1 DEF C!TicketsNew
  <2>6. \A x \in DOMAIN client.map : \A i \in C!Places(x) : offered[C!Tickets(x)[i].id] = 0
    BY <1>1 DEF C!TicketsNew
  <2>. QED
    BY <1>2, <2>1, <2>2, <2>3, <2>4, <2>5, <2>6 DEF C!TicketsNew, C!Tickets, C!Places
<1>12. C!TicketsAgree'
  <2>1. ASSUME NEW u \in sent', u.id \in DOMAIN server'.map PROVE server'.map[u.id].add = u.add
    <3>1. CASE u = t
      BY <1>5, <1>6, <2>1, <3>1
    <3>2. CASE u # t
      <4>1. u \in sent /\ u.id # issued + 1
        BY <1>2, <1>9, <3>2
      <4>. QED
        BY <1>1, <1>6, <2>1, <4>1 DEF C!TicketsAgree, C!Has
    <3>. QED
      BY <3>1, <3>2
  <2>2. \A x \in DOMAIN client.map : \A i \in C!Places(x) : C!Tickets(x)[i].id \in DOMAIN server'.map =>
           C!Goes(server'.map[C!Tickets(x)[i].id], C!Tickets(x)[i])
    BY <1>1, <1>6, <1>8 DEF C!TicketsAgree, C!Has
  <2>3. \A hello \in hellos : hello.id \in DOMAIN server'.map => C!Matches(server'.map[hello.id], hello)
    BY <1>1, <1>6, <1>10 DEF C!TicketsAgree, C!Has
  <2>. QED
    BY <1>2, <2>1, <2>2, <2>3 DEF C!TicketsAgree, C!Has, C!Matches, C!Goes, C!Tickets, C!Places
<1>13. C!ResumedGone' /\ C!ResumedOnce' /\ C!FreshIfRecent'
  <2>1. \A i \in 1..Len(resumed) : resumed[i].id \in 1..issued
    <3>1. \A i \in 1..Len(resumed) : resumed[i] \in C!Resumption
      BY <1>1, ElementOfSeq DEF C!TypeOK
    <3>. QED
      BY <3>1 DEF C!Resumption
  <2>2. \A i \in 1..Len(resumed) : resumed[i].id # issued + 1 /\ resumed[i].id \notin DOMAIN server.map
    BY <1>1, <1>3, <2>1 DEF C!ResumedGone, C!Has
  <2>3. C!ResumedGone'
    BY <1>2, <1>6, <2>2 DEF C!ResumedGone, C!Has
  <2>. QED
    BY <1>1, <1>2, <2>3 DEF C!ResumedOnce, C!FreshIfRecent
<1>. QED
  BY <1>7, <1>11, <1>12, <1>13 DEF C!IInv

\* A ticket that came is kept for its server, behind the older ones.
LEMMA CacheReceive ==
    ASSUME C!CacheAssumption, C!IInv, NEW came, C!Receive(came)
    PROVE  C!IInv'
<1>. DEFINE s == came.name
            t == [id |-> came.id, epoch |-> clientClock, add |-> came.add, got |-> serverClock]
            old == C!DataOf(s).tickets
            d == C!Ticketed(C!DataOf(s), t)
<1>1. /\ C!TypeOK /\ C!TicketsNew /\ C!TicketsAgree /\ C!ResumedGone /\ C!ResumedOnce /\ C!FreshIfRecent
  BY DEF C!IInv
<1>2. /\ came \in sent /\ sent' = sent \ {came}
      /\ client' = C!Inserted(client, s, d, ClientSize)
      /\ UNCHANGED <<serverClock, clientClock, server, issued, hellos, offered, resumed>>
  BY DEF C!Receive
<1>3. /\ serverClock \in Nat /\ clientClock \in Nat /\ issued \in Nat /\ MaxSessions \in Nat
      /\ ClientSize \in Nat \ {0} /\ PerServer \in Nat \ {0} /\ C!Queued(client, C!Data, ClientSize)
  BY <1>1, TypeParts DEF C!TypeOK
<1>4. came.id \in 1..issued /\ came.add \in Offsets
  BY <1>1, <1>2 DEF C!TypeOK, C!NewTicket
<1>5. /\ t \in C!Ticket /\ t.id = came.id /\ t.add = came.add /\ t.got = serverClock
  BY <1>3, <1>4 DEF C!Ticket
<1>6. /\ C!DataOf(s).hint \in BOOLEAN /\ old \in Seq(C!Ticket) /\ (old # <<>> => s \in DOMAIN client.map)
      /\ s \in DOMAIN client.map => old = C!Tickets(s)
      /\ s \notin DOMAIN client.map => Len(old) = 0
  BY <1>1, DataOfParts
<1>. HIDE DEF t, old, s
<1>. DEFINE off == MovesUp(C!DataOf(s))
<1>7. d \in C!Data /\ Len(d.tickets) \in Nat
  BY <1>3, <1>5, <1>6, TicketedKept DEF C!Data, old
<1>8. /\ off \in 0..1
      /\ \A i \in 1..Len(d.tickets) :
           \/ i = Len(d.tickets) /\ d.tickets[i] = t
           \/ i + off \in 1..Len(old) /\ d.tickets[i] = old[i + off]
  <2>1. C!DataOf(s).hint \in BOOLEAN /\ C!DataOf(s).tickets \in Seq(C!Ticket) /\ t \in C!Ticket
    BY <1>5, <1>6 DEF old
  <2>2. off \in 0..1
    BY DEF MovesUp
  <2>3. \A i \in 1..Len(d.tickets) :
           \/ i = Len(d.tickets) /\ d.tickets[i] = t
           \/ /\ i + MovesUp(C!DataOf(s)) \in 1..Len(C!DataOf(s).tickets)
              /\ d.tickets[i] = C!DataOf(s).tickets[i + MovesUp(C!DataOf(s))]
    BY <1>3, <2>1, TicketedKept
  <2>. QED
    BY <2>2, <2>3 DEF old
<1>. HIDE DEF off
<1>. HIDE DEF d
<1>9. /\ C!Queued(client', C!Data, ClientSize)
      /\ \A x \in DOMAIN client'.map :
            \/ x = s /\ client'.map[x] = d
            \/ x # s /\ x \in DOMAIN client.map /\ client'.map[x] = client.map[x]
  <2>1. C!Queued(C!Inserted(client, s, d, ClientSize), C!Data, ClientSize)
    BY <1>3, <1>7, InsertedKept, Zenon
  <2>2. \A x \in DOMAIN C!Inserted(client, s, d, ClientSize).map :
            \/ x = s /\ C!Inserted(client, s, d, ClientSize).map[x] = d
            \/ x # s /\ x \in DOMAIN client.map /\ C!Inserted(client, s, d, ClientSize).map[x] = client.map[x]
    BY <1>3, <1>7, InsertedKept, Zenon
  <2>. QED
    BY <1>2, <2>1, <2>2, Zenon
<1>10. C!TypeOK'
  <2>1. C!Data' = C!Data /\ C!Session' = C!Session
    BY <1>2 DEF C!Data, C!Session, C!Ticket
  <2>2. C!NewTicket' = C!NewTicket /\ C!ClientHello' = C!ClientHello /\ C!Resumption' = C!Resumption
    BY <1>2 DEF C!NewTicket, C!ClientHello, C!Resumption
  <2>. QED
    BY <1>1, <1>2, <1>9, <2>1, <2>2 DEF C!TypeOK
<1>11. \A x \in DOMAIN client.map : Len(C!Tickets(x)) \in Nat
  BY <1>1, TypeParts
<1>12. \A x \in DOMAIN client'.map : \A i \in 1..Len(C!Tickets(x)') :
             \/ x = s /\ i = Len(C!Tickets(x)') /\ C!Tickets(x)'[i] = t
             \/ /\ x \in DOMAIN client.map
                /\ Before(s, off, x, i) \in C!Places(x)
                /\ C!Tickets(x)'[i] = C!Tickets(x)[Before(s, off, x, i)]
  <2>1. ASSUME NEW x \in DOMAIN client'.map, NEW i \in 1..Len(C!Tickets(x)'), x = s
        PROVE  \/ i = Len(C!Tickets(x)') /\ C!Tickets(x)'[i] = t
               \/ x \in DOMAIN client.map /\ i + off \in C!Places(x) /\ C!Tickets(x)'[i] = C!Tickets(x)[i + off]
    <3>1. C!Tickets(x)' = d.tickets
      BY <1>9, <2>1 DEF C!Tickets
    <3>2. \/ i = Len(d.tickets) /\ d.tickets[i] = t
          \/ i + off \in 1..Len(old) /\ d.tickets[i] = old[i + off]
      BY <1>8, <3>1
    <3>3. ASSUME i + off \in 1..Len(old) PROVE x \in DOMAIN client.map /\ old = C!Tickets(x) /\ i + off \in C!Places(x)
      BY <1>6, <2>1, <3>3 DEF C!Places
    <3>. QED
      BY <3>1, <3>2, <3>3
  <2>2. ASSUME NEW x \in DOMAIN client'.map, NEW i \in 1..Len(C!Tickets(x)'), x # s
        PROVE  x \in DOMAIN client.map /\ i \in C!Places(x) /\ C!Tickets(x)'[i] = C!Tickets(x)[i]
    BY <1>9, <2>2 DEF C!Tickets, C!Places
  <2>. QED
    BY <2>1, <2>2 DEF Before
<1>13. \A x \in DOMAIN client'.map : Len(C!Tickets(x)') \in Nat
  BY <1>7, <1>9, <1>11 DEF C!Tickets
\* Every came is the new one or an old one.
<1>14. \A x \in DOMAIN client'.map : \A i \in C!Places(x)' :
          \/ C!Tickets(x)'[i] = t
          \/ x \in DOMAIN client.map /\ \E p \in C!Places(x) : C!Tickets(x)'[i] = C!Tickets(x)[p]
  BY <1>12 DEF C!Places
<1>15. C!TicketsNew'
  <2>1. /\ offered[t.id] = 0
        /\ \A x \in DOMAIN client.map : \A i \in C!Places(x) : C!Tickets(x)[i].id # t.id
    BY <1>1, <1>2, <1>5 DEF C!TicketsNew
  <2>2. \A x, y \in DOMAIN client'.map : \A i \in C!Places(x)', j \in C!Places(y)' :
           C!Tickets(x)'[i].id = C!Tickets(y)'[j].id => x = y /\ i = j
    <3>1. OldOrNew(s, off, t) /\ Unknown(t.id)
      BY <1>12, <1>13, <2>1 DEF OldOrNew, Unknown
    <3>. QED
      BY <1>1, <1>8, <3>1, TicketsMoved
  <2>3. ASSUME NEW x \in DOMAIN client'.map, NEW i \in C!Places(x)' PROVE offered[C!Tickets(x)'[i].id] = 0
    <3>1. \A z \in DOMAIN client.map : \A l \in C!Places(z) : offered[C!Tickets(z)[l].id] = 0
      BY <1>1 DEF C!TicketsNew
    <3>. QED
      BY <1>14, <2>1, <2>3, <3>1
  <2>4. \A i \in 1..MaxSessions : i > issued => offered[i] = 0
    BY <1>1 DEF C!TicketsNew
  <2>5. \A u, w \in sent' : u.id = w.id => u = w
    BY <1>1, <1>2 DEF C!TicketsNew
  <2>6. \A u \in sent' : offered[u.id] = 0
    BY <1>1, <1>2 DEF C!TicketsNew
  <2>7. ASSUME NEW u \in sent', NEW x \in DOMAIN client'.map, NEW i \in C!Places(x)' PROVE C!Tickets(x)'[i].id # u.id
    <3>1. u \in sent /\ u.id # t.id
      BY <1>1, <1>2, <1>5 DEF C!TicketsNew
    <3>2. \A z \in DOMAIN client.map : \A l \in C!Places(z) : C!Tickets(z)[l].id # u.id
      BY <1>1, <3>1 DEF C!TicketsNew
    <3>. QED
      BY <1>14, <2>7, <3>1, <3>2
  <2>. QED
    BY <1>2, <2>2, <2>3, <2>4, <2>5, <2>6, <2>7 DEF C!TicketsNew
<1>16. C!TicketsAgree'
  <2>1. \A u \in sent' : u.id \in DOMAIN server.map => server.map[u.id].add = u.add
    BY <1>1, <1>2 DEF C!TicketsAgree, C!Has
  <2>2. ASSUME NEW x \in DOMAIN client'.map, NEW i \in C!Places(x)', C!Tickets(x)'[i].id \in DOMAIN server.map
        PROVE  C!Goes(server.map[C!Tickets(x)'[i].id], C!Tickets(x)'[i])
    <3>1. CASE C!Tickets(x)'[i] = t
      <4>1. server.map[t.id] \in C!Session
        BY <1>1, <2>2, <3>1, TypeParts
      <4>2. server.map[t.id].add = t.add
        BY <1>1, <1>2, <1>5, <2>2, <3>1 DEF C!TicketsAgree, C!Has
      <4>3. server.map[t.id].created <= t.got
        BY <1>3, <1>5, <4>1 DEF C!Session
      <4>. QED
        BY <3>1, <4>2, <4>3 DEF C!Goes
    <3>2. CASE C!Tickets(x)'[i] # t
      <4>1. PICK p \in C!Places(x) : x \in DOMAIN client.map /\ C!Tickets(x)'[i] = C!Tickets(x)[p]
        BY <1>14, <2>2, <3>2
      <4>. QED
        BY <1>1, <2>2, <4>1 DEF C!TicketsAgree, C!Has
    <3>. QED
      BY <3>1, <3>2
  <2>3. \A hello \in hellos : hello.id \in DOMAIN server.map => C!Matches(server.map[hello.id], hello)
    BY <1>1 DEF C!TicketsAgree, C!Has
  <2>. QED
    BY <1>2, <2>1, <2>2, <2>3 DEF C!TicketsAgree, C!Has, C!Matches, C!Goes
<1>17. C!ResumedGone' /\ C!ResumedOnce' /\ C!FreshIfRecent'
  BY <1>1, <1>2 DEF C!ResumedGone, C!ResumedOnce, C!FreshIfRecent, C!Has
<1>. QED
  BY <1>10, <1>15, <1>16, <1>17 DEF C!IInv

\* Keeping a group for the next key exchange leaves the tickets, though it may push a server out.
LEMMA CacheSetKxHint ==
    ASSUME C!CacheAssumption, C!IInv, NEW s, C!SetKxHint(s)
    PROVE  C!IInv'
<1>. DEFINE d == [hint |-> TRUE, tickets |-> C!DataOf(s).tickets]
<1>1. C!TypeOK /\ C!TicketsNew /\ C!TicketsAgree /\ C!ResumedGone /\ C!ResumedOnce /\ C!FreshIfRecent
  BY DEF C!IInv
<1>2. /\ client' = C!Inserted(client, s, d, ClientSize)
      /\ UNCHANGED <<serverClock, clientClock, server, issued, sent, hellos, offered, resumed>>
  BY DEF C!SetKxHint
<1>3. ClientSize \in Nat \ {0} /\ C!Queued(client, C!Data, ClientSize)
  BY <1>1, TypeParts DEF C!TypeOK
<1>4. /\ d \in C!Data /\ d.tickets = C!DataOf(s).tickets
      /\ s \in DOMAIN client.map => d.tickets = C!Tickets(s)
      /\ s \notin DOMAIN client.map => Len(d.tickets) = 0
  BY <1>1, DataOfParts DEF C!Data
<1>. HIDE DEF d
<1>5. C!Queued(C!Inserted(client, s, d, ClientSize), C!Data, ClientSize)
  BY <1>3, <1>4, InsertedKept, Zenon
<1>6. \A x \in DOMAIN C!Inserted(client, s, d, ClientSize).map :
            \/ x = s /\ C!Inserted(client, s, d, ClientSize).map[x] = d
            \/ x # s /\ x \in DOMAIN client.map /\ C!Inserted(client, s, d, ClientSize).map[x] = client.map[x]
  BY <1>3, <1>4, InsertedKept, Zenon
<1>7. C!Queued(client', C!Data, ClientSize)
  BY <1>2, <1>5
<1>8. \A x \in DOMAIN client'.map :
            \/ x = s /\ client'.map[x] = d
            \/ x # s /\ x \in DOMAIN client.map /\ client'.map[x] = client.map[x]
  BY <1>2, <1>6
<1>9. /\ C!Data' = C!Data /\ C!Session' = C!Session
      /\ C!NewTicket' = C!NewTicket /\ C!ClientHello' = C!ClientHello /\ C!Resumption' = C!Resumption
  BY <1>2 DEF C!Data, C!Session, C!Ticket, C!NewTicket, C!ClientHello, C!Resumption
<1>10. C!TypeOK'
  BY <1>1, <1>2, <1>7, <1>9 DEF C!TypeOK
<1>11. \A x \in DOMAIN client'.map :
          /\ Len(C!Tickets(x)') \in Nat
          /\ \A i \in 1..Len(C!Tickets(x)') :
               x \in DOMAIN client.map /\ i \in C!Places(x) /\ C!Tickets(x)'[i] = C!Tickets(x)[i]
  <2>1. \A x \in DOMAIN client.map : Len(C!Tickets(x)) \in Nat
    BY <1>1, TypeParts
  <2>2. ASSUME NEW x \in DOMAIN client'.map, x = s
        PROVE  Len(C!Tickets(x)') \in Nat /\ \A i \in 1..Len(C!Tickets(x)') :
                 x \in DOMAIN client.map /\ i \in C!Places(x) /\ C!Tickets(x)'[i] = C!Tickets(x)[i]
    <3>1. C!Tickets(x)' = d.tickets
      BY <1>8, <2>2 DEF C!Tickets
    <3>2. CASE s \in DOMAIN client.map
      BY <1>4, <2>1, <2>2, <3>1, <3>2 DEF C!Places
    <3>3. CASE s \notin DOMAIN client.map
      BY <1>4, <3>1, <3>3
    <3>. QED
      BY <3>2, <3>3
  <2>3. ASSUME NEW x \in DOMAIN client'.map, x # s
        PROVE  Len(C!Tickets(x)') \in Nat /\ \A i \in 1..Len(C!Tickets(x)') :
                 x \in DOMAIN client.map /\ i \in C!Places(x) /\ C!Tickets(x)'[i] = C!Tickets(x)[i]
    BY <1>8, <2>1, <2>3 DEF C!Tickets, C!Places
  <2>. QED
    BY <2>2, <2>3
<1>12. C!TicketsNew'
  <2>1. \A x, y \in DOMAIN client'.map : \A i \in C!Places(x)', j \in C!Places(y)' :
           C!Tickets(x)'[i].id = C!Tickets(y)'[j].id => x = y /\ i = j
    BY <1>1, <1>11 DEF C!TicketsNew, C!Places
  <2>2. \A x \in DOMAIN client'.map : \A i \in C!Places(x)' : offered[C!Tickets(x)'[i].id] = 0
    BY <1>1, <1>11 DEF C!TicketsNew, C!Places
  <2>3. \A i \in 1..MaxSessions : i > issued => offered[i] = 0
    BY <1>1 DEF C!TicketsNew
  <2>4. \A u, w \in sent : u.id = w.id => u = w
    BY <1>1 DEF C!TicketsNew
  <2>5. \A u \in sent : offered[u.id] = 0 /\ \A x \in DOMAIN client'.map : \A i \in C!Places(x)' : C!Tickets(x)'[i].id # u.id
    BY <1>1, <1>11 DEF C!TicketsNew, C!Places
  <2>. QED
    BY <1>2, <2>1, <2>2, <2>3, <2>4, <2>5 DEF C!TicketsNew
<1>13. C!TicketsAgree'
  <2>1. \A x \in DOMAIN client'.map : \A i \in C!Places(x)' : C!Tickets(x)'[i].id \in DOMAIN server.map =>
           C!Goes(server.map[C!Tickets(x)'[i].id], C!Tickets(x)'[i])
    BY <1>1, <1>11 DEF C!TicketsAgree, C!Places, C!Has
  <2>2. \A hello \in hellos : hello.id \in DOMAIN server.map => C!Matches(server.map[hello.id], hello)
    BY <1>1 DEF C!TicketsAgree, C!Has
  <2>3. \A u \in sent : u.id \in DOMAIN server.map => server.map[u.id].add = u.add
    BY <1>1 DEF C!TicketsAgree, C!Has
  <2>. QED
    BY <1>2, <2>1, <2>2, <2>3 DEF C!TicketsAgree, C!Has, C!Matches, C!Goes
<1>14. C!ResumedGone' /\ C!ResumedOnce' /\ C!FreshIfRecent'
  BY <1>1, <1>2 DEF C!ResumedGone, C!ResumedOnce, C!FreshIfRecent, C!Has
<1>. QED
  BY <1>10, <1>12, <1>13, <1>14 DEF C!IInv

\* A connection takes the newest ticket, and offers it once.
LEMMA CacheConnect ==
    ASSUME C!CacheAssumption, C!IInv, NEW s, C!Connect(s)
    PROVE  C!IInv'
<1>. DEFINE T == C!DataOf(s).tickets
            n == Len(T)
            t == C!Last(T)
            d == C!Taken(client.map[s])
            h == C!Offer(t)
<1>1. C!TypeOK /\ C!TicketsNew /\ C!TicketsAgree /\ C!ResumedGone /\ C!ResumedOnce /\ C!FreshIfRecent
  BY DEF C!IInv
<1>2. /\ T # <<>>
      /\ client' = [map |-> [client.map EXCEPT ![s] = d], oldest |-> client.oldest]
      /\ UNCHANGED <<serverClock, clientClock, server, issued, sent, resumed>>
      /\ \/ C!Expired(t) /\ UNCHANGED <<hellos, offered>>
         \/ /\ ~C!Expired(t) /\ hellos' = hellos \union {h}
            /\ offered' = [offered EXCEPT ![t.id] = offered[t.id] + 1]
  BY DEF C!Connect
<1>3. /\ s \in DOMAIN client.map /\ T = C!Tickets(s) /\ T \in Seq(C!Ticket) /\ client.map[s] \in C!Data
      /\ T = client.map[s].tickets /\ client.map[s].hint \in BOOLEAN
  BY <1>1, <1>2, DataOfParts
<1>4. /\ C!Front(T) \in Seq(C!Ticket) /\ Len(C!Front(T)) = n - 1 /\ n \in Nat \ {0}
      /\ \A i \in 1..n - 1 : C!Front(T)[i] = T[i]
      /\ t = T[n]
  BY <1>2, <1>3, FrontProperties
<1>5. d = [hint |-> client.map[s].hint, tickets |-> C!Front(T)] /\ d \in C!Data /\ d.tickets = C!Front(T)
  <2>1. d = [hint |-> client.map[s].hint, tickets |-> C!Front(T)]
    BY <1>3 DEF C!Taken
  <2>. HIDE DEF d, T
  <2>. QED
    BY <1>3, <1>4, <2>1 DEF C!Data
<1>6. n \in C!Places(s) /\ C!Tickets(s)[n] = t
  BY <1>3, <1>4 DEF C!Places
<1>. HIDE DEF d, t, n, T
<1>7. /\ t \in C!Ticket /\ t.id \in 1..issued /\ t.epoch \in 0..clientClock /\ t.add \in Offsets
      /\ t.got \in 0..serverClock
      /\ offered[t.id] = 0 /\ t.id \in 1..MaxSessions
  <2>1. t \in C!Ticket
    BY <1>1, <1>3, <1>6, TypeParts
  <2>2. t.id \in 1..issued /\ t.epoch \in 0..clientClock /\ t.add \in Offsets /\ t.got \in 0..serverClock
    BY <2>1 DEF C!Ticket
  <2>3. offered[t.id] = 0
    BY <1>1, <1>3, <1>6 DEF C!TicketsNew
  <2>4. issued \in Nat /\ issued <= MaxSessions /\ MaxSessions \in Nat
    BY <1>1, TypeParts
  <2>. QED
    BY <2>1, <2>2, <2>3, <2>4
<1>8. /\ C!Queued(client', C!Data, ClientSize) /\ DOMAIN client'.map = DOMAIN client.map
      /\ \A x \in DOMAIN client.map : client'.map[x] = IF x = s THEN d ELSE client.map[x]
  <2>1. ClientSize \in Nat /\ C!Queued(client, C!Data, ClientSize)
    BY <1>1, TypeParts DEF C!TypeOK
  <2>2. client'.map = [client.map EXCEPT ![s] = d]
    BY <1>2
  <2>. QED
    BY <1>2, <1>3, <1>5, <2>1, <2>2, ReplacedKept
<1>9. \A x \in DOMAIN client'.map :
          /\ x \in DOMAIN client.map /\ Len(C!Tickets(x)') \in Nat
          /\ \A i \in 1..Len(C!Tickets(x)') :
               i \in C!Places(x) /\ C!Tickets(x)'[i] = C!Tickets(x)[i] /\ (x = s => i # n)
  <2>1. \A x \in DOMAIN client.map : Len(C!Tickets(x)) \in Nat
    BY <1>1, TypeParts
  <2>2. ASSUME NEW x \in DOMAIN client'.map, x = s
        PROVE  Len(C!Tickets(x)') \in Nat /\ \A i \in 1..Len(C!Tickets(x)') :
                 i \in C!Places(x) /\ C!Tickets(x)'[i] = C!Tickets(x)[i] /\ i # n
    <3>1. C!Tickets(x)' = C!Front(T)
      BY <1>3, <1>5, <1>8, <2>2 DEF C!Tickets
    <3>2. C!Tickets(x) = T /\ Len(T) = n
      BY <1>3, <2>2 DEF n
    <3>. QED
      BY <1>4, <3>1, <3>2 DEF C!Places
  <2>3. ASSUME NEW x \in DOMAIN client'.map, x # s
        PROVE  C!Tickets(x)' = C!Tickets(x)
    BY <1>8, <2>3 DEF C!Tickets
  <2>. QED
    BY <1>8, <2>1, <2>2, <2>3 DEF C!Places
<1>10. C!ObfuscatedAge(t) \in Nat /\ clientClock - t.epoch \in Nat
  <2>1. clientClock \in Nat /\ Milli \in Nat /\ Modulus \in Nat \ {0} /\ t.epoch \in Nat /\ t.add \in Nat /\ clientClock - t.epoch \in Nat
    <3>1. clientClock \in Nat /\ t.epoch \in 0..clientClock
      BY <1>1, <1>7, TypeParts
    <3>2. Milli \in Nat /\ Modulus \in Nat \ {0} /\ Offsets \subseteq 0..(Modulus - 1)
      BY DEF C!CacheAssumption
    <3>3. t.add \in Nat
      <4>1. t.add \in 0..(Modulus - 1)
        BY <1>7, <3>2
      <4>. QED
        BY <4>1
    <3>4. t.epoch \in Nat /\ clientClock - t.epoch \in Nat
      BY <3>1
    <3>. QED
      BY <3>1, <3>2, <3>3, <3>4
  <2>2. (clientClock - t.epoch) * Milli \in Nat
    BY <2>1, TimesFacts
  <2>3. \A a, b \in Nat, M \in Nat \ {0} : (a + b) % M \in Nat
    OBVIOUS
  <2>. QED
    BY <2>1, <2>2, <2>3 DEF C!ObfuscatedAge
<1>. HIDE DEF h
<1>11. /\ h \in C!ClientHello
       /\ h.id = t.id /\ h.age = C!ObfuscatedAge(t) /\ h.at = serverClock
       /\ h.got = t.got /\ h.held = clientClock - t.epoch
  <2>1. serverClock \in Nat
    BY <1>1, TypeParts
  <2>. QED
    BY <1>7, <1>10, <2>1 DEF h, C!Offer, C!ClientHello
<1>12. /\ offered' \in [1..MaxSessions -> 0..1]
       /\ \A i \in 1..MaxSessions : i # t.id => offered'[i] = offered[i]
  <2>1. offered \in [1..MaxSessions -> 0..1]
    BY <1>1 DEF C!TypeOK
  <2>2. CASE offered' = offered
    BY <2>1, <2>2
  <2>3. CASE offered' = [offered EXCEPT ![t.id] = offered[t.id] + 1]
    BY <1>7, <2>1, <2>3
  <2>4. offered' = offered \/ offered' = [offered EXCEPT ![t.id] = offered[t.id] + 1]
    BY <1>2
  <2>. QED
    BY <2>2, <2>3, <2>4
<1>13. C!TypeOK'
  <2>1. C!Data' = C!Data /\ C!Session' = C!Session
    BY <1>2 DEF C!Data, C!Session, C!Ticket
  <2>2. hellos' \subseteq C!ClientHello
    BY <1>1, <1>2, <1>11 DEF C!TypeOK
  <2>3. C!NewTicket' = C!NewTicket /\ C!ClientHello' = C!ClientHello /\ C!Resumption' = C!Resumption
    BY <1>2 DEF C!NewTicket, C!ClientHello, C!Resumption
  <2>. QED
    BY <1>1, <1>2, <1>8, <1>12, <2>1, <2>2, <2>3 DEF C!TypeOK
<1>14. C!TicketsNew'
  <2>1. \A x, y \in DOMAIN client'.map : \A i \in C!Places(x)', j \in C!Places(y)' :
           C!Tickets(x)'[i].id = C!Tickets(y)'[j].id => x = y /\ i = j
    <3>1. \A x, y \in DOMAIN client.map : \A i \in C!Places(x), j \in C!Places(y) :
             C!Tickets(x)[i].id = C!Tickets(y)[j].id => x = y /\ i = j
      BY <1>1 DEF C!TicketsNew
    <3>2. \A x \in DOMAIN client'.map : \A i \in C!Places(x)' :
             x \in DOMAIN client.map /\ i \in C!Places(x) /\ C!Tickets(x)'[i] = C!Tickets(x)[i]
      BY <1>9 DEF C!Places
    <3>. SUFFICES ASSUME NEW x \in DOMAIN client'.map, NEW y \in DOMAIN client'.map,
                         NEW i \in C!Places(x)', NEW j \in C!Places(y)',
                         C!Tickets(x)'[i].id = C!Tickets(y)'[j].id
                  PROVE  x = y /\ i = j
      OBVIOUS
    <3>3. C!Tickets(x)[i].id = C!Tickets(y)[j].id
      BY <3>2
    <3>. QED
      BY <3>1, <3>2, <3>3
  <2>2. ASSUME NEW x \in DOMAIN client'.map, NEW i \in C!Places(x)' PROVE offered'[C!Tickets(x)'[i].id] = 0
    <3>1. /\ x \in DOMAIN client.map /\ i \in C!Places(x) /\ C!Tickets(x)'[i] = C!Tickets(x)[i] /\ (x = s => i # n)
      BY <1>9, <2>2 DEF C!Places
    <3>2. C!Tickets(x)[i].id # t.id
      <4>1. C!Tickets(x)[i].id = C!Tickets(s)[n].id => x = s /\ i = n
        <5>1. \A y, z \in DOMAIN client.map : \A l \in C!Places(y), m \in C!Places(z) :
                 C!Tickets(y)[l].id = C!Tickets(z)[m].id => y = z /\ l = m
          BY <1>1 DEF C!TicketsNew
        <5>2. x \in DOMAIN client.map /\ s \in DOMAIN client.map /\ i \in C!Places(x) /\ n \in C!Places(s)
          BY <1>3, <1>6, <3>1
        <5>. QED
          BY <5>1, <5>2, Zenon
      <4>. QED
        BY <1>6, <3>1, <4>1
    <3>3. C!Tickets(x)[i].id \in 1..MaxSessions
      <4>1. C!Tickets(x)[i] \in C!Ticket /\ issued \in Nat /\ issued <= MaxSessions /\ MaxSessions \in Nat
        BY <1>1, <3>1, TypeParts
      <4>. QED
        BY <4>1 DEF C!Ticket
    <3>4. offered[C!Tickets(x)[i].id] = 0
      BY <1>1, <3>1 DEF C!TicketsNew
    <3>. QED
      BY <1>12, <3>1, <3>2, <3>3, <3>4
  <2>3. ASSUME NEW i \in 1..MaxSessions, i > issued PROVE offered'[i] = 0
    <3>1. i # t.id
      BY <1>1, <1>7, <2>3, TypeParts
    <3>. QED
      BY <1>1, <1>12, <2>3, <3>1 DEF C!TicketsNew
  <2>4. \A u, w \in sent : u.id = w.id => u = w
    BY <1>1 DEF C!TicketsNew
  <2>5. ASSUME NEW u \in sent PROVE offered'[u.id] = 0
    <3>1. u.id # t.id /\ offered[u.id] = 0
      <4>1. offered[u.id] = 0 /\ \A y \in DOMAIN client.map : \A l \in C!Places(y) : C!Tickets(y)[l].id # u.id
        BY <1>1 DEF C!TicketsNew
      <4>. QED
        BY <1>3, <1>6, <4>1
    <3>2. u.id \in 1..issued /\ issued \in Nat /\ issued <= MaxSessions /\ MaxSessions \in Nat
      BY <1>1, TypeParts DEF C!TypeOK, C!NewTicket
    <3>3. u.id \in 1..MaxSessions
      BY <3>2
    <3>. QED
      BY <1>12, <3>1, <3>3
  <2>6. \A u \in sent : \A x \in DOMAIN client'.map : \A i \in C!Places(x)' : C!Tickets(x)'[i].id # u.id
    BY <1>1, <1>9 DEF C!TicketsNew, C!Places
  <2>. QED
    BY <1>2, <2>1, <2>2, <2>3, <2>4, <2>5, <2>6 DEF C!TicketsNew
<1>15. C!TicketsAgree'
  <2>1. \A x \in DOMAIN client'.map : \A i \in C!Places(x)' : C!Tickets(x)'[i].id \in DOMAIN server.map =>
           C!Goes(server.map[C!Tickets(x)'[i].id], C!Tickets(x)'[i])
    BY <1>1, <1>9 DEF C!TicketsAgree, C!Places, C!Has
  <2>2. ASSUME NEW hello \in hellos', hello.id \in DOMAIN server.map PROVE C!Matches(server.map[hello.id], hello)
    <3>1. CASE hello \in hellos
      BY <1>1, <2>2, <3>1 DEF C!TicketsAgree, C!Has
    <3>2. CASE hello \notin hellos
      <4>1. hello = h /\ ~C!Expired(t)
        BY <1>2, <3>2
      <4>2. C!Goes(server.map[t.id], t)
        BY <1>1, <1>3, <1>6, <1>11, <2>2, <4>1 DEF C!TicketsAgree, C!Has
      <4>3. clientClock \in Nat /\ t.epoch \in Nat /\ t.epoch <= clientClock /\ C!KeptFor \in Nat /\ C!KeptFor # 0
        <5>1. clientClock \in Nat
          BY <1>1, TypeParts
        <5>2. t.epoch \in Nat /\ t.epoch <= clientClock
          BY <1>7, <5>1
        <5>3. C!KeptFor \in Nat /\ C!KeptFor # 0
          BY DEF C!CacheAssumption, C!KeptFor
        <5>. QED
          BY <5>1, <5>2, <5>3
      <4>4. h.held <= C!KeptFor
        BY <1>11, <4>1, <4>3 DEF C!Expired
      <4>5. h.got <= h.at
        BY <1>1, <1>7, <1>11, TypeParts
      <4>6. h.age = (h.held * Milli + server.map[t.id].add) % Modulus
        BY <1>11, <4>2 DEF C!Goes, C!ObfuscatedAge
      <4>. QED
        BY <1>11, <4>1, <4>2, <4>4, <4>5, <4>6 DEF C!Matches, C!Goes
    <3>. QED
      BY <3>1, <3>2
  <2>3. \A u \in sent : u.id \in DOMAIN server.map => server.map[u.id].add = u.add
    BY <1>1 DEF C!TicketsAgree, C!Has
  <2>. QED
    BY <1>2, <2>1, <2>2, <2>3 DEF C!TicketsAgree, C!Has, C!Matches, C!Goes
<1>16. C!ResumedGone' /\ C!ResumedOnce' /\ C!FreshIfRecent'
  BY <1>1, <1>2 DEF C!ResumedGone, C!ResumedOnce, C!FreshIfRecent, C!Has
<1>. QED
  BY <1>13, <1>14, <1>15, <1>16 DEF C!IInv

\* A session resumed is taken out of the server's cache.
LEMMA CacheResume ==
    ASSUME C!CacheAssumption, C!IInv, NEW hello, C!Resume(hello)
    PROVE  C!IInv'
<1>. DEFINE k == hello.id
            transit == C!Transit(server.map[k], hello)
            gained == C!Gained(hello)
            entry == [id |-> k, fresh |-> C!Fresh(server.map[k], hello), transit |-> transit, gained |-> gained]
            R == C!Resumption
            Counts(x) == LET apart == (x.transit + x.gained) * Milli IN x.fresh <=> -Skew <= apart /\ apart <= Skew
<1>1. C!TypeOK /\ C!TicketsNew /\ C!TicketsAgree /\ C!ResumedGone /\ C!ResumedOnce /\ C!FreshIfRecent
  BY DEF C!IInv
<1>2. /\ hello \in hellos /\ C!Has(server, k) /\ server' = C!Removed(server, k)
      /\ resumed' = Append(resumed, entry)
      /\ UNCHANGED <<serverClock, clientClock, client, issued, sent, hellos, offered>>
  BY DEF C!Resume
<1>3. /\ serverClock \in Nat /\ ServerSize \in Nat \ {0} /\ C!Queued(server, C!Session, ServerSize)
      /\ k \in 1..issued /\ hello.at \in 0..serverClock /\ hello.got \in 0..serverClock /\ hello.held \in Nat
      /\ server.map[k] \in C!Session
      /\ resumed \in Seq(R) /\ DOMAIN server.map \subseteq 1..issued
  <2>1. hello \in C!ClientHello
    BY <1>1, <1>2 DEF C!TypeOK
  <2>2. k \in 1..issued /\ hello.at \in 0..serverClock /\ hello.got \in 0..serverClock /\ hello.held \in Nat
    BY <2>1 DEF C!ClientHello
  <2>. QED
    BY <1>1, <1>2, <2>2, TypeParts DEF C!TypeOK, C!Has
<1>4. /\ C!Queued(C!Removed(server, k), C!Session, ServerSize)
      /\ \A x : x \in DOMAIN C!Removed(server, k).map <=> x \in DOMAIN server.map /\ x # k
      /\ \A x \in DOMAIN server.map \ {k} : C!Removed(server, k).map[x] = server.map[x]
  <2>1. ServerSize \in Nat \ {0} /\ C!Queued(server, C!Session, ServerSize) /\ C!Has(server, k)
    BY <1>2, <1>3
  <2>. QED
    <3>1. C!Queued(C!Removed(server, k), C!Session, ServerSize)
      BY <2>1, RemovedKept
    <3>2. \A x : x \in DOMAIN C!Removed(server, k).map <=> x \in DOMAIN server.map /\ x # k
      BY <2>1, RemovedKept, Zenon
    <3>3. \A x \in DOMAIN server.map \ {k} : C!Removed(server, k).map[x] = server.map[x]
      BY <2>1, RemovedKept
    <3>. QED
      BY <3>1, <3>2, <3>3, Zenon
<1>5. /\ C!Queued(server', C!Session, ServerSize) /\ DOMAIN server'.map = DOMAIN server.map \ {k}
      /\ \A x \in DOMAIN server.map \ {k} : server'.map[x] = server.map[x]
  <2>1. DOMAIN server'.map = DOMAIN server.map \ {k}
    BY <1>2, <1>4
  <2>. QED
    BY <1>2, <1>4, <2>1, Zenon
<1>6. LET apart == (transit + gained) * Milli
      IN C!Fresh(server.map[k], hello) <=> -Skew <= apart /\ apart <= Skew
  <2>1. C!Matches(server.map[k], hello)
    BY <1>1, <1>2 DEF C!TicketsAgree
  <2>2. server.map[k].created \in Nat /\ server.map[k].add \in Offsets
    BY <1>3 DEF C!Session
  <2>. QED
    BY <1>3, <2>1, <2>2, FreshIsRecent
<1>7. C!Fresh(server.map[k], hello) \in BOOLEAN /\ transit \in Int /\ gained \in Int
  <2>1. C!Fresh(server.map[k], hello) \in BOOLEAN
    BY DEF C!Fresh
  <2>2. transit \in Int
    <3>1. server.map[k].created \in 0..serverClock
      BY <1>3 DEF C!Session
    <3>2. server.map[k].created \in Int /\ hello.got \in Int /\ hello.at \in Int /\ serverClock \in Int
      BY <1>3, <3>1
    <3>. QED
      BY <3>2 DEF C!Transit
  <2>3. gained \in Int
    BY <1>3 DEF C!Gained
  <2>. QED
    BY <2>1, <2>2, <2>3
<1>. HIDE DEF transit, gained
<1>8. entry \in R /\ entry.id = k /\ Counts(entry)
  <2>1. entry \in R
    BY <1>3, <1>7 DEF C!Resumption
  <2>2. entry.id = k /\ entry.transit = transit /\ entry.gained = gained /\ entry.fresh = C!Fresh(server.map[k], hello)
    OBVIOUS
  <2>. QED
    BY <1>6, <2>1, <2>2
<1>. HIDE DEF entry, k, Counts
<1>9. /\ C!Data' = C!Data /\ C!Session' = C!Session
      /\ C!NewTicket' = C!NewTicket /\ C!ClientHello' = C!ClientHello /\ C!Resumption' = C!Resumption
  BY <1>2 DEF C!Data, C!Session, C!Ticket, C!NewTicket, C!ClientHello, C!Resumption
<1>10. /\ resumed' \in Seq(R) /\ Len(resumed') = Len(resumed) + 1 /\ Len(resumed) \in Nat
       /\ \A i \in 1..Len(resumed) : resumed'[i] = resumed[i] /\ resumed[i] \in R
       /\ resumed'[Len(resumed) + 1] = entry
  <2>. HIDE DEF R
  <2>1. Len(resumed) \in Nat /\ \A i \in 1..Len(resumed) : resumed[i] \in R
    BY <1>3, LenProperties, ElementOfSeq
  <2>. QED
    BY <1>2, <1>3, <1>8, <2>1, AppendProperties
<1>. DEFINE m == Len(resumed)
<1>. HIDE DEF m
<1>11. Len(resumed') = m + 1 /\ m \in Nat /\ \A i \in 1..m + 1 : i \in 1..m \/ i = m + 1
  BY <1>10 DEF m
<1>12. C!TypeOK'
  <2>1. DOMAIN server'.map \subseteq 1..issued
    BY <1>3, <1>5
  <2>. QED
    BY <1>1, <1>2, <1>5, <1>9, <1>10, <2>1 DEF C!TypeOK
<1>13. C!TicketsNew'
  BY <1>1, <1>2 DEF C!TicketsNew, C!Tickets, C!Places
<1>14. C!TicketsAgree'
  <2>1. \A x \in DOMAIN client.map : \A i \in C!Places(x) : C!Tickets(x)[i].id \in DOMAIN server'.map =>
           C!Goes(server'.map[C!Tickets(x)[i].id], C!Tickets(x)[i])
    BY <1>1, <1>5 DEF C!TicketsAgree, C!Has
  <2>2. \A x \in hellos : x.id \in DOMAIN server'.map => C!Matches(server'.map[x.id], x)
    BY <1>1, <1>5 DEF C!TicketsAgree, C!Has
  <2>3. \A u \in sent : u.id \in DOMAIN server'.map => server'.map[u.id].add = u.add
    BY <1>1, <1>5 DEF C!TicketsAgree, C!Has
  <2>4. (\A x \in DOMAIN client.map : \A i \in C!Places(x) : C!Has(server, C!Tickets(x)[i].id) =>
            C!Goes(server.map[C!Tickets(x)[i].id], C!Tickets(x)[i]))'
    BY <1>2, <2>1 DEF C!Has, C!Goes, C!Tickets, C!Places
  <2>5. (\A u \in sent : C!Has(server, u.id) => server.map[u.id].add = u.add)'
    BY <1>2, <2>3 DEF C!Has
  <2>6. (\A x \in hellos : C!Has(server, x.id) => C!Matches(server.map[x.id], x))'
    BY <1>2, <2>2 DEF C!Has, C!Matches
  <2>. QED
    BY <2>4, <2>5, <2>6 DEF C!TicketsAgree
<1>15. C!ResumedGone'
  <2>1. \A i \in 1..m : resumed'[i].id \notin DOMAIN server.map
    BY <1>1, <1>10 DEF C!ResumedGone, C!Has, m
  <2>2. resumed'[m + 1].id = k
    BY <1>8, <1>10 DEF m
  <2>. QED
    BY <1>5, <1>11, <2>1, <2>2 DEF C!ResumedGone, C!Has
<1>16. C!ResumedOnce'
  <2>1. \A i \in 1..m : resumed'[i].id # k
    BY <1>1, <1>2, <1>10 DEF C!ResumedGone, m
  <2>2. resumed'[m + 1].id = k
    BY <1>8, <1>10 DEF m
  <2>3. \A i, j \in 1..m : resumed'[i].id = resumed'[j].id => i = j
    BY <1>1, <1>10 DEF C!ResumedOnce, m
  <2>. QED
    BY <1>11, <2>1, <2>2, <2>3 DEF C!ResumedOnce
<1>17. C!FreshIfRecent'
  <2>1. \A i \in 1..m : Counts(resumed'[i])
    BY <1>1, <1>10 DEF C!FreshIfRecent, Counts, m
  <2>2. Counts(resumed'[m + 1])
    BY <1>8, <1>10 DEF m
  <2>. QED
    BY <1>11, <2>1, <2>2 DEF C!FreshIfRecent, Counts
<1>. QED
  BY <1>12, <1>13, <1>14, <1>15, <1>16, <1>17 DEF C!IInv

\* Time only widens the types.
LEMMA CacheTick ==
    ASSUME C!CacheAssumption, C!IInv, C!Tick
    PROVE  C!IInv'
<1>1. C!TypeOK /\ C!TicketsNew /\ C!TicketsAgree /\ C!ResumedGone /\ C!ResumedOnce /\ C!FreshIfRecent
  BY DEF C!IInv
<1>2. /\ \/ serverClock' = serverClock + 1 /\ clientClock' = clientClock
         \/ clientClock' = clientClock + 1 /\ serverClock' = serverClock
      /\ UNCHANGED <<client, server, issued, sent, hellos, offered, resumed>>
  BY DEF C!Tick
<1>3. /\ serverClock' \in Nat /\ serverClock <= serverClock' /\ clientClock' \in Nat /\ clientClock <= clientClock'
      /\ issued' \in 0..MaxSessions /\ issued <= issued'
  BY <1>1, <1>2, TypeParts
<1>4. /\ C!Queued(client, C!Data', ClientSize)
      /\ C!Queued(server, C!Session', ServerSize) /\ DOMAIN server.map \subseteq 1..issued'
      /\ sent \subseteq C!NewTicket' /\ hellos \subseteq C!ClientHello'
      /\ resumed \in Seq(C!Resumption')
  BY <1>1, <1>3, TypesWiden
<1>5. C!TypeOK'
  BY <1>1, <1>2, <1>3, <1>4, SMTT(40) DEF C!TypeOK
<1>6. C!TicketsNew' /\ C!TicketsAgree'
  <2>1. C!TicketsNew'
    BY <1>1, <1>2 DEF C!TicketsNew, C!Tickets, C!Places
  <2>2. C!TicketsAgree'
    BY <1>1, <1>2 DEF C!TicketsAgree, C!Tickets, C!Places, C!Has, C!Matches, C!Goes
  <2>. QED
    BY <2>1, <2>2
<1>7. C!ResumedGone' /\ C!ResumedOnce' /\ C!FreshIfRecent'
  BY <1>1, <1>2 DEF C!ResumedGone, C!ResumedOnce, C!FreshIfRecent, C!Has
<1>. QED
  BY <1>5, <1>6, <1>7 DEF C!IInv

\* A step of nobody changes nothing.
LEMMA CacheStutter ==
    ASSUME C!IInv, UNCHANGED C!vars
    PROVE  C!IInv'
<1>1. /\ serverClock' = serverClock /\ clientClock' = clientClock /\ client' = client /\ server' = server
      /\ issued' = issued /\ sent' = sent /\ hellos' = hellos /\ offered' = offered /\ resumed' = resumed
  BY DEF C!vars
<1>2. C!TypeOK'
  <2>1. /\ C!Data' = C!Data /\ C!Session' = C!Session
        /\ C!NewTicket' = C!NewTicket /\ C!ClientHello' = C!ClientHello /\ C!Resumption' = C!Resumption
    BY <1>1 DEF C!Data, C!Session, C!Ticket, C!NewTicket, C!ClientHello, C!Resumption
  <2>. QED
    BY <1>1, <2>1 DEF C!IInv, C!TypeOK
<1>3. C!TicketsNew' /\ C!TicketsAgree'
  <2>1. C!TicketsNew'
    BY <1>1 DEF C!IInv, C!TicketsNew, C!Tickets, C!Places
  <2>2. C!TicketsAgree'
    BY <1>1 DEF C!IInv, C!TicketsAgree, C!Tickets, C!Places, C!Has, C!Matches, C!Goes
  <2>. QED
    BY <2>1, <2>2
<1>4. C!ResumedGone' /\ C!ResumedOnce' /\ C!FreshIfRecent'
  BY <1>1 DEF C!IInv, C!ResumedGone, C!ResumedOnce, C!FreshIfRecent, C!Has
<1>. QED
  BY <1>2, <1>3, <1>4 DEF C!IInv

\* Each step has its lemma.
LEMMA CacheNextIInv ==
    ASSUME C!CacheAssumption, C!IInv, [C!Next]_(C!vars)
    PROVE  C!IInv'
<1>1. ASSUME NEW s \in Servers, NEW add \in Offsets, C!Issue(s, add) PROVE C!IInv'
  BY <1>1, CacheIssue
<1>2. ASSUME NEW s \in Servers, C!SetKxHint(s) PROVE C!IInv'
  BY <1>2, CacheSetKxHint
<1>3. ASSUME NEW s \in Servers, C!Connect(s) PROVE C!IInv'
  BY <1>3, CacheConnect
<1>4. ASSUME NEW hello \in hellos, C!Resume(hello) PROVE C!IInv'
  BY <1>4, CacheResume
<1>5. ASSUME C!Tick PROVE C!IInv'
  BY <1>5, CacheTick
<1>6. ASSUME NEW came \in sent, C!Receive(came) PROVE C!IInv'
  BY <1>6, CacheReceive
<1>7. ASSUME UNCHANGED C!vars PROVE C!IInv'
  BY <1>7, CacheStutter
<1>. QED
  BY <1>1, <1>2, <1>3, <1>4, <1>5, <1>6, <1>7 DEF C!Next

\* The caches agree with their queues, and a ticket is offered and a session resumed once.
LEMMA CacheIInvImplies ==
    ASSUME C!CacheAssumption, C!IInv
    PROVE  C!CachesConsistent /\ C!TicketsSpentOnce /\ C!ResumedOnce /\ C!FreshIfRecent
<1>1. C!TypeOK /\ C!ResumedOnce /\ C!FreshIfRecent
  BY DEF C!IInv
<1>2. C!Consistent(client, ClientSize) /\ C!Consistent(server, ServerSize)
  <2>1. ClientSize \in Nat /\ ServerSize \in Nat
    BY DEF C!CacheAssumption
  <2>. QED
    BY <1>1, <2>1, QueuedConsistent DEF C!TypeOK
<1>3. C!TicketsSpentOnce
  <2>1. \A i \in 1..MaxSessions : offered[i] \in 0..1
    BY <1>1 DEF C!TypeOK
  <2>. QED
    BY <2>1 DEF C!TicketsSpentOnce
<1>. QED
  BY <1>1, <1>2, <1>3 DEF C!CachesConsistent

\* What every state of the two session stores satisfies.
THEOREM CacheSpecIInv ==
    ASSUME C!CacheAssumption
    PROVE  C!Spec => []C!IInv
<1>1. C!Init => C!IInv
  BY CacheInit
<1>2. C!IInv /\ [C!Next]_(C!vars) => C!IInv'
  BY CacheNextIInv
<1>. QED
  BY <1>1, <1>2, PTL DEF C!Spec

-----------------------------------------------------------------------------
(* Mux: what MuxProofs proves of it, said of the Mux of Tables. *)
MP == INSTANCE MuxProofs

\* Both mean the same by each operator.
LEMMA MuxSets ==
    ASSUME NEW T, NEW n
    PROVE  (X!IsFiniteSet(T) <=> MP!IsFiniteSet(T)) /\ X!Cardinality(T) = MP!Cardinality(T) /\ X!SeqOf(T, n) = MP!SeqOf(T, n)
<1>1. X!IsFiniteSet(T) <=> MP!IsFiniteSet(T)
  BY DEF X!IsFiniteSet, MP!IsFiniteSet
<1>2. X!Cardinality(T) = MP!Cardinality(T)
  BY DEF X!Cardinality, MP!Cardinality
<1>3. X!SeqOf(T, n) = MP!SeqOf(T, n)
  BY DEF X!SeqOf, MP!SeqOf
<1>. QED
  BY <1>1, <1>2, <1>3

\* So they do by the constants and the helpers of the model, by what it assumes, starts from
\* and is checked for, and by its steps.
LEMMA MuxData ==
    /\ X!None = MP!None /\ X!NoConn = MP!NoConn /\ X!NewConn = MP!NewConn /\ X!NoStream = MP!NoStream
    /\ X!Other = MP!Other /\ X!Frame = MP!Frame
    /\ \A st, k : X!Of(st, k) = MP!Of(st, k)
    /\ \A p : X!Pooled(p) = MP!Pooled(p)
    /\ \A c, p, st : X!Reclaimed(c, p, st) = MP!Reclaimed(c, p, st)
BY DEF X!None, MP!None, X!NoConn, MP!NoConn, X!NewConn, MP!NewConn, X!NoStream, MP!NoStream, X!Other, MP!Other,
       X!Frame, MP!Frame, X!Of, MP!Of, X!Pooled, MP!Pooled, X!Reclaimed, MP!Reclaimed

\* What is assumed, the initial states and the properties are the same.
LEMMA MuxMeans ==
    /\ X!MuxAssumption <=> MP!MuxAssumption
    /\ X!Init <=> MP!Init
    /\ MP!TypeOK <=> X!TypeOK
    /\ MP!CountsExact <=> X!CountsExact
    /\ (MP!StreamsSeparate <=> X!StreamsSeparate) /\ (MP!GapOnlyWhenFull <=> X!GapOnlyWhenFull)
    /\ (MP!LowPriorityServed <=> X!LowPriorityServed)
<1>1. X!MuxAssumption <=> MP!MuxAssumption
  BY MuxSets, MuxData DEF X!MuxAssumption, MP!MuxAssumption
<1>2. X!Init <=> MP!Init
  BY MuxData DEF X!Init, MP!Init
<1>3. MP!TypeOK <=> X!TypeOK
  BY MuxSets, MuxData DEF X!TypeOK, MP!TypeOK
<1>4. MP!CountsExact <=> X!CountsExact
  BY MuxSets, MuxData DEF X!CountsExact, MP!CountsExact, X!Held, MP!Held
<1>5. /\ (MP!StreamsSeparate <=> X!StreamsSeparate) /\ (MP!GapOnlyWhenFull <=> X!GapOnlyWhenFull)
      /\ (MP!LowPriorityServed <=> X!LowPriorityServed)
  BY DEF X!StreamsSeparate, MP!StreamsSeparate, X!GapOnlyWhenFull, MP!GapOnlyWhenFull,
         X!LowPriorityServed, MP!LowPriorityServed
<1>. QED
  BY <1>1, <1>2, <1>3, <1>4, <1>5

\* So are the steps.
LEMMA MuxSteps == [X!Next]_(X!vars) => [MP!Next]_(MP!vars)
<1>1. UNCHANGED X!vars => UNCHANGED MP!vars
  BY DEF X!vars, MP!vars
<1>2. X!Next => MP!Next
  BY DEF X!Next, MP!Next, X!Lease, MP!Lease, X!Connected, MP!Connected, X!ConnectFails, MP!ConnectFails,
         X!Opened, MP!Opened, X!OpenFails, MP!OpenFails, X!Write, MP!Write, X!Shutdown, MP!Shutdown,
         X!Drop, MP!Drop, X!Read, MP!Read, X!WarmCheck, MP!WarmCheck, X!WarmFails, MP!WarmFails,
         X!WarmConnected, MP!WarmConnected, X!WriterWrites, MP!WriterWrites, X!WriterEnds, MP!WriterEnds,
         X!ReaderEnds, MP!ReaderEnds, X!ReaderReads, MP!ReaderReads,
         X!None, MP!None, X!NoConn, MP!NoConn, X!NewConn, MP!NewConn, X!NoStream, MP!NoStream, X!NewStream, MP!NewStream,
         X!Other, MP!Other, X!Of, MP!Of, X!Held, MP!Held, X!Pooled, MP!Pooled, X!Reclaimed, MP!Reclaimed,
         X!Kept, MP!Kept, X!Roomy, MP!Roomy, X!NewId, MP!NewId, X!PoolHasRoom, MP!PoolHasRoom,
         X!Placed, MP!Placed, X!NotPlaced, MP!NotPlaced, X!Queue, MP!Queue, X!Put, MP!Put, X!CanPut, MP!CanPut,
         X!Returned, MP!Returned, X!Senders, MP!Senders, X!LowFirst, MP!LowFirst, X!TakesLow, MP!TakesLow,
         X!Closed, MP!Closed, X!Deliver, MP!Deliver, X!SeqOf, MP!SeqOf
<1>. QED
  BY <1>1, <1>2
-----------------------------------------------------------------------------
(* The tables together. *)

\* Each keeps its own variables' steps, whatever the others do: the invariants of the
\* sessions, of the streams and of the keys.
LEMMA TablesStep ==
    ASSUME TicketAssumption, C!CacheAssumption, X!MuxAssumption, IInv, C!IInv, MP!IInv, [TablesNext]_tablesVars
    PROVE  IInv' /\ C!IInv' /\ MP!IInv'
<1>. MP!MuxAssumption
  BY MuxMeans
<1>1. CASE SwitcherStep
  <2>1. Next /\ UNCHANGED C!vars /\ UNCHANGED X!vars
    BY <1>1 DEF SwitcherStep, cacheVars, muxVars, C!vars, X!vars
  <2>. QED
    BY <2>1, NextIInv, CacheNextIInv, MuxSteps, MP!NextIInv
<1>2. CASE CacheStep
  <2>1. C!Next /\ UNCHANGED vars /\ UNCHANGED X!vars
    BY <1>2 DEF CacheStep, muxVars, X!vars
  <2>. QED
    BY <2>1, NextIInv, CacheNextIInv, MuxSteps, MP!NextIInv
<1>3. CASE MuxStep
  <2>1. X!Next /\ UNCHANGED vars /\ UNCHANGED C!vars
    BY <1>3 DEF MuxStep, cacheVars, C!vars
  <2>. QED
    BY <2>1, NextIInv, CacheNextIInv, MuxSteps, MP!NextIInv
<1>4. CASE UNCHANGED tablesVars
  <2>1. UNCHANGED vars /\ UNCHANGED C!vars /\ UNCHANGED X!vars
    BY <1>4 DEF tablesVars, cacheVars, muxVars, C!vars, X!vars
  <2>. QED
    BY <2>1, NextIInv, CacheNextIInv, MuxSteps, MP!NextIInv
<1>. QED
  BY <1>1, <1>2, <1>3, <1>4 DEF TablesNext

\* What all of them keep.
THEOREM TablesInvariant ==
    ASSUME TicketAssumption, C!CacheAssumption, X!MuxAssumption
    PROVE  TablesSpec => [](IInv /\ C!IInv /\ MP!IInv)
<1>1. TablesInit => IInv /\ C!IInv /\ MP!IInv
  BY InitIInv, CacheInit, MuxMeans, MP!InitIInv DEF TablesInit
<1>2. (IInv /\ C!IInv /\ MP!IInv) /\ [TablesNext]_tablesVars => (IInv /\ C!IInv /\ MP!IInv)'
  BY TablesStep
<1>. QED
  BY <1>1, <1>2, PTL DEF TablesSpec

\* Beside the other tables too, the ticket keys last as they should.
THEOREM TablesTicketKeysHold ==
    ASSUME TicketAssumption, C!CacheAssumption, X!MuxAssumption
    PROVE  TablesSpec => []TicketKeysSound
<1>1. IInv => TicketKeysSound
  BY DEF IInv, TicketKeysSound
<1>. QED
  BY <1>1, TablesInvariant, PTL

\* For any servers, sizes of the caches, lifetimes, delays and rates of the two clocks: a ticket
\* goes out in one ClientHello, a session is resumed once however often that arrives, and as
\* fresh exactly when the skew covers the time ticket and ClientHello were on the way together
\* with what the server's clock gained meanwhile, although ages wrap
\* (ClientSessionMemoryCache::take_tls13_ticket, attempt_tls13_ticket_decryption,
\* set_freshness).
THEOREM TablesSessionsSpentOnce ==
    ASSUME TicketAssumption, C!CacheAssumption, X!MuxAssumption
    PROVE  TablesSpec => []SessionsSpentOnce
<1>1. C!IInv => SessionsSpentOnce
  BY CacheIInvImplies DEF SessionsSpentOnce
<1>. QED
  BY <1>1, TablesInvariant, PTL

\* For any connections, callers, queues and bursts: stream_count is the number of streams plus
\* the places lost, no stream is handed a frame of an earlier one or misses one unless its
\* queue was full, and low priority frames are served (MuxPool::lease_stream, Drop of
\* MuxStream, run_connection_reader, run_connection_writer).
THEOREM TablesStreamsSound ==
    ASSUME TicketAssumption, C!CacheAssumption, X!MuxAssumption
    PROVE  TablesSpec => []StreamsSound
<1>1. MP!IInv => StreamsSound
  BY MuxMeans, MP!IInvImplies DEF StreamsSound
<1>. QED
  BY <1>1, TablesInvariant, PTL

=============================================================================
