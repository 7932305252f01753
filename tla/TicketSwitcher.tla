--------------------------- MODULE TicketSwitcher ---------------------------
(***************************************************************************)
(* The rotation of ticket keys (ticketer.rs, TicketSwitcher::maybe_roll):  *)
(* every encrypt and decrypt first rolls the keys when it is time.  The    *)
(* mutex is not held while a new key is generated, generation may fail,    *)
(* and the time is read before the mutex is taken.                         *)
(*                                                                         *)
(* A key is the number of its generation; 0 is none.  One ticket is        *)
(* followed, the others only roll the keys.                                *)
(***************************************************************************)
EXTENDS Integers, FiniteSets

CONSTANTS
  Threads,
  Lifetime,   \* how long a key makes tickets
  MaxDelay,   \* how long a thread is delayed between reading the clock and using it
  MaxTime,    \* bound on the clock
  MaxKeys     \* bound on the keys that are generated

VARIABLES
  clock,
  next, current, previous, next_switch_time,  \* TicketSwitcherState
  generated,  \* how many keys have been generated
  since,      \* when current was put in place; a history variable
  thread,     \* what each thread is doing
  ticket,     \* the followed ticket: the key that made it, and when; key 0 before
  result      \* what the last call found: the age of its key or of its ticket, and
              \* whether the ticket was accepted; a history variable

keys == <<next, current, previous, next_switch_time, since>>
vars == <<clock, keys, generated, thread, ticket, result>>

Idle == [pc |-> "idle", now |-> 0, op |-> "none", recovering |-> FALSE, made |-> 0]

Init ==
  /\ clock = 0
  /\ next = 2 /\ current = 1 /\ previous = 0
  /\ next_switch_time = Lifetime
  /\ generated = 2 /\ since = 0
  /\ thread = [t \in Threads |-> Idle]
  /\ ticket = [key |-> 0, at |-> 0]
  /\ result = [op |-> "none", ok |-> TRUE, age |-> 0]

-----------------------------------------------------------------------------
\* encrypt or decrypt reads the clock.
Call(t, op) ==
  /\ thread[t].pc = "idle"
  /\ op = "decrypt" => ticket.key # 0
  /\ thread' = [thread EXCEPT ![t] = [pc |-> "roll", now |-> clock, op |-> op,
                                       recovering |-> FALSE, made |-> 0]]
  /\ UNCHANGED <<clock, keys, generated, ticket, result>>

\* What the call does with the guard maybe_roll returns: encrypt with the
\* current key, decrypt with the current or the previous one.
Use(t, cur, prev, from) ==
  /\ thread' = [thread EXCEPT ![t] = Idle]
  /\ IF thread[t].op = "encrypt"
     THEN /\ ticket' = IF ticket.key = 0 THEN [key |-> cur, at |-> clock] ELSE ticket
          /\ result' = [op |-> "encrypt", ok |-> TRUE, age |-> clock - from]
     ELSE /\ result' = [op |-> "decrypt", ok |-> ticket.key \in {cur, prev}, age |-> clock - ticket.at]
          /\ UNCHANGED ticket

Due(t) == thread[t].now > next_switch_time

\* The first scope of the mutex: nothing to do
Keep(t) ==
  /\ thread[t].pc = "roll" /\ ~Due(t)
  /\ Use(t, current, previous, since)
  /\ UNCHANGED <<clock, keys, generated>>

\* The first scope of the mutex: demote the current key, when there is a next
Switch(t) ==
  /\ thread[t].pc = "roll" /\ Due(t)
  /\ IF next # 0
     THEN /\ previous' = current
          /\ current' = next
          /\ next' = 0
          /\ next_switch_time' = thread[t].now + Lifetime
          /\ since' = clock
          /\ thread' = [thread EXCEPT ![t].pc = "generate"]
     ELSE /\ thread' = [thread EXCEPT ![t].pc = "generate", ![t].recovering = TRUE]
          /\ UNCHANGED keys
  /\ UNCHANGED <<clock, generated, ticket, result>>

\* The generator, without the mutex; recovering takes two keys.
Generate(t) ==
  LET n == IF thread[t].recovering THEN 2 ELSE 1
  IN /\ thread[t].pc = "generate" /\ generated + n <= MaxKeys
     /\ generated' = generated + n
     /\ thread' = [thread EXCEPT ![t].pc = "place", ![t].made = generated + 1]
     /\ UNCHANGED <<clock, keys, ticket, result>>

\* GetRandomFailed: the call returns None.
GeneratorFails(t) ==
  /\ thread[t].pc = "generate"
  /\ thread' = [thread EXCEPT ![t] = Idle]
  /\ UNCHANGED <<clock, keys, generated, ticket, result>>

\* Mutant: the time is not checked again.
PlaceBlindly(t) ==
  LET made == thread[t].made
      replaces == thread[t].recovering
  IN /\ thread[t].pc = "place"
     /\ next' = made
     /\ current' = IF replaces THEN made + 1 ELSE current
     /\ previous' = IF replaces THEN current ELSE previous
     /\ next_switch_time' = IF replaces THEN thread[t].now + Lifetime ELSE next_switch_time
     /\ since' = IF replaces THEN clock ELSE since
     /\ Use(t, current', previous', since')
     /\ UNCHANGED <<clock, generated>>

\* The second scope of the mutex: place the new keys.  A recovering thread
\* checks the time again.
Place(t) ==
  LET made == thread[t].made
      replaces == thread[t].recovering /\ Due(t)
  IN /\ thread[t].pc = "place"
     /\ next' = made
     /\ current' = IF replaces THEN made + 1 ELSE current
     /\ previous' = IF replaces THEN current ELSE previous
     /\ next_switch_time' = IF replaces THEN thread[t].now + Lifetime ELSE next_switch_time
     /\ since' = IF replaces THEN clock ELSE since
     /\ Use(t, current', previous', since')
     /\ UNCHANGED <<clock, generated>>

Tick ==
  /\ clock < MaxTime
  /\ \A t \in Threads : thread[t].pc # "idle" => clock < thread[t].now + MaxDelay
  /\ clock' = clock + 1
  /\ UNCHANGED <<keys, generated, thread, ticket, result>>

Next ==
  \/ \E t \in Threads, op \in {"encrypt", "decrypt"} : Call(t, op)
  \/ \E t \in Threads : Keep(t) \/ Switch(t) \/ Generate(t) \/ GeneratorFails(t) \/ Place(t)
  \/ Tick

Spec == Init /\ [][Next]_vars

-----------------------------------------------------------------------------
\* A ticket is still accepted a key's lifetime after it was made, less the
\* delay of the threads that rolled the keys meanwhile, however calls that
\* roll, fail and recover interleave.
AcceptedLongEnough ==
  result.op = "decrypt" /\ ~result.ok => result.age > Lifetime - MaxDelay

\* "how long the current ticketer is used to generate new tickets": no ticket
\* is made with a key that is past its lifetime, the threads' delay apart.
KeyNotOverused == result.op = "encrypt" => result.age <= Lifetime + MaxDelay

\* The keys in use are distinct, so that a demoted key makes no more tickets.
KeysDistinct ==
  /\ next = 0 \/ next \notin {current, previous}
  /\ current # previous

\* A ticket is accepted for a key's lifetime after it was made, none is made with a
\* key past its lifetime, and the keys in use are distinct.
TicketKeysSound == AcceptedLongEnough /\ KeyNotOverused /\ KeysDistinct

-----------------------------------------------------------------------------
\* What makes them inductive (TablesProofs).

\* The constants are numbers.
TicketAssumption == {Lifetime, MaxDelay, MaxTime, MaxKeys} \subseteq Nat

TypeOK ==
  /\ clock \in Nat /\ next \in Nat /\ current \in Nat \ {0} /\ previous \in Nat
  /\ next_switch_time \in Nat /\ generated \in Nat /\ since \in 0..clock
  /\ thread \in [Threads -> [pc : {"idle", "roll", "generate", "place"}, now : 0..clock,
                             op : {"none", "encrypt", "decrypt"}, recovering : BOOLEAN, made : Nat]]
  /\ ticket \in [key : Nat, at : 0..clock]

\* A thread in a call has not been delayed for longer than MaxDelay; one that has
\* switched the keys knows that nobody has since but later; and one that decrypts has
\* a ticket.
ThreadsOnTime ==
  \A t \in Threads : thread[t].pc # "idle" =>
      /\ clock <= thread[t].now + MaxDelay
      /\ thread[t].op = "encrypt" \/ ticket.key # 0
      /\ thread[t].pc \in {"generate", "place"} /\ ~thread[t].recovering => thread[t].now <= since

\* The time of the next switch is a lifetime after the last, but for the delay of
\* the thread that made it.
SwitchOnTime ==
  /\ next_switch_time <= since + Lifetime
  /\ since + Lifetime <= next_switch_time + MaxDelay

\* The keys a thread has made and not placed.
Made(t) == {thread[t].made} \union (IF thread[t].recovering THEN {thread[t].made + 1} ELSE {})

\* Nobody else has them.
MadeFresh ==
  /\ \A k \in {next, current, previous} : k <= generated
  /\ \A t \in Threads : thread[t].pc = "place" =>
        \A k \in Made(t) :
          /\ k # 0 /\ k <= generated /\ k \notin {next, current, previous}
          /\ \A u \in Threads \ {t} : thread[u].pc = "place" => k \notin Made(u)

\* The key of the followed ticket is current; or it was demoted once, since the
\* ticket was made; or it was lost, long after.
TicketTraced ==
  ticket.key # 0 =>
    \/ ticket.key = current
    \/ ticket.key = previous /\ ticket.at <= since
    \/ since + MaxDelay > ticket.at + Lifetime

IInv ==
  /\ TypeOK /\ ThreadsOnTime /\ SwitchOnTime /\ MadeFresh /\ TicketTraced
  /\ AcceptedLongEnough /\ KeyNotOverused /\ KeysDistinct
=============================================================================
