-------------------------- MODULE AdminAuthProofs --------------------------
(***************************************************************************)
(* For every number of requests, addresses, passwords and limits: the      *)
(* login limits hold exactly and the permit is conserved although logins   *)
(* and changes await jobs in between, and no session outlives the          *)
(* credentials it was checked against.  The inductive invariant is IInv of *)
(* AdminAuth.                                                              *)
(***************************************************************************)
EXTENDS AdminAuth, FiniteSetTheorems, TLAPS

Failure == [addr : Addrs, forgiven : BOOLEAN]

\* The failures of address a among those of f.
Counted(f, a) == {i \in 1..Len(f) : f[i].addr = a /\ ~f[i].forgiven}

\* The requests that have the permit.
Holders == {t \in Tasks : phase[t] \in {"login", "hash"}}

-----------------------------------------------------------------------------
\* Counts of failures are numbers (is_allowed).
LEMMA CountedFinite ==
    ASSUME NEW f \in Seq(Failure), NEW a
    PROVE  IsFiniteSet(Counted(f, a)) /\ Cardinality(Counted(f, a)) \in Nat
<1>1. Len(f) \in Nat /\ IsFiniteSet(1..Len(f))
  BY FS_Interval
<1>2. Counted(f, a) \in SUBSET (1..Len(f))
  BY DEF Counted
<1>. QED
  BY <1>1, <1>2, FS_Subset, FS_CardinalityType

\* record_failure adds one to its address's count and nothing to another's.
LEMMA CountedAppend ==
    ASSUME NEW f \in Seq(Failure), NEW a \in Addrs, NEW b \in Addrs
    PROVE  LET g == Append(f, [addr |-> b, forgiven |-> FALSE]) IN
           /\ g \in Seq(Failure) /\ Len(g) = Len(f) + 1
           /\ Cardinality(Counted(g, a)) = Cardinality(Counted(f, a)) + (IF a = b THEN 1 ELSE 0)
<1>. DEFINE e == [addr |-> b, forgiven |-> FALSE]
            g == Append(f, e)
<1>1. e \in Failure /\ e.addr = b /\ e.forgiven = FALSE
  BY DEF Failure
<1>. HIDE DEF e
<1>2. /\ g \in Seq(Failure) /\ Len(g) = Len(f) + 1 /\ Len(f) \in Nat
      /\ g[Len(f) + 1] = e /\ \A i \in 1..Len(f) : g[i] = f[i]
  BY <1>1
<1>. HIDE DEF g
<1>3. CASE a = b
  <2>1. Counted(g, a) = Counted(f, a) \cup {Len(f) + 1}
    BY <1>1, <1>2, <1>3 DEF Counted
  <2>2. Len(f) + 1 \notin Counted(f, a)
    BY <1>2 DEF Counted
  <2>. QED
    BY <1>2, <1>3, <2>1, <2>2, CountedFinite, FS_AddElement, ZenonT(60) DEF g, e
<1>4. CASE a # b
  <2>1. Counted(g, a) = Counted(f, a)
    BY <1>1, <1>2, <1>4 DEF Counted
  <2>. QED
    BY <1>2, <1>4, <2>1, CountedFinite DEF g, e
<1>. QED
  BY <1>3, <1>4

\* The window moves: no count rises.
LEMMA CountedTail ==
    ASSUME NEW f \in Seq(Failure), f # <<>>, NEW a \in Addrs
    PROVE  /\ Tail(f) \in Seq(Failure) /\ Len(Tail(f)) = Len(f) - 1
           /\ Cardinality(Counted(Tail(f), a)) <= Cardinality(Counted(f, a))
<1>. DEFINE g == Tail(f)
            S == Counted(g, a)
            T == Counted(f, a)
            h == [i \in S |-> i + 1]
<1>1. /\ g \in Seq(Failure) /\ Len(g) = Len(f) - 1 /\ Len(f) \in Nat
      /\ \A i \in 1..Len(g) : g[i] = f[i + 1] /\ i + 1 \in 1..Len(f)
  OBVIOUS
<1>. HIDE DEF g
<1>2. h \in Injection(S, T)
  <2>1. \A i \in S : i \in Nat /\ i + 1 \in T
    BY <1>1 DEF Counted
  <2>. QED
    BY <2>1 DEF Injection, IsInjective
<1>3. IsFiniteSet(T)
  BY CountedFinite
<1>. HIDE DEF h, S, T
<1>4. Cardinality(S) <= Cardinality(T)
  BY <1>2, <1>3, FS_Injection
<1>. QED
  BY <1>1, <1>4 DEF S, T, g

\* record_success forgives: no count rises.
LEMMA CountedForgiven ==
    ASSUME NEW f \in Seq(Failure), NEW a \in Addrs, NEW b \in Addrs
    PROVE  LET g == [i \in 1..Len(f) |-> [f[i] EXCEPT !.forgiven = @ \/ f[i].addr = b]] IN
           /\ g \in Seq(Failure) /\ Len(g) = Len(f)
           /\ Cardinality(Counted(g, a)) <= Cardinality(Counted(f, a))
<1>. DEFINE e(i) == [f[i] EXCEPT !.forgiven = @ \/ f[i].addr = b]
            g == [i \in 1..Len(f) |-> e(i)]
<1>1. \A i \in 1..Len(f) : f[i] \in Failure
  OBVIOUS
<1>2. ASSUME NEW i \in 1..Len(f)
      PROVE  e(i) \in Failure /\ e(i).addr = f[i].addr /\ (~e(i).forgiven => ~f[i].forgiven)
  BY <1>1, <1>2 DEF Failure
<1>. HIDE DEF e
<1>3. g \in Seq(Failure) /\ Len(g) = Len(f) /\ \A i \in 1..Len(f) : g[i] = e(i)
  BY <1>2
<1>. HIDE DEF g
<1>4. Counted(g, a) \in SUBSET Counted(f, a)
  BY <1>2, <1>3 DEF Counted
<1>5. Cardinality(Counted(g, a)) <= Cardinality(Counted(f, a))
  BY <1>4, CountedFinite, FS_Subset
<1>. QED
  BY <1>3, <1>5 DEF g, e

-----------------------------------------------------------------------------
\* The permit is free exactly when nobody holds it, and nobody shares it.
LEMMA PermitFacts ==
    ASSUME TypeOK, PermitConserved
    PROVE  /\ IsFiniteSet(Holders) /\ Cardinality(Holders) \in Nat
           /\ permits + Cardinality(Holders) = 1
           /\ permits = 1 <=> Holders = {}
           /\ \A s, t \in Holders : s = t
<1>1. IsFiniteSet(Holders) /\ Cardinality(Holders) \in Nat
  BY AdminAuthAssumption, FS_Subset, FS_CardinalityType DEF Holders
<1>2. permits + Cardinality(Holders) = 1 /\ permits \in {0, 1}
  BY DEF PermitConserved, Holders, TypeOK
<1>3. permits = 1 <=> Holders = {}
  BY <1>1, <1>2, FS_EmptySet
<1>4. \A s, t \in Holders : s = t
  <2>1. CASE permits = 1
    BY <2>1, <1>3
  <2>2. CASE permits = 0
    <3>1. Cardinality(Holders) = 1
      BY <1>1, <1>2, <2>2
    <3>. QED
      BY <1>1, <3>1, FS_Singleton
  <2>. QED
    BY <1>2, <2>1, <2>2
<1>. QED
  BY <1>1, <1>2, <1>3, <1>4

\* A request takes the free permit (Login, ChangeVerified).
LEMMA TakePermit ==
    ASSUME TypeOK, PermitConserved, NEW t \in Tasks, NEW p \in {"login", "hash"},
           permits = 1, permits' = 0, phase' = [phase EXCEPT ![t] = p]
    PROVE  PermitConserved' /\ Holders = {} /\ Holders' = {t}
<1>1. Holders = {}
  BY PermitFacts
<1>2. Holders' = {t}
  BY <1>1 DEF Holders, TypeOK
<1>3. Cardinality(Holders') = 1
  BY <1>2, FS_Singleton
<1>. QED
  BY <1>1, <1>2, <1>3 DEF PermitConserved, Holders

\* The request that has the permit is answered or dropped and gives it back.
LEMMA GivePermit ==
    ASSUME TypeOK, PermitConserved, NEW t \in Holders,
           permits' = permits + 1, phase' = [phase EXCEPT ![t] = "idle"]
    PROVE  PermitConserved' /\ Holders' = {} /\ permits' = 1
<1>1. /\ \A s \in Holders : s = t
      /\ permits = 0 /\ t \in Tasks
  BY PermitFacts DEF TypeOK, Holders
<1>2. Holders' = {}
  BY <1>1 DEF Holders, TypeOK
<1>3. Cardinality(Holders') = 0
  BY <1>2, FS_EmptySet
<1>. QED
  BY <1>1, <1>2, <1>3 DEF PermitConserved, Holders

\* Other steps leave the holders alone.
LEMMA SamePermit ==
    ASSUME PermitConserved, permits' = permits, Holders' = Holders
    PROVE  PermitConserved'
BY DEF PermitConserved, Holders

\* The limits when no login begins, moves or fails and no count rises.
LEMMA NoMoreFailures ==
    ASSUME TypeOK, LoginsLimited, LoginHasRoom, fails' \in Seq(Failure),
           Len(fails') <= Len(fails),
           \A a \in Addrs : Cardinality(Counted(fails', a)) <= Cardinality(Counted(fails, a)),
           \A t \in Tasks : phase'[t] = "login" => phase[t] = "login" /\ addr'[t] = addr[t]
    PROVE  LoginsLimited' /\ LoginHasRoom'
<1>1. fails \in Seq(Failure) /\ addr \in [Tasks -> Addrs]
  BY DEF TypeOK, Failure
<1>2. /\ Len(fails) \in Nat /\ Len(fails') \in Nat /\ Global \in Nat /\ PerAddr \in Nat
      /\ \A a \in Addrs : Cardinality(Counted(fails, a)) \in Nat /\ Cardinality(Counted(fails', a)) \in Nat
  BY <1>1, CountedFinite, AdminAuthAssumption
<1>3. /\ \A a \in Addrs : FailuresOf(a) = Cardinality(Counted(fails, a))
      /\ \A a \in Addrs : FailuresOf(a)' = Cardinality(Counted(fails', a))
  BY DEF FailuresOf, Counted
<1>4. Len(fails') <= Global /\ \A a \in Addrs : FailuresOf(a)' <= PerAddr
  BY <1>2, <1>3 DEF LoginsLimited
<1>5. ASSUME NEW t \in Tasks, phase'[t] = "login"
      PROVE  Len(fails') < Global /\ Cardinality(Counted(fails', addr'[t])) < PerAddr
  BY <1>1, <1>2, <1>3, <1>5 DEF LoginHasRoom
<1>6. LoginsLimited'
  BY <1>4 DEF LoginsLimited, FailuresOf
<1>7. LoginHasRoom'
  BY <1>5 DEF LoginHasRoom, FailuresOf, Counted
<1>. QED
  BY <1>6, <1>7

\* The limiter's part of the invariant.
LimiterInv == LimiterExact /\ LoginHasRoom

\* login_handler up to its await: the limiter was asked while nobody else was
\* between its answer and a recorded failure.
LEMMA LoginLimiter ==
    ASSUME LimiterInv, NEW t \in Tasks, NEW a \in Addrs, NEW p \in Passwords, Login(t, a, p)
    PROVE  PermitConserved' /\ LoginsLimited' /\ LoginHasRoom'
<1>1. /\ permits = 1 /\ permits' = 0 /\ phase' = [phase EXCEPT ![t] = "login"]
      /\ addr' = [addr EXCEPT ![t] = a] /\ fails' = fails /\ is_allowed(a)
  BY DEF Login
<1>2. TypeOK /\ PermitConserved /\ LoginsLimited
  BY DEF LimiterInv, LimiterExact
<1>3. PermitConserved' /\ Holders' = {t}
  BY <1>1, <1>2, TakePermit
<1>4. LoginsLimited'
  BY <1>1, <1>2 DEF LoginsLimited, FailuresOf
<1>5. LoginHasRoom'
  <2>. SUFFICES ASSUME NEW s \in Tasks, phase'[s] = "login"
                PROVE  Len(fails) < Global /\ FailuresOf(addr'[s]) < PerAddr
    BY <1>1 DEF LoginHasRoom, FailuresOf
  <2>1. s = t
    BY <1>3 DEF Holders
  <2>2. addr'[s] = a
    BY <1>1, <1>2, <2>1 DEF TypeOK
  <2>. QED
    BY <1>1, <2>2 DEF is_allowed
<1>. QED
  BY <1>3, <1>4, <1>5

\* The password was wrong: the failure takes the place it had.
LEMMA LoginFailsLimiter ==
    ASSUME LimiterInv, NEW t \in Tasks, LoginFails(t)
    PROVE  PermitConserved' /\ LoginsLimited' /\ LoginHasRoom' /\ fails' \in Seq(Failure)
<1>1. /\ phase[t] = "login" /\ permits' = permits + 1 /\ phase' = [phase EXCEPT ![t] = "idle"]
      /\ fails' = Append(fails, [addr |-> addr[t], forgiven |-> FALSE])
  BY DEF LoginFails, Idle, record_failure
<1>2. TypeOK /\ PermitConserved /\ LoginsLimited /\ fails \in Seq(Failure) /\ addr[t] \in Addrs
  BY DEF LimiterInv, LimiterExact, TypeOK, Failure
<1>3. PermitConserved' /\ Holders' = {}
  BY <1>1, <1>2, GivePermit DEF Holders
<1>4. LoginHasRoom'
  BY <1>3 DEF LoginHasRoom, Holders
<1>5. Len(fails) < Global /\ FailuresOf(addr[t]) < PerAddr /\ Len(fails) \in Nat
  BY <1>1, <1>2 DEF LimiterInv, LoginHasRoom
<1>6. /\ fails' \in Seq(Failure) /\ Len(fails') = Len(fails) + 1
      /\ \A a \in Addrs : Cardinality(Counted(fails', a)) =
                            Cardinality(Counted(fails, a)) + (IF a = addr[t] THEN 1 ELSE 0)
  BY <1>1, <1>2, CountedAppend, Zenon
<1>7. \A a \in Addrs : FailuresOf(a)' <= PerAddr
  <2>. SUFFICES ASSUME NEW a \in Addrs PROVE FailuresOf(a)' <= PerAddr
    OBVIOUS
  <2>1. FailuresOf(a) = Cardinality(Counted(fails, a)) /\ FailuresOf(a)' = Cardinality(Counted(fails', a))
    BY DEF FailuresOf, Counted
  <2>2. Cardinality(Counted(fails, a)) \in Nat /\ FailuresOf(a) <= PerAddr /\ PerAddr \in Nat
    BY <1>2, CountedFinite, AdminAuthAssumption DEF LoginsLimited
  <2>. QED
    BY <1>5, <1>6, <2>1, <2>2
<1>8. LoginsLimited'
  BY <1>5, <1>6, <1>7, AdminAuthAssumption DEF LoginsLimited, FailuresOf
<1>. QED
  BY <1>3, <1>4, <1>6, <1>8

\* The password was right: the address's failures are forgiven.
LEMMA LoginSucceedsLimiter ==
    ASSUME LimiterInv, NEW t \in Tasks, LoginSucceeds(t)
    PROVE  PermitConserved' /\ LoginsLimited' /\ LoginHasRoom' /\ fails' \in Seq(Failure)
<1>1. /\ phase[t] = "login" /\ permits' = permits + 1 /\ phase' = [phase EXCEPT ![t] = "idle"]
      /\ fails' = [i \in 1..Len(fails) |->
                      [fails[i] EXCEPT !.forgiven = @ \/ fails[i].addr = addr[t]]]
      /\ addr' = addr
  BY DEF LoginSucceeds, Idle, record_success
<1>2. /\ TypeOK /\ PermitConserved /\ LoginsLimited /\ LoginHasRoom
      /\ fails \in Seq(Failure) /\ addr[t] \in Addrs /\ Len(fails) \in Nat
  BY DEF LimiterInv, LimiterExact, TypeOK, Failure
<1>3. PermitConserved' /\ Holders' = {}
  BY <1>1, <1>2, GivePermit DEF Holders
<1>4. /\ fails' \in Seq(Failure) /\ Len(fails') = Len(fails)
      /\ \A a \in Addrs : Cardinality(Counted(fails', a)) <= Cardinality(Counted(fails, a))
  BY <1>1, <1>2, CountedForgiven, Zenon
<1>5. \A s \in Tasks : phase'[s] # "login"
  BY <1>3 DEF Holders
<1>. QED
  BY <1>2, <1>3, <1>4, <1>5, NoMoreFailures

\* Steps that leave the failures alone and begin no login.
LEMMA QuietLimiter ==
    ASSUME LimiterInv, fails' = fails,
           \A t \in Tasks : phase'[t] = "login" => phase[t] = "login" /\ addr'[t] = addr[t]
    PROVE  LoginsLimited' /\ LoginHasRoom' /\ fails' \in Seq(Failure)
<1>1. TypeOK /\ LoginsLimited /\ LoginHasRoom /\ fails \in Seq(Failure)
  BY DEF LimiterInv, LimiterExact, TypeOK, Failure
<1>2. Len(fails') <= Len(fails)
  BY <1>1
<1>3. \A a \in Addrs : Cardinality(Counted(fails', a)) <= Cardinality(Counted(fails, a))
  BY <1>1, CountedFinite
<1>. QED
  BY <1>1, <1>2, <1>3, NoMoreFailures

\* The other steps of a request: a change of the password, and leaving.
LEMMA RequestLimiter ==
    ASSUME LimiterInv, NEW t \in Tasks,
           \/ \E c \in cookies, p, n \in Passwords : Change(t, c, p, n)
           \/ ChangeRefused(t) \/ ChangeVerified(t)
           \/ ChangeSucceeds(t) \/ ChangeFails(t) \/ ChangeHalfFails(t) \/ ClientLeaves(t)
    PROVE  PermitConserved' /\ LoginsLimited' /\ LoginHasRoom' /\ fails' \in Seq(Failure)
<1>1. fails' = fails /\ addr' = addr
  BY DEF Change, ChangeRefused, ChangeVerified, ChangeSucceeds, ChangeFails, ChangeHalfFails,
         ClientLeaves, Idle
<1>2. TypeOK /\ PermitConserved /\ phase \in [Tasks -> {"idle", "login", "verify", "hash"}]
  BY DEF LimiterInv, LimiterExact, TypeOK
<1>3. CASE \/ \E c \in cookies, p, n \in Passwords : Change(t, c, p, n)
           \/ ChangeRefused(t) \/ (ClientLeaves(t) /\ t \notin Holders)
  <2>1. permits' = permits /\ \E q \in {"idle", "verify"} : phase' = [phase EXCEPT ![t] = q]
    BY <1>3 DEF Change, ChangeRefused, ClientLeaves, Idle, Holders
  <2>2. t \notin Holders
    BY <1>3 DEF Change, ChangeRefused, Holders
  <2>3. Holders' = Holders /\ \A s \in Tasks : phase'[s] = "login" => phase[s] = "login"
    BY <1>2, <2>1, <2>2 DEF Holders
  <2>. QED
    BY <1>1, <1>2, <2>1, <2>3, SamePermit, QuietLimiter
<1>4. CASE ChangeVerified(t)
  <2>1. permits = 1 /\ permits' = 0 /\ phase' = [phase EXCEPT ![t] = "hash"]
    BY <1>4 DEF ChangeVerified
  <2>2. PermitConserved' /\ \A s \in Tasks : phase'[s] = "login" => phase[s] = "login"
    BY <1>2, <2>1, TakePermit
  <2>. QED
    BY <1>1, <2>2, QuietLimiter
<1>5. CASE \/ ChangeSucceeds(t) \/ ChangeFails(t) \/ ChangeHalfFails(t)
           \/ (ClientLeaves(t) /\ t \in Holders)
  <2>1. permits' = permits + 1 /\ phase' = [phase EXCEPT ![t] = "idle"] /\ t \in Holders
    BY <1>5 DEF ChangeSucceeds, ChangeFails, ChangeHalfFails, ClientLeaves, Idle, Holders
  <2>2. PermitConserved' /\ \A s \in Tasks : phase'[s] = "login" => phase[s] = "login"
    BY <1>2, <2>1, GivePermit
  <2>. QED
    BY <1>1, <2>2, QuietLimiter
<1>. QED
  BY <1>3, <1>4, <1>5

\* The window moves, the server restarts, or something happens that neither
\* the limiter nor a request takes part in.
LEMMA OtherLimiter ==
    ASSUME LimiterInv,
           \/ OrphanEnds \/ WindowMoves \/ (\E c \in cookies : SessionExpires(c))
           \/ CliLoad \/ (\E n \in Passwords : CliSave(n) \/ CliReset(n))
           \/ Restart \/ UNCHANGED vars
    PROVE  PermitConserved' /\ LoginsLimited' /\ LoginHasRoom' /\ fails' \in Seq(Failure)
<1>1. /\ TypeOK /\ PermitConserved /\ LoginsLimited /\ LoginHasRoom
      /\ fails \in Seq(Failure) /\ Len(fails) \in Nat
  BY DEF LimiterInv, LimiterExact, TypeOK, Failure
<1>2. CASE WindowMoves
  <2>1. permits' = permits /\ phase' = phase /\ addr' = addr /\ fails # <<>> /\ fails' = Tail(fails)
    BY <1>2 DEF WindowMoves, request
  <2>2. /\ fails' \in Seq(Failure) /\ Len(fails') <= Len(fails)
        /\ \A a \in Addrs : Cardinality(Counted(fails', a)) <= Cardinality(Counted(fails, a))
    BY <1>1, <2>1, CountedTail DEF LimiterInv
  <2>3. Holders' = Holders
    BY <2>1 DEF Holders
  <2>. QED
    BY <1>1, <2>1, <2>2, <2>3, SamePermit, NoMoreFailures
<1>3. CASE Restart
  <2>1. permits' = 1 /\ phase' = [t \in Tasks |-> "idle"] /\ fails' = <<>>
    BY <1>3 DEF Restart
  <2>2. Holders' = {}
    BY <2>1 DEF Holders
  <2>3. PermitConserved'
    <3>1. Cardinality(Holders') = 0
      BY <2>2, FS_EmptySet
    <3>. QED
      BY <2>1, <3>1 DEF PermitConserved, Holders
  <2>4. fails' \in Seq(Failure) /\ Len(fails') = 0 /\ \A a \in Addrs : Counted(fails', a) = {}
    <3>1. fails' \in Seq(Failure) /\ Len(fails') = 0
      BY <2>1
    <3>. QED
      BY <3>1 DEF Counted
  <2>5. Len(fails') <= Len(fails) /\ \A a \in Addrs : Cardinality(Counted(fails', a)) <= Cardinality(Counted(fails, a))
    <3>1. \A a \in Addrs : Cardinality(Counted(fails', a)) = 0 /\ Cardinality(Counted(fails, a)) \in Nat
      BY <1>1, <2>4, FS_EmptySet, CountedFinite
    <3>. QED
      BY <1>1, <2>4, <3>1
  <2>. QED
    <3>1. \A t \in Tasks : phase'[t] # "login"
      BY <2>1
    <3>. QED
      BY <1>1, <2>3, <2>4, <2>5, <3>1, NoMoreFailures
<1>4. CASE \/ OrphanEnds \/ (\E c \in cookies : SessionExpires(c))
           \/ CliLoad \/ (\E n \in Passwords : CliSave(n) \/ CliReset(n)) \/ UNCHANGED vars
  <2>1. permits' = permits /\ phase' = phase /\ addr' = addr /\ fails' = fails
    BY <1>4 DEF OrphanEnds, SessionExpires, CliLoad, CliSave, CliReset, request, vars
  <2>2. Holders' = Holders
    BY <2>1 DEF Holders
  <2>. QED
    BY <1>1, <2>1, <2>2, SamePermit, QuietLimiter
<1>. QED
  BY <1>2, <1>3, <1>4

-----------------------------------------------------------------------------
\* The new credentials of a change (change_password_handler) are credentials.
LEMMA NewCredsType ==
    ASSUME TypeOK, NEW t \in Tasks
    PROVE  /\ NewCreds(t) \in Creds
           /\ NewCreds(t).ver = secrets + 1 /\ NewCreds(t).secret = secrets + 1
BY DEF NewCreds, TypeOK, Creds

\* Types, given that the permit and the failures keep theirs.
LEMMA TypeStep ==
    ASSUME TypeOK, [Next]_vars, permits' \in {0, 1}, fails' \in Seq(Failure)
    PROVE  TypeOK'
<1>. USE DEF TypeOK, Failure, cliVars, request
<1>1. ASSUME NEW t \in Tasks, NEW a \in Addrs, NEW p \in Passwords, Login(t, a, p) PROVE TypeOK'
  BY <1>1 DEF Login
<1>2. ASSUME NEW t \in Tasks, LoginFails(t) PROVE TypeOK'
  BY <1>2 DEF LoginFails, Idle
<1>3. ASSUME NEW t \in Tasks, LoginSucceeds(t) PROVE TypeOK'
  <2>1. [secret |-> seen[t].secret, epoch |-> seen[t].epoch, by |-> seen[t].ver] \in Cookies
    BY <1>3 DEF Creds, Cookies
  <2>. QED
    BY <1>3, <2>1 DEF LoginSucceeds, Idle
<1>4. ASSUME NEW t \in Tasks, NEW c \in cookies, NEW p \in Passwords, NEW n \in Passwords, Change(t, c, p, n)
      PROVE  TypeOK'
  BY <1>4 DEF Change
<1>5. ASSUME NEW t \in Tasks, ChangeRefused(t) \/ ChangeVerified(t) \/ ChangeFails(t) PROVE TypeOK'
  BY <1>5 DEF ChangeRefused, ChangeVerified, ChangeFails, Idle
<1>6. ASSUME NEW t \in Tasks, ChangeSucceeds(t) \/ ChangeHalfFails(t) PROVE TypeOK'
  <2>1. NewCreds(t) \in Creds
    BY NewCredsType
  <2>2. secrets' \in Nat /\ file' \in Creds /\ runtime' \in Creds /\ outside' \in BOOLEAN
    <3>1. CASE ChangeSucceeds(t)
      <4>1. secrets' = secrets + 1 /\ file' = NewCreds(t) /\ runtime' = NewCreds(t) /\ outside' = FALSE
        BY <3>1 DEF ChangeSucceeds
      <4>2. secrets' \in Nat
        BY <4>1
      <4>. QED
        BY <2>1, <4>1, <4>2, Zenon
    <3>2. CASE ChangeHalfFails(t)
      BY <3>2, <2>1 DEF ChangeHalfFails
    <3>. QED
      BY <1>6, <3>1, <3>2
  <2>. QED
    BY <1>6, <2>2 DEF ChangeSucceeds, ChangeHalfFails, Idle
<1>7. ASSUME NEW t \in Tasks, ClientLeaves(t) PROVE TypeOK'
  BY <1>7 DEF ClientLeaves, Idle
<1>8. CASE OrphanEnds \/ WindowMoves
  BY <1>8 DEF OrphanEnds, WindowMoves
<1>9. CASE \E c \in cookies : SessionExpires(c)
  BY <1>9 DEF SessionExpires
<1>10. CASE CliLoad \/ \E n \in Passwords : CliSave(n) \/ CliReset(n)
  <2>1. file' \in Creds /\ cliSeen' \in Creds /\ secrets' \in Nat
    <3>1. CASE CliLoad
      BY <3>1 DEF CliLoad
    <3>2. ASSUME NEW n \in Passwords, CliSave(n)
          PROVE  file' \in Creds /\ cliSeen' \in Creds /\ secrets' \in Nat
      BY <3>2 DEF CliSave, Creds
    <3>3. ASSUME NEW n \in Passwords, CliReset(n)
          PROVE  file' \in Creds /\ cliSeen' \in Creds /\ secrets' \in Nat
      BY <3>3 DEF CliReset, Creds
    <3>. QED
      BY <1>10, <3>1, <3>2, <3>3
  <2>. QED
    BY <1>10, <2>1 DEF CliLoad, CliSave, CliReset
<1>11. CASE Restart
  <2>1. /\ file' = file /\ runtime' = file /\ secrets' = secrets
        /\ phase' = [t \in Tasks |-> "idle"] /\ seen' = [t \in Tasks |-> file]
        /\ UNCHANGED <<given, wanted, addr, cookies, cli, cliSeen, revoked>>
        /\ orphans' = 0 /\ restarts' = restarts + 1 /\ outside' = FALSE
    BY <1>11 DEF Restart
  <2>2. phase' \in [Tasks -> {"idle", "login", "verify", "hash"}] /\ seen' \in [Tasks -> Creds]
    BY <2>1
  <2>3. orphans' \in Nat /\ restarts' \in Nat
    BY <2>1
  <2>4. outside' \in BOOLEAN
    BY <2>1, Zenon
  <2>. QED
    BY <2>1, <2>2, <2>3, <2>4
<1>12. CASE UNCHANGED vars
  BY <1>12 DEF vars
<1>. QED
  BY <1>1, <1>2, <1>3, <1>4, <1>5, <1>6, <1>7, <1>8, <1>9, <1>10, <1>11, <1>12 DEF Next

\* Every step keeps the limiter's part.
LEMMA LimiterStep ==
    ASSUME LimiterInv, [Next]_vars
    PROVE  LimiterInv'
<1>1. TypeOK /\ PermitConserved
  BY DEF LimiterInv, LimiterExact
<1>2. PermitConserved' /\ LoginsLimited' /\ LoginHasRoom' /\ fails' \in Seq(Failure)
  <2>1. ASSUME NEW t \in Tasks, NEW a \in Addrs, NEW p \in Passwords, Login(t, a, p)
        PROVE  PermitConserved' /\ LoginsLimited' /\ LoginHasRoom' /\ fails' \in Seq(Failure)
    BY <1>1, <2>1, LoginLimiter DEF Login, TypeOK, Failure
  <2>2. ASSUME NEW t \in Tasks, LoginFails(t)
        PROVE  PermitConserved' /\ LoginsLimited' /\ LoginHasRoom' /\ fails' \in Seq(Failure)
    BY <2>2, LoginFailsLimiter
  <2>3. ASSUME NEW t \in Tasks, LoginSucceeds(t)
        PROVE  PermitConserved' /\ LoginsLimited' /\ LoginHasRoom' /\ fails' \in Seq(Failure)
    BY <2>3, LoginSucceedsLimiter
  <2>. QED
    BY <2>1, <2>2, <2>3, RequestLimiter, OtherLimiter DEF Next
<1>3. permits' \in {0, 1}
  <2>1. Cardinality(Holders') \in Nat
    BY AdminAuthAssumption, FS_Subset, FS_CardinalityType DEF Holders
  <2>2. permits' \in Nat
    <3>1. permits' \in {0, 1, permits, permits + 1}
      BY DEF Next, Login, LoginFails, LoginSucceeds, Change, ChangeRefused, ChangeVerified,
             ChangeSucceeds, ChangeFails, ChangeHalfFails, ClientLeaves, OrphanEnds, WindowMoves,
             SessionExpires, CliLoad, CliSave, CliReset, Restart, vars
    <3>. QED
      BY <1>1, <3>1 DEF TypeOK
  <2>3. permits' + Cardinality(Holders') = 1
    BY <1>2 DEF PermitConserved, Holders
  <2>. QED
    BY <2>1, <2>2, <2>3
<1>. QED
  BY <1>1, <1>2, <1>3, TypeStep DEF LimiterInv, LimiterExact

-----------------------------------------------------------------------------
\* The credentials' part of the invariant.
CredentialsInv == SecretsTellVersions /\ VersionsUnique /\ ServerMatchesFile

\* Nobody comes to hold other credentials than there were, but for one new
\* version with a fresh secret.
LEMMA HeldStep ==
    ASSUME TypeOK, SecretsTellVersions, VersionsUnique, TypeOK', NEW k,
           Held' \subseteq Held \cup {k},
           \/ secrets' = secrets /\ k \in Held
           \/ secrets' = secrets + 1 /\ k.ver = secrets + 1 /\ k.secret = secrets + 1,
           \A c \in cookies' : c \in cookies \/ c.secret = c.by
    PROVE  SecretsTellVersions' /\ VersionsUnique'
<1>1. \A h \in Held : h \in Creds
  BY DEF Held, TypeOK
<1>2. secrets \in Nat /\ \A h \in Held : h.ver \in Nat /\ h.ver <= secrets /\ h.secret = h.ver
  BY <1>1 DEF SecretsTellVersions, Creds, TypeOK
<1>3. \A h \in Held' : h.secret = h.ver /\ h.ver <= secrets'
  BY <1>2
<1>4. \A h, l \in Held' : h.ver = l.ver => h = l
  BY <1>2 DEF VersionsUnique
<1>. QED
  BY <1>3, <1>4 DEF SecretsTellVersions, VersionsUnique

\* Every step keeps the credentials' part.
LEMMA CredentialsStep ==
    ASSUME TypeOK, TypeOK', CredentialsInv, [Next]_vars
    PROVE  CredentialsInv'
<1>. USE DEF CredentialsInv
<1>1. ASSUME NEW t \in Tasks,
             \/ \E a \in Addrs, p \in Passwords : Login(t, a, p)
             \/ \E c \in cookies, p, n \in Passwords : Change(t, c, p, n)
      PROVE  CredentialsInv'
  <2>1. /\ file' = file /\ runtime' = runtime /\ cliSeen' = cliSeen /\ secrets' = secrets
        /\ cookies' = cookies /\ outside' = outside /\ seen' = [seen EXCEPT ![t] = runtime]
    BY <1>1 DEF Login, Change, cliVars
  <2>2. Held' \subseteq Held \cup {runtime} /\ runtime \in Held
    BY <2>1 DEF Held, TypeOK
  <2>. QED
    BY <2>1, <2>2, HeldStep DEF ServerMatchesFile
<1>2. ASSUME NEW t \in Tasks, LoginSucceeds(t) PROVE CredentialsInv'
  <2>1. /\ file' = file /\ runtime' = runtime /\ cliSeen' = cliSeen /\ secrets' = secrets
        /\ outside' = outside /\ seen' = seen
        /\ cookies' = cookies \cup {[secret |-> seen[t].secret, epoch |-> seen[t].epoch, by |-> seen[t].ver]}
    BY <1>2 DEF LoginSucceeds, cliVars, Idle
  <2>2. Held' \subseteq Held \cup {file} /\ file \in Held
    BY <2>1 DEF Held
  <2>3. seen[t].secret = seen[t].ver
    BY <1>2 DEF SecretsTellVersions, Held
  <2>. QED
    BY <2>1, <2>2, <2>3, HeldStep DEF ServerMatchesFile
<1>3. ASSUME NEW t \in Tasks, ChangeSucceeds(t) \/ ChangeHalfFails(t) PROVE CredentialsInv'
  <2>1. /\ file' = NewCreds(t) /\ runtime' \in {runtime, NewCreds(t)} /\ cliSeen' = cliSeen
        /\ secrets' = secrets + 1 /\ cookies' = cookies /\ seen' = seen
        /\ ~outside' => runtime' = file'
    BY <1>3 DEF ChangeSucceeds, ChangeHalfFails, cliVars, Idle
  <2>2. Held' \subseteq Held \cup {NewCreds(t)}
    BY <2>1 DEF Held
  <2>. QED
    BY <1>3, <2>1, <2>2, NewCredsType, HeldStep DEF ServerMatchesFile
<1>4. ASSUME NEW n \in Passwords, CliSave(n) \/ CliReset(n) PROVE CredentialsInv'
  <2>1. /\ file'.ver = secrets + 1 /\ file'.secret = secrets + 1 /\ cliSeen' = file'
        /\ runtime' = runtime /\ seen' = seen /\ cookies' = cookies
        /\ secrets' = secrets + 1 /\ outside' = TRUE
    BY <1>4 DEF CliSave, CliReset, request
  <2>2. Held' \subseteq Held \cup {file'}
    BY <2>1 DEF Held
  <2>. QED
    BY <2>1, <2>2, HeldStep DEF ServerMatchesFile
<1>5. CASE CliLoad \/ Restart
  <2>1. /\ file' = file /\ runtime' \in {runtime, file} /\ cliSeen' \in {cliSeen, file}
        /\ secrets' = secrets /\ cookies' = cookies
        /\ ~outside' => runtime' = file'
        /\ seen' = seen \/ seen' = [t \in Tasks |-> file]
    BY <1>5 DEF CliLoad, Restart, cliVars, request, ServerMatchesFile
  <2>2. Held' \subseteq Held \cup {file} /\ file \in Held
    BY <2>1 DEF Held
  <2>. QED
    BY <2>1, <2>2, HeldStep DEF ServerMatchesFile
<1>6. CASE \/ \E t \in Tasks : \/ LoginFails(t) \/ ChangeRefused(t) \/ ChangeVerified(t)
                              \/ ChangeFails(t) \/ ClientLeaves(t)
           \/ OrphanEnds \/ WindowMoves \/ (\E c \in cookies : SessionExpires(c)) \/ UNCHANGED vars
  <2>1. /\ file' = file /\ runtime' = runtime /\ cliSeen' = cliSeen /\ secrets' = secrets
        /\ cookies' \subseteq cookies /\ outside' = outside /\ seen' = seen
    BY <1>6 DEF LoginFails, ChangeRefused, ChangeVerified, ChangeFails, ClientLeaves, OrphanEnds,
                WindowMoves, SessionExpires, vars, cliVars, request, Idle
  <2>2. Held' \subseteq Held \cup {file} /\ file \in Held
    BY <2>1 DEF Held
  <2>. QED
    BY <2>1, <2>2, HeldStep DEF ServerMatchesFile
<1>. QED
  BY <1>1, <1>2, <1>3, <1>4, <1>5, <1>6 DEF Next

-----------------------------------------------------------------------------
\* At the start nobody is in between and everybody holds the first version.
THEOREM InitIInv == Init => IInv
<1>. SUFFICES ASSUME NEW p \in Passwords, NEW a \in Addrs,
                     /\ file = [pass |-> p, secret |-> 1, epoch |-> 1, ver |-> 1]
                     /\ runtime = file /\ cliSeen = file
                     /\ secrets = 1
                     /\ phase = [t \in Tasks |-> "idle"]
                     /\ seen = [t \in Tasks |-> file]
                     /\ given = [t \in Tasks |-> p] /\ wanted = given
                     /\ addr = [t \in Tasks |-> a]
                     /\ permits = 1
                     /\ fails = <<>>
                     /\ cookies = {} /\ revoked = {}
                     /\ orphans = 0 /\ restarts = 0
                     /\ cli = "idle" /\ outside = FALSE
              PROVE  IInv
  BY DEF Init
<1>1. file \in Creds /\ file.secret = 1 /\ file.ver = 1
  BY DEF Creds
<1>2. TypeOK
  <2>1. fails \in Seq([addr : Addrs, forgiven : BOOLEAN])
    OBVIOUS
  <2>2. /\ phase \in [Tasks -> {"idle", "login", "verify", "hash"}] /\ seen \in [Tasks -> Creds]
        /\ given \in [Tasks -> Passwords] /\ wanted \in [Tasks -> Passwords]
        /\ addr \in [Tasks -> Addrs]
    BY <1>1
  <2>. QED
    BY <1>1, <2>1, <2>2 DEF TypeOK
<1>3. Holders = {} /\ Len(fails) = 0
  BY DEF Holders
<1>4. Cardinality(Holders) = 0
  BY <1>3, FS_EmptySet
<1>5. PermitConserved
  BY <1>4 DEF PermitConserved, Holders
<1>6. ASSUME NEW b \in Addrs PROVE FailuresOf(b) = 0
  <2>1. {i \in 1..Len(fails) : fails[i].addr = b /\ ~fails[i].forgiven} = {}
    BY <1>3
  <2>. QED
    BY <2>1, FS_EmptySet DEF FailuresOf
<1>7. LoginsLimited
  BY <1>3, <1>6, AdminAuthAssumption DEF LoginsLimited
<1>8. LoginHasRoom
  BY DEF LoginHasRoom
<1>9. \A k \in Held : k = file
  BY DEF Held
<1>10. SecretsTellVersions /\ VersionsUnique /\ ServerMatchesFile
  BY <1>1, <1>9 DEF SecretsTellVersions, VersionsUnique, ServerMatchesFile
<1>. QED
  BY <1>2, <1>5, <1>7, <1>8, <1>10 DEF IInv, LimiterExact

\* Every step keeps the inductive invariant.
THEOREM NextIInv == IInv /\ [Next]_vars => IInv'
<1>. SUFFICES ASSUME IInv, [Next]_vars PROVE IInv'
  OBVIOUS
<1>1. LimiterInv'
  BY LimiterStep DEF IInv, LimiterInv
<1>2. CredentialsInv'
  BY <1>1, CredentialsStep DEF IInv, LimiterInv, LimiterExact, CredentialsInv
<1>. QED
  BY <1>1, <1>2 DEF IInv, LimiterInv, CredentialsInv

\* The invariant of the specification.
LEMMA SpecIInv == Spec => []IInv
<1>1. Init => IInv
  BY InitIInv
<1>2. IInv /\ [Next]_vars => IInv'
  BY NextIInv
<1>. QED
  BY <1>1, <1>2, PTL DEF Spec

\* However logins, changes, dropped handlers and restarts interleave, no more
\* failures are recorded in a window than the limiter allows to an address and
\* to all, and the permit of ADMIN_AUTH_CPU is neither lost nor doubled.
THEOREM LimiterHolds == Spec => []LimiterExact
<1>1. IInv => LimiterExact
  BY DEF IInv
<1>. QED
  BY <1>1, SpecIInv, PTL

\* A session the server accepts was opened with the password in force, also
\* after two changes that read the same credentials, and the server's copy is
\* the file's unless that was written outside the server.
THEOREM SessionsCurrent == Spec => []CredentialsCurrent
<1>1. IInv => OldSessionsRejected
  <2>. SUFFICES ASSUME IInv, NEW c \in cookies, Accepted(c) PROVE c.by = runtime.ver
    BY DEF OldSessionsRejected
  <2>1. c.secret = c.by /\ runtime.secret = runtime.ver
    BY DEF IInv, SecretsTellVersions, Held
  <2>. QED
    BY <2>1 DEF Accepted
<1>2. IInv => CredentialsCurrent
  BY <1>1 DEF IInv, CredentialsCurrent
<1>. QED
  BY <1>2, SpecIInv, PTL

\* A version of the credentials is one password, secret and epoch: what a
\* handler read before an await differs from what is in force in nothing, or
\* in its version (change_password_handler draws a fresh secret every time).
THEOREM VersionsTellCredentials == Spec => []VersionsUnique
<1>1. IInv => VersionsUnique
  BY DEF IInv
<1>. QED
  BY <1>1, SpecIInv, PTL
=============================================================================
