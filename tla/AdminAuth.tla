----------------------------- MODULE AdminAuth -----------------------------
(***************************************************************************)
(* The administrator's credentials, sessions and login limiter             *)
(* (auth.rs and the auth handlers of api/mod.rs).                          *)
(*                                                                         *)
(* login_handler and change_password_handler read the credentials the      *)
(* server holds (state.admin_auth), await Argon2 jobs on blocking threads  *)
(* and act on what they read before.  ADMIN_AUTH_CPU is a semaphore with   *)
(* one permit.  The command line tool is a process of its own that writes  *)
(* the credential file and never the server's copy.  A session is a signed *)
(* cookie; the server keeps no list of them.                               *)
(*                                                                         *)
(* Session secrets are fresh random values, here numbers.  A field ver     *)
(* tells the versions of the credentials apart; the code has no such field *)
(* and nothing depends on it but the properties.                           *)
(* Requests that are refused without any effect (fails, busy, no         *)
(* session) are guards.                                                    *)
(***************************************************************************)
EXTENDS Integers, Sequences, FiniteSets, FiniteSetsExt

CONSTANTS
    Tasks,      \* requests in flight
    Addrs,      \* client addresses
    Passwords,  \* passwords that satisfy validate_password_rules
    PerAddr,    \* failed logins per address and window (5)
    Global,     \* failed logins per window (20)
    MaxSecrets, \* bound on the versions of the credentials
    MaxOrphans, \* bound on the jobs of dropped requests
    MaxRestarts \* bound on restarts of the server

ASSUME AdminAuthAssumption ==
    /\ IsFiniteSet(Tasks) /\ IsFiniteSet(Addrs)
    /\ {PerAddr, Global} \subseteq Nat \ {0}
    /\ {MaxSecrets, MaxOrphans, MaxRestarts} \subseteq Nat

VARIABLES
    file,     \* data/admin_credentials.json
    runtime,  \* state.admin_auth
    secrets,  \* secrets drawn so far
    phase,    \* "idle", "login", "verify" or "hash": the job a request awaits
    seen,     \* auth_cached of a request
    given,    \* the password a request carries
    wanted,   \* the new password of a change request
    addr,     \* the client address of a login request
    permits,  \* ADMIN_AUTH_CPU
    fails,    \* failures in the window, oldest first; forgiven after a success
    cookies,  \* sessions handed out and not expired
    orphans,  \* jobs whose request was dropped
    cli,      \* "idle", or "set" while set-password prompts
    cliSeen,  \* the credentials set-password loaded
    outside,  \* history: the file was written without the server's copy
    revoked,  \* history: the sessions there were at the last reset-password
    restarts  \* history: restarts

request == <<phase, seen, given, wanted, addr>>
cliVars == <<cli, cliSeen, revoked>>
vars == <<file, runtime, secrets, phase, seen, given, wanted, addr, permits, fails,
          cookies, orphans, cli, cliSeen, outside, revoked, restarts>>

Creds   == [pass : Passwords, secret : Nat, epoch : Nat, ver : Nat]
\* by: the version of the credentials the password was checked against.
Cookies == [secret : Nat, epoch : Nat, by : Nat]

TypeOK ==
    /\ file \in Creds /\ runtime \in Creds /\ cliSeen \in Creds
    /\ secrets \in Nat
    /\ phase \in [Tasks -> {"idle", "login", "verify", "hash"}]
    /\ seen \in [Tasks -> Creds]
    /\ given \in [Tasks -> Passwords] /\ wanted \in [Tasks -> Passwords]
    /\ addr \in [Tasks -> Addrs]
    /\ permits \in {0, 1}
    /\ fails \in Seq([addr : Addrs, forgiven : BOOLEAN])
    /\ cookies \in SUBSET Cookies /\ revoked \in SUBSET Cookies
    /\ orphans \in Nat /\ restarts \in Nat
    /\ cli \in {"idle", "set"}
    /\ outside \in BOOLEAN

\* The password is set and the server runs with it.
Init ==
    \E p \in Passwords, a \in Addrs :
        /\ file = [pass |-> p, secret |-> 1, epoch |-> 1, ver |-> 1]
        /\ runtime = file /\ cliSeen = file
        /\ secrets = 1
        /\ phase = [t \in Tasks |-> "idle"]
        /\ seen = [t \in Tasks |-> file]
        /\ given = [t \in Tasks |-> p] /\ wanted = given
        /\ addr = [t \in Tasks |-> a]
        /\ permits = 1
        /\ fails = <<>>
        /\ cookies = {} /\ revoked = {}
        /\ orphans = 0 /\ restarts = 0
        /\ cli = "idle" /\ outside = FALSE

-----------------------------------------------------------------------------
\* Failures of address a that its entry in attempts still holds.
FailuresOf(a) == Cardinality({i \in 1..Len(fails) : fails[i].addr = a /\ ~fails[i].forgiven})

\* LoginRateLimiter::is_allowed
is_allowed(a) == Len(fails) < Global /\ FailuresOf(a) < PerAddr

\* LoginRateLimiter::record_failure
record_failure(a) == fails' = Append(fails, [addr |-> a, forgiven |-> FALSE])

\* LoginRateLimiter::record_success
record_success(a) ==
    fails' = [i \in 1..Len(fails) |-> [fails[i] EXCEPT !.forgiven = @ \/ fails[i].addr = a]]

\* The middleware's test of a cookie.
Accepted(c) == c.secret = runtime.secret /\ c.epoch = runtime.epoch

\* The request is answered or dropped.
Idle(t) ==
    /\ phase' = [phase EXCEPT ![t] = "idle"]
    /\ UNCHANGED <<seen, given, wanted, addr>>

-----------------------------------------------------------------------------
\* A plausible bug: the limiter is asked before the permit is awaited.
LoginQueued(t, a, p) ==
    /\ phase[t] = "idle"
    /\ is_allowed(a)
    /\ phase' = [phase EXCEPT ![t] = "login"]
    /\ seen' = [seen EXCEPT ![t] = runtime]
    /\ given' = [given EXCEPT ![t] = p]
    /\ addr' = [addr EXCEPT ![t] = a]
    /\ UNCHANGED <<file, runtime, secrets, wanted, permits, fails, cookies, orphans, cliVars, outside, restarts>>

\* login_handler up to its await: fails, credentials, permit, verify job.
Login(t, a, p) ==
    /\ phase[t] = "idle"
    /\ is_allowed(a)
    /\ permits = 1
    /\ permits' = 0
    /\ phase' = [phase EXCEPT ![t] = "login"]
    /\ seen' = [seen EXCEPT ![t] = runtime]
    /\ given' = [given EXCEPT ![t] = p]
    /\ addr' = [addr EXCEPT ![t] = a]
    /\ UNCHANGED <<file, runtime, secrets, wanted, fails, cookies, orphans, cliVars, outside, restarts>>

\* The password was wrong or the job failed.
LoginFails(t) ==
    /\ phase[t] = "login"
    /\ record_failure(addr[t])
    /\ permits' = permits + 1
    /\ UNCHANGED <<file, runtime, secrets, cookies, orphans, cliVars, outside, restarts>>
    /\ Idle(t)

\* The password was right: a cookie signed with the secret read at the start.
LoginSucceeds(t) ==
    /\ phase[t] = "login"
    /\ given[t] = seen[t].pass
    /\ record_success(addr[t])
    /\ cookies' = cookies \cup {[secret |-> seen[t].secret, epoch |-> seen[t].epoch, by |-> seen[t].ver]}
    /\ permits' = permits + 1
    /\ UNCHANGED <<file, runtime, secrets, orphans, cliVars, outside, restarts>>
    /\ Idle(t)

\* change_password_handler, behind the middleware, up to its first await: the
\* credentials are read and the verify job starts, without a permit.
Change(t, c, p, n) ==
    /\ phase[t] = "idle"
    /\ Accepted(c)
    /\ phase' = [phase EXCEPT ![t] = "verify"]
    /\ seen' = [seen EXCEPT ![t] = runtime]
    /\ given' = [given EXCEPT ![t] = p]
    /\ wanted' = [wanted EXCEPT ![t] = n]
    /\ UNCHANGED <<file, runtime, secrets, addr, permits, fails, cookies, orphans, cliVars, outside, restarts>>

\* The current password is wrong, the new one breaks the rules, the verify job
\* failed or no permit is free.
ChangeRefused(t) ==
    /\ phase[t] = "verify"
    /\ UNCHANGED <<file, runtime, secrets, permits, fails, cookies, orphans, cliVars, outside, restarts>>
    /\ Idle(t)

\* The current password is right and the permit free: the hash job starts.
ChangeVerified(t) ==
    /\ phase[t] = "verify"
    /\ given[t] = seen[t].pass
    /\ permits = 1
    /\ permits' = 0
    /\ phase' = [phase EXCEPT ![t] = "hash"]
    /\ UNCHANGED <<file, runtime, secrets, seen, given, wanted, addr, fails, cookies, orphans, cliVars, outside, restarts>>

\* A plausible bug: the secret is not rotated, the epoch is left to end the
\* older sessions.
NewCredsKeepSecret(t) ==
    [pass |-> wanted[t], secret |-> seen[t].secret, epoch |-> seen[t].epoch + 1, ver |-> secrets + 1]

NewCreds(t) ==
    [pass |-> wanted[t], secret |-> secrets + 1, epoch |-> seen[t].epoch + 1, ver |-> secrets + 1]

\* The new credentials are on disk and then in force.
ChangeSucceeds(t) ==
    /\ phase[t] = "hash"
    /\ secrets < MaxSecrets
    /\ secrets' = secrets + 1
    /\ file' = NewCreds(t)
    /\ runtime' = NewCreds(t)
    /\ outside' = FALSE
    /\ permits' = permits + 1
    /\ UNCHANGED <<fails, cookies, orphans, cliVars, restarts>>
    /\ Idle(t)

\* The hash job, or save_admin_credentials before its rename, fails.
ChangeFails(t) ==
    /\ phase[t] = "hash"
    /\ permits' = permits + 1
    /\ UNCHANGED <<file, runtime, secrets, fails, cookies, orphans, cliVars, outside, restarts>>
    /\ Idle(t)

\* save_admin_credentials fails after its rename, when it syncs the directory:
\* the request fails and the file has changed.
ChangeHalfFails(t) ==
    /\ phase[t] = "hash"
    /\ secrets < MaxSecrets
    /\ secrets' = secrets + 1
    /\ file' = NewCreds(t)
    /\ outside' = TRUE
    /\ permits' = permits + 1
    /\ UNCHANGED <<runtime, fails, cookies, orphans, cliVars, restarts>>
    /\ Idle(t)

\* The client closes the connection: the handler is dropped at its await and
\* its permit with it, the job on the blocking thread runs on.
ClientLeaves(t) ==
    /\ phase[t] # "idle"
    /\ orphans < MaxOrphans
    /\ orphans' = orphans + 1
    /\ permits' = IF phase[t] \in {"login", "hash"} THEN permits + 1 ELSE permits
    /\ UNCHANGED <<file, runtime, secrets, fails, cookies, cliVars, outside, restarts>>
    /\ Idle(t)

OrphanEnds ==
    /\ orphans > 0
    /\ orphans' = orphans - 1
    /\ UNCHANGED <<file, runtime, secrets, request, permits, fails, cookies, cliVars, outside, restarts>>

\* The oldest failure leaves the window of 300 s.
WindowMoves ==
    /\ fails # <<>>
    /\ fails' = Tail(fails)
    /\ UNCHANGED <<file, runtime, secrets, request, permits, cookies, orphans, cliVars, outside, restarts>>

\* A cookie is 24 h old.
SessionExpires(c) ==
    /\ cookies' = cookies \ {c}
    /\ revoked' = revoked \ {c}
    /\ UNCHANGED <<file, runtime, secrets, request, permits, fails, orphans, cli, cliSeen, outside, restarts>>

-----------------------------------------------------------------------------
\* admin set-password loads the file, checks the current password, prompts ...
CliLoad ==
    /\ cli = "idle"
    /\ secrets < MaxSecrets
    /\ cli' = "set"
    /\ cliSeen' = file
    /\ UNCHANGED <<file, runtime, secrets, request, permits, fails, cookies, orphans, outside, revoked, restarts>>

\* ... and saves what it loaded with a new hash, secret and epoch.
CliSave(n) ==
    /\ cli = "set"
    /\ secrets < MaxSecrets
    /\ secrets' = secrets + 1
    /\ file' = [pass |-> n, secret |-> secrets', epoch |-> cliSeen.epoch + 1, ver |-> secrets']
    /\ outside' = TRUE
    /\ cli' = "idle"
    /\ cliSeen' = file'
    /\ UNCHANGED <<runtime, request, permits, fails, cookies, orphans, revoked, restarts>>

\* admin reset-password --confirm-local-reset
CliReset(n) ==
    /\ cli = "idle"
    /\ secrets < MaxSecrets
    /\ secrets' = secrets + 1
    /\ file' = [pass |-> n, secret |-> secrets', epoch |-> 1, ver |-> secrets']
    /\ outside' = TRUE
    /\ revoked' = cookies
    /\ cliSeen' = file'
    /\ UNCHANGED <<runtime, request, permits, fails, cookies, orphans, cli, restarts>>

\* The server is started again and reads the file.
Restart ==
    /\ restarts < MaxRestarts
    /\ restarts' = restarts + 1
    /\ runtime' = file
    /\ phase' = [t \in Tasks |-> "idle"]
    /\ seen' = [t \in Tasks |-> file]
    /\ permits' = 1 /\ orphans' = 0
    /\ fails' = <<>>
    /\ outside' = FALSE
    /\ UNCHANGED <<file, secrets, given, wanted, addr, cookies, cliVars>>

Next ==
    \/ \E t \in Tasks :
          \/ \E a \in Addrs, p \in Passwords : Login(t, a, p)
          \/ LoginFails(t) \/ LoginSucceeds(t)
          \/ \E c \in cookies, p, n \in Passwords : Change(t, c, p, n)
          \/ ChangeRefused(t) \/ ChangeVerified(t)
          \/ ChangeSucceeds(t) \/ ChangeFails(t) \/ ChangeHalfFails(t)
          \/ ClientLeaves(t)
    \/ OrphanEnds \/ WindowMoves
    \/ \E c \in cookies : SessionExpires(c)
    \/ CliLoad \/ \E n \in Passwords : CliSave(n) \/ CliReset(n)
    \/ Restart

Spec == Init /\ [][Next]_vars

-----------------------------------------------------------------------------
\* The limits hold exactly although the failure is recorded an await after the
\* limiter was asked: the single permit leaves at most one login in between.
LoginsLimited ==
    /\ Len(fails) <= Global
    /\ \A a \in Addrs : FailuresOf(a) <= PerAddr

\* The permit is free or with the one request that awaits a login's verify or a
\* change's hash job; no early return, error or dropped handler loses it.
PermitConserved ==
    permits + Cardinality({t \in Tasks : phase[t] \in {"login", "hash"}}) = 1

\* No more logins are tried in a window than the limiter allows to an address
\* and to all, and the permit they wait for is away exactly while a login or a
\* change has it.
LimiterExact == TypeOK /\ LoginsLimited /\ PermitConserved

\* Whoever holds a session the server accepts has shown the password in force:
\* a change of the password ends every earlier session, also when two changes
\* that read the same credentials follow each other and store the same epoch.
OldSessionsRejected == \A c \in cookies : Accepted(c) => c.by = runtime.ver

\* Unless the file was written behind its back, the server holds what the file
\* holds: a change that is reported as failed leaves neither ahead.
ServerMatchesFile == ~outside => runtime = file

\* No session outlives the password it was opened with, and the server's
\* credentials are the file's but for the command line tool and a save that
\* failed half way.
CredentialsCurrent == OldSessionsRejected /\ ServerMatchesFile

\* reset-password ends every session there is.
ResetEndsSessions == \A c \in revoked : ~Accepted(c)

-----------------------------------------------------------------------------
\* What makes the invariants above inductive (AdminAuthProofs).

\* The failure that a login in flight may still record has a place.
LoginHasRoom ==
    \A t \in Tasks : phase[t] = "login" =>
        Len(fails) < Global /\ FailuresOf(addr[t]) < PerAddr

\* The credentials that are in a file or in somebody's hands.
Held == {file, runtime, cliSeen} \cup {seen[t] : t \in Tasks}

\* Every version has a secret of its own, and a cookie the secret of the
\* version its password was checked against.
SecretsTellVersions ==
    /\ \A k \in Held : k.secret = k.ver /\ k.ver <= secrets
    /\ \A c \in cookies : c.secret = c.by

\* A version is one set of credentials: nobody holds two passwords, or two
\* epochs, of the same version.
VersionsUnique == \A k, l \in Held : k.ver = l.ver => k = l

IInv ==
    /\ LimiterExact /\ LoginHasRoom
    /\ SecretsTellVersions /\ VersionsUnique /\ ServerMatchesFile
=============================================================================
