------------------------------- MODULE Quota -------------------------------
(***************************************************************************)
(* One user's traffic quota and the TCP relays that share it.              *)
(*                                                                         *)
(* copy_bidirectional_with_rate_limit (transport/mod.rs) runs an upload    *)
(* and a download copy loop per connection.  It chooses once between three *)
(* loops (unlimited, quota, quota and speed limit); a metered loop checks  *)
(* remaining_bytes, awaits a read, reserves from remaining_bytes, awaits   *)
(* the write, and adds what it wrote to an accumulator that is committed   *)
(* to the connection's and the user's counters now and then.  The loops of *)
(* all the user's connections, add_quota and update_config interleave at   *)
(* every await; a relay may be dropped at any await by disconnect_user.    *)
(*                                                                         *)
(* The pause that paces a speed-limited loop lies between the reservation  *)
(* and the write and is part of the wait for the write.                    *)
(***************************************************************************)
EXTENDS Integers, FiniteSets, FiniteSetsExt

CONSTANTS
    Conns,      \* the user's TCP connections
    MaxRead,    \* size of a loop's read buffer
    CommitAt,   \* accumulated bytes that force a commit (1 MiB)
    Initials,   \* remaining_bytes a user can be loaded with
    Grants,     \* byte amounts add_quota is called with, all positive
    MaxGrants,  \* bound on the number of add_quota calls
    MaxBytes    \* bound on the bytes one loop carries

ASSUME QuotaAssumption ==
    /\ IsFiniteSet(Conns)
    /\ MaxRead \in Nat \ {0}
    /\ CommitAt \in Nat \ {0}
    /\ Initials \subseteq Nat \cup {-1}
    /\ Grants \subseteq Nat \ {0}
    /\ MaxGrants \in Nat
    /\ MaxBytes \in Nat

Dirs   == {"upload", "download"}
Copies == Conns \X Dirs

Unlimited == -1

VARIABLES
    remaining,  \* UserStats.remaining_bytes: Unlimited or the bytes left
    rated,      \* UserStats.speed_limit > 0
    relay,      \* "new", "open", "draining" (upload is over) or "closed"
    path,       \* the loop this relay runs: "none", "unlimited", "fast" or "rated"
    pc,         \* where a loop is
    held,       \* bytes reserved for the write in progress
    short,      \* the reservation was smaller than what was read
    acc,        \* accumulated_bytes
    why,        \* the test that ended a loop: "none", "eof" or "quota"
    counted,    \* the connection's rx/tx counters
    userCount,  \* UserStats.rx and UserStats.tx
    dirty,      \* EngineState.dirty
    written,    \* history: bytes a loop has handed to its peer
    granted,    \* history: quota given since the user became limited
    spent,      \* history: quota reserved since then
    grants,     \* history: calls of add_quota
    saved       \* history: userCount as the last flush read it

loopVars  == <<pc, held, short, acc, why, counted, userCount, dirty, written>>
quotaVars == <<remaining, granted, spent>>
vars == <<remaining, rated, relay, path, pc, held, short, acc, why, counted,
          userCount, dirty, written, granted, spent, grants, saved>>

TypeOK ==
    /\ remaining \in Int
    /\ rated \in BOOLEAN
    /\ relay \in [Conns -> {"new", "open", "draining", "closed"}]
    /\ path \in [Conns -> {"none", "unlimited", "fast", "rated"}]
    /\ pc \in [Copies -> {"off", "read", "write", "shutdown", "done", "dropped"}]
    /\ held \in [Copies -> 0..MaxRead]
    /\ short \in [Copies -> BOOLEAN]
    /\ acc \in [Copies -> 0..CommitAt-1]
    /\ why \in [Copies -> {"none", "eof", "quota"}]
    /\ counted \in [Copies -> Nat]
    /\ userCount \in [Dirs -> Nat]
    /\ dirty \in BOOLEAN
    /\ written \in [Copies -> Nat]
    /\ granted \in Nat /\ spent \in Nat /\ grants \in Nat
    /\ saved \in [Dirs -> Nat]

Init ==
    /\ remaining \in Initials
    /\ rated \in BOOLEAN
    /\ relay = [c \in Conns |-> "new"]
    /\ path = [c \in Conns |-> "none"]
    /\ pc = [x \in Copies |-> "off"]
    /\ held = [x \in Copies |-> 0]
    /\ short = [x \in Copies |-> FALSE]
    /\ acc = [x \in Copies |-> 0]
    /\ why = [x \in Copies |-> "none"]
    /\ counted = [x \in Copies |-> 0]
    /\ userCount = [d \in Dirs |-> 0]
    /\ dirty = FALSE
    /\ written = [x \in Copies |-> 0]
    /\ granted = IF remaining = Unlimited THEN 0 ELSE remaining
    /\ spent = 0
    /\ grants = 0
    /\ saved = [d \in Dirs |-> 0]

-----------------------------------------------------------------------------
\* The loops copy_one_way_fast and copy_one_way_rate_limited meter the user.
Metered(p) == p \in {"fast", "rated"}

\* A plausible bug: the whole read is granted and the balance goes below zero,
\* where -1 means unlimited.
reserve_quota_no_min(n) ==
    IF remaining = Unlimited THEN n ELSE IF remaining <= 0 THEN 0 ELSE n

\* reserve_quota: how many of n bytes may be written.
reserve_quota(n) ==
    IF remaining = Unlimited THEN n
    ELSE IF remaining <= 0 THEN 0
    ELSE IF n < remaining THEN n ELSE remaining

\* The check a metered loop makes before each read.
Exhausted(p) == Metered(p) /\ remaining <= 0

\* A commit of b accumulated bytes by loop <<c, d>>.
Commit(c, d, b) ==
    /\ counted' = [counted EXCEPT ![<<c, d>>] = @ + b]
    /\ userCount' = [userCount EXCEPT ![d] = @ + b]
    /\ dirty' = (dirty \/ b > 0)

\* A plausible bug: the loop ends without committing the rest.
FinishDropsRest(c, d, b, reason) ==
    /\ acc' = [acc EXCEPT ![<<c, d>>] = 0]
    /\ pc' = [pc EXCEPT ![<<c, d>>] = "shutdown"]
    /\ why' = [why EXCEPT ![<<c, d>>] = reason]
    /\ UNCHANGED <<counted, userCount, dirty>>

\* The loop ends: what is left in the accumulator is committed and the writer
\* is shut down.
Finish(c, d, b, reason) ==
    /\ Commit(c, d, b)
    /\ acc' = [acc EXCEPT ![<<c, d>>] = 0]
    /\ pc' = [pc EXCEPT ![<<c, d>>] = "shutdown"]
    /\ why' = [why EXCEPT ![<<c, d>>] = reason]

-----------------------------------------------------------------------------
\* The outbound is connected: the loop is chosen from the user's speed limit
\* and balance as they are now, and both directions start.
Open(c) ==
    LET p == IF rated THEN "rated" ELSE IF remaining # Unlimited THEN "fast" ELSE "unlimited"
        mine == {c} \X Dirs
    IN  /\ relay[c] = "new"
        /\ relay' = [relay EXCEPT ![c] = "open"]
        /\ path' = [path EXCEPT ![c] = p]
        /\ pc' = [x \in Copies |-> IF x \notin mine THEN pc[x]
                                   ELSE IF Exhausted(p) THEN "shutdown" ELSE "read"]
        /\ why' = [x \in Copies |-> IF x \in mine /\ Exhausted(p) THEN "quota" ELSE why[x]]
        /\ UNCHANGED <<rated, held, short, acc, counted, userCount, dirty, written, grants, saved>>
        /\ UNCHANGED quotaVars

\* A plausible bug: the whole buffer is written, not the part reserved for.
ReadWritesAll(c, d, n) ==
    LET got == IF Metered(path[c]) THEN reserve_quota(n) ELSE n IN
    /\ pc[<<c, d>>] = "read"
    /\ written[<<c, d>>] + n <= MaxBytes
    /\ got > 0
    /\ pc' = [pc EXCEPT ![<<c, d>>] = "write"]
    /\ held' = [held EXCEPT ![<<c, d>>] = n]
    /\ IF Metered(path[c]) /\ remaining # Unlimited
       THEN remaining' = remaining - got /\ spent' = spent + got
       ELSE UNCHANGED <<remaining, spent>>
    /\ UNCHANGED <<rated, relay, path, short, acc, why, counted, userCount, dirty, written,
                   granted, grants, saved>>

\* A read of n bytes returns and, in a metered loop, is reserved for.
Read(c, d, n) ==
    LET got == IF Metered(path[c]) THEN reserve_quota(n) ELSE n IN
    /\ pc[<<c, d>>] = "read"
    /\ written[<<c, d>>] + n <= MaxBytes
    /\ \/ /\ got = 0
          /\ Finish(c, d, acc[<<c, d>>], "quota")
          /\ UNCHANGED <<held, short, quotaVars>>
       \/ /\ got > 0
          /\ pc' = [pc EXCEPT ![<<c, d>>] = "write"]
          /\ held' = [held EXCEPT ![<<c, d>>] = got]
          /\ short' = [short EXCEPT ![<<c, d>>] = got < n]
          /\ IF Metered(path[c]) /\ remaining # Unlimited
             THEN remaining' = remaining - got /\ spent' = spent + got
             ELSE UNCHANGED <<remaining, spent>>
          /\ UNCHANGED <<acc, why, counted, userCount, dirty, granted>>
    /\ UNCHANGED <<rated, relay, path, written, grants, saved>>

\* The reader is at its end.
ReadEof(c, d) ==
    /\ pc[<<c, d>>] = "read"
    /\ Finish(c, d, acc[<<c, d>>], "eof")
    /\ UNCHANGED <<rated, relay, path, held, short, written, grants, saved>>
    /\ UNCHANGED quotaVars

\* write_all and flush are done: the bytes are accumulated, committed when
\* there are enough of them or 500 ms have passed (timer), and the loop goes on
\* unless the reservation fell short or the balance is used up.
WriteDone(c, d, timer) ==
    LET b == acc[<<c, d>>] + held[<<c, d>>] IN
    /\ pc[<<c, d>>] = "write"
    /\ written' = [written EXCEPT ![<<c, d>>] = @ + held[<<c, d>>]]
    /\ held' = [held EXCEPT ![<<c, d>>] = 0]
    /\ short' = [short EXCEPT ![<<c, d>>] = FALSE]
    /\ \/ /\ short[<<c, d>>] \/ Exhausted(path[c])
          /\ Finish(c, d, b, "quota")
       \/ /\ ~short[<<c, d>>] /\ ~Exhausted(path[c])
          /\ pc' = [pc EXCEPT ![<<c, d>>] = "read"]
          /\ IF timer \/ b >= CommitAt
             THEN Commit(c, d, b) /\ acc' = [acc EXCEPT ![<<c, d>>] = 0]
             ELSE acc' = [acc EXCEPT ![<<c, d>>] = b] /\ UNCHANGED <<counted, userCount, dirty>>
          /\ UNCHANGED why
    /\ UNCHANGED <<rated, relay, path, grants, saved>>
    /\ UNCHANGED quotaVars

\* The relay's future is over: whatever its loops were doing is dropped, the
\* uncommitted accumulators with it.  A write in progress may have delivered
\* any part (part[d]) of what was held for it.
Drop(c, part) ==
    LET mine == {c} \X Dirs IN
    /\ relay' = [relay EXCEPT ![c] = "closed"]
    /\ written' = [x \in Copies |-> IF x \in mine THEN written[x] + part[x[2]] ELSE written[x]]
    /\ held' = [x \in Copies |-> IF x \in mine THEN 0 ELSE held[x]]
    /\ short' = [x \in Copies |-> IF x \in mine THEN FALSE ELSE short[x]]
    /\ acc' = [x \in Copies |-> IF x \in mine THEN 0 ELSE acc[x]]

Parts(c) == {part \in [Dirs -> 0..MaxRead] : \A d \in Dirs : part[d] <= held[<<c, d>>]}

\* Both loops but the finished ones are dropped.
DropAll(c, part) ==
    /\ Drop(c, part)
    /\ pc' = [x \in Copies |-> IF x \in {c} \X Dirs /\ pc[x] # "done" THEN "dropped" ELSE pc[x]]
    /\ UNCHANGED <<rated, path, why, counted, userCount, dirty, grants, saved>>
    /\ UNCHANGED quotaVars

\* The upload is over: the download may go on for at most 15 s.
UploadDone(c) ==
    /\ relay[c] = "open"
    /\ pc[<<c, "upload">>] = "shutdown"
    /\ pc' = [pc EXCEPT ![<<c, "upload">>] = "done"]
    /\ relay' = [relay EXCEPT ![c] = "draining"]
    /\ UNCHANGED <<rated, path, held, short, acc, why, counted, userCount, dirty, written, grants, saved>>
    /\ UNCHANGED quotaVars

\* The download is over: the relay ends, the upload is dropped if it still runs.
DownloadDone(c, part) ==
    /\ relay[c] \in {"open", "draining"}
    /\ pc[<<c, "download">>] = "shutdown"
    /\ Drop(c, part)
    /\ pc' = [pc EXCEPT ![<<c, "download">>] = "done",
                        ![<<c, "upload">>] = IF @ = "done" THEN @ ELSE "dropped"]
    /\ UNCHANGED <<rated, path, why, counted, userCount, dirty, grants, saved>>
    /\ UNCHANGED quotaVars

\* A read, a write or a shutdown of one of the loops fails.
LoopError(c, d, part) ==
    /\ relay[c] \in {"open", "draining"}
    /\ pc[<<c, d>>] \in {"read", "write", "shutdown"}
    /\ DropAll(c, part)

\* A plausible bug: the timeout is on the reads only.
DrainTimeoutReadsOnly(c, part) ==
    /\ relay[c] = "draining"
    /\ pc[<<c, "download">>] = "read"
    /\ DropAll(c, part)

\* timeout(15 s) on the download that outlived its upload.
DrainTimeout(c, part) ==
    /\ relay[c] = "draining"
    /\ DropAll(c, part)

\* The dispatcher's select! sees the shutdown signal of disconnect_user.
Disconnect(c, part) ==
    /\ relay[c] # "closed"
    /\ DropAll(c, part)

-----------------------------------------------------------------------------
\* add_quota: an unlimited or used up balance is replaced, any other raised;
\* the snapshot handed to the persistence worker holds the counters.
AddQuota(a) ==
    /\ grants < MaxGrants
    /\ grants' = grants + 1
    /\ remaining' = IF remaining = Unlimited \/ remaining <= 0 THEN a ELSE remaining + a
    /\ granted' = granted + a
    /\ saved' = userCount
    /\ UNCHANGED <<rated, relay, path, spent>>
    /\ UNCHANGED loopVars

\* update_config keeps the UserStats, changes its speed limit and marks the
\* state dirty; remaining_bytes is left alone.
UpdateConfig(r) ==
    /\ rated' = r
    /\ dirty' = TRUE
    /\ UNCHANGED <<relay, path, pc, held, short, acc, why, counted, userCount, written, grants, saved>>
    /\ UNCHANGED quotaVars

\* The 60 s flusher: dirty.swap(false) and a snapshot of the counters.
Flush ==
    /\ dirty
    /\ dirty' = FALSE
    /\ saved' = userCount
    /\ UNCHANGED <<rated, relay, path, pc, held, short, acc, why, counted, userCount, written, grants>>
    /\ UNCHANGED quotaVars

Next ==
    \/ \E c \in Conns :
          \/ Open(c)
          \/ UploadDone(c)
          \/ \E d \in Dirs :
                \/ \E n \in 1..MaxRead : Read(c, d, n)
                \/ ReadEof(c, d)
                \/ \E timer \in BOOLEAN : WriteDone(c, d, timer)
          \/ \E part \in Parts(c) :
                \/ DownloadDone(c, part)
                \/ \E d \in Dirs : LoopError(c, d, part)
                \/ DrainTimeout(c, part)
                \/ Disconnect(c, part)
    \/ \E a \in Grants : AddQuota(a)
    \/ \E r \in BOOLEAN : UpdateConfig(r)
    \/ Flush

\* Timers fire; peers, administrators and disconnections need not.
Fairness == \A c \in Conns : WF_vars(\E part \in Parts(c) : DrainTimeout(c, part))

Spec == Init /\ [][Next]_vars /\ Fairness

-----------------------------------------------------------------------------
\* The balance is exact: what a limited user has left is what was granted less
\* what the loops have reserved, however the check before a read, the
\* reservation after it, and add_quota interleave.  Nothing is ever reserved
\* from an unlimited user.
BalanceExact ==
    IF remaining = Unlimited
    THEN granted = 0 /\ spent = 0
    ELSE remaining >= 0 /\ remaining + spent = granted

\* The metered loops never deliver more than was reserved, so a limited user
\* never gets more bytes through them than were granted, on any number of
\* connections at once.
NoOverdraft ==
    LET metered == {x \in Copies : Metered(path[x[1]])}
    IN  MapThenSumSet(LAMBDA x : written[x] + held[x], metered) <= spent

\* A finished loop has counted every byte it delivered; a dropped one has
\* missed less than one commit and one buffer.
CountingLossBounded ==
    \A x \in Copies :
        /\ counted[x] <= written[x]
        /\ pc[x] \in {"shutdown", "done"} => counted[x] = written[x]
        /\ written[x] - counted[x] < CommitAt + MaxRead

\* The user's rx and tx are the totals of its connections' counters.
UserTotalsAgree ==
    \A d \in Dirs : userCount[d] = MapThenSumSet(LAMBDA c : counted[<<c, d>>], Conns)

\* No committed byte is forgotten by the flusher: when the state is clean, the
\* last snapshot holds the user's current counters.
CleanMeansSaved == ~dirty => saved = userCount

\* Once limited, a user is never again unlimited: no reservation or grant
\* brings remaining_bytes to the -1 that means unlimited.
LimitedStaysLimited == [][remaining # Unlimited => remaining' # Unlimited]_vars

\* The relays, add_quota and update_config together implement the account of
\* QuotaLedger: add_quota's replacing of a used up balance is an addition, and
\* the two-step check and reservation is a single withdrawal that is covered.
Ledger == INSTANCE QuotaLedger WITH balance <- remaining
ImplementsLedger == Ledger!Spec

\* A download that outlives its upload does not hold the connection for ever.
DrainEnds == \A c \in Conns : []<>(relay[c] # "draining")

\* An unlimited user's loop is never ended by a quota test.
UnlimitedNeverCut == \A x \in Copies : why[x] = "quota" => remaining # Unlimited

-----------------------------------------------------------------------------
\* One loop's books: it runs only after the relay was opened; while it runs,
\* delivered bytes are counted or in the accumulator; once it has finished they
\* are counted; only a write in progress holds a reservation.
LoopBooks(x) ==
    /\ relay[x[1]] = "new" => pc[x] = "off"
    /\ pc[x] # "dropped" => written[x] = counted[x] + acc[x]
    /\ pc[x] \notin {"read", "write"} => acc[x] = 0
    /\ pc[x] # "write" => held[x] = 0
    /\ counted[x] <= written[x]
    /\ written[x] - counted[x] < CommitAt + MaxRead

\* The inductive invariant of QuotaProofs.
IInv == TypeOK /\ BalanceExact /\ CleanMeansSaved /\ \A x \in Copies : LoopBooks(x)
=============================================================================
