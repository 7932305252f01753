---------------------------- MODULE Persistence ----------------------------
(***************************************************************************)
(* How the engine's state reaches config.json.                             *)
(*                                                                         *)
(* persist_config_to_disk (state.rs) takes a snapshot of the configuration *)
(* and of every user's counters, numbers it and offers it to a bounded     *)
(* channel; it never waits.  The worker of start_persistence_worker keeps  *)
(* the newest request of those queued, overlays the counters on the        *)
(* configuration in a blocking thread and, if that changed a counter,      *)
(* writes config.json.tmp and renames it.  A request that did not fit and  *)
(* a write that failed set `dirty' again, and a timer turns `dirty' into a *)
(* new request.  The process may die at any step and is then started from  *)
(* config.json.                                                            *)
(*                                                                         *)
(* A user's four counters are two numbers here, that only grow.  usage is  *)
(* what commits (rx, tx) and grants (total, and remaining with it) add;    *)
(* taken is what reserve_quota takes from remaining_bytes, before the      *)
(* bytes are written and long before a commit sets `dirty', or without one *)
(* when the loop is dropped or fails.  remaining is told by the two: what  *)
(* grants put in, less taken.  (A grant of less than a GiB leaves total as *)
(* it is, and the grant's load and store race with reservations, which is  *)
(* Quota's matter: grants here are whole and atomic.)  Everything else in  *)
(* the configuration is one number, settings, which is 0 in a file of an   *)
(* older release.                                                          *)
(***************************************************************************)
EXTENDS Integers, Sequences, FiniteSets, FiniteSetsExt

CONSTANTS
    Users,      \* client ids
    QueueCap,   \* capacity of the request channel (32)
    MaxUsage,   \* bound on a user's usage, and on what it has taken
    MaxEdits,   \* bound on the administrator's changes
    MaxFails,   \* bound on failing writes and renames
    MaxRefused, \* bound on flushes refused by a full channel
    MaxCrashes  \* bound on restarts

ASSUME PersistenceAssumption ==
    /\ IsFiniteSet(Users)
    /\ QueueCap \in Nat \ {0}
    /\ {MaxUsage, MaxEdits, MaxFails, MaxRefused, MaxCrashes} \subseteq Nat

NoCounters == -1  \* a client of the configuration without rx and tx

VARIABLES
    clients,   \* config: the clients of the inbounds
    base,      \* config: the usage in the clients' entries, as loaded
    baseTaken, \* config: what was taken by those entries' remaining_gb
    settings,  \* config: everything else
    usage,     \* users: the live rx, tx and grants of UserStats
    taken,     \* users: what was taken from the live remaining_bytes
    owed,      \* history: of that, what no commit and no snapshot has followed
    dirty,     \* EngineState.dirty
    gen,       \* EngineState.persist_gen
    queue,     \* the channel of PersistRequests
    worker,    \* "idle", "create", "write" or "rename"
    job,       \* the request the worker is writing
    lastGen,   \* the worker's last_written_gen
    tmp,       \* config.json.tmp
    disk,      \* config.json
    calls,     \* history: calls of persist_config_to_disk since the first boot
    diskAt,    \* history: the call whose snapshot config.json holds
    edits, fails, refused, crashes  \* history: what the bounds count

config  == <<clients, base, baseTaken, settings>>
working == <<worker, job, lastGen, tmp, disk, diskAt, fails>>
vars == <<clients, base, baseTaken, settings, usage, taken, owed, dirty, gen, queue, worker, job, lastGen,
          tmp, disk, calls, diskAt, edits, fails, refused, crashes>>

Counters == NoCounters..MaxUsage
Amounts  == [Users -> 0..MaxUsage]
Docs     == [clients : SUBSET Users, count : [Users -> Counters], taken : Amounts, settings : Nat]
Files    == [whole : BOOLEAN, doc : Docs]
Requests == [generation : Nat, at : Nat, clients : SUBSET Users, settings : Nat,
             base : [Users -> Counters], baseTaken : Amounts, snap : Amounts, snapTaken : Amounts]

TypeOK ==
    /\ clients \in SUBSET Users
    /\ base \in [Users -> Counters] /\ baseTaken \in Amounts
    /\ settings \in Nat
    /\ usage \in Amounts /\ taken \in Amounts /\ owed \in [Users -> Nat]
    /\ dirty \in BOOLEAN
    /\ gen \in Nat
    /\ queue \in Seq(Requests) /\ Len(queue) <= QueueCap
    /\ worker \in {"idle", "create", "write", "rename"}
    /\ worker # "idle" => job \in Requests
    /\ lastGen \in Nat
    /\ tmp \in Files /\ disk \in Files
    /\ calls \in Nat /\ diskAt \in 0..calls

Nothing == [u \in Users |-> 0]
NoFile  == [whole |-> FALSE, doc |-> [clients |-> {}, count |-> [u \in Users |-> NoCounters],
                                      taken |-> Nothing, settings |-> 0]]
NoJob == <<>>

\* The counters a UserStats starts with.
Loaded(n) == IF n = NoCounters THEN 0 ELSE n

\* Everyone outside the set of clients has no counters.
Only(cl, f) == [u \in Users |-> IF u \in cl THEN f[u] ELSE NoCounters]
Live(cl, f) == [u \in Users |-> IF u \in cl THEN Loaded(f[u]) ELSE 0]

\* A PersistRequest, number g of this process and call number at of all: the
\* configuration with the counters of its entries, and those of UserStats.
Request(g, at, cl, b, bt, st, us, tk) ==
    [generation |-> g, at |-> at, clients |-> cl, settings |-> st,
     base |-> b, baseTaken |-> bt, snap |-> us, snapTaken |-> tk]

\* main: a migrated configuration is handed to the worker before anything runs.
MigrationRequest(cl, b, bt, us, tk, at) == << Request(1, at, cl, b, bt, 1, us, tk) >>

Init ==
    \E cl \in SUBSET Users, n \in {NoCounters, 0}, st \in {0, 1} :
        LET doc == [clients |-> cl, count |-> Only(cl, [u \in Users |-> n]),
                    taken |-> Nothing, settings |-> st] IN
        /\ disk = [whole |-> TRUE, doc |-> doc]
        /\ tmp = NoFile
        /\ clients = cl /\ base = doc.count /\ baseTaken = Nothing /\ settings = 1
        /\ usage = Live(cl, doc.count) /\ taken = Nothing /\ owed = Nothing
        /\ gen = IF st = 0 THEN 1 ELSE 0
        /\ calls = gen
        /\ queue = IF st = 0 THEN MigrationRequest(cl, base, Nothing, usage, Nothing, 1) ELSE <<>>
        /\ dirty = FALSE /\ worker = "idle" /\ job = NoJob /\ lastGen = 0 /\ diskAt = 0
        /\ edits = 0 /\ fails = 0 /\ refused = 0 /\ crashes = 0

-----------------------------------------------------------------------------
\* The snapshot of the configuration and the counters the caller leaves behind.
Snapshot == Request(gen + 1, calls + 1, clients', base', baseTaken', settings', usage', taken')

\* A plausible bug: a request that does not fit is dropped for good.
persist_config_to_disk_drops(d) ==
    /\ gen' = gen + 1 /\ calls' = calls + 1
    /\ queue' = IF Len(queue) < QueueCap THEN Append(queue, Snapshot) ELSE queue
    /\ dirty' = d
    /\ owed' = Nothing

\* persist_config_to_disk, called with `dirty' at d: the snapshot is queued, or
\* `dirty' is set.
persist_config_to_disk(d) ==
    LET fits == Len(queue) < QueueCap IN
    /\ gen' = gen + 1 /\ calls' = calls + 1
    /\ queue' = IF fits THEN Append(queue, Snapshot) ELSE queue
    /\ dirty' = (d \/ ~fits)
    /\ owed' = Nothing

\* A copy loop reserves bytes it has read: remaining_bytes falls, `dirty' is
\* left as it is.
Reserve(u) ==
    /\ u \in clients /\ taken[u] < MaxUsage
    /\ taken' = [taken EXCEPT ![u] = @ + 1]
    /\ owed' = [owed EXCEPT ![u] = @ + 1]
    /\ UNCHANGED <<config, usage, dirty, gen, queue, working, calls, edits, refused, crashes>>

\* A plausible bug: the commit counts the bytes and leaves `dirty' alone.
CommitLeavesClean(u) ==
    /\ u \in clients /\ usage[u] < MaxUsage
    /\ \E n \in 0..owed[u] : owed' = [owed EXCEPT ![u] = @ - n]
    /\ usage' = [usage EXCEPT ![u] = @ + 1]
    /\ UNCHANGED <<config, taken, dirty, gen, queue, working, calls, edits, refused, crashes>>

\* A copy loop commits what it has accumulated, n reservations among it (none
\* when the user is unlimited or a snapshot has already seen them): the counter
\* rises and then `dirty' is set, with no await between.  A loop that is dropped
\* or fails never does.
Commit(u) ==
    /\ u \in clients /\ usage[u] < MaxUsage
    /\ \E n \in 0..owed[u] : owed' = [owed EXCEPT ![u] = @ - n]
    /\ usage' = [usage EXCEPT ![u] = @ + 1]
    /\ dirty' = TRUE
    /\ UNCHANGED <<config, taken, gen, queue, working, calls, edits, refused, crashes>>

\* add_quota: remaining_bytes and total_gb rise and a snapshot is requested.
AddQuota(u) ==
    /\ u \in clients /\ usage[u] < MaxUsage /\ edits < MaxEdits
    /\ edits' = edits + 1
    /\ usage' = [usage EXCEPT ![u] = @ + 1]
    /\ UNCHANGED <<config, taken, working, refused, crashes>>
    /\ persist_config_to_disk(dirty)

\* create_user: update_config gives the new client fresh UserStats and sets
\* `dirty', then a snapshot is requested.  An id that is already there keeps
\* its entry and its UserStats.
CreateUser(u) ==
    /\ edits < MaxEdits
    /\ edits' = edits + 1
    /\ clients' = clients \cup {u}
    /\ UNCHANGED <<base, baseTaken, settings, usage, taken, working, refused, crashes>>
    /\ persist_config_to_disk(TRUE)

\* delete_user: the client and its UserStats are gone, a snapshot is requested.
DeleteUser(u) ==
    /\ edits < MaxEdits
    /\ edits' = edits + 1
    /\ clients' = clients \ {u}
    /\ base' = Only(clients', base) /\ baseTaken' = Live(clients', baseTaken)
    /\ usage' = Live(clients', usage) /\ taken' = Live(clients', taken)
    /\ UNCHANGED <<settings, working, refused, crashes>>
    /\ persist_config_to_disk(TRUE)

\* apply_routing_update, regenerate_sub_token, create_vpn_account and
\* create_reality_profile_and_listener: the configuration changes and a
\* snapshot is requested.
ChangeSettings ==
    /\ edits < MaxEdits
    /\ edits' = edits + 1
    /\ settings' = settings + 1
    /\ UNCHANGED <<clients, base, baseTaken, usage, taken, working, refused, crashes>>
    /\ persist_config_to_disk(TRUE)

\* reload_config with a configuration fetched from the engine and changed:
\* update_config sets `dirty', the snapshot is left to the timer.
ReloadConfig ==
    /\ edits < MaxEdits
    /\ edits' = edits + 1
    /\ settings' = settings + 1
    /\ dirty' = TRUE
    /\ UNCHANGED <<clients, base, baseTaken, usage, taken, owed, gen, queue, working, calls,
                   refused, crashes>>

\* The timer: dirty.swap(false), and a snapshot if it was set.
Flush ==
    LET full == Len(queue) = QueueCap IN
    /\ dirty
    /\ full => refused < MaxRefused
    /\ refused' = IF full THEN refused + 1 ELSE refused
    /\ UNCHANGED <<config, usage, taken, working, edits, crashes>>
    /\ persist_config_to_disk(FALSE)

-----------------------------------------------------------------------------
\* The overlay of the snapshot on the configuration, and whether it changed a
\* counter of an entry.
Overlay(r) == [clients |-> r.clients, count |-> Only(r.clients, r.snap),
               taken |-> Live(r.clients, r.snapTaken), settings |-> r.settings]
Changed(r) == \E u \in r.clients : r.base[u] # r.snap[u] \/ r.baseTaken[u] # r.snapTaken[u]

\* The newest of the queued requests.
Latest == CHOOSE r \in {queue[i] : i \in 1..Len(queue)} :
             \A i \in 1..Len(queue) : queue[i].generation <= r.generation

\* A plausible bug: one try_recv too few and no comparison of generations, so
\* the newest request is written before an older one that stays queued.
ReceiveLeavesRest ==
    /\ worker = "idle" /\ queue # <<>>
    /\ queue' = SubSeq(queue, 1, Len(queue) - 1)
    /\ IF Changed(Latest)
       THEN worker' = "create" /\ job' = Latest /\ UNCHANGED lastGen
       ELSE lastGen' = Latest.generation /\ UNCHANGED <<worker, job>>
    /\ UNCHANGED <<config, usage, taken, owed, dirty, gen, tmp, disk, calls, diskAt, edits, fails, refused, crashes>>

\* The worker empties the channel and keeps the newest request.  When it is not
\* newer than the last one written it is ignored; when it changes no counter it
\* counts as written; otherwise the temporary file is to be written.
Receive ==
    /\ worker = "idle" /\ queue # <<>>
    /\ queue' = <<>>
    /\ IF Latest.generation <= lastGen
       THEN UNCHANGED <<worker, job, lastGen>>
       ELSE IF Changed(Latest)
       THEN worker' = "create" /\ job' = Latest /\ UNCHANGED lastGen
       ELSE lastGen' = Latest.generation /\ UNCHANGED <<worker, job>>
    /\ UNCHANGED <<config, usage, taken, owed, dirty, gen, tmp, disk, calls, diskAt, edits, fails, refused, crashes>>

\* fs::write opens and truncates config.json.tmp ...
CreateTmp ==
    /\ worker = "create"
    /\ worker' = "write"
    /\ tmp' = [whole |-> FALSE, doc |-> Overlay(job)]
    /\ UNCHANGED <<config, usage, taken, owed, dirty, gen, queue, job, lastGen, disk, calls, diskAt, edits, fails, refused, crashes>>

\* ... and all of the text is in it.
WriteTmp ==
    /\ worker = "write"
    /\ worker' = "rename"
    /\ tmp' = [tmp EXCEPT !.whole = TRUE]
    /\ UNCHANGED <<config, usage, taken, owed, dirty, gen, queue, job, lastGen, disk, calls, diskAt, edits, fails, refused, crashes>>

\* rename(config.json.tmp, config.json); the blocking task returns Ok.
Rename ==
    /\ worker = "rename"
    /\ worker' = "idle"
    /\ disk' = tmp
    /\ tmp' = NoFile
    /\ job' = NoJob
    /\ diskAt' = job.at
    /\ lastGen' = job.generation
    /\ UNCHANGED <<config, usage, taken, owed, dirty, gen, queue, calls, edits, fails, refused, crashes>>

\* A plausible bug: the error is only logged.
WriteFailsSilently ==
    /\ worker \in {"create", "write", "rename"}
    /\ fails < MaxFails
    /\ fails' = fails + 1
    /\ worker' = "idle" /\ job' = NoJob
    /\ UNCHANGED <<config, usage, taken, owed, dirty, gen, queue, lastGen, tmp, disk, calls, diskAt, edits, refused, crashes>>

\* The write or the rename fails: the worker sets `dirty' and goes on.
WriteFails ==
    /\ worker \in {"create", "write", "rename"}
    /\ fails < MaxFails
    /\ fails' = fails + 1
    /\ worker' = "idle" /\ job' = NoJob
    /\ dirty' = TRUE
    /\ UNCHANGED <<config, usage, taken, owed, gen, queue, lastGen, tmp, disk, calls, diskAt, edits, refused, crashes>>

\* The process dies and is started again: everything but the two files is
\* lost.  A file of an older release is migrated and a snapshot requested.
Restart ==
    LET doc == disk.doc
        old == doc.settings = 0
    IN
    /\ crashes < MaxCrashes
    /\ crashes' = crashes + 1
    /\ disk.whole
    /\ clients' = doc.clients /\ base' = doc.count /\ baseTaken' = doc.taken
    /\ settings' = IF old THEN 1 ELSE doc.settings
    /\ usage' = Live(doc.clients, doc.count) /\ taken' = doc.taken /\ owed' = Nothing
    /\ gen' = IF old THEN 1 ELSE 0
    /\ calls' = IF old THEN calls + 1 ELSE calls
    /\ queue' = IF old THEN MigrationRequest(clients', base', baseTaken', usage', taken', calls + 1)
                       ELSE <<>>
    /\ dirty' = FALSE /\ worker' = "idle" /\ job' = NoJob /\ lastGen' = 0
    /\ UNCHANGED <<tmp, disk, diskAt, edits, fails, refused>>

Next ==
    \/ \E u \in Users : Reserve(u) \/ Commit(u) \/ AddQuota(u) \/ CreateUser(u) \/ DeleteUser(u)
    \/ ChangeSettings \/ ReloadConfig \/ Flush
    \/ Receive \/ CreateTmp \/ WriteTmp \/ Rename \/ WriteFails
    \/ Restart

\* The timer and the worker run; administrators, peers and crashes need not.
Fairness == WF_vars(Flush) /\ WF_vars(Receive \/ CreateTmp \/ WriteTmp \/ Rename)

Spec == Init /\ [][Next]_vars /\ Fairness

-----------------------------------------------------------------------------
\* At every moment, in the middle of a write and after a failed one too, a
\* restart finds a complete config.json that was the snapshot of one request.
DiskWhole == disk.whole

\* config.json never goes back to an older snapshot, across restarts too,
\* though generations start again at 1.
DiskNeverGoesBack == [][diskAt' >= diskAt]_vars

\* No request is queued, being written or owed by the timer.
Settled == ~dirty /\ queue = <<>> /\ worker = "idle"

\* What was taken, less the reservations that nothing has followed yet.
Booked(u) == taken[u] - owed[u]

\* The counters of the clients are the ones on disk, but for the reservations
\* that neither a commit nor a snapshot has followed: a loop that is running,
\* or was dropped, holds them, and the balance on disk is ahead by just those.
CountersOnDisk ==
    \A u \in clients : /\ u \in disk.doc.clients
                       /\ Loaded(disk.doc.count[u]) = usage[u]
                       /\ disk.doc.taken[u] = Booked(u)

\* When nothing is pending, every client's counters are on disk, all but the
\* reservations nothing has followed: whatever full channel, failed write or
\* late request there was, nothing else was forgotten, and skipping a write
\* that changes no counter loses none.
SettledMeansSaved == Settled => CountersOnDisk

\* config.json is whole at any crash, and once nothing is pending it holds
\* every counter, but for the reservations that nothing has followed.
FileSound == TypeOK /\ DiskWhole /\ SettledMeansSaved

\* Once traffic and changes cease, the counters reach the disk and stay there:
\* what a commit counted, and every reservation that a commit or a snapshot has
\* followed.
CountersEventuallySaved == <>[]CountersOnDisk

\* When nothing is pending, the configuration on disk is the one in force.
ConfigSaved == Settled => disk.doc.clients = clients /\ disk.doc.settings = settings

-----------------------------------------------------------------------------
\* What makes the invariants above inductive (PersistenceProofs).

\* A client who was in the file the process started from and has not been
\* deleted since.
Known(u) == u \in clients /\ base[u] # NoCounters

\* Counters cnt and tk of clients cl are some that a known client has had since.
Since(cl, cnt, tk) ==
    \A u \in Users : Known(u) => /\ u \in cl
                                /\ base[u] <= cnt[u] /\ cnt[u] <= usage[u]
                                /\ baseTaken[u] <= tk[u] /\ tk[u] <= Booked(u)

\* The counters of request r are the live ones, over the present configuration,
\* but for the reservations nothing has followed.
Current(r) ==
    /\ r.base = base /\ r.baseTaken = baseTaken
    /\ \A u \in clients : u \in r.clients /\ r.snap[u] = usage[u] /\ r.snapTaken[u] = Booked(u)

\* Generations and calls order the requests: queue, job, file.
Ordered ==
    /\ lastGen <= gen
    /\ \A i, j \in 1..Len(queue) : i < j => /\ queue[i].generation < queue[j].generation
                                           /\ queue[i].at < queue[j].at
    /\ \A i \in 1..Len(queue) : /\ lastGen < queue[i].generation /\ queue[i].generation <= gen
                                /\ diskAt < queue[i].at /\ queue[i].at <= calls
    /\ worker # "idle" =>
          /\ lastGen < job.generation /\ job.generation <= gen
          /\ diskAt < job.at /\ job.at <= calls
          /\ \A i \in 1..Len(queue) : job.generation < queue[i].generation /\ job.at < queue[i].at

\* Everything that is or may get on disk is a state known clients have had.
PendingSound ==
    /\ base = Only(clients, base)
    /\ disk.doc.count = Only(disk.doc.clients, disk.doc.count)
    /\ Since(disk.doc.clients, disk.doc.count, disk.doc.taken)
    /\ \A i \in 1..Len(queue) : Since(queue[i].clients, queue[i].snap, queue[i].snapTaken)
    /\ worker # "idle" => Since(job.clients, job.snap, job.snapTaken)

\* The temporary file is the job's, and whole before it is renamed.
TmpIsJob ==
    /\ worker \in {"write", "rename"} => tmp.doc = Overlay(job)
    /\ worker = "rename" => tmp.whole

\* Unless a request is owed, the newest of queue, job and file is current.
NewestCurrent ==
    ~dirty => IF queue # <<>> THEN Current(queue[Len(queue)])
              ELSE IF worker # "idle" THEN Current(job)
              ELSE CountersOnDisk

IInv == TypeOK /\ DiskWhole /\ Ordered /\ PendingSound /\ TmpIsJob /\ NewestCurrent
=============================================================================
