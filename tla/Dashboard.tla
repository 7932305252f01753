------------------------------ MODULE Dashboard -------------------------------
(***************************************************************************)
(* The event loop's lag monitor, the task that builds the dashboard's       *)
(* snapshots (main.rs) and the handlers that serve them (api/mod.rs).       *)
(* Time is counted in periods of the builder, 5 s, and kept as ages.        *)
(***************************************************************************)
EXTENDS Integers

CONSTANTS
    LagWindow,      \* 10 s: a lag counts as current
    MonitorWindow,  \* 30 s: the connections monitor counts as open
    StaleAge        \* ages above are not told apart

VARIABLES
    lagAge,     \* since last_lag_event_epoch_ms
    pollAge,    \* since connections_monitor_last_request_ms
    dashAge,    \* of cached_dashboard
    connsAge,   \* of cached_connections
    generated,  \* cached_connections.generation # 0
    due,        \* the interval's tick has not been taken
    pc,         \* the builder: "idle" or "building"
    needs,      \* needs_connections of the build
    quiet       \* history: whole periods without a lag, a failure, a build that took
                \* longer than a period, or a gap in the requests of the monitor

vars == <<lagAge, pollAge, dashAge, connsAge, generated, due, pc, needs, quiet>>

Older(a) == IF a < StaleAge THEN a + 1 ELSE a

Init ==
    /\ lagAge = StaleAge /\ pollAge = StaleAge /\ dashAge = 0 /\ connsAge = 0
    /\ generated = FALSE /\ due = TRUE /\ pc = "idle" /\ needs = FALSE /\ quiet = 0

\* A period passes; a tick of the interval that was not taken is skipped.
Tick ==
    /\ lagAge' = Older(lagAge) /\ pollAge' = Older(pollAge)
    /\ dashAge' = Older(dashAge) /\ connsAge' = Older(connsAge)
    /\ due' = TRUE
    /\ quiet' = IF due \/ pc = "building" \/ pollAge + 1 >= MonitorWindow THEN 0 ELSE Older(quiet)
    /\ UNCHANGED <<generated, pc, needs>>

\* The lag monitor sees a delay of 50 ms or more.
Lag ==
    /\ lagAge' = 0 /\ quiet' = 0
    /\ UNCHANGED <<pollAge, dashAge, connsAge, generated, due, pc, needs>>

\* get_connections_monitor_data; get_dashboard changes nothing.
Poll ==
    /\ pollAge' = 0
    /\ UNCHANGED <<lagAge, dashAge, connsAge, generated, due, pc, needs, quiet>>

\* current_lag >= 50: the last lag was recent.
Lagging == lagAge < LagWindow

\* Mutant of NeedsConnections: only for the first snapshot.
NeedsFirst == ~generated
\* needs_connections.
NeedsConnections == ~generated \/ pollAge < MonitorWindow

\* The builder takes a tick: it skips it under lag, or when a lock it tries to read is
\* held; else a blocking thread builds the snapshots under the semaphore's permit,
\* which only this task takes.
Skip ==
    /\ due /\ pc = "idle" /\ due' = FALSE
    /\ \/ Lagging /\ UNCHANGED quiet
       \/ quiet' = 0
    /\ UNCHANGED <<lagAge, pollAge, dashAge, connsAge, generated, pc, needs>>
Build ==
    /\ due /\ pc = "idle" /\ ~Lagging
    /\ due' = FALSE /\ pc' = "building" /\ needs' = NeedsConnections
    /\ UNCHANGED <<lagAge, pollAge, dashAge, connsAge, generated, quiet>>

\* The snapshots are stored, the connections' only if they were needed.
Store ==
    /\ pc = "building" /\ pc' = "idle" /\ needs' = FALSE
    /\ dashAge' = 0
    /\ connsAge' = IF needs THEN 0 ELSE connsAge
    /\ generated' = (generated \/ needs)
    /\ UNCHANGED <<lagAge, pollAge, due, quiet>>
Fail ==
    /\ pc = "building" /\ pc' = "idle" /\ needs' = FALSE /\ quiet' = 0
    /\ UNCHANGED <<lagAge, pollAge, dashAge, connsAge, generated, due>>

Next == Tick \/ Lag \/ Poll \/ Skip \/ Build \/ Store \/ Fail
Spec == Init /\ [][Next]_vars

(***************************************************************************)
(* Properties.                                                              *)
(***************************************************************************)
\* Once the event loop has kept up for the window in which a lag counts, and the monitor
\* is open, what get_dashboard and get_connections_monitor_data serve is never more than
\* two periods old: pressure delays the snapshots but cannot stop them for good.
SnapshotsRecent == quiet > LagWindow => dashAge <= 1 /\ connsAge <= 1

(***************************************************************************)
(* What makes it inductive (DoorsProofs).                                   *)
(***************************************************************************)
\* A lag counts for at least a period, and the ages tell both windows apart.
DashboardAssumption ==
    /\ {LagWindow, MonitorWindow, StaleAge} \subseteq Nat
    /\ 0 < LagWindow /\ LagWindow < StaleAge /\ MonitorWindow <= StaleAge

AgesOK ==
    /\ lagAge \in 0..StaleAge /\ pollAge \in 0..StaleAge
    /\ dashAge \in 0..StaleAge /\ connsAge \in 0..StaleAge /\ quiet \in 0..StaleAge
FlagsOK == generated \in BOOLEAN /\ due \in BOOLEAN /\ needs \in BOOLEAN /\ pc \in {"idle", "building"}
TypeOK == AgesOK /\ FlagsOK

\* Quiet periods began after the last lag and with the monitor open, so what is built in
\* them has the connections.
QuietSince ==
    /\ quiet <= lagAge
    /\ quiet > 0 => pollAge < MonitorWindow /\ (pc = "building" => needs)

\* Of a quiet period in which no lag counts the tick can only have been taken to build.
TickTaken == quiet >= LagWindow /\ ~due /\ pc = "idle" => dashAge = 0 /\ connsAge = 0

IInv == TypeOK /\ QuietSince /\ TickTaken /\ SnapshotsRecent
=============================================================================
