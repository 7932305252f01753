------------------------------ MODULE WarpHealth ------------------------------
(***************************************************************************)
(* The task that probes the WARP proxy (main.rs) and the answer it gives    *)
(* the dispatcher (is_warp_allowed, state.rs).                              *)
(***************************************************************************)
EXTENDS Integers

CONSTANTS DownAfter, OpenAfter      \* 3 and 5 failed probes in a row

VARIABLES
    health,     \* warp_health: 0 unknown, 1 healthy, 2 degraded, 3 down, 4 circuit open
    failures,   \* consecutive_failures
    sleeping,   \* the task waits for its next probe
    up,         \* the proxy accepts connections
    failed      \* history: probes that failed since the last success, up to OpenAfter

vars == <<health, failures, sleeping, up, failed>>

Init == health = 0 /\ failures = 0 /\ sleeping = FALSE /\ up \in BOOLEAN /\ failed = 0

\* consecutive_failures after a failed probe: it starts again from unknown or healthy and
\* is left alone while the circuit is open.
Failures == CASE health \in {0, 1} -> 1 [] health \in {2, 3} -> failures + 1 [] OTHER -> failures

\* The state after the n-th failure.
After(n) ==
    CASE health \in {0, 1} -> 2
      [] health = 2 -> IF n >= DownAfter THEN 3 ELSE 2
      [] health = 3 -> IF n >= OpenAfter THEN 4 ELSE 3
      [] OTHER -> 4

\* A connection to the proxy within 2 s, or not; a slow proxy counts as one that is down.
ProbeSucceeds ==
    /\ ~sleeping /\ up
    /\ health' = 1 /\ failures' = 0 /\ failed' = 0 /\ sleeping' = TRUE /\ UNCHANGED up
ProbeFails ==
    /\ ~sleeping /\ ~up
    /\ failures' = Failures /\ health' = After(Failures)
    /\ failed' = IF failed < OpenAfter THEN failed + 1 ELSE failed
    /\ sleeping' = TRUE /\ UNCHANGED up

\* Mutant of Wakes: an open circuit is not probed again.
WakesUnlessOpen == sleeping /\ health # 4
\* The task sleeps 10 s, or 30 s while the circuit is open.
Wakes == sleeping
Wake == Wakes /\ sleeping' = FALSE /\ UNCHANGED <<health, failures, up, failed>>

\* The proxy comes and goes.
Change == up' = ~up /\ UNCHANGED <<health, failures, sleeping, failed>>

Next == ProbeSucceeds \/ ProbeFails \/ Wake \/ Change
\* The task never ends and its sleeps do.
Progress == ProbeSucceeds \/ ProbeFails \/ Wake
Fairness == WF_vars(Progress)
Spec == Init /\ [][Next]_vars /\ Fairness

\* is_warp_allowed.
Allowed == health # 3 /\ health # 4

(***************************************************************************)
(* Properties.                                                              *)
(***************************************************************************)
\* Traffic is kept off the proxy exactly while its last DownAfter probes failed, through
\* any history of recoveries: the state machine agrees with the count it stands for.
CutExactlyWhenDown ==
    /\ Allowed = (failed < DownAfter)
    /\ (health = 4) = (failed >= OpenAfter)

\* A proxy that is up again and stays up is used again, from an open circuit too.
UsedAgain == (<>[]up) => <>[]Allowed
=============================================================================
