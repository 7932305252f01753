------------------------------ MODULE MCQuota ------------------------------
(* Small instances of Quota: a balance of a few bytes, reads of one or two *)
(* bytes and a commit every two.                                           *)
EXTENDS Quota

CONSTANT Second     \* a connection

MCInitials == {-1, 1, 2, 3}
UnlimitedOnly == {-1}

\* Two connections share a quota of two bytes that is left alone meanwhile; on any other
\* the first runs by itself, among grants, reloads and flushes.
Sharing == grants = 0 /\ granted = 2
MCNext ==
    /\ Next
    /\ IF Sharing THEN grants' = 0 /\ rated' = rated /\ saved' = saved
       ELSE relay'[Second] = "new"
MCSpec == Init /\ [][MCNext]_vars /\ Fairness

\* What the metered loops of a user delivered together is within what was granted, and the
\* user's counters are the sums of its connections'.
TotalsSound == NoOverdraft /\ UserTotalsAgree
=============================================================================
