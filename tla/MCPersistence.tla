--------------------------- MODULE MCPersistence ---------------------------
(* Instances of Persistence for TLC: the bounds of the single counters are *)
(* wide, and a common budget of disturbances keeps the whole small.  Of    *)
(* the starts with one client only one is taken, users being alike, and    *)
(* the second user's counters change once.                                 *)
EXTENDS Persistence, FiniteSetsExt

CONSTANTS
    MaxEvents,  \* traffic, changes, failures, refusals and crashes together
    Second      \* the second user

Events == edits + fails + refused + crashes + MapThenSumSet(LAMBDA u : usage[u] + taken[u], Users)
MCInit == Init /\ (Second \in clients => clients = Users)
MCNext == Next /\ Events' <= MaxEvents /\ usage'[Second] + taken'[Second] <= 1
MCSpec == MCInit /\ [][MCNext]_vars /\ Fairness
=============================================================================
