---------------------------- MODULE MCAdminAuth ----------------------------
(* Instances of AdminAuth for TLC.                                         *)
EXTENDS AdminAuth, TLC

\* Requests, addresses and passwords are interchangeable.
Symmetry == Permutations(Tasks) \cup Permutations(Addrs) \cup Permutations(Passwords)
=============================================================================
