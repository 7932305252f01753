---------------------------- MODULE QuotaLedger ----------------------------
(***************************************************************************)
(* What a user's quota promises: an account that is unlimited until the    *)
(* first grant, to which every grant is added and from which nobody takes  *)
(* more than is there.                                                     *)
(***************************************************************************)
EXTENDS Integers

CONSTANT Grants  \* the amounts that may be granted

VARIABLES balance, granted, spent

ledgerVars == <<balance, granted, spent>>

Limited == balance # -1

Init ==
    /\ balance \in Nat \cup {-1}
    /\ granted = IF Limited THEN balance ELSE 0
    /\ spent = 0

Grant(a) ==
    /\ balance' = IF Limited THEN balance + a ELSE a
    /\ granted' = granted + a
    /\ UNCHANGED spent

Withdraw(k) ==
    /\ Limited
    /\ k <= balance
    /\ balance' = balance - k
    /\ spent' = spent + k
    /\ UNCHANGED granted

Next == \/ \E a \in Grants : Grant(a)
        \/ \E k \in 1..balance : Withdraw(k)

Spec == Init /\ [][Next]_ledgerVars
=============================================================================
