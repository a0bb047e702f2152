---------------------------- MODULE QuotaLedger ----------------------------
(***************************************************************************)
(* What reserveQuota promises (the comment at                              *)
(* src/src/domains/audit/audit.service.ts:29-37), with no requests, reads  *)
(* or stale values: a monthly window with one sum that grows by atomic     *)
(* grants up to a cap and starts again from zero, once, in a later window. *)
(***************************************************************************)
EXTENDS Naturals

VARIABLES
    window,   \* the month the sum belongs to
    spent,    \* units granted in that month
    cap       \* the highest quota the organization has had

ledger == <<window, spent, cap>>

Init == window \in Nat /\ cap \in Nat /\ spent \in 0 .. cap

Grant == spent' > spent /\ spent' <= cap /\ UNCHANGED <<window, cap>>

Roll == window' > window /\ spent' = 0 /\ UNCHANGED cap

Raise == cap' > cap /\ UNCHANGED <<window, spent>>

Next == Grant \/ Roll \/ Raise

Spec == Init /\ [][Next]_ledger
=============================================================================
