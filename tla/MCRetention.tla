---------------------------- MODULE MCRetention ----------------------------
(* Small instances of Retention for TLC.                                   *)
EXTENDS Retention, TLC

CONSTANTS w1, w2

\* Two organizations; the first has two logs with an alert each, the alert with the
\* smaller id for the second log (ids are random), and an alert without a log, as of
\* a failed payment.
MCOrgOf == <<1, 1, 2>>
MCAlertOrg == <<1, 1, 1>>
MCAlertLog == <<2, 1, NoId>>
MCInitLogAt == <<0, 0, 0>>

\* The same rows and a log of the second organization that is created later.
MCOrgOf2 == <<1, 1, 2, 2>>
MCInitLogAt2 == <<0, 0, 0, NotYet>>

MCOrgOf1 == <<1>>
MCInitLogAt1 == <<0>>
MCNone == <<>>

Workers == Permutations({w1, w2})
=============================================================================
