----------------------- MODULE MCRetentionTraversal ------------------------
(* One organization with two expired logs, pages of one row.               *)
EXTENDS RetentionTraversal

CONSTANT w1

MCOrgOf == <<1, 1>>
MCNone == <<>>
MCInitLogAt == <<0, 0>>
=============================================================================
