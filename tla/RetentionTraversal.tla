------------------------- MODULE RetentionTraversal ------------------------
(***************************************************************************)
(* A full dry-run traversal as docs/operations.md:76 asks for it before a  *)
(* restored database is used: dry runs are repeated through their          *)
(* `limited` results until one completes.  The history variable counted    *)
(* collects the audit logs reported as candidates since the traversal      *)
(* began, that is since a dry run was given no cursor.                     *)
(***************************************************************************)
EXTENDS Retention

VARIABLE counted

TraversalInit == Init /\ counted = {}

\* The candidates a batch reports in candidateAuditLogs.
Counting ==
    counted' =
        CASE \E r \in Runs : Claim(r) /\ pc'[r] = "begin" /\ prog'[r].orgCursor = NoId -> {}
          [] \E r \in Runs : Commit(r) -> counted \cup UNION {tx[r].logs : r \in Runs}
          [] OTHER -> counted

TraversalNext ==
    /\ \E r \in Runs : Step(r) \/ Start(r, "dry")
    /\ Counting

TraversalSpec == TraversalInit /\ [][TraversalNext]_<<vars, counted>>

\* When the dry run that ends a traversal reports `completed`, every log that was
\* expired all along (nothing else happens here) was counted by one of its batches.
FullTraversal ==
    [][\A r \in Runs :
        pc[r] = "release" /\ pc'[r] = "idle" /\ run[r].status = "completed" =>
            \A l \in Logs : Overdue(l) => l \in counted]_<<vars, counted>>
=============================================================================
