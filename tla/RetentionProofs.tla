-------------------------- MODULE RetentionProofs --------------------------
(***************************************************************************)
(* Theorems about Retention, for every set of rows, workers and periods    *)
(* and every value of the limits.                                          *)
(***************************************************************************)
EXTENDS Retention, FiniteSetTheorems, TLAPS

\* The cursor after a page of rows is a row id or the cursor before it.
LEMMA LastIdType ==
    ASSUME NEW Ids, NEW S \in SUBSET Ids, NEW cursor \in Ids
    PROVE  LastId(S, cursor) \in Ids
<1>1. CASE \E x \in S : IsLast(x, S)
  <2>1. (CHOOSE x \in S : IsLast(x, S)) \in S
    BY <1>1
  <2> QED
    BY <1>1, <2>1 DEF LastId
<1>2. CASE ~\E x \in S : IsLast(x, S)
  BY <1>2 DEF LastId
<1> QED
  BY <1>1, <1>2

\* Leaving the loop keeps the locals well typed.
LEMMA StopType ==
    ASSUME TypeOK, NEW r \in Runs, NEW status \in Statuses, Stop(r, status)
    PROVE  /\ pc' \in [Runs -> Labels]
           /\ run' \in [Runs -> RunType]
           /\ tx' \in [Runs -> TxType]
<1>1. NoTx \in TxType
  BY DEF NoTx, TxType, OrgIds
<1>2. pc' \in [Runs -> Labels]
  BY DEF TypeOK, Stop, Labels
<1>3. run' \in [Runs -> RunType]
  <2>1. FinalStatus(r, status) \in Statuses
    BY DEF FinalStatus, Statuses
  <2> QED
    BY <2>1 DEF TypeOK, Stop, RunType
<1>4. tx' \in [Runs -> TxType]
  BY <1>1 DEF TypeOK, Stop
<1> QED
  BY <1>2, <1>3, <1>4

\* Ending a run keeps the locals well typed.
LEMMA IdleType ==
    ASSUME TypeOK, NEW r \in Runs, ToIdle(r)
    PROVE  /\ pc' \in [Runs -> Labels]
           /\ run' \in [Runs -> RunType]
           /\ prog' \in [Runs -> ProgressType]
           /\ tx' \in [Runs -> TxType]
<1>1. NoTx \in TxType /\ NoProgress \in ProgressType /\ NoRunState \in RunType
  BY DEF NoTx, TxType, OrgIds, LogIds, AlertIds, NoProgress, ProgressType,
         NoRunState, RunType, Modes, Statuses
<1> QED
  BY <1>1 DEF TypeOK, ToIdle, Labels

\* Each local of a transaction may be assigned a value of its type.
LEMMA TxFields ==
    ASSUME TypeOK, NEW r \in Runs, NEW t \in TxType, tx' = [tx EXCEPT ![r] = t]
    PROVE  tx' \in [Runs -> TxType]
BY DEF TypeOK

LEMMA TxUpdate ==
    ASSUME NEW t \in TxType
    PROVE  /\ \A s \in Nat : [t EXCEPT !.start = s] \in TxType
           /\ \A o \in OrgIds : [t EXCEPT !.org = o] \in TxType
           /\ \A c \in Int : [t EXCEPT !.cutoff = c] \in TxType
           /\ \A S \in SUBSET Alerts : /\ [t EXCEPT !.alerts = S] \in TxType
                                       /\ [t EXCEPT !.delAlerts = S] \in TxType
           /\ \A S \in SUBSET Logs : /\ [t EXCEPT !.logs = S] \in TxType
                                     /\ [t EXCEPT !.delLogs = S] \in TxType
           /\ \A b \in BOOLEAN : [t EXCEPT !.finished = b] \in TxType
BY DEF TxType

\* Renewing the lease and applying a batch keep the database well typed.
LEMMA RenewedType ==
    ASSUME TypeOK, NEW r \in Runs
    PROVE  Renewed(r) \in [owner : Runs \cup {NoRun}, expires : Nat, enabled : BOOLEAN,
                           cursor : [Modes -> OrgIds]]
<1>1. tx[r].start + LeaseTerm \in Nat
  BY NumberAssumption DEF TypeOK, TxType
<1> QED
  BY <1>1 DEF TypeOK, Renewed

LEMMA ApplyType ==
    ASSUME TypeOK, NEW r \in Runs, Apply(r)
    PROVE  /\ job' \in [owner : Runs \cup {NoRun}, expires : Nat, enabled : BOOLEAN,
                        cursor : [Modes -> OrgIds]]
           /\ logAt' \in [Logs -> Row]
           /\ alert' \in [Alerts -> [at : Row, log : LogIds]]
           /\ late' \in Nat
<1>1. logAt' \in [Logs -> Row]
  BY DEF TypeOK, Apply, Row
<1>2. alert' \in [Alerts -> [at : Row, log : LogIds]]
  BY DEF TypeOK, Apply, AfterErase, Row, LogIds
<1>3. late' \in Nat
  BY DEF TypeOK, Apply
<1> QED
  BY <1>1, <1>2, <1>3, RenewedType DEF Apply

\* Every step of Retention keeps the type invariant.
LEMMA TypeStep == TypeOK /\ [Next]_vars => TypeOK'
<1> SUFFICES ASSUME TypeOK, [Next]_vars PROVE TypeOK'
  OBVIOUS
<1> USE DEF data
<1>1. ASSUME NEW r \in Runs, NEW m \in Modes, Start(r, m) PROVE TypeOK'
  <2>1. [NoRunState EXCEPT !.mode = m, !.asOf = now] \in RunType
    BY DEF TypeOK, NoRunState, RunType, Statuses
  <2> QED
    BY <1>1, <2>1 DEF TypeOK, Start, Labels
<1>2. ASSUME NEW r \in Runs, Claim(r) PROVE TypeOK'
  <2>1. CASE LeaseFree
    <3>1. now + LeaseTerm \in Nat
      BY NumberAssumption DEF TypeOK
    <3>2. job.cursor[run[r].mode] \in OrgIds
      BY DEF TypeOK, RunType
    <3>3. job' \in [owner : Runs \cup {NoRun}, expires : Nat, enabled : BOOLEAN,
                    cursor : [Modes -> OrgIds]]
      BY <1>2, <2>1, <3>1 DEF Claim, TypeOK
    <3>4. prog' \in [Runs -> ProgressType]
      BY <1>2, <2>1, <3>2 DEF Claim, TypeOK, ProgressType
    <3> QED
      BY <1>2, <2>1, <3>3, <3>4 DEF Claim, TypeOK, Labels
  <2>2. CASE ~LeaseFree
    BY <1>2, <2>2, IdleType DEF Claim, TypeOK
  <2> QED
    BY <2>1, <2>2
<1>3. ASSUME NEW r \in Runs, BeginBatch(r) PROVE TypeOK'
  <2>1. CASE \E status \in Statuses : Stop(r, status)
    BY <1>3, <2>1, StopType DEF BeginBatch, TypeOK
  <2>2. CASE pc' = [pc EXCEPT ![r] = "lockJob"] /\ tx' = [tx EXCEPT ![r].start = now]
             /\ UNCHANGED run
    <3>1. tx' \in [Runs -> TxType]
      BY <2>2, TxUpdate DEF TypeOK
    <3> QED
      BY <1>3, <2>2, <3>1 DEF BeginBatch, TypeOK, Labels, InTx
  <2> QED
    BY <1>3, <2>1, <2>2 DEF BeginBatch, Statuses
<1>4. ASSUME NEW r \in Runs, LockJob(r) PROVE TypeOK'
  <2>1. CASE \E status \in Statuses : Stop(r, status)
    BY <1>4, <2>1, StopType DEF LockJob, TypeOK
  <2>2. CASE Goto(r, "chooseOrg") /\ UNCHANGED <<run, tx>>
    BY <1>4, <2>2 DEF LockJob, TypeOK, Goto, Labels, InTx, JobHeld
  <2> QED
    BY <1>4, <2>1, <2>2 DEF LockJob, Statuses
<1>5. ASSUME NEW r \in Runs, ChooseOrg(r) PROVE TypeOK'
  <2>1. CASE Stop(r, "completed") /\ job' = Renewed(r)
    BY <1>5, <2>1, StopType, RenewedType DEF ChooseOrg, TypeOK, Statuses
  <2>2. CASE \E o \in OrgIds : tx' = [tx EXCEPT ![r].org = o] /\ Goto(r, "lockOrg")
             /\ UNCHANGED <<run, job>>
    <3>1. tx' \in [Runs -> TxType]
      BY <2>2, TxUpdate DEF TypeOK
    <3> QED
      BY <1>5, <2>2, <3>1 DEF ChooseOrg, TypeOK, Goto, Labels, InTx, JobHeld
  <2>3. \A o : o \in (IF prog[r].org = NoId THEN FirstIds(NextOrgs(r), 1) ELSE {prog[r].org})
               => o \in OrgIds
    BY DEF FirstIds, NextOrgs, OrgIds, TypeOK, ProgressType
  <2> QED
    BY <1>5, <2>1, <2>2, <2>3 DEF ChooseOrg
<1>6. ASSUME NEW r \in Runs, LockOrg(r) PROVE TypeOK'
  <2>1. tx' \in [Runs -> TxType]
    <3>1. CASE retention[tx[r].org] \in Periods
      <4>1. retentionCutoff(retention[tx[r].org], run[r].asOf) \in Int
        <5>1. retention[tx[r].org] \in Nat /\ run[r].asOf \in Nat
          BY <3>1, NumberAssumption DEF TypeOK, RunType
        <5> QED
          BY <5>1 DEF retentionCutoff
      <4> QED
        BY <1>6, <3>1, <4>1, TxUpdate DEF LockOrg, TypeOK
    <3>2. CASE retention[tx[r].org] \notin Periods
      BY <1>6, <3>2 DEF LockOrg, TypeOK
    <3> QED
      BY <3>1, <3>2
  <2> QED
    BY <1>6, <2>1 DEF LockOrg, TypeOK, Goto, Labels, InTx, JobHeld
<1>7. ASSUME NEW r \in Runs, FindAlerts(r) PROVE TypeOK'
  <2>1. FirstIds({a \in expiredAlertFilter(tx[r].org, tx[r].cutoff) :
                    a > prog[r].alertCursor}, BatchSize) \in SUBSET Alerts
    BY DEF FirstIds, expiredAlertFilter
  <2>2. tx' \in [Runs -> TxType]
    BY <1>7, <2>1, TxUpdate DEF FindAlerts, TypeOK
  <2> QED
    BY <1>7, <2>2 DEF FindAlerts, TypeOK, Goto, Labels, InTx, JobHeld
<1>8. ASSUME NEW r \in Runs, DeleteAlerts(r) PROVE TypeOK'
  <2>1. CASE Stop(r, "disabled") /\ job' = Renewed(r)
    BY <1>8, <2>1, StopType, RenewedType DEF DeleteAlerts, TypeOK, Statuses
  <2>2. CASE deletionAllowed(r) /\ UNCHANGED job
    <3>1. AlertsToDelete(r) \in SUBSET Alerts
      BY DEF AlertsToDelete, expiredAlertFilter
    <3>2. tx' = [tx EXCEPT ![r].delAlerts = AlertsToDelete(r)]
      BY <1>8, <2>2 DEF DeleteAlerts
    <3>3. [tx[r] EXCEPT !.delAlerts = AlertsToDelete(r)] \in TxType
      BY <3>1, TxUpdate DEF TypeOK
    <3>4. tx' \in [Runs -> TxType]
      BY <3>2, <3>3, TxFields
    <3> QED
      BY <1>8, <2>2, <3>4 DEF DeleteAlerts, TypeOK, Goto, Labels, InTx, JobHeld
  <2> QED
    BY <1>8, <2>1, <2>2 DEF DeleteAlerts
<1>9. ASSUME NEW r \in Runs, FindLogs(r) PROVE TypeOK'
  <2>1. FirstIds({l \in LogWhere(r) : l > prog[r].logCursor},
                 Remaining(r)) \in SUBSET Logs
    BY DEF FirstIds, LogWhere, ExpiredLogs
  <2>2. tx' \in [Runs -> TxType]
    BY <1>9, <2>1, TxUpdate DEF FindLogs, TypeOK
  <2> QED
    BY <1>9, <2>2 DEF FindLogs, TypeOK, Goto, Labels, InTx, JobHeld
<1>10. ASSUME NEW r \in Runs, LockLogs(r) PROVE TypeOK'
  BY <1>10 DEF LockLogs, TypeOK, Goto, Labels, InTx, JobHeld
<1>11. ASSUME NEW r \in Runs, DeleteLogs(r) PROVE TypeOK'
  <2>1. CASE Stop(r, "disabled")
    BY <1>11, <2>1, StopType DEF DeleteLogs, TypeOK, Statuses
  <2>2. CASE ~Stop(r, "disabled")
    <3>1. LogsToDelete(r) \in SUBSET Logs
      BY DEF LogsToDelete, LogWhere, ExpiredLogs
    <3>2. tx' = [tx EXCEPT ![r].delLogs = LogsToDelete(r)]
      BY <1>11, <2>2 DEF DeleteLogs
    <3>3. [tx[r] EXCEPT !.delLogs = LogsToDelete(r)] \in TxType
      BY <3>1, TxUpdate DEF TypeOK
    <3>4. tx' \in [Runs -> TxType]
      BY <3>2, <3>3, TxFields
    <3> QED
      BY <1>11, <2>2, <3>4 DEF DeleteLogs, TypeOK, Goto, Labels, InTx, JobHeld
  <2> QED
    BY <2>1, <2>2
<1>12. ASSUME NEW r \in Runs, Recheck(r) PROVE TypeOK'
  <2>1. CASE Stop(r, "disabled")
    BY <1>12, <2>1, StopType DEF Recheck, TypeOK, Statuses
  <2>2. CASE ~Stop(r, "disabled")
    <3>1. PageNotFull(r) \in BOOLEAN
      BY DEF PageNotFull
    <3>2. tx' \in [Runs -> TxType]
      BY <1>12, <2>2, <3>1, TxUpdate DEF Recheck, TypeOK
    <3> QED
      BY <1>12, <2>2, <3>2 DEF Recheck, TypeOK, Goto, Labels, InTx, JobHeld
  <2> QED
    BY <2>1, <2>2
<1>13. ASSUME NEW r \in Runs, Commit(r) PROVE TypeOK'
  <2>1. NextProgress(r) \in ProgressType
    <3>1. NoProgress \in ProgressType
      BY DEF NoProgress, ProgressType, OrgIds, AlertIds, LogIds
    <3>2. LastId(tx[r].alerts, prog[r].alertCursor) \in AlertIds
      BY LastIdType DEF TypeOK, TxType, ProgressType, AlertIds
    <3>3. LastId(tx[r].logs, prog[r].logCursor) \in LogIds
      BY LastIdType DEF TypeOK, TxType, ProgressType, LogIds
    <3> QED
      BY <3>1, <3>2, <3>3 DEF NextProgress, TypeOK, TxType, ProgressType
  <2>2. prog' \in [Runs -> ProgressType]
    BY <1>13, <2>1 DEF Commit, TypeOK
  <2>3. NoTx \in TxType
    BY DEF NoTx, TxType, OrgIds
  <2>4. tx' \in [Runs -> TxType]
    BY <1>13, <2>3 DEF Commit, TypeOK
  <2>5. run' \in [Runs -> RunType]
    <3>1. run[r] \in RunType
      BY DEF TypeOK
    <3>2. \A n \in Nat : [run[r] EXCEPT !.batches = n, !.attempt = 1] \in RunType
      BY <3>1 DEF RunType
    <3>3. run[r].batches + 1 \in Nat
      BY <3>1 DEF RunType
    <3> QED
      BY <1>13, <3>2, <3>3 DEF Commit, TypeOK
  <2> QED
    BY <1>13, <2>2, <2>4, <2>5, ApplyType DEF Commit, TypeOK, Goto, Labels, Apply
<1>14. ASSUME NEW r \in Runs, CommitLost(r) PROVE TypeOK'
  BY <1>14, StopType, ApplyType DEF CommitLost, Apply, TypeOK, Statuses
<1>15. ASSUME NEW r \in Runs, TxError(r) PROVE TypeOK'
  <2>1. CASE Stop(r, "failed")
    BY <1>15, <2>1, StopType DEF TxError, TypeOK, Statuses
  <2>2. CASE ~Stop(r, "failed")
    <3>1. NoTx \in TxType
      BY DEF NoTx, TxType, OrgIds
    <3>2. tx' \in [Runs -> TxType]
      BY <1>15, <2>2, <3>1 DEF TxError, TypeOK
    <3>3. run' \in [Runs -> RunType]
      BY <1>15, <2>2 DEF TxError, TypeOK, RunType
    <3> QED
      BY <1>15, <2>2, <3>2, <3>3 DEF TxError, TypeOK, Goto, Labels
  <2> QED
    BY <2>1, <2>2
<1>16. ASSUME NEW r \in Runs, TxExpire(r) PROVE TypeOK'
  BY <1>16, StopType DEF TxExpire, TypeOK, Statuses
<1>17. ASSUME NEW r \in Runs, Release(r) PROVE TypeOK'
  <2>1. ReleasedCursor(r) \in OrgIds
    BY DEF ReleasedCursor, TypeOK, ProgressType, OrgIds
  <2>2. job' \in [owner : Runs \cup {NoRun}, expires : Nat, enabled : BOOLEAN,
                  cursor : [Modes -> OrgIds]]
    BY <1>17, <2>1 DEF Release, Released, TypeOK
  <2> QED
    BY <1>17, <2>2, IdleType DEF Release, TypeOK
<1>18. ASSUME NEW r \in Runs, Crash(r) PROVE TypeOK'
  BY <1>18, IdleType DEF Crash, TypeOK
<1>19. ASSUME NEW b \in BOOLEAN, SetEnv(b) \/ SetEnabled(b) PROVE TypeOK'
  BY <1>19 DEF SetEnv, SetEnabled, Change, TypeOK
<1>20. ASSUME NEW o \in Orgs, NEW v \in Periods \cup {Off}, updateRetention(o, v) PROVE TypeOK'
  BY <1>20 DEF updateRetention, Change, TypeOK
<1>21. ASSUME NEW o \in Orgs, deleteOrganization(o) PROVE TypeOK'
  BY <1>21 DEF deleteOrganization, Change, TypeOK, Row, LogIds
<1>22. ASSUME NEW l \in Logs, CreateLog(l) PROVE TypeOK'
  BY <1>22 DEF CreateLog, TypeOK, Row
<1>23. ASSUME NEW a \in Alerts, CreateAlert(a) PROVE TypeOK'
  BY <1>23, IdAssumption DEF CreateAlert, TypeOK, Row, LogIds
<1>24. ASSUME Tick PROVE TypeOK'
  BY <1>24 DEF Tick, TypeOK
<1>25. ASSUME UNCHANGED vars PROVE TypeOK'
  BY <1>25 DEF vars, TypeOK
<1> QED
  BY <1>1, <1>2, <1>3, <1>4, <1>5, <1>6, <1>7, <1>8, <1>9, <1>10, <1>11, <1>12,
     <1>13, <1>14, <1>15, <1>16, <1>17, <1>18, <1>19, <1>20, <1>21, <1>22, <1>23,
     <1>24, <1>25 DEF Next, Step, Fault

\* No step breaks the guard of the job row.
LEMMA LeaseGuardStep ==
    ASSUME TypeOK, LeaseGuard, [Next]_vars
    PROVE  LeaseGuard'
<1> USE DEF data, TypeOK, RunType, LeaseGuard, HoldsJob, JobFree, JobHeld
<1>1. ASSUME NEW r \in Runs, NEW m \in Modes, Start(r, m) PROVE LeaseGuard'
  BY <1>1 DEF Start, NoRunState
<1>2. ASSUME NEW r \in Runs, Claim(r) PROVE LeaseGuard'
  BY <1>2 DEF Claim, LeaseFree, ToIdle
<1>3. ASSUME NEW r \in Runs, BeginBatch(r) PROVE LeaseGuard'
  BY <1>3 DEF BeginBatch, Stop
<1>4. ASSUME NEW r \in Runs, LockJob(r) PROVE LeaseGuard'
  BY <1>4 DEF LockJob, Stop, Goto, At, LeaseValid, SwitchesAllow, JobFree
<1>5. ASSUME NEW r \in Runs, ChooseOrg(r) PROVE LeaseGuard'
  BY <1>5 DEF ChooseOrg, Stop, Goto, At, Renewed
<1>6. ASSUME NEW r \in Runs, LockOrg(r) PROVE LeaseGuard'
  BY <1>6 DEF LockOrg, Goto, At
<1>7. ASSUME NEW r \in Runs, FindAlerts(r) PROVE LeaseGuard'
  BY <1>7 DEF FindAlerts, Goto, At
<1>8. ASSUME NEW r \in Runs, DeleteAlerts(r) PROVE LeaseGuard'
  BY <1>8 DEF DeleteAlerts, Stop, Goto, At, Renewed
<1>9. ASSUME NEW r \in Runs, FindLogs(r) PROVE LeaseGuard'
  BY <1>9 DEF FindLogs, Goto, At
<1>10. ASSUME NEW r \in Runs, LockLogs(r) PROVE LeaseGuard'
  BY <1>10 DEF LockLogs, Goto, At
<1>11. ASSUME NEW r \in Runs, DeleteLogs(r) PROVE LeaseGuard'
  BY <1>11 DEF DeleteLogs, Stop, Goto, At
<1>12. ASSUME NEW r \in Runs, Recheck(r) PROVE LeaseGuard'
  BY <1>12 DEF Recheck, Stop, Goto, At
<1>13. ASSUME NEW r \in Runs, Commit(r) PROVE LeaseGuard'
  BY <1>13 DEF Commit, Apply, Goto, At, Renewed
<1>14. ASSUME NEW r \in Runs, CommitLost(r) PROVE LeaseGuard'
  BY <1>14 DEF CommitLost, Apply, Stop, At, Renewed
<1>15. ASSUME NEW r \in Runs, TxError(r) PROVE LeaseGuard'
  BY <1>15 DEF TxError, Stop, Goto
<1>16. ASSUME NEW r \in Runs, TxExpire(r) PROVE LeaseGuard'
  BY <1>16 DEF TxExpire, Stop
<1>17. ASSUME NEW r \in Runs, Release(r) PROVE LeaseGuard'
  BY <1>17 DEF Release, Released, ToIdle
<1>18. ASSUME NEW r \in Runs, Crash(r) PROVE LeaseGuard'
  BY <1>18 DEF Crash, ToIdle
<1>19. ASSUME NEW b \in BOOLEAN, SetEnv(b) PROVE LeaseGuard'
  BY <1>19 DEF SetEnv
<1>20. ASSUME NEW b \in BOOLEAN, SetEnabled(b) PROVE LeaseGuard'
  BY <1>20 DEF SetEnabled
<1>21. ASSUME NEW o \in Orgs, NEW v \in Periods \cup {Off}, updateRetention(o, v) PROVE LeaseGuard'
  BY <1>21 DEF updateRetention
<1>22. ASSUME NEW o \in Orgs, deleteOrganization(o) PROVE LeaseGuard'
  BY <1>22 DEF deleteOrganization
<1>23. ASSUME NEW l \in Logs, CreateLog(l) PROVE LeaseGuard'
  BY <1>23 DEF CreateLog
<1>24. ASSUME NEW a \in Alerts, CreateAlert(a) PROVE LeaseGuard'
  BY <1>24 DEF CreateAlert
<1>25. ASSUME Tick PROVE LeaseGuard'
  BY <1>25 DEF Tick
<1>26. ASSUME UNCHANGED vars PROVE LeaseGuard'
  BY <1>26 DEF vars
<1> QED
  BY <1>1, <1>2, <1>3, <1>4, <1>5, <1>6, <1>7, <1>8, <1>9, <1>10, <1>11, <1>12, <1>13, <1>14, <1>15, <1>16, <1>17, <1>18, <1>19, <1>20, <1>21, <1>22, <1>23, <1>24, <1>25, <1>26 DEF Next, Step, Fault

\* A step of one run that leaves the tables alone can only disturb its own batch.
LEMMA PendingLocal ==
    ASSUME PendingGuard, NEW r \in Runs, UNCHANGED <<now, data>>, PendingOf(r)',
           \A s \in Runs \ {r} : pc'[s] = pc[s] /\ run'[s] = run[s] /\ tx'[s] = tx[s]
    PROVE  PendingGuard'
<1>1. ASSUME NEW s \in Runs \ {r} PROVE PendingOf(s)'
  <2>1. PendingOf(s)
    BY DEF PendingGuard
  <2> QED
    BY <2>1 DEF PendingOf, data, expiredAlertFilter, ExpiredLogs
<1> QED
  BY <1>1 DEF PendingGuard

\* Without a transaction nothing is pending.
LEMMA NoTxPending ==
    ASSUME NEW r \in Runs, tx'[r] = NoTx, run'[r].asOf <= now',
           pc'[r] \notin OrgHeld
    PROVE  PendingOf(r)'
BY DEF PendingOf, NoTx

LEMMA StopPending ==
    ASSUME TypeOK, PendingGuard, NEW r \in Runs, NEW status \in Statuses, Stop(r, status),
           UNCHANGED <<now, data>>
    PROVE  PendingGuard'
<1>1. run[r].asOf <= now
  BY DEF PendingGuard, PendingOf
<1>2. tx'[r] = NoTx /\ run'[r].asOf = run[r].asOf /\ pc'[r] = "release"
  BY DEF Stop, TypeOK, RunType
<1>3. PendingOf(r)'
  BY <1>1, <1>2, NoTxPending DEF OrgHeld, JobHeld
<1> QED
  BY <1>3, PendingLocal DEF Stop, TypeOK

LEMMA IdlePending ==
    ASSUME TypeOK, PendingGuard, NEW r \in Runs, ToIdle(r), UNCHANGED <<now, data>>
    PROVE  PendingGuard'
<1>1. tx'[r] = NoTx /\ run'[r].asOf = 0 /\ pc'[r] = "idle"
  BY DEF ToIdle, TypeOK, NoRunState
<1>2. PendingOf(r)'
  BY <1>1, NoTxPending DEF OrgHeld, JobHeld, TypeOK
<1> QED
  BY <1>2, PendingLocal DEF ToIdle, TypeOK

\* No step makes a pending deletion stale.
LEMMA PendingStep ==
    ASSUME TypeOK, LeaseGuard, PendingGuard, [Next]_vars
    PROVE  PendingGuard'
<1> USE DEF data
<1>0. ASSUME NEW r \in Runs PROVE PendingOf(r)
  BY DEF PendingGuard
<1>1. ASSUME NEW r \in Runs, NEW m \in Modes, Start(r, m) PROVE PendingGuard'
  <2>1. PendingOf(r)'
    BY <1>0, <1>1 DEF Start, NoRunState, PendingOf, TypeOK, RunType, OrgHeld, JobHeld
  <2> QED
    BY <1>1, <2>1, PendingLocal DEF Start, TypeOK
<1>2. ASSUME NEW r \in Runs, Claim(r) PROVE PendingGuard'
  <2>1. CASE ToIdle(r)
    BY <1>2, <2>1, IdlePending DEF Claim
  <2>2. CASE pc' = [pc EXCEPT ![r] = "begin"] /\ UNCHANGED <<run, tx>>
    <3>1. PendingOf(r)'
      BY <1>0, <1>2, <2>2 DEF Claim, PendingOf, TypeOK, OrgHeld, JobHeld,
         expiredAlertFilter, ExpiredLogs
    <3> QED
      BY <1>2, <2>2, <3>1, PendingLocal DEF Claim, TypeOK
  <2> QED
    BY <1>2, <2>1, <2>2 DEF Claim
<1>3. ASSUME NEW r \in Runs, BeginBatch(r) PROVE PendingGuard'
  <2>1. CASE \E status \in Statuses : Stop(r, status)
    BY <1>3, <2>1, StopPending DEF BeginBatch
  <2>2. CASE pc' = [pc EXCEPT ![r] = "lockJob"] /\ tx' = [tx EXCEPT ![r].start = now]
             /\ UNCHANGED run
    <3>1. tx[r].delAlerts = {} /\ tx[r].delLogs = {}
      BY <1>0, <1>3 DEF BeginBatch, PendingOf, OrgHeld, JobHeld
    <3>2. tx'[r].delAlerts = {} /\ tx'[r].delLogs = {}
      BY <2>2, <3>1 DEF TypeOK, TxType
    <3>3. PendingOf(r)'
      BY <1>0, <1>3, <2>2, <3>2 DEF BeginBatch, PendingOf, TypeOK, OrgHeld, JobHeld
    <3> QED
      BY <1>3, <2>2, <3>3, PendingLocal DEF BeginBatch, TypeOK
  <2> QED
    BY <1>3, <2>1, <2>2 DEF BeginBatch, Statuses
<1>4. ASSUME NEW r \in Runs, LockJob(r) PROVE PendingGuard'
  <2>1. CASE \E status \in Statuses : Stop(r, status)
    BY <1>4, <2>1, StopPending DEF LockJob
  <2>2. CASE Goto(r, "chooseOrg") /\ UNCHANGED <<run, tx>>
    <3>1. PendingOf(r)'
      BY <1>0, <1>4, <2>2 DEF LockJob, At, Goto, PendingOf, TypeOK, OrgHeld, JobHeld,
         expiredAlertFilter, ExpiredLogs
    <3> QED
      BY <1>4, <2>2, <3>1, PendingLocal DEF LockJob, Goto, TypeOK
  <2> QED
    BY <1>4, <2>1, <2>2 DEF LockJob, Statuses
<1>5. ASSUME NEW r \in Runs, ChooseOrg(r) PROVE PendingGuard'
  <2>1. CASE Stop(r, "completed")
    BY <1>5, <2>1, StopPending DEF ChooseOrg, Statuses
  <2>2. CASE \E o : tx' = [tx EXCEPT ![r].org = o] /\ Goto(r, "lockOrg") /\ UNCHANGED run
    <3>1. tx[r].delAlerts = {} /\ tx[r].delLogs = {}
      BY <1>0, <1>5 DEF ChooseOrg, At, PendingOf, OrgHeld, JobHeld
    <3>2. tx'[r].delAlerts = {} /\ tx'[r].delLogs = {}
      BY <2>2, <3>1 DEF TypeOK, TxType
    <3>3. PendingOf(r)'
      BY <1>0, <1>5, <2>2, <3>2 DEF ChooseOrg, Goto, PendingOf, TypeOK, OrgHeld, JobHeld
    <3> QED
      BY <1>5, <2>2, <3>3, PendingLocal DEF ChooseOrg, Goto, TypeOK
  <2> QED
    BY <1>5, <2>1, <2>2 DEF ChooseOrg
<1>6. ASSUME NEW r \in Runs, LockOrg(r) PROVE PendingGuard'
  <2>1. tx[r].delAlerts = {} /\ tx[r].delLogs = {}
    BY <1>0, <1>6 DEF LockOrg, At, PendingOf, OrgHeld, JobHeld
  <2>2. CASE retention[tx[r].org] \in Periods
    <3>1. /\ tx'[r].delAlerts = {} /\ tx'[r].delLogs = {} /\ tx'[r].org = tx[r].org
          /\ tx'[r].cutoff = retentionCutoff(retention[tx[r].org], run[r].asOf)
      <4>1. tx' = [tx EXCEPT ![r].cutoff = retentionCutoff(retention[tx[r].org], run[r].asOf)]
        BY <1>6, <2>2 DEF LockOrg
      <4>2. tx[r] \in TxType
        BY DEF TypeOK
      <4>3. tx'[r] = [tx[r] EXCEPT !.cutoff = retentionCutoff(retention[tx[r].org], run[r].asOf)]
        BY <4>1 DEF TypeOK
      <4> QED
        BY <2>1, <4>2, <4>3 DEF TxType
    <3>2. PendingOf(r)'
      BY <1>0, <1>6, <2>2, <3>1 DEF LockOrg, Goto, PendingOf, TypeOK, OrgHeld, JobHeld
    <3> QED
      BY <1>6, <2>2, <3>2, PendingLocal DEF LockOrg, Goto, TypeOK
  <2>3. CASE retention[tx[r].org] \notin Periods
    <3>1. PendingOf(r)'
      BY <1>0, <1>6, <2>1, <2>3 DEF LockOrg, Goto, PendingOf, TypeOK, OrgHeld, JobHeld
    <3> QED
      BY <1>6, <2>3, <3>1, PendingLocal DEF LockOrg, Goto, TypeOK
  <2> QED
    BY <2>2, <2>3
<1>7. ASSUME NEW r \in Runs, FindAlerts(r) \/ FindLogs(r) PROVE PendingGuard'
  <2>1. /\ pc[r] \in {"findAlerts", "findLogs"} /\ pc'[r] \in {"deleteAlerts", "lockLogs"}
        /\ tx'[r].delAlerts = tx[r].delAlerts /\ tx'[r].delLogs = tx[r].delLogs
        /\ tx'[r].org = tx[r].org /\ tx'[r].cutoff = tx[r].cutoff
        /\ UNCHANGED <<now, retention, logAt, alert, run>>
    BY <1>7 DEF FindAlerts, FindLogs, At, Goto, TypeOK, TxType
  <2>2. PendingOf(r)'
    BY <1>0, <2>1 DEF PendingOf, OrgHeld, JobHeld, expiredAlertFilter, ExpiredLogs
  <2> QED
    BY <1>7, <2>2, PendingLocal DEF FindAlerts, FindLogs, Goto, TypeOK
<1>8. ASSUME NEW r \in Runs, DeleteAlerts(r) PROVE PendingGuard'
  <2>1. CASE Stop(r, "disabled")
    BY <1>8, <2>1, StopPending DEF DeleteAlerts, Statuses
  <2>2. CASE tx' = [tx EXCEPT ![r].delAlerts = AlertsToDelete(r)] /\ Goto(r, "findLogs")
             /\ UNCHANGED run
    <3>1. /\ pc[r] = "deleteAlerts" /\ pc'[r] = "findLogs" /\ tx[r].delLogs = {}
          /\ tx'[r].delAlerts = AlertsToDelete(r) /\ tx'[r].delLogs = {}
          /\ tx'[r].org = tx[r].org /\ tx'[r].cutoff = tx[r].cutoff
          /\ UNCHANGED <<now, retention, logAt, alert, run>>
      BY <1>0, <1>8, <2>2 DEF DeleteAlerts, At, Goto, PendingOf, TypeOK, TxType
    <3>2. PendingOf(r)'
      BY <1>0, <3>1 DEF PendingOf, OrgHeld, JobHeld, AlertsToDelete,
         expiredAlertFilter, ExpiredLogs
    <3> QED
      BY <1>8, <2>2, <3>2, PendingLocal DEF DeleteAlerts, Goto, TypeOK
  <2> QED
    BY <1>8, <2>1, <2>2 DEF DeleteAlerts
<1>9. ASSUME NEW r \in Runs, LockLogs(r) PROVE PendingGuard'
  <2>1. PendingOf(r)'
    BY <1>0, <1>9 DEF LockLogs, At, Goto, PendingOf, TypeOK, OrgHeld, JobHeld,
       expiredAlertFilter, ExpiredLogs
  <2> QED
    BY <1>9, <2>1, PendingLocal DEF LockLogs, Goto, TypeOK
<1>10. ASSUME NEW r \in Runs, DeleteLogs(r) PROVE PendingGuard'
  <2>1. CASE Stop(r, "disabled")
    BY <1>10, <2>1, StopPending DEF DeleteLogs, Statuses
  <2>2. CASE tx' = [tx EXCEPT ![r].delLogs = LogsToDelete(r)] /\ Goto(r, "recheck")
             /\ UNCHANGED run
    <3>1. /\ pc[r] = "deleteLogs" /\ pc'[r] = "recheck"
          /\ tx'[r].delAlerts = tx[r].delAlerts /\ tx'[r].delLogs = LogsToDelete(r)
          /\ tx'[r].org = tx[r].org /\ tx'[r].cutoff = tx[r].cutoff
          /\ UNCHANGED <<now, retention, logAt, alert, run>>
      BY <1>10, <2>2 DEF DeleteLogs, At, Goto, TypeOK, TxType
    <3>2. PendingOf(r)'
      BY <1>0, <3>1 DEF PendingOf, OrgHeld, JobHeld, LogsToDelete, LogWhere,
         expiredAlertFilter, ExpiredLogs
    <3> QED
      BY <1>10, <2>2, <3>2, PendingLocal DEF DeleteLogs, Goto, TypeOK
  <2> QED
    BY <1>10, <2>1, <2>2 DEF DeleteLogs
<1>11. ASSUME NEW r \in Runs, Recheck(r) PROVE PendingGuard'
  <2>1. CASE Stop(r, "disabled")
    BY <1>11, <2>1, StopPending DEF Recheck, Statuses
  <2>2. CASE tx' = [tx EXCEPT ![r].finished = PageNotFull(r)] /\ Goto(r, "commit")
             /\ UNCHANGED run
    <3>1. /\ pc[r] = "recheck" /\ pc'[r] = "commit"
          /\ tx'[r].delAlerts = tx[r].delAlerts /\ tx'[r].delLogs = tx[r].delLogs
          /\ tx'[r].org = tx[r].org /\ tx'[r].cutoff = tx[r].cutoff
          /\ UNCHANGED <<now, retention, logAt, alert, run>>
      BY <1>11, <2>2 DEF Recheck, At, Goto, TypeOK, TxType
    <3>2. PendingOf(r)'
      BY <1>0, <3>1 DEF PendingOf, OrgHeld, JobHeld, expiredAlertFilter, ExpiredLogs
    <3> QED
      BY <1>11, <2>2, <3>2, PendingLocal DEF Recheck, Goto, TypeOK
  <2> QED
    BY <1>11, <2>1, <2>2 DEF Recheck
<1>12. ASSUME NEW r \in Runs, Commit(r) \/ CommitLost(r) PROVE PendingGuard'
  <2>1. HoldsJob(r) /\ UNCHANGED now
    BY <1>12 DEF Commit, CommitLost, At, HoldsJob, JobHeld, Apply
  <2>2. ASSUME NEW s \in Runs \ {r} PROVE PendingOf(s)'
    <3>1. ~HoldsJob(s)
      BY <2>1, <2>2 DEF LeaseGuard
    <3>2. /\ pc[s] \notin OrgHeld /\ tx[s].delAlerts = {} /\ tx[s].delLogs = {}
      BY <1>0, <3>1 DEF HoldsJob, PendingOf, OrgHeld
    <3>3. pc'[s] = pc[s] /\ run'[s] = run[s] /\ tx'[s] = tx[s]
      BY <1>12, <2>2 DEF Commit, CommitLost, Goto, Stop, TypeOK
    <3> QED
      BY <1>0, <2>1, <3>2, <3>3 DEF PendingOf
  <2>3. tx'[r] = NoTx /\ run'[r].asOf = run[r].asOf /\ pc'[r] \in {"begin", "release"}
    <3>1. CASE Commit(r)
      <4>1. run[r] \in RunType
        BY DEF TypeOK
      <4>2. run'[r] = [run[r] EXCEPT !.batches = run[r].batches + 1, !.attempt = 1]
        BY <3>1 DEF Commit, TypeOK
      <4>3. run'[r].asOf = run[r].asOf
        BY <4>1, <4>2 DEF RunType
      <4> QED
        BY <3>1, <4>3 DEF Commit, Goto, TypeOK
    <3>2. CASE CommitLost(r)
      BY <3>2 DEF CommitLost, Stop, TypeOK, RunType
    <3> QED
      BY <1>12, <3>1, <3>2
  <2>4. PendingOf(r)'
    BY <1>0, <2>1, <2>3, NoTxPending DEF PendingOf, OrgHeld, JobHeld
  <2> QED
    BY <2>2, <2>4 DEF PendingGuard
<1>13. ASSUME NEW r \in Runs, TxError(r) \/ TxExpire(r) PROVE PendingGuard'
  <2>1. CASE \E status \in Statuses : Stop(r, status)
    BY <1>13, <2>1, StopPending DEF TxError, TxExpire
  <2>2. CASE /\ run' = [run EXCEPT ![r].attempt = run[r].attempt + 1]
             /\ tx' = [tx EXCEPT ![r] = NoTx] /\ Goto(r, "begin")
    <3>1. tx'[r] = NoTx /\ run'[r].asOf = run[r].asOf /\ pc'[r] = "begin"
      BY <2>2 DEF Goto, TypeOK, RunType
    <3>2. PendingOf(r)'
      BY <1>0, <1>13, <3>1, NoTxPending DEF TxError, TxExpire, PendingOf, OrgHeld, JobHeld
    <3> QED
      BY <1>13, <2>2, <3>2, PendingLocal DEF TxError, TxExpire, Goto, TypeOK
  <2> QED
    BY <1>13, <2>1, <2>2 DEF TxError, TxExpire, Statuses
<1>14. ASSUME NEW r \in Runs, Release(r) \/ Crash(r) PROVE PendingGuard'
  BY <1>14, IdlePending DEF Release, Crash
<1>15. ASSUME NEW b \in BOOLEAN, SetEnv(b) \/ SetEnabled(b) PROVE PendingGuard'
  BY <1>0, <1>15 DEF SetEnv, SetEnabled, PendingGuard, PendingOf, expiredAlertFilter,
     ExpiredLogs
<1>16. ASSUME NEW o \in Orgs, NEW v \in Periods \cup {Off}, updateRetention(o, v)
       PROVE PendingGuard'
  <2>1. ASSUME NEW r \in Runs PROVE PendingOf(r)'
    <3>1. pc[r] \in OrgHeld => tx[r].org # o /\ retention'[tx[r].org] = retention[tx[r].org]
      BY <1>16 DEF updateRetention, OrgFree, HoldsOrg, TypeOK
    <3> QED
      BY <1>0, <1>16, <3>1 DEF updateRetention, PendingOf, expiredAlertFilter, ExpiredLogs
  <2> QED
    BY <2>1 DEF PendingGuard
<1>17. ASSUME NEW o \in Orgs, deleteOrganization(o) PROVE PendingGuard'
  <2>1. ASSUME NEW r \in Runs PROVE PendingOf(r)'
    <3>1. CASE tx[r].delAlerts = {} /\ tx[r].delLogs = {} /\ pc[r] \notin OrgHeld
      BY <1>0, <1>17, <3>1 DEF deleteOrganization, PendingOf
    <3>2. CASE pc[r] \in OrgHeld
      <4>1. tx[r].org # o /\ retention'[tx[r].org] = retention[tx[r].org]
        BY <1>17, <3>2 DEF deleteOrganization, OrgFree, HoldsOrg, TypeOK
      <4>2. ExpiredLogs(tx[r].org, tx[r].cutoff) \subseteq ExpiredLogs(tx[r].org, tx[r].cutoff)'
        BY <1>17, <4>1 DEF deleteOrganization, ExpiredLogs
      <4>3. expiredAlertFilter(tx[r].org, tx[r].cutoff)
              \subseteq expiredAlertFilter(tx[r].org, tx[r].cutoff)'
        BY <1>17, <4>1, <4>2 DEF deleteOrganization, expiredAlertFilter
      <4>4. \A a \in Alerts : Present(alert'[a].at) => alert'[a] = alert[a]
        BY <1>17 DEF deleteOrganization, Present, Deleted
      <4> QED
        BY <1>0, <1>17, <4>1, <4>2, <4>3, <4>4 DEF deleteOrganization, PendingOf
    <3> QED
      BY <1>0, <3>1, <3>2 DEF PendingOf
  <2> QED
    BY <2>1 DEF PendingGuard
<1>18. ASSUME NEW l \in Logs, CreateLog(l) PROVE PendingGuard'
  <2>1. \A k \in Logs : Present(logAt[k]) => logAt'[k] = logAt[k]
    BY <1>18 DEF CreateLog, Present, NotYet, TypeOK
  <2>2. ASSUME NEW r \in Runs PROVE PendingOf(r)'
    <3>1. ExpiredLogs(tx[r].org, tx[r].cutoff) \subseteq ExpiredLogs(tx[r].org, tx[r].cutoff)'
      BY <1>18, <2>1 DEF CreateLog, ExpiredLogs
    <3>2. expiredAlertFilter(tx[r].org, tx[r].cutoff)
            \subseteq expiredAlertFilter(tx[r].org, tx[r].cutoff)'
      BY <1>18, <3>1 DEF CreateLog, expiredAlertFilter
    <3> QED
      BY <1>0, <1>18, <3>1, <3>2 DEF CreateLog, PendingOf
  <2> QED
    BY <2>2 DEF PendingGuard
<1>19. ASSUME NEW a \in Alerts, CreateAlert(a) PROVE PendingGuard'
  <2>1. \A b \in Alerts : Present(alert[b].at) => alert'[b] = alert[b]
    BY <1>19 DEF CreateAlert, Present, NotYet, TypeOK
  <2>2. ASSUME NEW r \in Runs PROVE PendingOf(r)'
    <3>1. expiredAlertFilter(tx[r].org, tx[r].cutoff)
            \subseteq expiredAlertFilter(tx[r].org, tx[r].cutoff)'
      BY <1>19, <2>1 DEF CreateAlert, expiredAlertFilter, ExpiredLogs
    <3>2. ASSUME NEW l \in tx[r].delLogs, NEW b \in Alerts \ tx[r].delAlerts,
                 Present(alert'[b].at)
          PROVE  alert'[b].log # l
      <4>1. CASE b # a
        BY <1>0, <1>19, <3>2, <4>1 DEF CreateAlert, PendingOf, TypeOK
      <4>2. CASE b = a
        <5>1. alert'[a].log = AlertLog[a]
          BY <1>19 DEF CreateAlert, TypeOK
        <5>2. l \in Logs /\ OrgOf[l] = tx[r].org /\ pc[r] \in OrgHeld
          BY <1>0, <3>2 DEF PendingOf, ExpiredLogs
        <5>3. AlertOrg[a] # tx[r].org
          BY <1>19, <5>2 DEF CreateAlert, OrgFree, HoldsOrg
        <5> QED
          BY <4>2, <5>1, <5>2, <5>3, IdAssumption DEF NoId
      <4> QED
        BY <4>1, <4>2
    <3> QED
      BY <1>0, <1>19, <3>1, <3>2 DEF CreateAlert, PendingOf, ExpiredLogs
  <2> QED
    BY <2>2 DEF PendingGuard
<1>20. ASSUME Tick PROVE PendingGuard'
  BY <1>0, <1>20 DEF Tick, PendingGuard, PendingOf, expiredAlertFilter, ExpiredLogs,
     TypeOK, RunType
<1>21. ASSUME UNCHANGED vars PROVE PendingGuard'
  BY <1>0, <1>21 DEF vars, PendingGuard, PendingOf, expiredAlertFilter, ExpiredLogs
<1> QED
  BY <1>1, <1>2, <1>3, <1>4, <1>5, <1>6, <1>7, <1>8, <1>9, <1>10, <1>11, <1>12, <1>13,
     <1>14, <1>15, <1>16, <1>17, <1>18, <1>19, <1>20, <1>21 DEF Next, Step, Fault

\* No step detaches an alert from its log.
LEMMA NoOrphanStep ==
    ASSUME TypeOK, PendingGuard, NoOrphanedAlert, [Next]_vars
    PROVE  NoOrphanedAlert'
<1> USE DEF data
<1>1. ASSUME NEW r \in Runs, Commit(r) \/ CommitLost(r) PROVE NoOrphanedAlert'
  <2>1. alert' = AfterErase(r)
    BY <1>1 DEF Commit, CommitLost, Apply
  <2>2. ASSUME NEW a \in Alerts, Present(alert'[a].at) PROVE alert'[a].log = AlertLog[a]
    <3>1. a \notin tx[r].delAlerts /\ Present(alert[a].at)
      BY <2>1, <2>2 DEF AfterErase, Present, Deleted
    <3>2. alert[a].log \notin tx[r].delLogs
      BY <3>1 DEF PendingGuard, PendingOf
    <3> QED
      BY <2>1, <3>1, <3>2 DEF AfterErase, NoOrphanedAlert
  <2> QED
    BY <2>2 DEF NoOrphanedAlert
<1>2. ASSUME NEW o \in Orgs, deleteOrganization(o) PROVE NoOrphanedAlert'
  BY <1>2 DEF deleteOrganization, NoOrphanedAlert, Present, Deleted
<1>3. ASSUME NEW a \in Alerts, CreateAlert(a) PROVE NoOrphanedAlert'
  BY <1>3 DEF CreateAlert, NoOrphanedAlert, TypeOK
<1>4. CASE UNCHANGED alert
  BY <1>4 DEF NoOrphanedAlert
<1> QED
  BY <1>1, <1>2, <1>3, <1>4 DEF Next, Step, Fault, vars, Start, Claim, BeginBatch, LockJob,
     ChooseOrg, LockOrg, FindAlerts, DeleteAlerts, FindLogs, LockLogs, DeleteLogs, Recheck,
     TxError, TxExpire, Release, Crash, SetEnv, SetEnabled, updateRetention, CreateLog, Tick

\* At most one batch commits deletions after the environment switch went off.
LEMMA DrainStep ==
    ASSUME TypeOK, LeaseGuard, PendingGuard, DrainGuard, [Next]_vars
    PROVE  DrainGuard'
<1> USE DEF data
<1>1. ASSUME NEW r \in Runs, Commit(r) \/ CommitLost(r) PROVE DrainGuard'
  <2>1. pc[r] = "commit" /\ late' = (IF Erases(r) /\ ~env THEN late + 1 ELSE late) /\ env' = env
    BY <1>1 DEF Commit, CommitLost, At, Apply
  <2>2. ASSUME NEW s \in Runs PROVE pc'[s] # "commit"
    <3>1. CASE s = r
      BY <1>1, <3>1 DEF Commit, CommitLost, Goto, Stop, TypeOK
    <3>2. CASE s # r
      <4>1. pc[s] # "commit"
        BY <2>1, <3>2 DEF LeaseGuard, HoldsJob, JobHeld
      <4> QED
        BY <1>1, <3>2, <4>1 DEF Commit, CommitLost, Goto, Stop, TypeOK
    <3> QED
      BY <3>1, <3>2
  <2> QED
    BY <2>1, <2>2 DEF DrainGuard, TypeOK
<1>2. ASSUME NEW r \in Runs, Recheck(r) PROVE DrainGuard'
  <2>1. late' = late /\ env' = env
    BY <1>2 DEF Recheck
  <2>2. ASSUME NEW s \in Runs, pc'[s] = "commit", Erases(s)' PROVE late = 0
    <3>1. CASE s = r
      <4>1. tx'[r] = [tx[r] EXCEPT !.finished = PageNotFull(r)] /\ deletionAllowed(r)
        BY <1>2, <2>2, <3>1 DEF Recheck, Stop, TypeOK
      <4>2. Erases(r)
        BY <2>2, <3>1, <4>1 DEF Erases, TypeOK, TxType
      <4>3. run[r].mode = "exec"
        BY <4>2 DEF Erases, PendingGuard, PendingOf
      <4> QED
        BY <4>1, <4>3 DEF deletionAllowed, DrainGuard
    <3>2. CASE s # r
      BY <1>2, <2>2, <3>2 DEF Recheck, Stop, Goto, TypeOK, Erases, DrainGuard
    <3> QED
      BY <3>1, <3>2
  <2> QED
    BY <2>1, <2>2 DEF DrainGuard
<1>3. ASSUME NEW r \in Runs, LockOrg(r) PROVE DrainGuard'
  <2>1. ASSUME NEW s \in Runs, pc'[s] = "commit", Erases(s)' PROVE late = 0
    <3>1. CASE s = r
      <4>1. tx[r].delAlerts = {} /\ tx[r].delLogs = {}
        BY <1>3 DEF LockOrg, At, PendingGuard, PendingOf, OrgHeld, JobHeld
      <4>2. UNCHANGED tx
        BY <1>3, <2>1, <3>1 DEF LockOrg, Goto, TypeOK
      <4> QED
        BY <2>1, <3>1, <4>1, <4>2 DEF Erases
    <3>2. CASE s # r
      BY <1>3, <2>1, <3>2 DEF LockOrg, Goto, TypeOK, Erases, DrainGuard
    <3> QED
      BY <3>1, <3>2
  <2> QED
    BY <1>3, <2>1 DEF LockOrg, DrainGuard
<1>4. ASSUME NEW b \in BOOLEAN, SetEnv(b) PROVE DrainGuard'
  BY <1>4 DEF SetEnv, DrainGuard
<1>5. ASSUME UNCHANGED <<env, late>>,
             \A s \in Runs : pc'[s] = "commit" => pc[s] = "commit" /\ tx'[s] = tx[s]
      PROVE  DrainGuard'
  BY <1>5 DEF DrainGuard, Erases
<1>6. ASSUME NEW r \in Runs,
             \/ \E m \in Modes : Start(r, m)
             \/ Claim(r) \/ BeginBatch(r) \/ LockJob(r) \/ TxError(r) \/ TxExpire(r)
             \/ Release(r) \/ Crash(r)
      PROVE  DrainGuard'
  BY <1>5, <1>6 DEF Start, Claim, BeginBatch, LockJob, TxError, TxExpire, Release, Crash,
     ToIdle, Stop, Goto, TypeOK
<1>7. ASSUME NEW r \in Runs,
             \/ ChooseOrg(r) \/ FindAlerts(r) \/ DeleteAlerts(r) \/ FindLogs(r)
             \/ LockLogs(r) \/ DeleteLogs(r)
      PROVE  DrainGuard'
  BY <1>5, <1>7 DEF ChooseOrg, FindAlerts, DeleteAlerts, FindLogs, LockLogs, DeleteLogs,
     Stop, Goto, TypeOK
<1> QED
  BY <1>1, <1>2, <1>3, <1>4, <1>5, <1>6, <1>7 DEF Next, Step, Fault, vars, SetEnabled,
     updateRetention, deleteOrganization, CreateLog, CreateAlert, Tick

\* IInv holds at the start and every step keeps it.
LEMMA InitIInv == Init => IInv
<1> SUFFICES ASSUME Init PROVE IInv
  OBVIOUS
<1>1. NoRunState \in RunType /\ NoProgress \in ProgressType /\ NoTx \in TxType
  BY DEF NoRunState, RunType, Modes, Statuses, NoProgress, ProgressType, NoTx, TxType,
     OrgIds, LogIds, AlertIds
<1>2. logAt \in [Logs -> Row] /\ alert \in [Alerts -> [at : Row, log : LogIds]]
  BY IdAssumption, InitAssumption DEF Init, Row, LogIds, NoId
<1>3. TypeOK
  BY <1>1, <1>2, IdAssumption, NumberAssumption DEF Init, TypeOK, Labels, OrgIds, Modes
<1>4. LeaseGuard
  BY DEF Init, LeaseGuard, HoldsJob, JobHeld
<1>5. PendingGuard
  BY NumberAssumption DEF Init, PendingGuard, PendingOf, OrgHeld, JobHeld, NoTx, NoRunState
<1>6. NoOrphanedAlert
  BY DEF Init, NoOrphanedAlert, Present, NotYet
<1>7. DrainGuard
  BY DEF Init, DrainGuard, Erases, NoTx
<1> QED
  BY <1>3, <1>4, <1>5, <1>6, <1>7 DEF IInv

LEMMA StepIInv == IInv /\ [Next]_vars => IInv'
BY TypeStep, LeaseGuardStep, PendingStep, NoOrphanStep, DrainStep DEF IInv

\* The inductive invariant of the retention job.
THEOREM Invariance == Spec => []IInv
BY InitIInv, StepIInv, PTL DEF Spec

\* Type correctness of every table, of the job row and of the runs' locals.
THEOREM TypeCorrect == Spec => []TypeOK
<1>1. IInv => TypeOK
  BY DEF IInv
<1> QED
  BY <1>1, Invariance, PTL

\* Retention detaches no alert from its log, whatever the interleaving of batches,
\* late alerts, account deletions and crashes.
THEOREM NoOrphans == Spec => []NoOrphanedAlert
<1>1. IInv => NoOrphanedAlert
  BY DEF IInv
<1> QED
  BY <1>1, Invariance, PTL

\* After the environment switch goes off at most one more batch commits deletions.
THEOREM Drains == Spec => []KillSwitchDrains
<1>1. IInv => KillSwitchDrains
  BY DEF IInv, DrainGuard, KillSwitchDrains
<1> QED
  BY <1>1, Invariance, PTL

\* Rows of an organization that stays are deleted by the commit of a batch only.
LEMMA ErasedByCommit ==
    ASSUME IInv, [Next]_vars, ErasedLogs \cup ErasedAlerts # {}
    PROVE  \E r \in Runs : Commit(r) \/ CommitLost(r)
<1> USE DEF data
<1>1. ASSUME UNCHANGED <<logAt, alert>> PROVE FALSE
  BY <1>1 DEF ErasedLogs, ErasedAlerts
<1>2. ASSUME NEW o \in Orgs, deleteOrganization(o) PROVE FALSE
  BY <1>2, IdAssumption DEF deleteOrganization, ErasedLogs, ErasedAlerts, IInv, TypeOK
<1>3. ASSUME NEW l \in Logs, CreateLog(l) PROVE FALSE
  BY <1>3 DEF CreateLog, ErasedLogs, ErasedAlerts, Present, IInv, TypeOK
<1>4. ASSUME NEW a \in Alerts, CreateAlert(a) PROVE FALSE
  BY <1>4 DEF CreateAlert, ErasedLogs, ErasedAlerts, Present, IInv, TypeOK
<1> QED
  BY <1>1, <1>2, <1>3, <1>4 DEF Next, Step, Fault, vars, Start, Claim, BeginBatch, LockJob,
     ChooseOrg, LockOrg, FindAlerts, DeleteAlerts, FindLogs, LockLogs, DeleteLogs, Recheck,
     TxError, TxExpire, Release, Crash, SetEnv, SetEnabled, updateRetention, Tick

\* What a committing batch deletes was pending in its transaction.
LEMMA ErasedPending ==
    ASSUME IInv, NEW r \in Runs, Commit(r) \/ CommitLost(r)
    PROVE  ErasedLogs \subseteq tx[r].delLogs /\ ErasedAlerts \subseteq tx[r].delAlerts
BY DEF IInv, TypeOK, Commit, CommitLost, Apply, AfterErase, ErasedLogs, ErasedAlerts

\* Only a run that owns a live lease deletes, with the database switch on.
THEOREM Authorised == Spec => ErasureAuthorised
<1>1. ASSUME IInv, [Next]_vars, ErasedLogs \cup ErasedAlerts # {}
      PROVE  /\ job.enabled
             /\ \E r \in Runs : /\ pc[r] = "commit" /\ run[r].mode = "exec"
                                /\ job'.owner = r /\ job'.expires > now
  <2>1. PICK r \in Runs : Commit(r) \/ CommitLost(r)
    BY <1>1, ErasedByCommit
  <2>2. tx[r].delAlerts \cup tx[r].delLogs # {}
    BY <1>1, <2>1, ErasedPending
  <2>3. run[r].mode = "exec"
    BY <1>1, <2>2 DEF IInv, PendingGuard, PendingOf
  <2>4. pc[r] = "commit" /\ now - tx[r].start <= TxTimeout /\ job' = Renewed(r)
    BY <2>1 DEF Commit, CommitLost, At, InTime, Apply
  <2>5. job.owner = r /\ job.enabled
    BY <1>1, <2>3, <2>4 DEF IInv, LeaseGuard, HoldsJob, JobHeld
  <2>6. job'.owner = r /\ job'.expires = tx[r].start + LeaseTerm
    BY <1>1, <2>4, <2>5 DEF Renewed, IInv, TypeOK
  <2>7. tx[r].start \in Nat /\ now \in Nat
    BY <1>1 DEF IInv, TypeOK, TxType
  <2>8. job'.expires > now
    BY <2>4, <2>6, <2>7, NumberAssumption
  <2> QED
    BY <2>3, <2>4, <2>5, <2>6, <2>8
<1>2. IInv /\ [Next]_vars =>
        [ErasedLogs \cup ErasedAlerts # {} =>
            /\ job.enabled
            /\ \E r \in Runs : /\ pc[r] = "commit" /\ run[r].mode = "exec"
                               /\ job'.owner = r /\ job'.expires > now]_vars
  BY <1>1
<1> QED
  BY <1>2, Invariance, PTL DEF Spec, ErasureAuthorised

\* Only rows expired under the organization's present period are deleted.
THEOREM OnlyExpired == Spec => OnlyExpiredErased
<1> DEFINE LogsExpired ==
             \A l \in ErasedLogs : /\ retention[OrgOf[l]] \in Periods
                                   /\ OlderThan(logAt[l], retention[OrgOf[l]])
           AlertsExpired ==
             \A a \in ErasedAlerts :
                /\ retention[AlertOrg[a]] \in Periods
                /\ OlderThan(IF alert[a].log = NoId THEN alert[a].at ELSE logAt[alert[a].log],
                             retention[AlertOrg[a]])
<1>1. ASSUME IInv, [Next]_vars, ErasedLogs \cup ErasedAlerts # {}
      PROVE  LogsExpired /\ AlertsExpired
  <2>1. PICK r \in Runs : Commit(r) \/ CommitLost(r)
    BY <1>1, ErasedByCommit
  <2>2. PendingOf(r)
    BY <1>1 DEF IInv, PendingGuard
  <2>3. /\ ErasedLogs \subseteq ExpiredLogs(tx[r].org, tx[r].cutoff)
        /\ ErasedAlerts \subseteq expiredAlertFilter(tx[r].org, tx[r].cutoff)
    BY <1>1, <2>1, <2>2, ErasedPending DEF PendingOf
  <2>4. /\ retention[tx[r].org] \in Periods
        /\ tx[r].cutoff = run[r].asOf - retention[tx[r].org]
        /\ run[r].asOf <= now
    BY <1>1, <2>1, <2>2, ErasedPending, NumberAssumption
    DEF PendingOf, retentionCutoff, IInv, TypeOK, RunType
  <2>5. retention[tx[r].org] \in Nat /\ run[r].asOf \in Nat /\ now \in Nat
    BY <1>1, <2>4, NumberAssumption DEF IInv, TypeOK, RunType
  <2>6. \A at \in Row : at < tx[r].cutoff => OlderThan(at, retention[tx[r].org])
    BY <2>4, <2>5 DEF OlderThan, Row, NotYet, Deleted
  <2>7. LogsExpired
    BY <1>1, <2>3, <2>4, <2>6 DEF ExpiredLogs, IInv, TypeOK
  <2>8. ASSUME NEW a \in ErasedAlerts
        PROVE  /\ retention[AlertOrg[a]] \in Periods
               /\ OlderThan(IF alert[a].log = NoId THEN alert[a].at ELSE logAt[alert[a].log],
                            retention[AlertOrg[a]])
    <3>1. a \in Alerts /\ AlertOrg[a] = tx[r].org
      BY <2>3 DEF expiredAlertFilter
    <3>2. CASE alert[a].log \in ExpiredLogs(tx[r].org, tx[r].cutoff)
      <4>1. alert[a].log \in Logs /\ alert[a].log # NoId
        BY <3>2, IdAssumption DEF ExpiredLogs, NoId
      <4>2. logAt[alert[a].log] \in Row /\ logAt[alert[a].log] < tx[r].cutoff
        BY <1>1, <3>2, <4>1 DEF ExpiredLogs, IInv, TypeOK
      <4> QED
        BY <2>4, <2>6, <3>1, <4>1, <4>2
    <3>3. CASE alert[a].log = NoId /\ alert[a].at < tx[r].cutoff
      <4>1. alert[a].at \in Row
        BY <1>1, <3>1 DEF IInv, TypeOK
      <4> QED
        BY <2>4, <2>6, <3>1, <3>3, <4>1
    <3> QED
      BY <2>3, <3>2, <3>3 DEF expiredAlertFilter
  <2>9. AlertsExpired
    BY <2>8
  <2> QED
    BY <2>7, <2>9
<1>2. IInv /\ [Next]_vars => [LogsExpired /\ AlertsExpired]_vars
  BY <1>1
<1> QED
  BY <1>2, Invariance, PTL DEF Spec, OnlyExpiredErased

\* A live lease is given up by its owner only.
THEOREM LeaseKept == Spec => LeaseNotStolen
<1> USE DEF data
<1> DEFINE Kept == \A r \in Runs : job.owner = r /\ job'.owner # r =>
                     \/ pc[r] = "release" /\ job'.owner = NoRun
                     \/ job.expires <= now
<1>1. ASSUME IInv, [Next]_vars, NEW r \in Runs, job.owner = r, job'.owner # r
      PROVE  (pc[r] = "release" /\ job'.owner = NoRun) \/ job.expires <= now
  <2>1. r # NoRun /\ job'.owner # job.owner
    BY <1>1, IdAssumption
  <2>2. ASSUME NEW s \in Runs, Claim(s) PROVE job.expires <= now
    BY <1>1, <2>1, <2>2 DEF Claim, LeaseFree
  <2>3. ASSUME NEW s \in Runs, Release(s) PROVE pc[r] = "release" /\ job'.owner = NoRun
    BY <1>1, <2>1, <2>3 DEF Release, Released, IInv, TypeOK
  <2>4. ASSUME job'.owner = job.owner PROVE FALSE
    BY <2>1, <2>4
  <2>5. \A s \in Runs : Renewed(s).owner = job.owner
    BY <1>1 DEF Renewed, IInv, TypeOK
  <2> QED
    BY <1>1, <2>2, <2>3, <2>4, <2>5 DEF Next, Step, Fault, vars, Start, BeginBatch, LockJob,
       ChooseOrg, LockOrg, FindAlerts, DeleteAlerts, FindLogs, LockLogs, DeleteLogs, Recheck,
       Commit, CommitLost, Apply, TxError, TxExpire, Crash, SetEnv, SetEnabled,
       updateRetention, deleteOrganization, CreateLog, CreateAlert, Tick, IInv, TypeOK
<1>2. IInv /\ [Next]_vars => [Kept]_vars
  BY <1>1
<1> QED
  BY <1>2, Invariance, PTL DEF Spec, LeaseNotStolen

----------------------------------------------------------------------------
(* One transaction deletes at most BatchSize rows.                         *)

\* What a batch has selected fits its page, and it deletes only what it selected:
\* the alerts after FindAlerts, the logs after FindLogs.
PageOf(r) ==
    /\ pc[r] \notin {"findLogs", "lockLogs", "deleteLogs", "recheck", "commit"} =>
        tx[r].delAlerts = {}
    /\ pc[r] \notin {"lockLogs", "deleteLogs", "recheck", "commit"} => tx[r].logs = {}
    /\ tx[r].delAlerts \subseteq tx[r].alerts
    /\ tx[r].delLogs \subseteq tx[r].logs
    /\ Cardinality(tx[r].alerts) + Cardinality(tx[r].logs) <= BatchSize

PageGuard == \A r \in Runs : PageOf(r)

\* A page of rows, orderBy id asc, take k, has at most k rows: each has a rank of
\* its own below k.
LEMMA FirstIdsBounded ==
    ASSUME NEW S \in SUBSET Nat, IsFiniteSet(S), NEW k \in Nat
    PROVE  /\ IsFiniteSet(FirstIds(S, k))
           /\ Cardinality(FirstIds(S, k)) <= k
<1> DEFINE F == FirstIds(S, k)
           Before(x) == {y \in S : y < x}
           rank == [x \in F |-> Cardinality(Before(x))]
<1>1. F \subseteq S
  BY DEF FirstIds
<1>2. ASSUME NEW x \in S PROVE IsFiniteSet(Before(x)) /\ Cardinality(Before(x)) \in Nat
  <2>1. Before(x) \in SUBSET S
    OBVIOUS
  <2>2. IsFiniteSet(Before(x))
    BY <2>1, FS_Subset
  <2> QED
    BY <2>2, FS_CardinalityType
<1>3. ASSUME NEW x \in S, NEW y \in S, x < y
      PROVE  Cardinality(Before(x)) # Cardinality(Before(y))
  <2>0. /\ x \in Nat /\ y \in Nat /\ ~(x < x)
        /\ \A z \in S : z < x => z < y
    BY <1>3
  <2>1. Before(x) \subseteq Before(y) /\ x \in Before(y) /\ x \notin Before(x)
    BY <1>3, <2>0, Zenon
  <2>2. Before(y) # Before(x)
    BY <2>1
  <2> QED
    BY <1>2, <2>1, <2>2, FS_Subset
<1>4. rank \in [F -> 0..(k-1)]
  <2>1. ASSUME NEW x \in F PROVE Cardinality(Before(x)) \in 0..(k-1)
    <3>1. F = {z \in S : Cardinality(Before(z)) < k}
      BY Zenon DEF FirstIds
    <3>2. Cardinality(Before(x)) < k
      BY <3>1, Zenon
    <3>3. Cardinality(Before(x)) \in Nat
      BY <1>1, <1>2, Zenon
    <3>4. \A n \in Nat : n < k => n \in 0..(k-1)
      OBVIOUS
    <3> QED
      BY <3>2, <3>3, <3>4, Zenon
  <2> QED
    BY <2>1
<1>5. \A x, y \in F : rank[x] = rank[y] => x = y
  <2>1. SUFFICES ASSUME NEW x \in F, NEW y \in F, rank[x] = rank[y], x # y PROVE FALSE
    OBVIOUS
  <2>2. x \in Nat /\ y \in Nat /\ x \in S /\ y \in S
    BY <1>1
  <2>3. Cardinality(Before(x)) = Cardinality(Before(y))
    BY <2>1
  <2>4. x < y \/ y < x
    BY <2>1, <2>2
  <2> QED
    BY <1>3, <2>2, <2>3, <2>4
<1>6. rank \in Injection(F, 0..(k-1))
  BY <1>4, <1>5 DEF Injection, IsInjective
<1>7. IsFiniteSet(0..(k-1)) /\ Cardinality(0..(k-1)) = k
  BY FS_Interval
<1> HIDE DEF F, rank
<1>8. IsFiniteSet(F) /\ Cardinality(F) <= k
  BY <1>6, <1>7, FS_Injection
<1> QED
  BY <1>8 DEF F

LEMMA EmptyPage ==
    ASSUME NEW r \in Runs, tx[r] = NoTx
    PROVE  PageOf(r)
BY FS_EmptySet, NumberAssumption DEF PageOf, NoTx

LEMMA PageStep ==
    ASSUME IsFiniteSet(Logs), IsFiniteSet(Alerts), TypeOK, PageGuard, [Next]_vars
    PROVE  PageGuard'
<1> SUFFICES ASSUME NEW r \in Runs PROVE PageOf(r)'
  BY DEF PageGuard
<1> USE DEF data
<1>1. PageOf(r)
  BY DEF PageGuard
<1>2. tx[r] \in TxType /\ tx \in [Runs -> TxType] /\ pc \in [Runs -> Labels]
  BY DEF TypeOK
<1>3. CASE tx'[r] = NoTx
  BY <1>3, FS_EmptySet, NumberAssumption DEF PageOf, NoTx
<1>4. CASE tx'[r] = tx[r] /\ pc'[r] = pc[r]
  BY <1>1, <1>4 DEF PageOf
<1>5. ASSUME BeginBatch(r) \/ LockJob(r) \/ ChooseOrg(r) \/ LockOrg(r) PROVE PageOf(r)'
  <2>1. CASE tx'[r] = NoTx
    BY <1>3, <2>1
  <2>2. CASE tx'[r] # NoTx
    <3>1. /\ tx'[r].alerts = tx[r].alerts /\ tx'[r].delAlerts = tx[r].delAlerts
          /\ tx'[r].logs = tx[r].logs /\ tx'[r].delLogs = tx[r].delLogs
      BY <1>2, <1>5, <2>2
      DEF BeginBatch, LockJob, ChooseOrg, LockOrg, Stop, TxType
    <3>2. pc[r] \in {"begin", "lockJob", "chooseOrg", "lockOrg"}
      BY <1>5 DEF BeginBatch, LockJob, ChooseOrg, LockOrg, At
    <3>3. tx[r].delAlerts = {} /\ tx[r].logs = {}
      BY <1>1, <3>2 DEF PageOf
    <3> QED
      BY <1>1, <3>1, <3>3 DEF PageOf
  <2> QED
    BY <2>1, <2>2
<1>6. ASSUME FindAlerts(r) PROVE PageOf(r)'
  <2> DEFINE S == {a \in expiredAlertFilter(tx[r].org, tx[r].cutoff) :
                     a > prog[r].alertCursor}
  <2>1. S \in SUBSET Nat /\ S \subseteq Alerts
    BY IdAssumption DEF expiredAlertFilter
  <2>2. IsFiniteSet(S)
    BY <2>1, FS_Subset
  <2>3. /\ tx'[r].alerts = FirstIds(S, BatchSize) /\ tx'[r].delAlerts = tx[r].delAlerts
        /\ tx'[r].logs = tx[r].logs /\ tx'[r].delLogs = tx[r].delLogs
        /\ pc[r] = "findAlerts" /\ pc'[r] = "deleteAlerts"
    BY <1>2, <1>6 DEF FindAlerts, TxType, Goto, At
  <2>4. tx[r].delAlerts = {} /\ tx[r].logs = {}
    BY <1>1, <2>3 DEF PageOf
  <2> HIDE DEF S
  <2>5. IsFiniteSet(FirstIds(S, BatchSize)) /\ Cardinality(FirstIds(S, BatchSize)) <= BatchSize
    BY <2>1, <2>2, FirstIdsBounded, NumberAssumption
  <2>6. Cardinality(FirstIds(S, BatchSize)) \in Nat /\ BatchSize \in Nat
    BY <2>5, FS_CardinalityType, NumberAssumption
  <2>7. Cardinality(tx'[r].alerts) + Cardinality(tx'[r].logs) <= BatchSize
    BY <2>3, <2>4, <2>5, <2>6, FS_EmptySet
  <2> QED
    BY <1>1, <2>3, <2>4, <2>7 DEF PageOf
<1>7. ASSUME DeleteAlerts(r) PROVE PageOf(r)'
  <2>1. CASE tx'[r] = NoTx
    BY <1>3, <2>1
  <2>2. CASE tx'[r] # NoTx
    <3>1. /\ tx'[r].alerts = tx[r].alerts /\ tx'[r].delAlerts = AlertsToDelete(r)
          /\ tx'[r].logs = tx[r].logs /\ tx'[r].delLogs = tx[r].delLogs
          /\ pc[r] = "deleteAlerts" /\ pc'[r] = "findLogs"
      BY <1>2, <1>7, <2>2 DEF DeleteAlerts, Stop, TxType, Goto, At
    <3>2. AlertsToDelete(r) \subseteq tx[r].alerts
      BY DEF AlertsToDelete
    <3>3. tx[r].logs = {}
      BY <1>1, <3>1 DEF PageOf
    <3> QED
      BY <1>1, <3>1, <3>2, <3>3 DEF PageOf
  <2> QED
    BY <2>1, <2>2
<1>8. ASSUME FindLogs(r) PROVE PageOf(r)'
  <2> DEFINE S == {l \in LogWhere(r) : l > prog[r].logCursor}
  <2>1. S \in SUBSET Nat /\ S \subseteq Logs
    BY IdAssumption DEF LogWhere, ExpiredLogs
  <2>2. IsFiniteSet(S)
    BY <2>1, FS_Subset
  <2>3. /\ tx'[r].alerts = tx[r].alerts /\ tx'[r].delAlerts = tx[r].delAlerts
        /\ tx'[r].logs = FirstIds(S, Remaining(r)) /\ tx'[r].delLogs = tx[r].delLogs
        /\ pc[r] = "findLogs" /\ pc'[r] = "lockLogs"
    BY <1>2, <1>8 DEF FindLogs, TxType, Goto, At
  <2>4. tx[r].logs = {} /\ tx[r].delLogs = {}
    BY <1>1, <2>3 DEF PageOf
  <2>5. tx[r].alerts \in SUBSET Alerts
    BY <1>2 DEF TxType
  <2>6. IsFiniteSet(tx[r].alerts) /\ Cardinality(tx[r].alerts) \in Nat
    BY <2>5, FS_Subset, FS_CardinalityType
  <2>7. Cardinality(tx[r].alerts) <= BatchSize /\ BatchSize \in Nat
    BY <1>1, <2>4, <2>6, FS_EmptySet, NumberAssumption DEF PageOf
  <2>8. Remaining(r) \in Nat /\ Cardinality(tx[r].alerts) + Remaining(r) = BatchSize
    BY <2>6, <2>7 DEF Remaining
  <2> HIDE DEF S
  <2>9. /\ IsFiniteSet(FirstIds(S, Remaining(r)))
        /\ Cardinality(FirstIds(S, Remaining(r))) <= Remaining(r)
    BY <2>1, <2>2, <2>8, FirstIdsBounded
  <2>10. Cardinality(FirstIds(S, Remaining(r))) \in Nat
    BY <2>9, FS_CardinalityType
  <2>11. Cardinality(tx'[r].alerts) + Cardinality(tx'[r].logs) <= BatchSize
    BY <2>3, <2>6, <2>7, <2>8, <2>9, <2>10
  <2> QED
    BY <1>1, <2>3, <2>4, <2>11 DEF PageOf
<1>9. ASSUME LockLogs(r) PROVE PageOf(r)'
  BY <1>1, <1>2, <1>9 DEF LockLogs, PageOf, Goto, At
<1>10. ASSUME DeleteLogs(r) PROVE PageOf(r)'
  <2>1. CASE tx'[r] = NoTx
    BY <1>3, <2>1
  <2>2. CASE tx'[r] # NoTx
    <3>1. /\ tx'[r].alerts = tx[r].alerts /\ tx'[r].delAlerts = tx[r].delAlerts
          /\ tx'[r].logs = tx[r].logs /\ tx'[r].delLogs = LogsToDelete(r)
          /\ pc[r] = "deleteLogs" /\ pc'[r] = "recheck"
      BY <1>2, <1>10, <2>2 DEF DeleteLogs, Stop, TxType, Goto, At
    <3>2. LogsToDelete(r) \subseteq tx[r].logs
      BY DEF LogsToDelete
    <3> QED
      BY <1>1, <3>1, <3>2 DEF PageOf
  <2> QED
    BY <2>1, <2>2
<1>11. ASSUME Recheck(r) PROVE PageOf(r)'
  <2>1. CASE tx'[r] = NoTx
    BY <1>3, <2>1
  <2>2. CASE tx'[r] # NoTx
    <3>1. /\ tx'[r].alerts = tx[r].alerts /\ tx'[r].delAlerts = tx[r].delAlerts
          /\ tx'[r].logs = tx[r].logs /\ tx'[r].delLogs = tx[r].delLogs
          /\ pc[r] = "recheck" /\ pc'[r] = "commit"
      BY <1>2, <1>11, <2>2 DEF Recheck, Stop, TxType, Goto, At
    <3> QED
      BY <1>1, <3>1 DEF PageOf
  <2> QED
    BY <2>1, <2>2
<1>12. ASSUME Commit(r) \/ CommitLost(r) \/ TxError(r) \/ TxExpire(r) \/ Release(r) \/ Crash(r)
       PROVE  PageOf(r)'
  <2>1. tx'[r] = NoTx
    BY <1>2, <1>12 DEF Commit, CommitLost, TxError, TxExpire, Release, Crash, Stop, ToIdle
  <2> QED
    BY <1>3, <2>1
<1>13. ASSUME Claim(r) \/ \E m \in Modes : Start(r, m) PROVE PageOf(r)'
  <2>1. CASE tx'[r] = NoTx
    BY <1>3, <2>1
  <2>2. CASE tx'[r] # NoTx
    <3>1. tx'[r] = tx[r] /\ pc[r] \in {"idle", "claim"} /\ pc'[r] \in {"claim", "begin"}
      BY <1>2, <1>13, <2>2 DEF Claim, Start, ToIdle
    <3> QED
      BY <1>1, <3>1 DEF PageOf
  <2> QED
    BY <2>1, <2>2
<1>14. ASSUME NEW s \in Runs \ {r}, Step(s) \/ Fault(s) \/ \E m \in Modes : Start(s, m)
       PROVE  tx'[r] = tx[r] /\ pc'[r] = pc[r]
  <2>1. CASE tx' = tx
    BY <1>2, <1>14, <2>1 DEF Step, Fault, Start, Claim, BeginBatch, LockJob, ChooseOrg, LockOrg,
       FindAlerts, DeleteAlerts, FindLogs, LockLogs, DeleteLogs, Recheck, Commit, CommitLost,
       TxError, TxExpire, Release, Crash, Stop, ToIdle, Goto
  <2>2. CASE tx' # tx
    BY <1>2, <1>14, <2>2 DEF Step, Fault, Start, Claim, BeginBatch, LockJob, ChooseOrg, LockOrg,
       FindAlerts, DeleteAlerts, FindLogs, LockLogs, DeleteLogs, Recheck, Commit, CommitLost,
       TxError, TxExpire, Release, Crash, Stop, ToIdle, Goto
  <2> QED
    BY <2>1, <2>2
<1>15. ASSUME ~\E s \in Runs : Step(s) \/ Fault(s) \/ \E m \in Modes : Start(s, m)
       PROVE  tx'[r] = tx[r] /\ pc'[r] = pc[r]
  BY <1>15 DEF Next, vars, SetEnv, SetEnabled, updateRetention, deleteOrganization, CreateLog,
     CreateAlert, Tick
<1> QED
  BY <1>4, <1>5, <1>6, <1>7, <1>8, <1>9, <1>10, <1>11, <1>12, <1>13, <1>14, <1>15
  DEF Step, Fault

\* One transaction deletes at most batchSize rows, alerts and logs together, however
\* many rows have expired: the logs only fill what the alerts left of the page.
THEOREM BatchesBounded ==
    ASSUME IsFiniteSet(Logs), IsFiniteSet(Alerts)
    PROVE  Spec => BatchBounded
<1> DEFINE Bounded == Cardinality(ErasedLogs) + Cardinality(ErasedAlerts) <= BatchSize
<1>1. Init => PageGuard
  <2>1. ASSUME Init, NEW r \in Runs PROVE PageOf(r)
    BY <2>1, EmptyPage DEF Init
  <2> QED
    BY <2>1 DEF PageGuard
<1>2. IInv /\ PageGuard /\ [Next]_vars => PageGuard'
  BY PageStep DEF IInv
<1>3. ASSUME IInv, PageGuard, [Next]_vars PROVE Bounded
  <2>1. CASE ErasedLogs \cup ErasedAlerts = {}
    <3>1. ErasedLogs = {} /\ ErasedAlerts = {}
      BY <2>1
    <3> QED
      BY <3>1, FS_EmptySet, NumberAssumption
  <2>2. CASE ErasedLogs \cup ErasedAlerts # {}
    <3>1. PICK r \in Runs : Commit(r) \/ CommitLost(r)
      BY <1>3, <2>2, ErasedByCommit
    <3>2. PageOf(r) /\ tx[r] \in TxType
      BY <1>3 DEF PageGuard, IInv, TypeOK
    <3>3. ErasedLogs \subseteq tx[r].logs /\ ErasedAlerts \subseteq tx[r].alerts
      BY <1>3, <3>1, <3>2, ErasedPending DEF PageOf
    <3>4. IsFiniteSet(tx[r].logs) /\ IsFiniteSet(tx[r].alerts)
      BY <3>2, FS_Subset DEF TxType
    <3>5. /\ Cardinality(ErasedLogs) <= Cardinality(tx[r].logs)
          /\ Cardinality(ErasedAlerts) <= Cardinality(tx[r].alerts)
          /\ IsFiniteSet(ErasedLogs) /\ IsFiniteSet(ErasedAlerts)
      BY <3>3, <3>4, FS_Subset
    <3>6. /\ Cardinality(tx[r].logs) \in Nat /\ Cardinality(tx[r].alerts) \in Nat
          /\ Cardinality(ErasedLogs) \in Nat /\ Cardinality(ErasedAlerts) \in Nat
      BY <3>4, <3>5, FS_CardinalityType
    <3>7. Cardinality(tx[r].alerts) + Cardinality(tx[r].logs) <= BatchSize
      BY <3>2 DEF PageOf
    <3> QED
      BY <3>5, <3>6, <3>7, NumberAssumption
  <2> QED
    BY <2>1, <2>2
<1>4. IInv /\ PageGuard /\ [Next]_vars => [Bounded]_vars
  BY <1>3
<1> HIDE DEF Bounded
<1>5. Spec => []PageGuard
  BY <1>1, <1>2, Invariance, PTL DEF Spec
<1>6. Spec => [][Bounded]_vars
  BY <1>4, <1>5, Invariance, PTL DEF Spec
<1> QED
  BY <1>6 DEF BatchBounded, Bounded
=============================================================================
