----------------------------- MODULE Retention -----------------------------
(***************************************************************************)
(* The audit-log retention job (src/src/domains/retention): runs of        *)
(* runRetention, each a loop of processBatch transactions, share with each *)
(* other one RetentionJobState row (lease, DB kill switch, cursors) and    *)
(* share with the API the Organization, AuditLog and Alert tables.         *)
(*                                                                         *)
(* One action is one statement of the code that reads or writes shared     *)
(* state.  PostgreSQL runs a batch at READ COMMITTED, so the statements of *)
(* a batch interleave with other transactions; its row locks are derived   *)
(* from the program counter (HoldsJob, HoldsOrg, HoldsLog) and its writes  *)
(* stay in tx until Commit.  Ids are numbers because the code orders by    *)
(* them; 0 is the absent cursor or the null foreign key.                   *)
(***************************************************************************)
EXTENDS Integers, FiniteSets

CONSTANTS
    Orgs, Logs, Alerts,   \* row ids of the three tables
    OrgOf,                \* the organization of every audit log
    AlertOrg, AlertLog,   \* the organization and the log an alert is created for
    Runs, NoRun,          \* worker processes; the null leaseOwner
    Periods,              \* the retention periods an organization may choose
    LeaseTerm,            \* length of a lease (60 s)
    TxTimeout,            \* longest life of a batch transaction (10 s)
    BatchSize, MaxBatches, MaxDuration,  \* the options of runRetention
    MaxAttempts,          \* tries of one batch (3)
    MaxTime, MaxFaults,   \* bounds of the model: clock, crashes and errors,
    MaxChanges,           \* changes of switches, periods and accounts
    InitTime, InitLogAt, InitAlerts \* the clock and the rows at the start

NoId == 0
Off == 0                  \* retentionDays is null
Gone == -1                \* the organization row was deleted
NotYet == -1              \* the row was not inserted yet
Deleted == -2             \* the row was deleted
Modes == {"dry", "exec"}
Statuses == {"none", "completed", "limited", "disabled", "lease_lost", "failed"}

ASSUME IdAssumption ==
    /\ Orgs \subseteq Nat \ {0} /\ Logs \subseteq Nat \ {0} /\ Alerts \subseteq Nat \ {0}
    /\ OrgOf \in [Logs -> Orgs]
    /\ AlertOrg \in [Alerts -> Orgs]
    /\ AlertLog \in [Alerts -> Logs \cup {NoId}]
    /\ \A a \in Alerts : AlertLog[a] # NoId => OrgOf[AlertLog[a]] = AlertOrg[a]
    /\ NoRun \notin Runs
ASSUME NumberAssumption ==
    /\ Periods \subseteq Nat \ {0}
    /\ {LeaseTerm, TxTimeout, BatchSize, MaxBatches, MaxDuration, MaxAttempts,
        InitTime, MaxTime, MaxFaults, MaxChanges} \subseteq Nat
    /\ TxTimeout < LeaseTerm
ASSUME InitAssumption ==
    /\ InitLogAt \in [Logs -> {NotYet, 0}]
    /\ InitAlerts \subseteq Alerts
    /\ \A a \in InitAlerts : AlertLog[a] # NoId => InitLogAt[AlertLog[a]] = 0

VARIABLES
    now,        \* the clock; createdAt, asOf and leaseExpiresAt are its values
    env,        \* RETENTION_DELETE_ENABLED is 'true'
    job,        \* the RetentionJobState row
    retention,  \* Organization.retentionDays, Off or Gone
    logAt,      \* AuditLog.createdAt, NotYet or Deleted
    alert,      \* Alert.createdAt and Alert.auditLogId
    pc,         \* next statement of every run
    run,        \* options and counters of every run
    prog,       \* the Progress object of every run
    tx,         \* locals and uncommitted writes of the batch transaction
    late,       \* erasing commits since env was switched off (history)
    faults,     \* crashes and errors so far
    changes     \* operator's and tenants' changes so far

vars == <<now, env, job, retention, logAt, alert, pc, run, prog, tx, late, faults, changes>>
data == <<retention, logAt, alert>>

JobHeld == {"chooseOrg", "lockOrg", "findAlerts", "deleteAlerts", "findLogs",
            "lockLogs", "deleteLogs", "recheck", "commit"}
OrgHeld == JobHeld \ {"chooseOrg", "lockOrg"}
LogHeld == {"deleteLogs", "recheck", "commit"}
InTx == JobHeld \cup {"lockJob"}

----------------------------------------------------------------------------
(* Rows, filters and locks.                                                *)

OrgIds == Orgs \cup {NoId}
LogIds == Logs \cup {NoId}
AlertIds == Alerts \cup {NoId}
Row == {NotYet, Deleted} \cup Nat

NoProgress == [org |-> NoId, orgCursor |-> NoId, alertCursor |-> NoId, logCursor |-> NoId]
NoTx == [start |-> 0, org |-> NoId, cutoff |-> 0, alerts |-> {}, delAlerts |-> {},
         logs |-> {}, delLogs |-> {}, finished |-> TRUE]
NoRunState == [mode |-> "dry", asOf |-> 0, batches |-> 0, attempt |-> 1, status |-> "none"]

\* Mutant: the environment switch is read when the run starts only.
deletionAllowed_AtStart(r) == TRUE
deletionAllowed(r) == run[r].mode = "exec" => env

retentionCutoff(days, asOf) == asOf - days

Present(at) == at >= 0

ExpiredLogs(o, cutoff) ==
    {l \in Logs : OrgOf[l] = o /\ Present(logAt[l]) /\ logAt[l] < cutoff}

expiredAlertFilter(o, cutoff) ==
    {a \in Alerts : /\ AlertOrg[a] = o /\ Present(alert[a].at)
                    /\ \/ alert[a].log \in ExpiredLogs(o, cutoff)
                       \/ alert[a].log = NoId /\ alert[a].at < cutoff}

\* Mutant: without `alerts: { none: {} }`.
LogWhere_AnyLog(r) == ExpiredLogs(tx[r].org, tx[r].cutoff)

\* logWhere: `alerts: { none: {} }` sees the transaction's own deletions.
LogWhere(r) ==
    {l \in ExpiredLogs(tx[r].org, tx[r].cutoff) :
        run[r].mode = "exec" =>
            \A a \in Alerts \ tx[r].delAlerts :
                Present(alert[a].at) => alert[a].log # l}

\* orderBy id asc, take k
FirstIds(S, k) == {x \in S : Cardinality({y \in S : y < x}) < k}

IsLast(x, S) == \A y \in S : y <= x
LastId(S, cursor) ==
    IF \E x \in S : IsLast(x, S) THEN CHOOSE x \in S : IsLast(x, S) ELSE cursor

HoldsJob(r) == pc[r] \in JobHeld
\* Mutant: the organization is read without FOR UPDATE.
HoldsOrg_Unlocked(r, o) == FALSE
HoldsOrg(r, o) == pc[r] \in OrgHeld /\ tx[r].org = o
HoldsLog(r, l) == pc[r] \in LogHeld /\ run[r].mode = "exec" /\ l \in tx[r].logs

JobFree == \A s \in Runs : ~HoldsJob(s)
OrgFree(o) == \A s \in Runs : ~HoldsOrg(s, o)
LogFree(l) == \A s \in Runs : ~HoldsLog(s, l)

InTime(r) == now - tx[r].start <= TxTimeout

Init ==
    /\ now = InitTime /\ env \in BOOLEAN /\ late = 0 /\ faults = 0 /\ changes = 0
    /\ \E b \in BOOLEAN :
         job = [owner |-> NoRun, expires |-> 0, enabled |-> b,
                cursor |-> [m \in Modes |-> NoId]]
    /\ retention \in [Orgs -> Periods \cup {Off}]
    /\ logAt = InitLogAt
    /\ alert = [a \in Alerts |-> IF a \in InitAlerts THEN [at |-> 0, log |-> AlertLog[a]]
                                 ELSE [at |-> NotYet, log |-> NoId]]
    /\ pc = [r \in Runs |-> "idle"]
    /\ run = [r \in Runs |-> NoRunState]
    /\ prog = [r \in Runs |-> NoProgress]
    /\ tx = [r \in Runs |-> NoTx]

----------------------------------------------------------------------------
(* runRetention.                                                           *)

\* l.124-148: options, asOf, runId; an execution run needs the switch.
Start(r, m) ==
    /\ pc[r] = "idle"
    /\ m = "exec" => env
    /\ run' = [run EXCEPT ![r] = [NoRunState EXCEPT !.mode = m, !.asOf = now]]
    /\ pc' = [pc EXCEPT ![r] = "claim"]
    /\ UNCHANGED <<now, env, job, data, prog, tx, late, faults, changes>>

ToIdle(r) ==
    /\ pc' = [pc EXCEPT ![r] = "idle"]
    /\ run' = [run EXCEPT ![r] = NoRunState]
    /\ prog' = [prog EXCEPT ![r] = NoProgress]
    /\ tx' = [tx EXCEPT ![r] = NoTx]

LeaseFree == job.owner = NoRun \/ job.expires <= now

\* l.149-161: the UPDATE waits for the row lock; without a row it returns 'locked'.
Claim(r) ==
    /\ pc[r] = "claim" /\ JobFree
    /\ \/ /\ LeaseFree
          /\ job' = [job EXCEPT !.owner = r, !.expires = now + LeaseTerm]
          /\ prog' = [prog EXCEPT ![r].orgCursor = job.cursor[run[r].mode]]
          /\ pc' = [pc EXCEPT ![r] = "begin"]
          /\ UNCHANGED <<run, tx>>
       \/ /\ ~LeaseFree
          /\ ToIdle(r)
          /\ UNCHANGED job
    /\ UNCHANGED <<now, env, data, late, faults, changes>>

\* l.199: a run whose time was up before its first batch was counted is `limited`,
\* whatever that batch found; an error skips this line.
FinalStatus(r, status) ==
    IF status # "failed" /\ run[r].batches = 0 /\ now - run[r].asOf >= MaxDuration
    THEN "limited" ELSE status

\* Leave the loop with a status; the transaction, if any, is over.
Stop(r, status) ==
    /\ pc' = [pc EXCEPT ![r] = "release"]
    /\ run' = [run EXCEPT ![r].status = FinalStatus(r, status)]
    /\ tx' = [tx EXCEPT ![r] = NoTx]

MayTry(r) ==
    /\ now - run[r].asOf < MaxDuration
    /\ run[r].attempt = 1 => run[r].batches < MaxBatches

\* l.162-167, 55-58: the loop heads, the first check of the switch and BEGIN.
BeginBatch(r) ==
    /\ pc[r] = "begin"
    /\ \/ ~MayTry(r) /\ Stop(r, "limited")
       \/ MayTry(r) /\ ~deletionAllowed(r) /\ Stop(r, "disabled")
       \/ /\ MayTry(r) /\ deletionAllowed(r)
          /\ pc' = [pc EXCEPT ![r] = "lockJob"]
          /\ tx' = [tx EXCEPT ![r].start = now]
          /\ UNCHANGED run
    /\ UNCHANGED <<now, env, job, data, prog, late, faults, changes>>

\* Mutant: a completed run keeps its cursor.
ReleasedCursor_Kept(r) == IF prog[r].org # NoId THEN prog[r].org ELSE prog[r].orgCursor

\* l.205-223: the finally block; the update is guarded by leaseOwner = runId.
ReleasedCursor(r) ==
    CASE run[r].status = "completed" -> NoId
      [] run[r].status # "completed" /\ prog[r].org # NoId -> prog[r].org
      [] OTHER -> prog[r].orgCursor

\* Mutant: without `leaseOwner: runId` in the where clause.
Released_AnyOwner(r) ==
    [job EXCEPT !.owner = NoRun, !.expires = 0, !.cursor[run[r].mode] = ReleasedCursor(r)]

Released(r) ==
    IF job.owner = r
    THEN [job EXCEPT !.owner = NoRun, !.expires = 0,
                     !.cursor[run[r].mode] = ReleasedCursor(r)]
    ELSE job

Release(r) ==
    /\ pc[r] = "release" /\ JobFree
    /\ job' = Released(r)
    /\ ToIdle(r)
    /\ UNCHANGED <<now, env, data, late, faults, changes>>

----------------------------------------------------------------------------
(* processBatch: the statements of one transaction.                        *)

Goto(r, label) == pc' = [pc EXCEPT ![r] = label]

At(r, label) == pc[r] = label /\ InTime(r)

\* The UPDATE of l.65-68, visible once the transaction commits.
Renewed(r) == [job EXCEPT !.expires = tx[r].start + LeaseTerm]

\* Mutant: any live lease will do.
LeaseValid_AnyOwner(r) == job.expires > tx[r].start
LeaseValid(r) == job.owner = r /\ job.expires > tx[r].start
SwitchesAllow(r) == deletionAllowed(r) /\ (run[r].mode = "exec" => job.enabled)

\* l.59-68: SELECT ... FOR UPDATE of the job row, lease, switches, renewal.
LockJob(r) ==
    /\ At(r, "lockJob") /\ JobFree
    /\ \/ ~LeaseValid(r) /\ Stop(r, "lease_lost")
       \/ LeaseValid(r) /\ ~SwitchesAllow(r) /\ Stop(r, "disabled")
       \/ LeaseValid(r) /\ SwitchesAllow(r) /\ Goto(r, "chooseOrg") /\ UNCHANGED <<run, tx>>
    /\ UNCHANGED <<now, env, job, data, prog, late, faults, changes>>

NextOrgs(r) == {o \in Orgs : retention[o] \in Periods /\ o > prog[r].orgCursor}

\* l.69-76: the organization in progress, else the next one with a period.
ChooseOrg(r) ==
    /\ At(r, "chooseOrg")
    /\ \/ /\ prog[r].org = NoId /\ NextOrgs(r) = {}
          /\ Stop(r, "completed")
          /\ job' = Renewed(r)
       \/ /\ \E o \in IF prog[r].org = NoId THEN FirstIds(NextOrgs(r), 1) ELSE {prog[r].org} :
                tx' = [tx EXCEPT ![r].org = o]
          /\ Goto(r, "lockOrg")
          /\ UNCHANGED <<run, job>>
    /\ UNCHANGED <<now, env, data, prog, late, faults, changes>>

\* l.77-84: lock the organization; without a period the batch is empty.
LockOrg(r) ==
    /\ At(r, "lockOrg") /\ OrgFree(tx[r].org)
    /\ IF retention[tx[r].org] \in Periods
       THEN /\ tx' = [tx EXCEPT ![r].cutoff = retentionCutoff(retention[tx[r].org], run[r].asOf)]
            /\ Goto(r, "findAlerts")
       ELSE Goto(r, "commit") /\ UNCHANGED tx
    /\ UNCHANGED <<now, env, job, data, run, prog, late, faults, changes>>

\* l.85-89
FindAlerts(r) ==
    /\ At(r, "findAlerts")
    /\ tx' = [tx EXCEPT ![r].alerts =
                FirstIds({a \in expiredAlertFilter(tx[r].org, tx[r].cutoff) :
                            a > prog[r].alertCursor}, BatchSize)]
    /\ Goto(r, "deleteAlerts")
    /\ UNCHANGED <<now, env, job, data, run, prog, late, faults, changes>>

AlertsToDelete(r) ==
    IF run[r].mode = "exec"
    THEN tx[r].alerts \cap expiredAlertFilter(tx[r].org, tx[r].cutoff) ELSE {}

\* l.90-93: switched off here, the transaction commits with nothing deleted.
DeleteAlerts(r) ==
    /\ At(r, "deleteAlerts")
    /\ \/ ~deletionAllowed(r) /\ Stop(r, "disabled") /\ job' = Renewed(r)
       \/ /\ deletionAllowed(r)
          /\ tx' = [tx EXCEPT ![r].delAlerts = AlertsToDelete(r)]
          /\ Goto(r, "findLogs")
          /\ UNCHANGED <<run, job>>
    /\ UNCHANGED <<now, env, data, prog, late, faults, changes>>

\* Mutant: a full page of logs after the page of alerts.
Remaining_FullPage(r) == BatchSize
Remaining(r) == BatchSize - Cardinality(tx[r].alerts)

\* l.94-101: as many logs as the alerts left room for.
FindLogs(r) ==
    /\ At(r, "findLogs")
    /\ tx' = [tx EXCEPT ![r].logs =
                FirstIds({l \in LogWhere(r) : l > prog[r].logCursor}, Remaining(r))]
    /\ Goto(r, "lockLogs")
    /\ UNCHANGED <<now, env, job, data, run, prog, late, faults, changes>>

\* l.102-107
LockLogs(r) ==
    /\ At(r, "lockLogs")
    /\ Goto(r, "deleteLogs")
    /\ UNCHANGED <<now, env, job, data, run, prog, tx, late, faults, changes>>

LogsToDelete(r) == IF run[r].mode = "exec" THEN tx[r].logs \cap LogWhere(r) ELSE {}

\* l.108-111: RetentionDisabled rolls everything back, the renewal included.
DeleteLogs(r) ==
    /\ At(r, "deleteLogs")
    /\ \/ ~deletionAllowed(r) /\ Stop(r, "disabled")
       \/ /\ deletionAllowed(r)
          /\ tx' = [tx EXCEPT ![r].delLogs = LogsToDelete(r)]
          /\ Goto(r, "recheck")
          /\ UNCHANGED run
    /\ UNCHANGED <<now, env, job, data, prog, late, faults, changes>>

PageNotFull(r) == Cardinality(tx[r].alerts) + Cardinality(tx[r].logs) < BatchSize

\* l.112-119: the last look at the switch, then the result is returned.
Recheck(r) ==
    /\ At(r, "recheck")
    /\ \/ ~deletionAllowed(r) /\ Stop(r, "disabled")
       \/ /\ deletionAllowed(r)
          /\ tx' = [tx EXCEPT ![r].finished = PageNotFull(r)]
          /\ Goto(r, "commit")
          /\ UNCHANGED run
    /\ UNCHANGED <<now, env, job, data, prog, late, faults, changes>>

\* Mutant: the two cursors are swapped.
NextProgress_Swapped(r) ==
    IF tx[r].finished
    THEN [NoProgress EXCEPT !.orgCursor = tx[r].org]
    ELSE [org |-> tx[r].org, orgCursor |-> prog[r].orgCursor,
          alertCursor |-> LastId(tx[r].logs, prog[r].logCursor),
          logCursor |-> LastId(tx[r].alerts, prog[r].alertCursor)]

\* The progress after a batch (l.115-118, 193-196).
NextProgress(r) ==
    IF tx[r].finished
    THEN [NoProgress EXCEPT !.orgCursor = tx[r].org]
    ELSE [org |-> tx[r].org, orgCursor |-> prog[r].orgCursor,
          alertCursor |-> LastId(tx[r].alerts, prog[r].alertCursor),
          logCursor |-> LastId(tx[r].logs, prog[r].logCursor)]

\* Deleting a log sets the auditLogId of its remaining alerts to null.
AfterErase(r) ==
    [a \in Alerts |->
        [at |-> IF a \in tx[r].delAlerts THEN Deleted ELSE alert[a].at,
         log |-> IF a \in tx[r].delAlerts \/ alert[a].log \in tx[r].delLogs
                 THEN NoId ELSE alert[a].log]]

Erases(r) == tx[r].delAlerts \cup tx[r].delLogs # {}

\* The writes of a batch, visible to the other transactions at COMMIT.
Apply(r) ==
    /\ job' = Renewed(r)
    /\ logAt' = [l \in Logs |-> IF l \in tx[r].delLogs THEN Deleted ELSE logAt[l]]
    /\ alert' = AfterErase(r)
    /\ late' = IF Erases(r) /\ ~env THEN late + 1 ELSE late
    /\ UNCHANGED <<now, env, retention, changes>>

\* COMMIT and l.187-197, back to the loop.
Commit(r) ==
    /\ At(r, "commit") /\ Apply(r)
    /\ run' = [run EXCEPT ![r] = [run[r] EXCEPT !.batches = run[r].batches + 1, !.attempt = 1]]
    /\ prog' = [prog EXCEPT ![r] = NextProgress(r)]
    /\ tx' = [tx EXCEPT ![r] = NoTx]
    /\ Goto(r, "begin")
    /\ UNCHANGED faults

\* COMMIT whose answer is lost: the error is not transient, the run fails.
CommitLost(r) ==
    /\ At(r, "commit") /\ Apply(r)
    /\ faults < MaxFaults /\ faults' = faults + 1
    /\ Stop(r, "failed")
    /\ UNCHANGED prog

\* l.169-177: a database error rolls back; a transient one is tried again with
\* the same progress.
TxError(r) ==
    /\ pc[r] \in InTx
    /\ faults < MaxFaults /\ faults' = faults + 1
    /\ \/ /\ run[r].attempt < MaxAttempts
          /\ run' = [run EXCEPT ![r].attempt = @ + 1]
          /\ tx' = [tx EXCEPT ![r] = NoTx]
          /\ Goto(r, "begin")
       \/ Stop(r, "failed")
    /\ UNCHANGED <<now, env, job, data, prog, late, changes>>

\* l.120: Prisma ends a transaction that outlives its timeout.
TxExpire(r) ==
    /\ pc[r] \in InTx /\ ~InTime(r)
    /\ Stop(r, "failed")
    /\ UNCHANGED <<now, env, job, data, prog, late, faults, changes>>

\* The process dies, or the finally block cannot reach the database.  The bounded
\* clock must still reach the end of the lease that is left behind.
Crash(r) ==
    /\ pc[r] # "idle"
    /\ now + LeaseTerm <= MaxTime
    /\ faults < MaxFaults /\ faults' = faults + 1
    /\ ToIdle(r)
    /\ UNCHANGED <<now, env, job, data, late, changes>>

----------------------------------------------------------------------------
(* The operator and the API around the job.                                *)

Change == changes < MaxChanges /\ changes' = changes + 1

SetEnv(b) ==
    /\ Change
    /\ env # b /\ env' = b /\ late' = 0
    /\ UNCHANGED <<now, job, data, pc, run, prog, tx, faults>>

SetEnabled(b) ==
    /\ Change
    /\ JobFree /\ job.enabled # b
    /\ job' = [job EXCEPT !.enabled = b]
    /\ UNCHANGED <<now, env, data, pc, run, prog, tx, late, faults>>

\* authService.updateRetention: its UPDATE waits for the organization row.
updateRetention(o, v) ==
    /\ Change
    /\ retention[o] # Gone /\ retention[o] # v /\ OrgFree(o)
    /\ retention' = [retention EXCEPT ![o] = v]
    /\ UNCHANGED <<now, env, job, logAt, alert, pc, run, prog, tx, late, faults>>

\* authService.deleteOrganization: the delete cascades to logs and alerts.
deleteOrganization(o) ==
    /\ Change
    /\ retention[o] # Gone /\ OrgFree(o)
    /\ retention' = [retention EXCEPT ![o] = Gone]
    /\ logAt' = [l \in Logs |-> IF OrgOf[l] = o THEN Deleted ELSE logAt[l]]
    /\ alert' = [a \in Alerts |-> IF AlertOrg[a] = o THEN [at |-> Deleted, log |-> NoId]
                                  ELSE alert[a]]
    /\ UNCHANGED <<now, env, job, pc, run, prog, tx, late, faults>>

\* auditLog.create: its foreign key takes a KEY SHARE lock on the organization.
CreateLog(l) ==
    /\ logAt[l] = NotYet
    /\ retention[OrgOf[l]] # Gone /\ OrgFree(OrgOf[l])
    /\ logAt' = [logAt EXCEPT ![l] = now]
    /\ UNCHANGED <<now, env, job, retention, alert, pc, run, prog, tx, late, faults, changes>>

\* alert.create, some time after the log: createBatchAlerts is not awaited.  The
\* foreign keys lock both rows, and fail when one of them is gone.
CreateAlert(a) ==
    /\ alert[a].at = NotYet
    /\ retention[AlertOrg[a]] # Gone /\ OrgFree(AlertOrg[a])
    /\ AlertLog[a] # NoId => Present(logAt[AlertLog[a]]) /\ LogFree(AlertLog[a])
    /\ alert' = [alert EXCEPT ![a] = [at |-> now, log |-> AlertLog[a]]]
    /\ UNCHANGED <<now, env, job, retention, logAt, pc, run, prog, tx, late, faults, changes>>

Tick ==
    /\ now < MaxTime /\ now' = now + 1
    /\ UNCHANGED <<env, job, data, pc, run, prog, tx, late, faults, changes>>

Step(r) ==
    \/ Claim(r) \/ BeginBatch(r) \/ LockJob(r) \/ ChooseOrg(r) \/ LockOrg(r)
    \/ FindAlerts(r) \/ DeleteAlerts(r) \/ FindLogs(r) \/ LockLogs(r)
    \/ DeleteLogs(r) \/ Recheck(r) \/ Commit(r) \/ TxExpire(r) \/ Release(r)

Fault(r) == CommitLost(r) \/ TxError(r) \/ Crash(r)

Next ==
    \/ \E r \in Runs : Step(r) \/ Fault(r) \/ \E m \in Modes : Start(r, m)
    \/ \E b \in BOOLEAN : SetEnv(b) \/ SetEnabled(b)
    \/ \E o \in Orgs : deleteOrganization(o) \/ \E v \in Periods \cup {Off} : updateRetention(o, v)
    \/ \E l \in Logs : CreateLog(l)
    \/ \E a \in Alerts : CreateAlert(a)
    \/ Tick

Spec == Init /\ [][Next]_vars

\* The statements of a live process are executed: PostgreSQL serves the waiters
\* of a row lock in turn, hence strong fairness.  That somebody keeps starting
\* execution runs is the operator's part (nothing in the repository does).
Fairness ==
    /\ WF_vars(Tick)
    /\ \A r \in Runs : SF_vars(Step(r)) /\ SF_vars(Start(r, "exec"))

FairSpec == Spec /\ Fairness

----------------------------------------------------------------------------
(* Properties.                                                             *)

Labels == InTx \cup {"idle", "claim", "begin", "release"}

RunType == [mode : Modes, asOf : Nat, batches : Nat, attempt : Nat, status : Statuses]
ProgressType == [org : OrgIds, orgCursor : OrgIds, alertCursor : AlertIds, logCursor : LogIds]
TxType == [start : Nat, org : OrgIds, cutoff : Int, alerts : SUBSET Alerts,
           delAlerts : SUBSET Alerts, logs : SUBSET Logs, delLogs : SUBSET Logs,
           finished : BOOLEAN]

\* The types of the job row, the tables and the locals of the runs.
TypeOK ==
    /\ now \in Nat /\ env \in BOOLEAN /\ late \in Nat
    /\ faults \in Nat /\ changes \in Nat
    /\ job \in [owner : Runs \cup {NoRun}, expires : Nat, enabled : BOOLEAN,
                cursor : [Modes -> OrgIds]]
    /\ retention \in [Orgs -> Periods \cup {Off, Gone}]
    /\ logAt \in [Logs -> Row]
    /\ alert \in [Alerts -> [at : Row, log : LogIds]]
    /\ pc \in [Runs -> Labels]
    /\ run \in [Runs -> RunType]
    /\ prog \in [Runs -> ProgressType]
    /\ tx \in [Runs -> TxType]

\* Retention never detaches an alert from its audit log: an alert that is still
\* there names the log it was created for, although deleting the log would set
\* its auditLogId to null and alerts are created long after their log.
NoOrphanedAlert ==
    \A a \in Alerts : Present(alert[a].at) => alert[a].log = AlertLog[a]

\* Rows a retention batch deletes, as against the cascade of an account deletion.
ErasedLogs ==
    {l \in Logs : Present(logAt[l]) /\ ~Present(logAt'[l]) /\ retention'[OrgOf[l]] # Gone}
ErasedAlerts ==
    {a \in Alerts : /\ Present(alert[a].at) /\ ~Present(alert'[a].at)
                    /\ retention'[AlertOrg[a]] # Gone}

\* A log is older than `days` at the time of the step.
OlderThan(at, days) == at < now - days

\* Every row a batch deletes is older than the period its organization has chosen
\* at that very moment (not the one chosen when the run began), and an alert goes
\* by the age of its log, never by its own.
OnlyExpiredErased ==
    [][/\ \A l \in ErasedLogs :
            /\ retention[OrgOf[l]] \in Periods
            /\ OlderThan(logAt[l], retention[OrgOf[l]])
       /\ \A a \in ErasedAlerts :
            /\ retention[AlertOrg[a]] \in Periods
            /\ OlderThan(IF alert[a].log = NoId THEN alert[a].at ELSE logAt[alert[a].log],
                         retention[AlertOrg[a]])]_vars

\* When rows are deleted, the database switch is on and an execution run that is
\* committing owns a lease that has not expired: neither a run that lost its lease
\* nor a dry run ever deletes.
ErasureAuthorised ==
    [][ErasedLogs \cup ErasedAlerts # {} =>
        /\ job.enabled
        /\ \E r \in Runs : /\ pc[r] = "commit" /\ run[r].mode = "exec"
                           /\ job'.owner = r /\ job'.expires > now]_vars

\* A lease that has not expired is given up by its owner only: a run that was
\* slow, failed or crashed cannot release or take over the lease of another.
LeaseNotStolen ==
    [][\A r \in Runs : job.owner = r /\ job'.owner # r =>
        \/ pc[r] = "release" /\ job'.owner = NoRun
        \/ job.expires <= now]_vars

\* After RETENTION_DELETE_ENABLED goes off at most one more batch commits
\* deletions, the one that had already looked at the switch for the last time.
KillSwitchDrains == late <= 1

\* One transaction deletes at most batchSize rows, alerts and logs together.
BatchBounded == [][Cardinality(ErasedLogs) + Cardinality(ErasedAlerts) <= BatchSize]_vars

\* The log is expired under the period its organization has now.
Overdue(l) ==
    /\ Present(logAt[l]) /\ retention[OrgOf[l]] \in Periods
    /\ OlderThan(logAt[l], retention[OrgOf[l]])

\* As long as execution runs are started again and again, no log stays expired
\* for good with both switches on, however small the batches and the runs, although
\* a run that stops inside an organization makes the next one skip the rest of it,
\* and although a crash leaves the lease taken.
BacklogDrains ==
    \A l \in Logs : []<>~(env /\ job.enabled /\ Overdue(l))

----------------------------------------------------------------------------
(* The inductive invariant behind the safety properties.                   *)

\* The job row is locked by one batch at a time, whose run owns the lease and, to
\* delete, saw the database switch on; neither can change until the batch ends.
LeaseGuard ==
    \A r \in Runs : HoldsJob(r) =>
        /\ \A s \in Runs : HoldsJob(s) => s = r
        /\ job.owner = r
        /\ run[r].mode = "exec" => job.enabled

\* What a batch is going to delete is expired under the period of its organization,
\* and a log it is going to delete has no alert that stays.
PendingOf(r) ==
    /\ run[r].asOf <= now
    /\ tx[r].delLogs # {} => pc[r] \in {"recheck", "commit"}
    /\ pc[r] \in OrgHeld \ {"commit"} \/ tx[r].delAlerts \cup tx[r].delLogs # {} =>
        /\ pc[r] \in OrgHeld
        /\ retention[tx[r].org] \in Periods
        /\ tx[r].cutoff = retentionCutoff(retention[tx[r].org], run[r].asOf)
    /\ tx[r].delAlerts \cup tx[r].delLogs # {} => run[r].mode = "exec"
    /\ tx[r].delAlerts \subseteq expiredAlertFilter(tx[r].org, tx[r].cutoff)
    /\ tx[r].delLogs \subseteq ExpiredLogs(tx[r].org, tx[r].cutoff)
    /\ \A l \in tx[r].delLogs : \A a \in Alerts \ tx[r].delAlerts :
        Present(alert[a].at) => alert[a].log # l

PendingGuard == \A r \in Runs : PendingOf(r)

\* The deletions that commit with the environment switch off are those of the one
\* batch that was past its last look at the switch.
DrainGuard ==
    /\ env => late = 0
    /\ late <= 1
    /\ \A r \in Runs : pc[r] = "commit" /\ Erases(r) => late = 0

IInv == TypeOK /\ LeaseGuard /\ PendingGuard /\ NoOrphanedAlert /\ DrainGuard
=============================================================================
