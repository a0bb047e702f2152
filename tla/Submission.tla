----------------------------- MODULE Submission ----------------------------
(***************************************************************************)
(* Submission of audit logs (src/src/domains/audit/audit.service.ts):      *)
(* submit and submitBatch with reserveQuota, by concurrent requests of one *)
(* organization.  One action is one awaited statement of the code, so that *)
(* everything read before an await may be stale after it; the guarded      *)
(* UPDATEs of reserveQuota are atomic in PostgreSQL.  What the rules say   *)
(* of an entry is an input here (flagged); the delivery of webhooks and    *)
(* e-mails, which nothing waits for, is left out.                          *)
(***************************************************************************)
EXTENDS Integers, FiniteSets

CONSTANTS
    Requests,             \* requests of the organization
    MaxEntries,           \* longest batch (100)
    Bodies,               \* request bodies: kind, number of entries, the entries
                          \* that name the agent, those the rules will flag
    Quotas, PlanQuota,    \* values of apiQuota; the quota of the plan
    InitQuota, InitUsed,  \* apiQuota and apiUsed at the start
    MaxMonth, MaxFaults,  \* bounds of the model: calendar, crashes and errors,
    MaxChanges            \* changes of quota, agents and account

ASSUME QuotaAssumption ==
    /\ Quotas \subseteq Nat /\ PlanQuota \in Nat
    /\ InitQuota \in Quotas
    /\ InitUsed \in 0 .. IF InitQuota > 0 THEN InitQuota ELSE PlanQuota
ASSUME BoundAssumption ==
    MaxEntries \in Nat \ {0} /\ {MaxMonth, MaxFaults, MaxChanges} \subseteq Nat
ASSUME BodyAssumption ==
    \A b \in Bodies :
        /\ b \in [kind : {"single", "batch"}, n : 1 .. MaxEntries,
                  named : SUBSET (1 .. MaxEntries), flagged : SUBSET (1 .. MaxEntries)]
        /\ b.named \cup b.flagged \subseteq 1 .. b.n
        /\ b.kind = "single" => b.n = 1

VARIABLES
    month,     \* the calendar month (UTC)
    org,       \* the Organization row: apiUsed, apiQuota, usagePeriodStart
    agent,     \* the agent that entries may name exists
    pc,        \* next statement of every request
    req,       \* body, locals and reply of every request
    stored,    \* committed audit logs, as <<request, entry>>
    alerted,   \* alerts, by the log they were created for
    granted,   \* units granted in every window (history)
    ceiling,   \* highest quota so far (history)
    faults,    \* crashes and errors so far
    changes    \* changes of quota, agents and account so far

vars == <<month, org, agent, pc, req, stored, alerted, granted, ceiling, faults, changes>>

Months == 0 .. MaxMonth
Entries == 1 .. MaxEntries
Kinds == {"single", "batch"}

NoReq == [kind |-> "single", n |-> 1, named |-> {}, flagged |-> {},
          quota |-> 0, period |-> 0, start |-> 0,
          next |-> 1, results |-> {}, errors |-> 0, tx |-> "open", reply |-> "none"]

QuotaOf(q) == IF q > 0 THEN q ELSE PlanQuota

Init ==
    /\ month = 0
    /\ org = [live |-> TRUE, used |-> InitUsed, quota |-> InitQuota, period |-> 0]
    /\ agent = TRUE
    /\ pc = [r \in Requests |-> "idle"]
    /\ req = [r \in Requests |-> NoReq]
    /\ stored = {} /\ alerted = {}
    /\ granted = [w \in Months |-> IF w = 0 THEN InitUsed ELSE 0]
    /\ ceiling = QuotaOf(InitQuota)
    /\ faults = 0 /\ changes = 0

Goto(r, label) == pc' = [pc EXCEPT ![r] = label]

Reply(r, status) ==
    /\ Goto(r, "done")
    /\ req' = [req EXCEPT ![r].reply = status]

quotaState == <<org, granted, ceiling>>
logState == <<stored, alerted>>
world == <<month, agent, faults, changes>>

----------------------------------------------------------------------------
(* assertAgentsBelongToOrganization and reserveQuota.                      *)

\* A request with body b arrives.
Submit(r, b) ==
    /\ pc[r] = "idle"
    /\ req' = [req EXCEPT ![r] = [NoReq EXCEPT !.kind = b.kind, !.n = b.n,
                                               !.named = b.named, !.flagged = b.flagged]]
    /\ Goto(r, "agents")
    /\ UNCHANGED <<quotaState, logState, world>>

\* l.81-100
AssertAgents(r) ==
    /\ pc[r] = "agents"
    /\ \/ req[r].named # {} /\ ~agent /\ Reply(r, "error")
       \/ /\ req[r].named # {} => agent
          /\ Goto(r, "org")
          /\ UNCHANGED req
    /\ UNCHANGED <<quotaState, logState, world>>

\* l.39-46, and the quota of l.49
ReadOrg(r) ==
    /\ pc[r] = "org"
    /\ \/ ~org.live /\ Reply(r, "error")
       \/ /\ org.live
          /\ req' = [req EXCEPT ![r].quota = QuotaOf(org.quota), ![r].period = org.period]
          /\ Goto(r, "window")
    /\ UNCHANGED <<quotaState, logState, world>>

\* Mutant: only a row that never had a window is rolled forward.
NeedsReset_Never(period, start) == FALSE
NeedsReset(period, start) == period < start

\* l.48, 53: the calendar is looked at after the row was read.
Window(r) ==
    /\ pc[r] = "window"
    /\ req' = [req EXCEPT ![r].start = month]
    /\ Goto(r, IF NeedsReset(req[r].period, month) THEN "reset" ELSE "reserve")
    /\ UNCHANGED <<quotaState, logState, world>>

\* Mutant: the reset is not guarded by usagePeriodStart.
RollDue_Unguarded(r) == org.live
RollDue(r) == org.live /\ org.period < req[r].start

\* Mutant: the sum is cleared, the window stays.
Rolled_SameWindow(start) == [org EXCEPT !.used = 0]
Rolled(start) == [org EXCEPT !.used = 0, !.period = start]

\* l.54-57
Reset(r) ==
    /\ pc[r] = "reset"
    /\ \/ RollDue(r) /\ org' = Rolled(req[r].start)
       \/ ~RollDue(r) /\ UNCHANGED org
    /\ Goto(r, "reserve")
    /\ UNCHANGED <<req, granted, ceiling, logState, world>>

\* Mutant: the increment is left out of the comparison.
Fits_Below(r) == org.live /\ org.used < req[r].quota
Fits(r) == org.live /\ org.used <= req[r].quota - req[r].n

\* l.62-78: without a row that fits the request is refused (402).
Reserve(r) ==
    /\ pc[r] = "reserve"
    /\ \/ /\ Fits(r)
          /\ org' = [org EXCEPT !.used = org.used + req[r].n]
          /\ granted' = [granted EXCEPT ![org.period] = granted[org.period] + req[r].n]
          /\ Goto(r, "evaluate")
          /\ UNCHANGED req
       \/ ~Fits(r) /\ Reply(r, "rejected") /\ UNCHANGED <<org, granted>>
    /\ UNCHANGED <<ceiling, logState, world>>

----------------------------------------------------------------------------
(* The logs.                                                               *)

\* Mutant: the loop goes one entry too far.
LastEntry_OneMore(r) == req[r].next > req[r].n
LastEntry(r) == req[r].next = req[r].n

\* The loop of submitBatch goes on to the next entry or leaves for COMMIT.
NextEntry(r) == IF LastEntry(r) THEN req[r].next ELSE req[r].next + 1
AfterEntry(r) == IF LastEntry(r) THEN "commit" ELSE "evaluate"

\* Mutant: the catch block only logs.
Failures_Ignored(r) == req[r].errors
Failures(r) == req[r].errors + 1

\* l.201-204: an entry of a batch failed, the transaction is left in state t.
EntryFailed(r, t) ==
    /\ req' = [req EXCEPT ![r].errors = Failures(r), ![r].next = NextEntry(r), ![r].tx = t]
    /\ Goto(r, AfterEntry(r))

\* l.107, 175: the rules are evaluated outside the transaction.
Evaluate(r) ==
    /\ pc[r] = "evaluate"
    /\ Goto(r, "create")
    /\ UNCHANGED <<req, quotaState, logState, world>>

\* A rule cannot be evaluated: that ends a single submission and costs a batch
\* one entry.
EvaluateFails(r) ==
    /\ pc[r] = "evaluate"
    /\ faults < MaxFaults /\ faults' = faults + 1
    /\ IF req[r].kind = "single" THEN Reply(r, "error") ELSE EntryFailed(r, req[r].tx)
    /\ UNCHANGED <<quotaState, logState, month, agent, changes>>

\* The foreign keys of the row are satisfied.
RowsExist(r) == org.live /\ (req[r].next \in req[r].named => agent)

\* Mutant: the log of a batch is created outside the transaction.
Inserted_Always(r) == stored \cup {<<r, req[r].next>>}
Inserted(r) == IF req[r].kind = "single" THEN stored \cup {<<r, req[r].next>>} ELSE stored

\* l.109-123, 176-197
CreateLog(r) ==
    /\ pc[r] = "create" /\ RowsExist(r) /\ req[r].tx = "open"
    /\ stored' = Inserted(r)
    /\ \/ /\ req[r].kind = "single"
          /\ req' = [req EXCEPT ![r].results = {1}]
          /\ Goto(r, "alerts")
       \/ /\ req[r].kind = "batch"
          /\ req' = [req EXCEPT ![r].results = @ \cup {req[r].next}, ![r].next = NextEntry(r)]
          /\ Goto(r, AfterEntry(r))
    /\ UNCHANGED <<alerted, quotaState, world>>

\* The database refuses the row: inside a transaction that aborts it, and every
\* later statement fails too.
InsertFails(r) ==
    IF req[r].kind = "single" THEN Reply(r, "error")
    ELSE EntryFailed(r, IF req[r].tx = "open" THEN "aborted" ELSE req[r].tx)

CreateFails(r) ==
    /\ pc[r] = "create"
    /\ ~RowsExist(r) \/ req[r].tx # "open"
    /\ InsertFails(r)
    /\ UNCHANGED <<logState, quotaState, world>>

\* Any other error of the INSERT.
CreateError(r) ==
    /\ pc[r] = "create" /\ RowsExist(r) /\ req[r].tx = "open"
    /\ faults < MaxFaults /\ faults' = faults + 1
    /\ InsertFails(r)
    /\ UNCHANGED <<logState, quotaState, month, agent, changes>>

InTx(r) == req[r].kind = "batch" /\ pc[r] \in {"evaluate", "create", "commit"}

\* The batch outlives Prisma's default timeout: rolled back and closed.
Expire(r) ==
    /\ InTx(r) /\ req[r].tx # "closed"
    /\ faults < MaxFaults /\ faults' = faults + 1
    /\ req' = [req EXCEPT ![r].tx = "closed"]
    /\ UNCHANGED <<pc, quotaState, logState, month, agent, changes>>

\* l.206-213: COMMIT of an aborted transaction rolls back without an error; a
\* closed one throws.  The reply does not wait for the alerts.
Commit(r) ==
    /\ pc[r] = "commit"
    /\ \/ req[r].tx = "closed" /\ Reply(r, "error") /\ UNCHANGED stored
       \/ /\ req[r].tx # "closed"
          /\ stored' = IF req[r].tx = "open"
                       THEN stored \cup {<<r, i>> : i \in req[r].results} ELSE stored
          /\ req' = [req EXCEPT ![r].reply = "created"]
          /\ Goto(r, "alerts")
    /\ UNCHANGED <<alerted, quotaState, world>>

----------------------------------------------------------------------------
(* The alerts: before the reply of submit, behind the reply of submitBatch. *)

\* Mutant: only single submissions create alerts.
AlertsDue_Single(r) ==
    {i \in req[r].results \cap req[r].flagged : <<r, i>> \notin alerted /\ req[r].kind = "single"}
AlertsDue(r) == {i \in req[r].results \cap req[r].flagged : <<r, i>> \notin alerted}

\* A batch was answered before its alerts.
AlertsEnd(r, status) ==
    IF req[r].kind = "single" THEN Reply(r, status) ELSE Goto(r, "done") /\ UNCHANGED req

\* l.130-141, 659-670: in the order of the entries; the first log that is not
\* there ends the loop.
CreateAlert(r) ==
    /\ pc[r] = "alerts"
    /\ \/ AlertsDue(r) = {} /\ AlertsEnd(r, "created") /\ UNCHANGED alerted
       \/ \E i \in AlertsDue(r) :
            /\ \A j \in AlertsDue(r) : i <= j
            /\ \/ /\ <<r, i>> \in stored
                  /\ alerted' = alerted \cup {<<r, i>>}
                  /\ UNCHANGED <<pc, req>>
               \/ /\ <<r, i>> \notin stored
                  /\ AlertsEnd(r, "error")
                  /\ UNCHANGED alerted
    /\ UNCHANGED <<stored, quotaState, world>>

AlertError(r) ==
    /\ pc[r] = "alerts" /\ AlertsDue(r) # {}
    /\ faults < MaxFaults /\ faults' = faults + 1
    /\ AlertsEnd(r, "error")
    /\ UNCHANGED <<logState, quotaState, month, agent, changes>>

\* The process dies; PostgreSQL rolls its open transaction back.
Crash(r) ==
    /\ pc[r] \notin {"idle", "done"}
    /\ faults < MaxFaults /\ faults' = faults + 1
    /\ Goto(r, "done")
    /\ UNCHANGED <<req, logState, quotaState, month, agent, changes>>

----------------------------------------------------------------------------
(* Around the requests.                                                    *)

NextMonth ==
    /\ month < MaxMonth /\ month' = month + 1
    /\ UNCHANGED <<quotaState, agent, pc, req, logState, faults, changes>>

Change == changes < MaxChanges /\ changes' = changes + 1

\* A plan change of applySubscriptionPlan.
SetQuota(q) ==
    /\ Change
    /\ org.live /\ q # org.quota
    /\ org' = [org EXCEPT !.quota = q]
    /\ ceiling' = IF QuotaOf(q) > ceiling THEN QuotaOf(q) ELSE ceiling
    /\ UNCHANGED <<month, agent, pc, req, logState, granted, faults>>

\* An uncommitted log holds a KEY SHARE lock on the rows it refers to.
Refers(r, S) == InTx(r) /\ req[r].tx = "open" /\ req[r].results \cap S # {}

\* agentService.remove: logs that name the agent lose the reference.
RemoveAgent ==
    /\ Change
    /\ agent /\ \A r \in Requests : ~Refers(r, req[r].named)
    /\ agent' = FALSE
    /\ UNCHANGED <<month, pc, req, logState, quotaState, faults>>

\* authService.deleteOrganization cascades to agents, logs and alerts.
DeleteOrganization ==
    /\ Change
    /\ org.live /\ \A r \in Requests : ~Refers(r, Entries)
    /\ org' = [org EXCEPT !.live = FALSE]
    /\ agent' = FALSE /\ stored' = {} /\ alerted' = {}
    /\ UNCHANGED <<month, pc, req, granted, ceiling, faults>>

Step(r) ==
    \/ AssertAgents(r) \/ ReadOrg(r) \/ Window(r) \/ Reset(r) \/ Reserve(r)
    \/ Evaluate(r) \/ CreateLog(r) \/ CreateFails(r) \/ Commit(r) \/ CreateAlert(r)

Fault(r) == EvaluateFails(r) \/ CreateError(r) \/ Expire(r) \/ AlertError(r) \/ Crash(r)

Next ==
    \/ \E r \in Requests : Step(r) \/ Fault(r)
    \/ \E r \in Requests, b \in Bodies : Submit(r, b)
    \/ \E q \in Quotas : SetQuota(q)
    \/ RemoveAgent \/ DeleteOrganization \/ NextMonth

Spec == Init /\ [][Next]_vars

\* A request that was taken up runs to its end.
FairSpec == Spec /\ \A r \in Requests : WF_vars(Step(r))

----------------------------------------------------------------------------
(* Properties.                                                             *)

Labels == {"idle", "agents", "org", "window", "reset", "reserve", "evaluate",
           "create", "commit", "alerts", "done"}

ReqType == [kind : Kinds, n : Entries, named : SUBSET Entries, flagged : SUBSET Entries,
            quota : Nat, period : Months, start : Months,
            next : Entries, results : SUBSET Entries, errors : Nat,
            tx : {"open", "aborted", "closed"},
            reply : {"none", "created", "rejected", "error"}]

\* The types of the organization row, the requests and the tables.
TypeOK ==
    /\ month \in Months /\ agent \in BOOLEAN
    /\ org \in [live : BOOLEAN, used : Nat, quota : Quotas, period : Months]
    /\ pc \in [Requests -> Labels]
    /\ req \in [Requests -> ReqType]
    /\ stored \subseteq Requests \X Entries /\ alerted \subseteq Requests \X Entries
    /\ granted \in [Months -> Nat] /\ ceiling \in Nat
    /\ faults \in Nat /\ changes \in Nat

\* apiUsed is exactly what was granted in the window of usagePeriodStart: no
\* interleaving of resets and increments clears the same month twice, loses a
\* grant or carries one over.
UsageExact == org.used = granted[org.period]

\* In no month more units are granted than the highest quota the organization has
\* had, whatever requests read before they reserve.
QuotaRespected == \A w \in Months : granted[w] <= ceiling

\* A request is refused only when what was granted in a month not before the one
\* it arrived in leaves no room for it: last month's usage never costs a request.
NoStaleRejection ==
    [][\A r \in Requests : req'[r].reply = "rejected" /\ req[r].reply = "none" /\ org.live =>
        /\ org.period >= req[r].start
        /\ granted[org.period] + req[r].n > req[r].quota]_vars

\* reserveQuota implements the ledger its comment promises.
Ledger == INSTANCE QuotaLedger WITH window <- org.period, spent <- org.used, cap <- ceiling
LedgerSpec == Ledger!Spec

StoredOf(r) == {i \in Entries : <<r, i>> \in stored}

\* No log of a batch is visible before its transaction has committed, or at all
\* when the batch is answered with an error; afterwards it is every log the reply
\* has a result for, or none.
BatchAllOrNothing ==
    \A r \in Requests : req[r].kind = "batch" =>
        \/ StoredOf(r) = {}
        \/ req[r].reply = "created" /\ StoredOf(r) = req[r].results

\* A reply that reports no errors is right: every entry of the request was stored,
\* and the batch counted each as processed.
CleanReplyStored ==
    \A r \in Requests : org.live /\ req[r].reply = "created" /\ req[r].errors = 0 =>
        StoredOf(r) = 1 .. req[r].n /\ req[r].results = 1 .. req[r].n

\* What src/src/utils/swagger.ts:529 says of `processed`: the entries that were
\* successfully created.
ProcessedAreStored ==
    \A r \in Requests : org.live /\ req[r].reply = "created" => StoredOf(r) = req[r].results

\* Unless a process dies or a statement fails, every stored log that the rules
\* flagged gets its alert, behind the reply of a batch too.
FlaggedAlerted ==
    \A r \in Requests, i \in Entries :
        (<<r, i>> \in stored /\ i \in req[r].flagged) ~>
            (<<r, i>> \in alerted \/ faults > 0 \/ ~org.live)

----------------------------------------------------------------------------
(* The inductive invariant behind the safety properties.                   *)

\* Windows move forward with the calendar only; nothing is granted ahead of them,
\* and a request about to reserve has seen its own month in the row.
WindowGuard ==
    /\ org.period <= month
    /\ \A w \in Months : w > org.period => granted[w] = 0
    /\ \A r \in Requests :
        /\ pc[r] = "window" => req[r].period <= org.period
        /\ pc[r] = "reset" => req[r].start <= month
        /\ pc[r] = "reserve" /\ org.live => req[r].start <= org.period

\* No request works with a quota the organization never had.
QuotaGuard ==
    /\ QuotaOf(org.quota) <= ceiling
    /\ \A r \in Requests :
        pc[r] \in {"window", "reset", "reserve"} => req[r].quota <= ceiling

\* The entries of a batch the loop has left behind.
Done(r) == 1 .. IF pc[r] = "commit" THEN req[r].n ELSE req[r].next - 1

Answered(r) == req[r].reply = "created"
BeforeLoop == {"idle", "agents", "org", "window", "reset", "reserve"}

\* Nothing of a request is stored before it is created or committed, and a batch
\* whose transaction was aborted has counted an error.
LogGuardOf(r) ==
    /\ req[r].next <= req[r].n
    /\ pc[r] \in BeforeLoop \cup {"evaluate", "create", "commit"} =>
        StoredOf(r) = {} /\ ~Answered(r)
    /\ pc[r] \in BeforeLoop \/ req[r].kind = "single" =>
        req[r].tx = "open" /\ req[r].errors = 0
    /\ pc[r] \in BeforeLoop => req[r].next = 1 /\ req[r].results = {}
    /\ req[r].kind = "single" => req[r].n = 1 /\ pc[r] # "commit"
    /\ pc[r] \in {"evaluate", "create", "commit"} =>
        /\ req[r].tx = "aborted" => req[r].errors > 0
        /\ req[r].errors = 0 => req[r].results = Done(r)
    /\ pc[r] = "alerts" /\ req[r].kind = "single" =>
        req[r].results = {1} /\ (org.live => StoredOf(r) = {1})

LogGuard == \A r \in Requests : LogGuardOf(r)

IInv ==
    /\ TypeOK /\ UsageExact /\ QuotaRespected /\ WindowGuard /\ QuotaGuard
    /\ LogGuard /\ BatchAllOrNothing /\ CleanReplyStored
=============================================================================
