# TLA+ models of the AgentAudit API

These modules model the parts of the server (`src/src`) whose correctness depends on the order in
which concurrent requests, background work, failures and the clock interleave. TLC checks them on
small instances (`MC*.tla`, `*.cfg`); TLAPS proves the safety theorems of the `*Proofs` modules
for every value of the constants. `PROJECT.json` holds the exact correspondence: which definition
models which lines, what each run checks, a broken variant of the code (a mutant) for every checked
property, the hazards of the code, and the findings.

Paths below are relative to `src/src` unless they start with `docs/` or `prisma/`.

## The system

An Express process (several may run) over one PostgreSQL database, with Stripe and Resend outside.
Nothing in memory is shared between processes. Within one process every `await` is a point where
another request, a callback or a promise nobody waits for may run. Outside the few transactions
every Prisma call is its own transaction at READ COMMITTED.

| component | state | operations | hard behaviour | what makes it correct |
|---|---|---|---|---|
| retention (`domains/retention`) | the `RetentionJobState` row: lease, switch, two cursors; logs, alerts and periods of the tenants | `runRetention`, `processBatch` | several workers, a lease, transactions of eight statements, two kill switches, crashes, retries, late alerts | only expired rows go, authorised and by the lease holder; no alert loses its log; the backlog drains |
| submission and quota (`domains/audit`) | `apiUsed`, `apiQuota`, `usagePeriodStart`; logs; alerts | `submit`, `submitBatch`, `reserveQuota`, `createBatchAlerts` | stale snapshots, the turn of the month, failing entries in a transaction, alerts behind the reply | the month's ledger is exact and below the quota; replies tell the truth; flagged logs get alerts |
| rule evaluation (`domains/audit`) | rules, policies, assignments (read) | `evaluateComplianceRules` and what it calls | times that wrap midnight, counts read before the insert, policies that change under an evaluation | a rule in force is carried out at least; the rate rule lets a bounded number pass |
| alerts (`domains/alerts`) | alert rows; e-mail timestamps in memory | `tryConsumeAlertEmailQuota`, `sendAlert` | a sliding window at its limit | at most ten e-mails in five minutes |
| e-mail (`services`, `domains/email`) | `EmailDelivery` rows | `send`, `updateStatusByProviderMessageId` | check-then-record dedupe, retries, webhooks out of order, crashes | a duplicate is backed by a send; a status tells of a message that exists; every send ends |
| billing (`domains/billing`) | plan, quota and Stripe ids of the organization | five webhook cases, checkout, portal, status | repeated, late and overlapping events, state read before a call to Stripe | plan and quota follow the linked subscription |
| policies, rules, versions (`domains/policies`, `domains/compliance`) | policies, rules, numbered versions | update, snapshot, restore, packs | snapshots outside a transaction, racing version numbers | numbers without gaps; a change can be undone |
| accounts, agents (`domains/auth`, `domains/agents`) | organizations, API keys, agents | register, provider login, password, keys, delete; agent create and remove | check-then-act over unique indexes, deletion under running requests | an identity keeps its account; agents within the plan, but for overlapping requests |
| rate limiter (`middleware`) | one counter for each key and window | increment, decrement | the decrement in a later window, fail-open | a bound on the failed logins of a window |
| reports, analytics (`domains/reports`, `domains/policies`) | report rows | create, remove, download; analytics of one or all policies | logs, agents and policies change between two reads; page breaks | rows and footers fit every page; totals agree with breakdowns |
| dashboard (`website/dashboard.js`) | what is on display, requests in flight | retention panel, policy dialogs, lists | answers out of order, lost or late; dialogs reopened | what is shown and what is sent belong together |
| client SDKs (`sdk`) | trace, root and current span of a run | the integrations' callbacks | requests fail, are repeated or lose their answer | the chain endpoint finds a whole run |

Interactions: submission creates the logs and alerts that retention deletes; rule evaluation reads
what the policy calls change; billing changes the quota submission reads; account deletion cascades
under all of them; submission and billing send e-mail behind their replies; the limiter stands
before the login; the dashboard and the SDKs are clients of the API. Configuration, routing,
validation, the static pages and the scripts are not modelled (see "Not modelled").

## Modules

```
Retention ------- RetentionProofs           Submission --- SubmissionProofs
   |  \                                        |   \
   |   RetentionTraversal                      |    QuotaLedger  (abstract, refined)
   |        \                                  |
MCRetention  MCRetentionTraversal           MCSubmission

MCServices:  Tracing, and by INSTANCE AlertNotices, RateLimit, PolicyVersions, Billing,
             RuleEvaluation, Reports, PolicyAnalytics, Accounts
             (PolicyVersions refines the abstract VersionHistory)
MCProgress:  RetentionPanel, and by INSTANCE EmailDelivery, PolicyDialog, Console

RetentionPanelProofs, AccountsProofs, EmailDeliveryProofs, PolicyVersionsProofs extend the module
of their name; MCServices and MCProgress instantiate the last three, and MCServicesProofs and
MCProgressProofs prove about the compositions themselves
```

`MCServices` and `MCProgress` only save runs: their components share no variable, so the initial
state chooses the one that runs (`which`) and the others rest. Interactions are inside the modules:
each of them has the actions of the neighbours that touch its rows (`ApplyPlan` in `Accounts`,
`LogsErased` in `Reports`, the assignments and modes in `RuleEvaluation`).

### Retention

One action is one statement of `retention.service.ts` that reads or writes shared state, so a batch
interleaves with every other transaction exactly where the code lets it: `BeginBatch` (the first
look at the environment switch and BEGIN), `LockJob` (SELECT ... FOR UPDATE of the job row, lease,
switches, renewal), `ChooseOrg`, `LockOrg`, `FindAlerts`, `DeleteAlerts`, `FindLogs`, `LockLogs`,
`DeleteLogs`, `Recheck`, `Commit`. Around them are `Start`, `Claim` and `Release` of `runRetention`.

* Row locks are not variables: they follow from the program counter (`HoldsJob`, `HoldsOrg`,
  `HoldsLog`), as a transaction keeps its locks until it ends. Inserting a log or an alert takes a
  KEY SHARE lock on the rows its foreign keys name, which waits for FOR UPDATE.
* A batch's writes stay in `tx` and reach the tables in `Commit`; its own later statements see them.
* `CURRENT_TIMESTAMP` is the start of the transaction, so the lease is compared with `tx.start` and
  renewed from it. One clock serves the workers and the database.
* `runId` is identified with the worker: a worker runs one `runRetention` at a time. The
  environment switch is one variable for all processes.
* `TxError` is a database error in any statement (retried when transient, else the run fails; both
  are possible), `CommitLost` a COMMIT that took effect but whose answer is lost, `TxExpire` Prisma's
  10 s limit, `Crash` the death of the worker or a `finally` block without a database.
* The other actors are `updateRetention`, `deleteOrganization`, `CreateLog`, `CreateAlert` (which may
  come arbitrarily late, as the alerts of a batch are not awaited) and the operator's two switches.

The two runs over `MCRetention` that check safety split the state space: `retention_lease` takes
two workers on one row, `retention_erase` one worker on two tenants with logs and alerts. Safety for
any number of workers and rows at once is what the proofs add.

`RetentionTraversal` extends the specification with a history of the candidates a dry-run traversal
has reported; `retention_traversal` shows the finding below.

### Submission and QuotaLedger

One action is one awaited statement of `audit.service.ts`, so what was read before an `await` may be
stale after it. A guarded `updateMany` is one SQL UPDATE and thus atomic (`Reset`, `Reserve`). The
calendar is read after the row (`Window`). A request body is its kind, its number of entries, the
entries that name the agent and those the rules will flag.

* The interactive transaction of a batch is `open`, `aborted` (a statement failed: PostgreSQL refuses
  the rest and turns COMMIT into a rollback without an error) or `closed` (Prisma's default limit of
  5 s: COMMIT throws). Its uncommitted logs lock the account and the agent against deletion.
* `submit` creates its alerts before the reply, `submitBatch` behind it. Several alerts of one log are
  one here; webhooks and e-mails, which nothing waits for, are left out.
* What a client does after an error is not part of the code; a retry is simply one more request.
* `stored` and `alerted` are the tables, `granted` and `ceiling` are history variables for the
  properties and for the refinement.

`QuotaLedger` is the abstract specification of the comment at `audit.service.ts:29-37`: a monthly
sum that grows by atomic grants up to a cap and starts again once in a later month. `LedgerSpec`
says that `Submission` implements it under `window <- org.period`, `spent <- org.used`,
`cap <- ceiling`; it is model-checked and proved.

### RuleEvaluation, AlertNotices

`evaluateComplianceRules` is two reads for each entry: `buildRuleScope` (assigned policies in force at
this moment) and `FindRules` (the active rules in scope as they are now), or `checkRateLimit`; policies,
rules and the clock change between them, and a batch stores its entries at its end. The clock is
minutes of a day; as `hour12: false` writes the hour after midnight as 24, `currentMinutes` has that
hour a day too late. A text detector's answer is an input. `AlertNotices` keeps the times of all e-mails of a process
(`mails`, history) and, as the bucket, the set of those the code still remembers: `filter` forgets the
ones outside the window, a restart forgets all.

### EmailDelivery

One action is one statement or one call to Resend of `send`: dedupe check, `record`, up to three
attempts, the update after each. An answer may be lost after Resend accepted the message, an update
may fail, the process may die anywhere, and an account's rows may be erased. Stripe repeats an event
while its first delivery is at work, so several sends share a key.

### Billing

Stripe is a table of subscriptions and the sequence of the events it made; they carry the state
of their moment and are delivered in any order, repeatedly, to concurrent handlers. The handler of
a completed checkout asks Stripe again, the others use what the event says. `serial` is history: the
events so far came in order, the latest possibly again, and at most the two of one checkout overlapped.

### PolicyVersions and VersionHistory

A call is the statements `look up`, `createVersion` (read the columns, read the rules, number the version
by the latest, insert) and `write`, with those of other calls between them. The policy is read by one `findFirst` with
`include`, which is two SELECTs outside a transaction, so `ReadColumns` and `ReadRules` are two actions: a version can
have columns and rules the policy never had together. The index on policy and number
refuses a second version of one number; the call then fails. `restoreVersion` writes in a transaction and
saves its version afterwards. `seen` is history: what the policy has said during each call, in order.

`VersionHistory` is the abstract specification of the versions, without calls, statements or ids: a policy
says something until it is deleted; a saved entry has the next number, holds columns and rules
the policy had, not necessarily together, since the calls now at work began, and is never changed; deletion takes all of them. `HistoryKept` says
that `PolicyVersions` implements it under `said <- Now` (columns and rules of the row), `recent <- Recent` (what
the calls at work have seen) and `history <-` numbers and contents of the versions. A call inserts what it
read two and three statements earlier under a number it computed one statement earlier, so the refinement rests on the
unique index; without it two entries have one number and the insertion is no `Save`.

### Accounts, RateLimit

Handlers look up and then write; the unique indexes on the address and on the provider's identity, and
the foreign keys, are what holds between. `given` remembers which identity led to which account. The
limiter counts a hit in the window of the request and takes it back in that of the response;
an error of the store lets the request pass uncounted (`opened`).

### Reports, PolicyAnalytics

A download reads the row and the logs in two statements, and draws. The layout of a PDF is computed
with the constants of the code; only what is written into a cell is left out. `forEach` and
`getPolicyAnalytics` are the loops of the code, turn by turn, as recursive functions; `results` keeps the logs each summary was made from.

### RetentionPanel, PolicyDialog, Console

One action is one click, or the code that runs between two `await`s. `RetentionPanel` compares
`retention.revision` only for equality, so a request carries whether it is `current`. A save whose outcome
is unknown leaves its base `uncertain` until the preference has been loaded again. `PolicyDialog`
has the four requests that fill the detail dialog, the editor and the confirmation that lie over it, and
`Console` the lists (API keys, rules, packs, agents, alerts, logs with their pages and filter) with the
number of changes each display has seen: a change is sent by a dialog (`Create`) or by a button of a row
(`PressRow`), the server applies it, and its answer reloads the lists the code reloads. `Leave` drops what is in flight.

### Tracing

A client starts a trace, sends logs and takes the id of an answer as the parent of later ones; the kinds
differ in what they wait for and what a failure leaves behind. The Python integrations have one request out at
a time (`StartTrace`, `Event`, `EndOfStep`, `Finish`) and may send it again (`Retry`); the handlers of the TypeScript
callback (`handleFirstStart`, `handleStart`, `handleEnd`, `handleError`) do not wait for the first log of their trace, and
its rejection may end the process (`Unhandled`). `rootOf` and `linked` are history: the id
that was told for the first log of a trace, and whether a log was sent with it in hand.

## Runs

| run | checks | instance |
|---|---|---|
| `retention_lease` | `TypeOK`, `LeaseNotStolen`, `ErasureAuthorised` | 2 workers (symmetric), 1 tenant, 1 log |
| `retention_erase` | `NoOrphanedAlert`, `KillSwitchDrains`, `OnlyExpiredErased`, `BatchBounded` | 1 worker, 2 tenants, 3 logs, 3 alerts, pages of 2, periods 1 and 2 |
| `retention_live` | `BacklogDrains` under `FairSpec` | 1 worker, 2 tenants, 3 logs and one that is created later, pages of 1, one batch per run, 1 fault |
| `retention_traversal` | `FullTraversal`, violated | 1 worker, 1 tenant, 2 expired logs, pages of 1 |
| `submission_quota` | `TypeOK`, `UsageExact`, `QuotaRespected`, `NoStaleRejection`, `LedgerSpec` | 3 requests (symmetric) of 1 or 2 entries, 3 months, quotas 1, 3 and the plan's 2 |
| `submission_batch` | `BatchAllOrNothing`, `CleanReplyStored`, `FlaggedAlerted` under `FairSpec` | 2 requests of 1, 2 or 3 entries, 2 faults, 1 deletion |
| `submission_reply` | `ProcessedAreStored`, violated | 1 request, 1 deletion, no fault |
| `services` | one component at a time: `ChainComplete` (traces), `WindowRespected` (e-mail window), `FailuresBounded` (rate limit), `HistoryKept`, `SnapshotInCall`, `SerialChangesReversible` (versions), `SerialBillingAgrees`, `VerdictCovers`, `RateBounded` (rules), `RowsFit` (reports), `TotalsAgree` (analytics), `SignInReturns`, `AgentsBounded` (accounts) | see below |
| `progress` | `SavedAsReviewed`, `ReviewUsable`, `DisplayCertain`, `PanelSettles` (panel), `StatusHonest`, `DuplicateBacked`, `SecondMailUnrecorded`, `ProviderHasLastWord`, `SendEnds` (e-mail), `SettledDialogAgrees` (dialogs), `ListsTruthful` (lists) | see below |
| `billing_quota` | `FreeQuota`, violated | 2 subscriptions, 2 handlers, 3 events |
| `rule_priority` | `PriorityWins`, violated | 2 policies of different priority |
| `policy_dialog` | `ButtonsOfShownPolicy`, violated | 2 policies, 2 calls, 4 clicks |

Bounds. `MaxTime` lets a lease expire and be taken over while its owner is still in a transaction
(`LeaseTerm` 2, `TxTimeout` 1, as 60 s and 10 s in the code: only their order matters). Pages of one
or two rows make a tenant need several batches and alerts compete with logs for a page. Batches of
three entries have a first, a middle and a last to fail. Two resets need three months. `MaxFaults`
and `MaxChanges` bound errors and the changes of operators and tenants; one or two of each is
enough to place any of them at any statement, and the proofs hold for any number.
`CHECK_DEADLOCK FALSE` stands in every configuration because the bounded clock, the bounded changes
and the finite set of rows or requests let every behaviour come to its end.

`services`: 2 traces of any integration with 5 logs and 3 requests in flight; a window of 2 ticks and 2
e-mails over 5 ticks, so that e-mails leave the window while others stay; 4 logins over two windows of limit 1;
2 concurrent policy calls, 3 versions, 3 rules; 2 subscriptions, 2 paid plans, 3 events and 2 handlers, which is a
checkout and a change or its cancellation; a day of 4 hours with a point window and one over midnight, 2
policies, batches of 2 and a rate limit of 1; 1, 16 or 43 logs at a time, so that a page is exactly full and a
third begins; 2 logs, 2 policies and both severities; 2 accounts, 2 providers, 5 requests, 2 at a time.
`progress`: 2 API bases, 2 choices, a preview that expires after one tick, 2 navigations; 2 sends of one key with 3 attempts;
2 policies, 2 calls and 3 clicks; 3 loads of 2 sections and one list below the overview, 2 pages, 2 clicks.

Fairness. A live process executes its next statement and the clock goes on. PostgreSQL serves the
waiters of a row lock in turn, so a `Step` that is enabled again and again is taken: strong fairness
in `Retention`. In `Submission` a request that was taken up runs to its end (weak fairness; its locks
only delay deletions). Faults, changes and new requests are never fair. No code in the repository
schedules `runRetention`: `BacklogDrains` therefore assumes that an operator keeps starting execution
runs (`SF` of `Start`), and, as the clock is bounded, it speaks of runs that time no longer cuts short.
In the panel a request is answered, fails, or is aborted by the 15 s timer of `api` and `loadRetention`, and the
promise's callback runs: weak fairness of `Settle`; clicks, the clock and the answers themselves are never fair. In
`EmailDelivery` a send that is at work takes its next step (weak fairness of `Step`, one for each
send); a crash is one of the ends it may come to.

## Properties

* `OnlyExpiredErased`: what a batch deletes is older than the period its tenant has *at the commit*,
  though the cutoff was computed several statements before; the lock of the organization makes it so.
* `ErasureAuthorised`, `LeaseNotStolen`: a run deletes only while its own lease is live and the
  database switch is on, and cannot free or take a lease that is live in other hands.
* `NoOrphanedAlert`: deleting a log never sets the reference of a remaining alert to null, although an
  alert may be created between two batches with an id the alert cursor has already passed.
* `KillSwitchDrains`: after the environment switch goes off at most one batch still commits deletions.
* `BatchBounded`, `BacklogDrains`: a transaction deletes at most a page; repeated runs reach every
  expired log although an interrupted run makes the next one start behind its tenant.
* `UsageExact`, `QuotaRespected`, `LedgerSpec`: no interleaving of resets, reservations and plan
  changes double-resets a month, loses a grant or passes the quota.
* `NoStaleRejection`: last month's usage never refuses a request of this month.
* `BatchAllOrNothing`, `CleanReplyStored`: a batch shows no log before it commits, none when it is
  answered with an error, and else all it has results for or none; a reply without errors is right. `FlaggedAlerted`: a flagged log gets its alert unless something fails.
* `VerdictCovers`: a rule in force during a whole evaluation has its action or a stronger one carried out,
  although scope and rules are read separately and windows wrap. `RateBounded`: logs that escape the rate rule exceed
  its limit by no more than what was under way together.
* `WindowRespected`: no five minutes see more than ten alert e-mails, whatever the bucket forgot.
* `StatusHonest`, `ProviderHasLastWord`: webhooks and sender write one column without conditions, and yet a status
  is about a message that exists and the provider's is never overwritten. `DuplicateBacked`,
  `SecondMailUnrecorded`, `SendEnds`: what the dedupe key does achieve under crashes and repeated events.
  It does not exclude a second e-mail: a send that could not be recorded goes out as well. Nor does it exclude
  that none goes out: the e-mail of a call a crash ended (`lost`) is sent by nobody.
* `SerialBillingAgrees`: with events in order, repetitions and the overlap of a checkout's two events, plan and
  quota end as the linked subscription says.
* `HistoryKept`, `SnapshotInCall`, `SerialChangesReversible`: the versions are the history `VersionHistory`
  describes; before it writes, a call has saved columns the policy had at one moment of that very call, with rules of that moment
  or a later one (`InOrder`); and calls that do not overlap can be undone exactly. Overlapping calls cannot:
  the snapshot of one may miss the write of the other, or have its rules and not its columns.
* `SignInReturns`: whoever registers, links or deletes meanwhile, an identity goes on leading to the one account
  with its address. `AgentsBounded`: overlapping creations pass the limit by at most the other requests.
* `FailuresBounded`: the failed logins of a window exceed the limit only by uncounted ones and hits of an
  earlier window that were taken back in this one.
* `RowsFit`: every log has a row between header and footer rule that reaches into no other, every page its footer.
  `TotalsAgree`: every total of a summary, and every entry of its breakdowns, is the number of logs or violations of
  one set of logs that it stands for.
* `SavedAsReviewed`, `ReviewUsable`, `DisplayCertain`, `PanelSettles`: a save was reviewed for that very choice and
  base within five minutes; the display comes from the base in use and is not shown as certain after a save of
  unknown outcome; the controls come back.
* `SettledDialogAgrees`, `ListsTruthful`: with no overlap, the parts of a dialog and the rows of a list agree with
  what the page was told. Of two overlapping loads of a list the older answer may stay on display; nothing in the
  repository says it does not, so no property is about it.
* `ChainComplete`: `GET /audit-logs/:id/chain` finds every log the Python integrations sent below a
  root they know. It is not claimed of the TypeScript handler, which does not wait for the root's id.

## Findings

* `retention_traversal`: `docs/operations.md:76` asks for a full dry-run traversal "continuing through
  `limited` results" and for its counts. A dry run deletes nothing, and a run that stops inside a
  tenant saves that tenant as its cursor (`retention.service.ts:213`), so the next run starts behind it
  and the rest of that tenant is never counted. (For execution runs this only delays: `BacklogDrains`.)
* `submission_reply`: `utils/swagger.ts:494` says errors on individual entries do not abort the batch,
  and `:529` that `processed` counts the entries created. One failed INSERT aborts the transaction all
  entries share (`audit.service.ts:172-206`); the reply still counts the earlier ones.
* `billing_quota`: `README.md:838` gives the free plan 5,000 requests; a cancelled subscription leaves the paid
  `apiQuota` in the row (`subscription.service.ts:241`), and `reserveQuota` prefers it.
* `rule_priority`: `README.md:538` lets the policy of the highest priority win; each policy holds its own copy of a rule,
  so the sort by priority (`audit.service.ts:556`) never compares two actions and the strongest is taken.
* `policy_dialog`: the comment at `website/dashboard.js:1076` wires the buttons "for this policy"; opened for another policy
  while the first is still loading, the dialog shows one and its buttons change another.

## Proofs

The `*Proofs` modules prove, for every value of the constants, `Spec => []P` for the safety invariants
and `Spec => [][A]_vars` for the action properties that the runs check: all of them.

Assumptions. `Retention`, `Submission` and `RetentionPanel` name theirs in the modules (`BatchesBounded` adds
that the tables are finite). The other components are used by `INSTANCE`, so their theorems state what they assume:

| component | assumed | because |
|---|---|---|
| `EmailDelivery` | attempts are positive, keyed sends are sends, event types have a status | the constants of `email.service.ts` |
| `PolicyVersions` | what a policy says (columns, or columns and rules) is none of the markers `None`, `Gone` | they stand for null and a deleted row |
| `Accounts` | finitely many requests at a time, a positive limit, no identity is `None` | |
| `Console` | the number of pages is a number | |
| `RateLimit` | finitely many requests, limits are numbers, `NotHit` is not a window | |
| `AlertNotices` | the limit and the window are numbers | |
| `Tracing` | the bound on traces is a number | |
| `RuleEvaluation` | a day has hours and minutes, windows lie in it, every mode is an action; for `RateBounded` finitely many submissions at a time, limit, window and batch size are numbers | `HH:MM` in the conditions |
| `Billing` | no subscription is `None` | it stands for null |
| `Reports` | days are numbers, logs arrive in numbers | |
| `PolicyAnalytics` | days are numbers, and one of them is the last | a window ends today |

The inductive invariants, and why the properties are not inductive alone:

* Retention: `IInv` strengthens the properties by `LeaseGuard` (one batch at a time holds the job row,
  its run owns the lease, and it saw the switch on), `PendingGuard` (what a batch is going to delete is
  expired under its tenant's present period, and no remaining alert refers to its logs) and
  `DrainGuard` (with the switch off, at most one batch is past its last look at it): a batch commits what it
  decided statements earlier. `BatchBounded` needs `PageGuard` as well: the selected alerts and logs fit one
  page. Its lemma `FirstIdsBounded` bounds `orderBy id, take k` by the pigeonhole argument: a row is
  determined by its rank, which is below `k`.
* Submission: `IInv` adds `WindowGuard` (windows follow the calendar, nothing is granted ahead of them,
  and a request about to reserve has its month in the row), `QuotaGuard` (no request works with a quota
  the organization never had) and `LogGuard` (what a request has stored and counted at every label).
  `LedgerSpec` follows step by step from the invariant.
* RetentionPanel: `IInv` adds that one request is out at a time (`OneRequest`), that nothing is on display
  while a preference is loaded (`LoadGuard`), that a preview not invalidated asks for the choice on display
  (`PreviewGuard`) and that a save goes to a base without an unknown outcome (`SaveGuard`). The finally
  block is safe because the panel it is given agrees with what is known of the base (`FinallyGuards`).
* EmailDelivery: `RowGuard` says who may have written what, above all that only a call that ended with
  `sent` has a message in its row: a call at work cannot meet a status of the provider.
  `KeyGuard` is the unique index.
* PolicyVersions: the numbers are dense and a number read earlier is at most one too high, so the unique
  index admits it only as the next one; `CallGuard` says at which moments of the call what it holds was seen: the columns once they are read
  (`ColumnsOf`), columns and rules from then on (`InOrder`), both of which later moments preserve (`MoreSeen`).
  `HistoryKept` follows step by step (`WorkStep`, `SaveStep`, `NextHistory`): as numbers are dense, an insertion
  the index lets through has the next number, and abstract entries are as many as versions (`EntryCount`).
* Accounts: agents and requests about to insert one (`Pending`) together stay below the limit plus
  the other requests; a link has the address of its row and addresses are unique, so a row found
  by link or by address is the same.
* PolicyDialog: `DialogInv` says that calls which did not overlap are one at most, how far that one has filled the
  dialog at each of its four answers, and that without one the parts and buttons belong to the title.
* Console: `ListInv` says, list by list, that without overlap one load is in flight at most, and that what it has
  read (what is displayed, when there is none) is no older than the last change the page was told of.
* RateLimit: `LimitInv` adds `Accounted`: each request of a window that is pending or has failed has a hit in the
  counter of the window, was not counted, or lost its hit to a request of an earlier window; and a counted hit above the limit is refused.
* AlertNotices: `NoticeInv` adds that the bucket has every e-mail of the window that ends now (`BucketComplete`).
  Times only grow, so all e-mails of a window were in the bucket when its last one was allowed.
* Tracing: `TraceInv` says that span, root and the requests under way are below the root of their trace
  (`SpanBelow`, `RootsStored`, `RequestBelow`) and that every linked log is (`LogsBelow`). As `getChain` is the smallest set
  closed under children, a new log with a parent below a root is below it as well, and a later log removes none.
* RuleEvaluation: `VerdictInv` says that a rule in force since an evaluation began is among the rules each of its
  steps can find (`SteadyInForce`) and among the actions of the entries it has judged (`SteadyCovered`). The lemma
  `OpenInWindow` is the arithmetic: a wall-clock window, over midnight or not, is what the code's minutes compare, the
  hour written as 24 included. `RateInv` bounds, for each window, the stored logs that escaped the rate rule together
  with the entries that escaped and are not committed, or were let pass and are about to be inserted (`Underway`): a check lets
  an entry pass only while no more than the limit is stored, so it adds to what is under way, which the slots bound,
  and the commit only moves entries from one set to the other.
* Billing: `BillInv` says, as long as the events came in order and Stripe knows the subscription, what an event that is still to come
  or at work in a handler can find in the row (`EventsAgree`, `HandlersAgree`) and how the row agrees with Stripe
  when none of them will still change it (`OrgAgrees`).
* Reports: `ReportInv` says that the document being sent is that of the logs the second statement read, and that a range has
  finitely many. What such a document looks like is the invariant of its loop: `LaidOut` holds after every turn (as many
  rows as turns, within their pages, the next free place on the last page below all its rows, footers up to the page
  before), and one turn preserves it (`PageForRow`, `TurnDraws`). `Turn` is a function, as TLC evaluates the argument
  of a function first: a document of 86 rows needs a quarter of the stack an operator would.
* PolicyAnalytics: `AnalyticsInv` says that the summaries under way are those of the request being answered and that each
  counts what the window holds (`Counts`), whatever has been stored or deleted since. That one pass does so is again a loop
  invariant: after n logs every counter is the cardinality of a set of places among the first n, or of violations at such places
  (`Agree`), and the next log adds its own to each (`OneLogAgrees`, `CountedAgrees`).

Induction over these loops needs no induction theorem with an operator parameter: `NatSets` (a set with 0 and
every successor has all naturals) follows from the least counterexample of a well-founded relation, and is applied to
the set of the turns after which the invariant holds. `LoopExists` shows with it that a function with the values of the loop exists, so that
a recursive definition, which chooses one, has the values it says (`Turns`, `PassAgrees`).

Each of these was first checked by TLC as an invariant of the run of its component, on the instance of that run (those of
the two loops on documents of up to 90 rows and on all pairs of logs); the
invariants of the composed components are in `MCServicesProofs` and `MCProgressProofs`, which also prove that a behaviour of
the composition is one of each component (`TracesRun` and its like). Each proof has a lemma for the initial
states, one for every action or group of actions, one for each property, and temporal theorems on top.

Only model-checked: `BacklogDrains`, `FlaggedAlerted`, `PanelSettles` and `SendEnds`, as liveness under fairness is outside the
prover. The five violations are TLC's counterexamples.

## Not modelled

* Routing, validation and error mapping (what validation guarantees is an assumption on inputs), configuration, logging, the
  SSRF check, password hashing and token parsing: no state that outlives a request.
* Text detectors (PII, sentiment, custom patterns) and templates: string matching and wording.
* The creation of Stripe customers by checkout and portal, payment e-mails, `resolve` of alerts, webhooks to customers,
  `daysOfWeek`, rules that move between policies and the installation of packs: single writes, or check-then-create
  races about which the code, docs and tests promise nothing a property could state (two installations of one pack
  at once install its rules twice; two checkouts at once leave a customer behind).
* The static pages, the trace visualizer, the statistics of the overview and forms that only send one request, and the
  switches of single rules in the preview of a pack (`dashboard.js:1667`), which reload no list.
* The Redis rate-limit store and `express-rate-limit` (libraries), and the scripts.
* Between sessions the dashboard shows what it was told last; changes of other sessions are not part of `ListsTruthful`.

Noticed while modelling, and left as notes as no run is about them: a policy's on/off switch answers two events of one
click (`dashboard.js:957-966`), so two opposite requests race; `isActive` of a policy is never asked by
`buildRuleScope`; violations of a policy in mode `log` are flagged and alerted like others; the overlay of a 503
announces a retry nothing makes (`dashboard.js:1238`); a quota spent on a submission that then fails is not given back,
a client that repeats a submission after an error stores it twice; and the two SELECTs of `createVersion`
(`policy-version.service.ts:27`) can save a version that mixes the policy of two moments.

## Plan

What could follow: an abstract specification of `EmailDelivery` (a key and its messages) with its refinement.
