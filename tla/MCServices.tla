------------------------------- MODULE MCServices -------------------------------
(* Components for TLC that need no fairness.  They share no variable, so      *)
(* one run explores them side by side: the initial state says which one runs *)
(* and the others rest in one initial state of theirs.                       *)
EXTENDS Tracing

CONSTANTS
    Jobs, MAX_ALERT_EMAILS, AlertWindow, AlertTime, MaxMails, AlertChanges,
    Requests, Max, NotHit, MaxWindow,
    Calls, Texts, Metas, None, Gone, MaxRules, MaxVersions,
    Subs, Plans, Unknown, Handlers, Forgets, MaxEvents,
    Slots, Policies, Org, Timed, Preferred, Modes, Starts, Ends, PerHour, Hours,
    MaxRequests, Window, MaxBatch, MaxTime, MaxChanges, MaxStored,
    ReportIds, Agents, Days, Bulks, MaxReports, MaxArrivals,
    SeverityFilters, EnforcementActions, MaxRead,
    Orgs, Keys, Providers, Emails, Limit, MaxAsked

VARIABLES
    which,
    clock, settings, job, bucket, mails, switches,
    window, count, request, opened, carried,
    policy, rules, lastId, versions, at, locals, seen,
    org, alive, stripe, events, handled, serial, handler, carries,
    now, rule, mode, assigned, active, timeOfDay, req, stored, changes,
    reports, byDay, download, removing, pdf, created, arrivals,
    policies, read, asked, results,
    account, used, agents, paid, keys, h, given, requests

Notices == INSTANCE AlertNotices WITH
    now <- clock, org <- settings, changes <- switches,
    Window <- AlertWindow, MaxTime <- AlertTime, MaxChanges <- AlertChanges
Limits == INSTANCE RateLimit
\* With their proofs (and Registry below), whose theorems MCServicesProofs restates.
Versions == INSTANCE PolicyVersionsProofs WITH pc <- at, call <- locals
Stripe == INSTANCE Billing WITH pc <- handler, local <- carries
Verdicts == INSTANCE RuleEvaluation WITH
    kind <- rule, logs <- stored, MaxLogs <- MaxStored

Files == INSTANCE Reports WITH Ids <- ReportIds, stored <- byDay
\* The policies in one order, and two rules of the first, of either severity.
Order == CHOOSE s \in [1 .. Cardinality(Policies) -> Policies] : Policies = {s[i] : i \in DOMAIN s}
Analytics == INSTANCE PolicyAnalytics WITH
    Priority <- Order, Rules <- {Order[1]} \X {"warning", "critical"},
    Severities <- SeverityFilters, logs <- read, MaxLogs <- MaxRead
Registry == INSTANCE AccountsProofs WITH org <- account, MaxRequests <- MaxAsked

noticeVars == <<clock, settings, job, bucket, mails, switches>>
limitVars == <<window, count, request, opened, carried>>
versionVars == <<policy, rules, lastId, versions, at, locals, seen>>
billingVars == <<org, alive, stripe, events, handled, serial, handler, carries>>
ruleVars == <<now, rule, mode, assigned, active, timeOfDay, req, stored, changes>>
reportVars == <<reports, byDay, download, removing, pdf, created, arrivals>>
analyticsVars == <<policies, read, asked, results>>
accountVars == <<account, used, agents, paid, keys, h, given, requests>>
serviceVars == <<noticeVars, limitVars, versionVars, billingVars, ruleVars>>
restVars == <<reportVars, analyticsVars, accountVars>>
allVars == <<which, vars, noticeVars, limitVars, versionVars, billingVars, ruleVars, restVars>>

Pin(part, initial) == which # part => initial

MCInit ==
    /\ which \in {"traces", "notices", "limits", "versions", "billing", "rules",
                 "reports", "analytics", "accounts"}
    /\ Files!ReportInit /\ Analytics!AnalyticsInit /\ Registry!AccountInit
    /\ Init /\ Notices!Init /\ Limits!Init /\ Versions!Init /\ Stripe!Init /\ Verdicts!Init
    /\ Pin("traces", kind = CHOOSE k \in Kinds : TRUE)
    /\ Pin("notices", settings = [email |-> TRUE, min |-> "warning"])
    /\ Pin("versions", policy = CHOOSE m \in Metas : TRUE)
    /\ Pin("versions", \A r \in rules : r.text = CHOOSE t \in Texts : TRUE)
    /\ Pin("rules", rule = "rate" /\ stored = Verdicts!Stored(0))

MCNext ==
    \/ /\ which = "traces" /\ Next
       /\ UNCHANGED <<which, noticeVars, limitVars, versionVars, billingVars, ruleVars, restVars>>
    \/ /\ which = "notices" /\ Notices!Next
       /\ UNCHANGED <<which, vars, limitVars, versionVars, billingVars, ruleVars, restVars>>
    \/ /\ which = "limits" /\ Limits!Next
       /\ UNCHANGED <<which, vars, noticeVars, versionVars, billingVars, ruleVars, restVars>>
    \/ /\ which = "versions" /\ Versions!Next
       /\ UNCHANGED <<which, vars, noticeVars, limitVars, billingVars, ruleVars, restVars>>
    \/ /\ which = "billing" /\ Stripe!Next
       /\ UNCHANGED <<which, vars, noticeVars, limitVars, versionVars, ruleVars, restVars>>
    \/ /\ which = "rules" /\ Verdicts!Next
       /\ UNCHANGED <<which, vars, noticeVars, limitVars, versionVars, billingVars, restVars>>
    \/ /\ which = "reports" /\ Files!ReportNext
       /\ UNCHANGED <<which, vars, serviceVars, analyticsVars, accountVars>>
    \/ /\ which = "analytics" /\ Analytics!AnalyticsNext
       /\ UNCHANGED <<which, vars, serviceVars, reportVars, accountVars>>
    \/ /\ which = "accounts" /\ Registry!AccountNext
       /\ UNCHANGED <<which, vars, serviceVars, reportVars, analyticsVars>>

MCSpec == MCInit /\ [][MCNext]_allVars

\* At most ten alert e-mails in every five minutes; see AlertNotices.
WindowRespected == which = "notices" => Notices!WindowRespected

\* Failed logins of a window stay within the limit; see RateLimit.
FailuresBounded == which = "limits" => Limits!FailuresBounded

\* The versions of a policy are a history of it; see PolicyVersions.
HistoryKept == Versions!HistoryKept

\* A change saved columns and rules the policy had during it, in that order; see PolicyVersions.
SnapshotInCall == which = "versions" => Versions!SnapshotInCall

\* Changes that do not overlap can be undone; see PolicyVersions.
SerialChangesReversible == Versions!SerialChangesReversible

\* Events handled in order leave the plan that is paid for; see Billing.
SerialBillingAgrees == which = "billing" => Stripe!SerialBillingAgrees

\* A rule in force is carried out at least; see RuleEvaluation.
VerdictCovers == which = "rules" => Verdicts!VerdictCovers

\* The rate rule lets no more than its limit escape; see RuleEvaluation.
RateBounded == which = "rules" => Verdicts!RateBounded

\* The rows of a PDF fit their pages; see Reports.
RowsFit == which = "reports" => Files!RowsFit

\* Totals and breakdowns are those of the window; see PolicyAnalytics.
TotalsAgree == which = "analytics" => Analytics!TotalsAgree

\* Signing in through a provider leads to the same account; see Accounts.
SignInReturns == which = "accounts" => Registry!SignInReturns

\* Requests that overlap pass the limit of agents by a known number; see Accounts.
AgentsBounded == which = "accounts" => Registry!AgentsBounded
=============================================================================
