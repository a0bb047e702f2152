---------------------------- MODULE AlertNotices -----------------------------
(***************************************************************************)
(* Alert e-mails: the settings of the organization, read once for all the  *)
(* alerts of a submission, the severity threshold, and the sliding window  *)
(* of e-mails, which lives in the memory of the process.  Webhooks follow  *)
(* the same settings without a window and change nothing; they are left    *)
(* out.                                                                    *)
(***************************************************************************)
EXTENDS Integers, Sequences, FiniteSets

CONSTANTS
    Jobs,               \* submissions whose alerts are being created
    MAX_ALERT_EMAILS,
    Window,             \* ALERT_EMAIL_WINDOW_MS
    MaxTime,            \* bounds of the model: clock,
    MaxMails,           \* e-mails handed to emailService
    MaxChanges          \* changes of the settings and restarts

Severities == {"warning", "critical"}
Settings == [email : BOOLEAN, min : Severities]

VARIABLES
    now,
    org,        \* notification settings in the database
    job,        \* the settings each submission has read, or Off
    bucket,     \* the e-mails whose times alertEmailBuckets holds for the organization
    mails,      \* times of the e-mails since the last restart (history)
    changes

vars == <<now, org, job, bucket, mails, changes>>

Off == [email |-> FALSE, min |-> "none"]

Init ==
    /\ now = 0 /\ changes = 0
    /\ org \in Settings
    /\ job = [j \in Jobs |-> Off]
    /\ bucket = {} /\ mails = <<>>

severityRank(s) ==
    CASE s = "low" -> 1 [] s = "medium" -> 2 [] s \in {"high", "warning"} -> 3
      [] s = "critical" -> 4 [] OTHER -> 0
meetsSeverityThreshold(s, min) == severityRank(s) >= severityRank(min)

\* Mutant: one e-mail more than the limit.
AtLimit_Above(recent) == Cardinality(recent) > MAX_ALERT_EMAILS
AtLimit(recent) == Cardinality(recent) >= MAX_ALERT_EMAILS

Recent == {i \in bucket : mails[i] > now - Window}

\* A submission reads the settings before it creates its first alert.
ReadSettings(j) ==
    /\ job[j] = Off
    /\ job' = [job EXCEPT ![j] = org]
    /\ UNCHANGED <<now, org, bucket, mails, changes>>

\* tryConsumeAlertEmailQuota, and sendAlert when it returns true.
EmailQuota ==
    \/ /\ ~AtLimit(Recent) /\ Len(mails) < MaxMails
       /\ mails' = Append(mails, now)
       /\ bucket' = Recent \cup {Len(mails')}
    \/ AtLimit(Recent) /\ UNCHANGED <<bucket, mails>>

\* One alert of the submission, after its row was created.
NotifyAlert(j, severity) ==
    /\ job[j].email /\ meetsSeverityThreshold(severity, job[j].min)
    /\ EmailQuota
    /\ UNCHANGED <<now, org, job, changes>>

EndJob(j) ==
    /\ job[j] # Off
    /\ job' = [job EXCEPT ![j] = Off]
    /\ UNCHANGED <<now, org, bucket, mails, changes>>

\* updateProfile
UpdateProfile(settings) ==
    /\ changes < MaxChanges /\ changes' = changes + 1
    /\ org' = settings
    /\ UNCHANGED <<now, job, bucket, mails>>

Restart ==
    /\ changes < MaxChanges /\ changes' = changes + 1
    /\ job' = [j \in Jobs |-> Off]
    /\ bucket' = {} /\ mails' = <<>>
    /\ UNCHANGED <<now, org>>

Tick ==
    /\ now < MaxTime /\ now' = now + 1
    /\ UNCHANGED <<org, job, bucket, mails, changes>>

Next ==
    \/ \E j \in Jobs : ReadSettings(j) \/ EndJob(j) \/ \E s \in Severities : NotifyAlert(j, s)
    \/ Restart \/ Tick
    \/ \E settings \in Settings : UpdateProfile(settings)

Spec == Init /\ [][Next]_vars

----------------------------------------------------------------------------
InWindow(t) == {i \in DOMAIN mails : t - Window < mails[i] /\ mails[i] <= t}

\* In every window of five minutes between two restarts at most ten alert e-mails
\* leave, whatever the bucket forgot on the way.
WindowRespected == \A t \in 0 .. now : Cardinality(InWindow(t)) <= MAX_ALERT_EMAILS
=============================================================================
