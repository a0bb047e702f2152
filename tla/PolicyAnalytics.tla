--------------------------- MODULE PolicyAnalytics ---------------------------
(***************************************************************************)
(* Analytics of one policy and of all of them: one pass over the logs of a *)
(* window fills totals and three breakdowns.  The summary of all policies  *)
(* reads the logs anew for each, while logs arrive and policies, rules and *)
(* agents go.  A violation is stored with the policy and the severity of   *)
(* its rule; the log carries the one action all of them came to.           *)
(***************************************************************************)
EXTENDS Integers, Sequences, FiniteSets, SequencesExt, FiniteSetsExt

CONSTANTS
    Priority,   \* the policies, in the order of their priority
    Agents,
    None,       \* no agent, no filter
    Rules,      \* a rule is its policy and its severity
    Severities, \* severities that are asked for
    EnforcementActions,
    Days,
    MaxLogs     \* bound of the model

VARIABLES
    policies,   \* the policies that still exist
    logs,       \* stored logs in the order of their time
    asked,      \* the request being answered
    results     \* its summaries so far, with the logs each was made from

analyticsVars == <<policies, logs, asked, results>>

All == ToSet(Priority)
Idle == [todo |-> <<>>, agent |-> None, severity |-> None, start |-> 1, end |-> 0]

AnalyticsInit == policies = All /\ logs = <<>> /\ asked = Idle /\ results = <<>>

\* A log of the last day with its violations, and the action they came to.
StoreLog ==
    /\ Len(logs) < MaxLogs
    /\ \E day \in Days, agent \in Agents \cup {None}, details \in SUBSET Rules,
          action \in EnforcementActions \cup {"allow"} :
        /\ action = "allow" <=> details = {}
        /\ logs # <<>> => day >= Last(logs).day
        /\ \A r \in details : r[1] \in policies
        /\ logs' = Append(logs, [day |-> day, agent |-> agent, details |-> details,
                                 action |-> action])
    /\ UNCHANGED <<policies, asked, results>>

\* Its violations keep the id of a policy that is gone.
DeletePolicy(p) ==
    /\ policies' = policies \ {p} /\ p \in policies
    /\ UNCHANGED <<logs, asked, results>>

\* agentId becomes null in the logs of an agent that is deleted.
DeleteAgent(a) ==
    /\ \E i \in DOMAIN logs : logs[i].agent = a
    /\ logs' = [i \in DOMAIN logs |->
                 IF logs[i].agent = a THEN [logs[i] EXCEPT !.agent = None] ELSE logs[i]]
    /\ UNCHANGED <<policies, asked, results>>

\* resolveWindow widens both ends to whole days; the default window ends today.  One
\* policy is looked up, all of them are listed by priority.
Ask ==
    /\ asked = Idle
    /\ \E agent \in Agents \cup {None}, severity \in Severities \cup {None}, start \in Days,
          todo \in {SelectSeq(Priority, LAMBDA p : p \in policies)} \cup
                   {<<p>> : p \in policies} :
        /\ todo # <<>>
        /\ asked' = [todo |-> todo, agent |-> agent, severity |-> severity,
                     start |-> start, end |-> Max(Days)]
    /\ UNCHANGED <<policies, logs, results>>

\* Mutant: the violations of every policy count.
Matching_AnyPolicy(log, p, q) == {r \in log.details : q.severity \in {None, r[2]}}
Matching(log, p, q) ==
    {r \in log.details : r[1] = p /\ q.severity \in {None, r[2]}}

InWindow(log, q) ==
    log.day \in q.start .. q.end /\ q.agent \in {None, log.agent}

NoCounts ==
    [audits |-> 0, violations |-> 0, actions |-> [e \in EnforcementActions |-> 0],
     rules |-> [r \in Rules |-> 0], agents |-> [a \in Agents \cup {None} |-> 0],
     days |-> [d \in Days |-> [audits |-> 0, violations |-> 0, blocks |-> 0]]]

One(condition) == IF condition THEN 1 ELSE 0

\* The body of the loop for a log with violations of this policy.
Counted(sum, log, matching) ==
    LET n == Cardinality(matching)
        day == sum.days[log.day]
    IN [audits |-> sum.audits + 1,
        violations |-> sum.violations + n,
        actions |-> [sum.actions EXCEPT ![log.action] = @ + 1],
        rules |-> [r \in Rules |-> sum.rules[r] + One(r \in matching)],
        agents |-> [sum.agents EXCEPT ![log.agent] = @ + 1],
        days |-> [sum.days EXCEPT ![log.day] =
                    [audits |-> day.audits + 1, violations |-> day.violations + n,
                     blocks |-> day.blocks + One(log.action = "block")]]]

Pass(sum, log, p, q) ==
    IF Matching(log, p, q) = {} THEN sum ELSE Counted(sum, log, Matching(log, p, q))

\* One pass over the logs the query found.
getPolicyAnalytics(p, q, read) ==
    LET sums[k \in 0 .. Len(read)] ==
            IF k = 0 THEN NoCounts
            ELSE IF InWindow(read[k], q) THEN Pass(sums[k - 1], read[k], p, q)
            ELSE sums[k - 1]
    IN sums[Len(read)]

\* The next policy of the request; one that has gone since is left out.
Summarise ==
    /\ asked.todo # <<>>
    /\ LET p == Head(asked.todo) IN
       results' = IF p \in policies
                  THEN Append(results, [policy |-> p, logs |-> logs,
                                        counts |-> getPolicyAnalytics(p, asked, logs)])
                  ELSE results
    /\ asked' = [asked EXCEPT !.todo = Tail(@)]
    /\ UNCHANGED <<policies, logs>>

Answer ==
    /\ asked # Idle /\ asked.todo = <<>>
    /\ asked' = Idle /\ results' = <<>>
    /\ UNCHANGED <<policies, logs>>

AnalyticsNext ==
    \/ StoreLog \/ Ask \/ Summarise \/ Answer
    \/ \E p \in All : DeletePolicy(p)
    \/ \E a \in Agents : DeleteAgent(a)

AnalyticsSpec == AnalyticsInit /\ [][AnalyticsNext]_analyticsVars

-----------------------------------------------------------------------------
\* The logs of a window with a violation of the policy, and each of these violations.
Own(result, i) ==
    {r \in result.logs[i].details :
        r[1] = result.policy /\ asked.severity \in {None, r[2]}}
Hits(result) ==
    {i \in DOMAIN result.logs : InWindow(result.logs[i], asked) /\ Own(result, i) # {}}
Violations(result) ==
    {v \in Hits(result) \X Rules : v[2] \in Own(result, v[1])}

\* What the single pass counted is what the window holds: each total and each entry of the
\* breakdowns by rule, agent, day and action is the number of the logs, or of the violations
\* of the policy's own in them, that it stands for, also when agents or policies have gone.
TotalsAgree ==
    \A k \in DOMAIN results :
        LET c == results[k].counts
            logOf(i) == results[k].logs[i]
            hits == Hits(results[k])
            found == Violations(results[k])
        IN /\ c.audits = Cardinality(hits)
           /\ c.violations = Cardinality(found)
           /\ \A e \in EnforcementActions :
                c.actions[e] = Cardinality({i \in hits : logOf(i).action = e})
           /\ \A r \in Rules : c.rules[r] = Cardinality({v \in found : v[2] = r})
           /\ \A a \in Agents \cup {None} :
                c.agents[a] = Cardinality({i \in hits : logOf(i).agent = a})
           /\ \A d \in Days :
                /\ c.days[d].audits = Cardinality({i \in hits : logOf(i).day = d})
                /\ c.days[d].violations = Cardinality({v \in found : logOf(v[1]).day = d})
                /\ c.days[d].blocks =
                    Cardinality({i \in hits : logOf(i).day = d /\ logOf(i).action = "block"})
=============================================================================
