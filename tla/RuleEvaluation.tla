--------------------------- MODULE RuleEvaluation ----------------------------
(***************************************************************************)
(* evaluateComplianceRules for the submissions of one agent: the scope     *)
(* (assigned policies whose conditions hold), the rules in that scope, the *)
(* verdict, and rate-limit rules, while policies and rules are edited.     *)
(* Every policy holds a copy of one pack rule, as clonePack makes it; Org  *)
(* is the rule without a policy.  What a detector finds in a text is an    *)
(* input, and a batch is evaluated entry by entry and stored at its end.   *)
(***************************************************************************)
EXTENDS Integers, Sequences, FiniteSets

CONSTANTS
    Slots,          \* submissions evaluated at a time
    Policies,
    Org,            \* the rule of the organization outside policies
    Preferred,      \* policies of priority 1; the others have 0
    Modes,          \* enforcement modes in use
    Timed,          \* the policy with a timeOfDay; the others are in force all day
    Starts, Ends,   \* its possible windows, in minutes of the day
    PerHour, Hours, \* minutes of an hour, hours of a day
    MaxRequests, Window,        \* of the rate_limit rule
    MaxBatch,
    MaxTime, MaxChanges, MaxLogs    \* bounds of the model

VARIABLES
    now,        \* minutes since a local midnight
    kind,       \* rules of the organization: "texts", or one "rate" limit
    mode, assigned, active, \* modes; policies of the agent; active rules
    timeOfDay,
    req,        \* what each slot works on
    logs,       \* stored logs with their time, flagged by the rate rule or not
    changes

vars == <<now, kind, mode, assigned, active, timeOfDay, req, logs, changes>>

Rules == Policies \cup {Org}
Actions == {"allow", "log", "flag", "block"}

ACTION_RANK == [allow |-> 0, log |-> 1, flag |-> 2, block |-> 3]
strongerAction(a, b) == IF ACTION_RANK[a] >= ACTION_RANK[b] THEN a ELSE b

Idle == [at |-> "idle", size |-> 0, match |-> FALSE, scope |-> {}, verdict |-> "allow",
         entries |-> <<>>, steady |-> {}]

\* Logs that were there before, none of them flagged.
Stored(earlier) == [i \in 1 .. earlier |-> [at |-> 0, flagged |-> FALSE]]

Init ==
    /\ now = 0 /\ changes = 0
    /\ \/ /\ kind = "texts" /\ logs = Stored(0)
          /\ mode \in [Policies -> Modes] /\ timeOfDay \in Starts \X Ends
          /\ assigned = Policies /\ active \in {Rules, Policies}
       \/ /\ kind = "rate" /\ \E earlier \in {0, MaxBatch} : logs = Stored(earlier)
          /\ mode = [p \in Policies |-> "flag"] /\ timeOfDay = <<0, 0>>
          /\ assigned = {} /\ active = {}
    /\ req = [s \in Slots |-> Idle]

----------------------------------------------------------------------------
(* Conditions of a policy.                                                 *)

Day == PerHour * Hours

\* toLocaleTimeString and toMinutes: with hour12: false the hour after midnight
\* is written 24.
currentMinutes(t) == IF t % Day < PerHour THEN (t % Day) + Day ELSE t % Day

\* Mutant: a window over midnight is never open.
inWindow_NoWrap(w, t) == w[1] <= t /\ t <= w[2]
inWindow(w, t) ==
    IF w[1] <= w[2] THEN w[1] <= t /\ t <= w[2] ELSE w[1] <= t \/ t <= w[2]

evaluatePolicyConditions(p, t) == p = Timed => inWindow(timeOfDay, currentMinutes(t))

\* buildRuleScope: the assigned policies in force; isActive of a policy is not asked.
activePolicyIds(t) == {p \in assigned : evaluatePolicyConditions(p, t)}

----------------------------------------------------------------------------
(* What is in force, by the clock on the wall (history).                   *)

\* A window is open from its start to its end, round the clock.
Open(w, t) == \E k \in 0 .. (w[2] - w[1]) % Day : (w[1] + k) % Day = t % Day

\* Where a rule counts; nothing is said of the hour the code calls 24.
Holds(r, t, as) ==
    \/ r = Org
    \/ r \in as /\ (r = Timed => t % Day >= PerHour /\ Open(timeOfDay, t))

\* The rules in force with their actions.
InForce(t, as, on, m) ==
    {[rule |-> r, action |-> IF r = Org THEN "flag" ELSE m[r]] : r \in {q \in on : Holds(q, t, as)}}

\* Every request keeps what was in force since its entry began.
Keep(t, as, on, m) ==
    [s \in Slots |-> [req[s] EXCEPT !.steady = @ \cap InForce(t, as, on, m)]]

----------------------------------------------------------------------------
(* A submission.                                                           *)

\* The entry that comes next.  The rate rule is looked at without policies: its scope
\* is empty from the start.
Entry(x, match) ==
    [x EXCEPT !.at = IF kind = "rate" THEN "rate" ELSE "scope", !.match = match, !.scope = {}, !.verdict = "allow",
              !.steady = InForce(now, assigned, active, mode)]

\* Evaluating texts only reads, so one such submission at a time is looked at.
Submit(s, size, match) ==
    /\ req[s].at = "idle" /\ Len(logs) + size <= MaxLogs
    /\ IF kind = "rate" THEN ~match ELSE \A t \in Slots : req[t].at = "idle"
    /\ req' = [req EXCEPT ![s] = Entry([Idle EXCEPT !.size = size], match)]
    /\ UNCHANGED <<now, kind, mode, assigned, active, timeOfDay, logs, changes>>

buildRuleScope(s) ==
    /\ req[s].at = "scope"
    /\ req' = [req EXCEPT ![s].at = "rules", ![s].scope = activePolicyIds(now)]
    /\ UNCHANGED <<now, kind, mode, assigned, active, timeOfDay, logs, changes>>

InScope(r, scope) == r = Org \/ r \in scope

resolveAction(r) == IF r = Org THEN "flag" ELSE mode[r]

\* The rules as they are now, and the strongest action of those that match.  Each rule has
\* one action, so the sort by priority never has two to compare.
Verdict(rs) ==
    CHOOSE a \in {"allow"} \cup {resolveAction(r) : r \in rs} :
        \A r \in rs : strongerAction(a, resolveAction(r)) = a

FindRules(s) ==
    /\ req[s].at = "rules"
    /\ LET found == {r \in active : InScope(r, req[s].scope)}
       IN  req' = [req EXCEPT ![s].at = "create",
                  ![s].verdict = IF req[s].match THEN Verdict(found) ELSE "allow"]
    /\ UNCHANGED <<now, kind, mode, assigned, active, timeOfDay, logs, changes>>

\* createdAt: { gte: windowStart }
Recent == {i \in DOMAIN logs : logs[i].at >= now - Window}

\* Mutant: one request too many.
OverLimit_Lenient(count) == count > MaxRequests + 1
OverLimit(count) == count > MaxRequests

\* checkRateLimit counts what is stored; the entries of a batch are not yet.
checkRateLimit(s) ==
    /\ req[s].at = "rate"
    /\ req' = [req EXCEPT ![s].at = "create",
                  ![s].verdict = IF OverLimit(Cardinality(Recent)) THEN "flag" ELSE "allow"]
    /\ UNCHANGED <<now, kind, mode, assigned, active, timeOfDay, logs, changes>>

\* auditLog.create in the transaction of the batch, and the next entry.
CreateLog(s) ==
    /\ req[s].at = "create"
    /\ LET x == [req[s] EXCEPT !.entries =
                    Append(@, [at |-> now, flagged |-> req[s].verdict # "allow"])]
       IN  \/ /\ Len(x.entries) < x.size
              /\ \E match \in {FALSE, kind # "rate"} : req' = [req EXCEPT ![s] = Entry(x, match)]
           \/ /\ Len(x.entries) = x.size
              /\ req' = [req EXCEPT ![s] = [x EXCEPT !.at = "commit"]]
    /\ UNCHANGED <<now, kind, mode, assigned, active, timeOfDay, logs, changes>>

\* The commit; a failed transaction stores nothing.
Commit(s) ==
    /\ req[s].at = "commit"
    /\ \/ kind = "rate" /\ logs' = logs \o req[s].entries
       \/ UNCHANGED logs
    /\ req' = [req EXCEPT ![s] = Idle]
    /\ UNCHANGED <<now, kind, mode, assigned, active, timeOfDay, changes>>

----------------------------------------------------------------------------
(* Around it.                                                              *)

Change(as, on, m) ==
    /\ kind = "texts" /\ changes < MaxChanges /\ changes' = changes + 1
    /\ assigned' = as /\ active' = on /\ mode' = m
    /\ req' = Keep(now, as, on, m)
    /\ UNCHANGED <<now, kind, timeOfDay, logs>>

assignToAgent(p) == Change(assigned \cup {p}, active, mode)
removeFromAgent(p) == Change(assigned \ {p}, active, mode)
\* policyService.update of the mode, complianceService.update of isActive
SetMode(p, m) == Change(assigned, active, [mode EXCEPT ![p] = m])
SetActive(r, on) == Change(assigned, IF on THEN active \cup {r} ELSE active \ {r}, mode)

Tick ==
    /\ now < MaxTime /\ now' = now + 1
    /\ req' = Keep(now', assigned, active, mode)
    /\ UNCHANGED <<kind, mode, assigned, active, timeOfDay, logs, changes>>

Next ==
    \/ \E s \in Slots :
        \/ \E size \in 1 .. MaxBatch, match \in BOOLEAN : Submit(s, size, match)
        \/ buildRuleScope(s) \/ FindRules(s) \/ checkRateLimit(s) \/ CreateLog(s) \/ Commit(s)
    \/ \E p \in Policies :
        assignToAgent(p) \/ removeFromAgent(p) \/ \E m \in Modes : SetMode(p, m)
    \/ \E r \in Rules, on \in BOOLEAN : SetActive(r, on)
    \/ Tick

Spec == Init /\ [][Next]_vars

----------------------------------------------------------------------------
\* A rule that was in force from the moment an entry was taken up until its
\* verdict, with one action, has that action or a stronger one carried out when it
\* matches, however policies, rules and the clock moved meanwhile.  Nothing is said
\* of windows in the hour after midnight, which the code takes for the hour 24.
VerdictCovers ==
    \A s \in Slots : kind = "texts" /\ req[s].at = "create" /\ req[s].match =>
        \A f \in req[s].steady : ACTION_RANK[req[s].verdict] >= ACTION_RANK[f.action]

\* The logs of the window that ends at t which the rate rule did not flag.
Escaped(t) == {i \in DOMAIN logs : logs[i].at \in t - Window .. t /\ ~logs[i].flagged}

\* Of the logs of any window no more than the limit escape the rate rule, but for
\* the entries of submissions that were under way together.
RateBounded ==
    \A t \in 0 .. now : Cardinality(Escaped(t)) <= MaxRequests + Cardinality(Slots) * MaxBatch

\* The documented resolution of policies that contain the same rule: the one of
\* highest priority wins, and a tie goes to the stronger action.
PriorityWins ==
    \A s \in Slots :
        /\ kind = "texts" /\ req[s].at = "create" /\ req[s].match
        /\ changes = 0 /\ Org \notin active /\ req[s].scope # {}
        => LET preferred == req[s].scope \cap Preferred
               winners == IF preferred = {} THEN req[s].scope ELSE preferred
           IN  /\ \E p \in winners : req[s].verdict = mode[p]
               /\ \A p \in winners : ACTION_RANK[req[s].verdict] >= ACTION_RANK[mode[p]]
=============================================================================
