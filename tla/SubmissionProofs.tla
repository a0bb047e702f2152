------------------------- MODULE SubmissionProofs --------------------------
(***************************************************************************)
(* Theorems about Submission, for every set of requests and bodies, every  *)
(* quota, and every length of the calendar.                                *)
(***************************************************************************)
EXTENDS Submission, TLAPS

\* The quota in force is a number.
LEMMA QuotaOfType == \A q \in Quotas : QuotaOf(q) \in Nat
BY QuotaAssumption DEF QuotaOf

\* The fields of a request may be assigned values of their types.
LEMMA ReqUpdate ==
    ASSUME NEW q \in ReqType
    PROVE  /\ \A s \in {"none", "created", "rejected", "error"} :
                [q EXCEPT !.reply = s] \in ReqType
           /\ \A t \in {"open", "aborted", "closed"} : [q EXCEPT !.tx = t] \in ReqType
           /\ \A k \in Nat, w \in Months : [q EXCEPT !.quota = k, !.period = w] \in ReqType
           /\ \A w \in Months : [q EXCEPT !.start = w] \in ReqType
           /\ \A S \in SUBSET Entries, i \in Entries :
                [q EXCEPT !.results = S, !.next = i] \in ReqType
           /\ \A S \in SUBSET Entries : [q EXCEPT !.results = S] \in ReqType
           /\ \A e \in Nat, i \in Entries, t \in {"open", "aborted", "closed"} :
                [q EXCEPT !.errors = e, !.next = i, !.tx = t] \in ReqType
BY DEF ReqType

\* The loop over the entries of a batch stays within them.
LEMMA NextEntryType ==
    ASSUME TypeOK, LogGuard, NEW r \in Requests
    PROVE  /\ NextEntry(r) \in Entries /\ NextEntry(r) <= req[r].n
           /\ NextEntry(r) = IF req[r].next = req[r].n THEN req[r].n ELSE req[r].next + 1
<1>1. /\ req[r].next \in 1 .. MaxEntries /\ req[r].n \in 1 .. MaxEntries
      /\ req[r].next <= req[r].n /\ MaxEntries \in Nat
  BY BoundAssumption DEF TypeOK, ReqType, Entries, LogGuard, LogGuardOf
<1> QED
  BY <1>1 DEF NextEntry, LastEntry, Entries

LEMMA ReplyType ==
    ASSUME TypeOK, NEW r \in Requests, NEW s \in {"none", "created", "rejected", "error"},
           Reply(r, s)
    PROVE  pc' \in [Requests -> Labels] /\ req' \in [Requests -> ReqType]
<1>1. req' = [req EXCEPT ![r] = [req[r] EXCEPT !.reply = s]]
  BY DEF Reply
<1>2. req[r] \in ReqType
  BY DEF TypeOK
<1>3. [req[r] EXCEPT !.reply = s] \in ReqType
  BY <1>2, ReqUpdate
<1> QED
  BY <1>1, <1>3 DEF TypeOK, Reply, Goto, Labels

LEMMA EntryFailedType ==
    ASSUME TypeOK, LogGuard, NEW r \in Requests, NEW t \in {"open", "aborted", "closed"},
           EntryFailed(r, t)
    PROVE  pc' \in [Requests -> Labels] /\ req' \in [Requests -> ReqType]
<1>1. req' = [req EXCEPT ![r] = [req[r] EXCEPT !.errors = Failures(r),
                                               !.next = NextEntry(r), !.tx = t]]
  BY DEF EntryFailed
<1>2. req[r] \in ReqType /\ Failures(r) \in Nat
  BY DEF TypeOK, ReqType, Failures
<1>3. [req[r] EXCEPT !.errors = Failures(r), !.next = NextEntry(r), !.tx = t] \in ReqType
  BY <1>2, NextEntryType, ReqUpdate
<1> QED
  BY <1>1, <1>3 DEF TypeOK, EntryFailed, Goto, AfterEntry, Labels

LEMMA AlertsEndType ==
    ASSUME TypeOK, NEW r \in Requests, NEW s \in {"created", "error"}, AlertsEnd(r, s)
    PROVE  pc' \in [Requests -> Labels] /\ req' \in [Requests -> ReqType]
BY ReplyType DEF TypeOK, AlertsEnd, Goto, Labels

LEMMA InsertFailsType ==
    ASSUME TypeOK, LogGuard, NEW r \in Requests, InsertFails(r)
    PROVE  pc' \in [Requests -> Labels] /\ req' \in [Requests -> ReqType]
<1>1. req[r].tx \in {"open", "aborted", "closed"}
  BY DEF TypeOK, ReqType
<1> QED
  BY <1>1, ReplyType, EntryFailedType DEF InsertFails

\* Every step keeps the type invariant.
LEMMA TypeStep == TypeOK /\ LogGuard /\ WindowGuard /\ [Next]_vars => TypeOK'
<1> SUFFICES ASSUME TypeOK, LogGuard, WindowGuard, [Next]_vars PROVE TypeOK'
  OBVIOUS
<1> USE DEF quotaState, logState, world
<1>1. ASSUME NEW r \in Requests, NEW b \in Bodies, Submit(r, b) PROVE TypeOK'
  <2>1. [NoReq EXCEPT !.kind = b.kind, !.n = b.n, !.named = b.named,
                      !.flagged = b.flagged] \in ReqType
    <3>1. /\ b.kind \in Kinds /\ b.n \in Entries
          /\ b.named \in SUBSET Entries /\ b.flagged \in SUBSET Entries
      BY BodyAssumption DEF Kinds, Entries
    <3>2. 1 \in Entries /\ 0 \in Months
      BY <3>1, BoundAssumption DEF Entries, Months
    <3> QED
      BY <3>1, <3>2 DEF NoReq, ReqType
  <2> QED
    BY <1>1, <2>1 DEF TypeOK, Submit, Goto, Labels
<1>2. ASSUME NEW r \in Requests, AssertAgents(r) PROVE TypeOK'
  BY <1>2, ReplyType DEF TypeOK, AssertAgents, Goto, Labels
<1>3. ASSUME NEW r \in Requests, ReadOrg(r) PROVE TypeOK'
  <2>1. CASE org.live
    <3>1. req' = [req EXCEPT ![r] = [req[r] EXCEPT !.quota = QuotaOf(org.quota),
                                                   !.period = org.period]]
      BY <1>3, <2>1 DEF ReadOrg
    <3>2. req[r] \in ReqType /\ QuotaOf(org.quota) \in Nat /\ org.period \in Months
      BY QuotaOfType DEF TypeOK
    <3>3. [req[r] EXCEPT !.quota = QuotaOf(org.quota), !.period = org.period] \in ReqType
      BY <3>2, ReqUpdate
    <3> QED
      BY <1>3, <2>1, <3>1, <3>3 DEF TypeOK, ReadOrg, Goto, Labels
  <2>2. CASE ~org.live
    BY <1>3, <2>2, ReplyType DEF TypeOK, ReadOrg
  <2> QED
    BY <2>1, <2>2
<1>4. ASSUME NEW r \in Requests, Window(r) PROVE TypeOK'
  <2>1. req[r] \in ReqType /\ [req[r] EXCEPT !.start = month] \in ReqType
    BY ReqUpdate DEF TypeOK
  <2>2. req' = [req EXCEPT ![r] = [req[r] EXCEPT !.start = month]]
    BY <1>4 DEF Window
  <2> QED
    BY <1>4, <2>1, <2>2 DEF TypeOK, Window, Goto, Labels
<1>5. ASSUME NEW r \in Requests, Reset(r) PROVE TypeOK'
  <2>1. req[r].start \in Months
    BY DEF TypeOK, ReqType
  <2>2. org' \in [live : BOOLEAN, used : Nat, quota : Quotas, period : Months]
    <3>1. org \in [live : BOOLEAN, used : Nat, quota : Quotas, period : Months]
      BY DEF TypeOK
    <3>2. Rolled(req[r].start) \in [live : BOOLEAN, used : Nat, quota : Quotas, period : Months]
      BY <2>1, <3>1 DEF Rolled
    <3>3. org' = org \/ org' = Rolled(req[r].start)
      BY <1>5 DEF Reset
    <3> QED
      BY <3>1, <3>2, <3>3
  <2>3. pc' \in [Requests -> Labels]
    BY <1>5 DEF TypeOK, Reset, Goto, Labels
  <2>4. UNCHANGED <<req, granted, ceiling, stored, alerted, month, agent, faults, changes>>
    BY <1>5 DEF Reset
  <2> QED
    BY <2>2, <2>3, <2>4 DEF TypeOK
<1>6. ASSUME NEW r \in Requests, Reserve(r) PROVE TypeOK'
  <2>1. CASE Fits(r)
    <3>1. req[r].n \in Nat
      BY BoundAssumption DEF TypeOK, ReqType, Entries
    <3>2. org.used + req[r].n \in Nat /\ granted[org.period] + req[r].n \in Nat
      BY <3>1 DEF TypeOK
    <3> QED
      BY <1>6, <2>1, <3>2 DEF TypeOK, Reserve, Goto, Labels
  <2>2. CASE ~Fits(r)
    BY <1>6, <2>2, ReplyType DEF TypeOK, Reserve
  <2> QED
    BY <2>1, <2>2
<1>7. ASSUME NEW r \in Requests, Evaluate(r) PROVE TypeOK'
  BY <1>7 DEF TypeOK, Evaluate, Goto, Labels
<1>8. ASSUME NEW r \in Requests, CreateLog(r) PROVE TypeOK'
  <2>1. req[r] \in ReqType /\ req[r].next \in Entries /\ NextEntry(r) \in Entries
    BY NextEntryType DEF TypeOK, ReqType
  <2>2. stored' \subseteq Requests \X Entries
    BY <1>8, <2>1 DEF TypeOK, CreateLog, Inserted
  <2>3. CASE req[r].kind = "single"
    <3>1. req' = [req EXCEPT ![r] = [req[r] EXCEPT !.results = {1}]]
      BY <1>8, <2>3 DEF CreateLog
    <3>2. 1 \in Entries
      BY <2>1, BoundAssumption DEF Entries
    <3>3. [req[r] EXCEPT !.results = {1}] \in ReqType
      BY <2>1, <3>2, ReqUpdate
    <3> QED
      BY <1>8, <2>2, <2>3, <3>1, <3>3 DEF TypeOK, CreateLog, Goto, Labels
  <2>4. CASE req[r].kind = "batch"
    <3>1. req' = [req EXCEPT ![r] = [req[r] EXCEPT !.results = req[r].results \cup {req[r].next},
                                                   !.next = NextEntry(r)]]
      BY <1>8, <2>4 DEF CreateLog
    <3>2. req[r].results \cup {req[r].next} \in SUBSET Entries
      BY <2>1 DEF ReqType
    <3>3. [req[r] EXCEPT !.results = req[r].results \cup {req[r].next},
                         !.next = NextEntry(r)] \in ReqType
      BY <2>1, <3>2, ReqUpdate
    <3> QED
      BY <1>8, <2>2, <2>4, <3>1, <3>3 DEF TypeOK, CreateLog, Goto, AfterEntry, Labels
  <2> QED
    BY <1>8, <2>3, <2>4 DEF CreateLog
<1>9. ASSUME NEW r \in Requests, CreateFails(r) PROVE TypeOK'
  BY <1>9, InsertFailsType DEF TypeOK, CreateFails
<1>10. ASSUME NEW r \in Requests, Commit(r) PROVE TypeOK'
  <2>1. req[r] \in ReqType /\ [req[r] EXCEPT !.reply = "created"] \in ReqType
    BY ReqUpdate DEF TypeOK
  <2>2. CASE req[r].tx = "closed"
    BY <1>10, <2>2, ReplyType DEF TypeOK, Commit
  <2>3. CASE req[r].tx # "closed"
    <3>1. req' = [req EXCEPT ![r] = [req[r] EXCEPT !.reply = "created"]]
      BY <1>10, <2>3 DEF Commit
    <3>2. stored' \subseteq Requests \X Entries
      BY <1>10, <2>1, <2>3 DEF TypeOK, Commit, ReqType
    <3> QED
      BY <1>10, <2>1, <2>3, <3>1, <3>2 DEF TypeOK, Commit, Goto, Labels
  <2> QED
    BY <2>2, <2>3
<1>11. ASSUME NEW r \in Requests, CreateAlert(r) PROVE TypeOK'
  <2>1. alerted' \subseteq Requests \X Entries
    BY <1>11 DEF TypeOK, CreateAlert, AlertsDue, ReqType
  <2>2. pc' \in [Requests -> Labels] /\ req' \in [Requests -> ReqType]
    BY <1>11, AlertsEndType DEF TypeOK, CreateAlert
  <2> QED
    BY <1>11, <2>1, <2>2 DEF TypeOK, CreateAlert
<1>12. ASSUME NEW r \in Requests, EvaluateFails(r) PROVE TypeOK'
  <2>1. req[r].tx \in {"open", "aborted", "closed"}
    BY DEF TypeOK, ReqType
  <2> QED
    BY <1>12, <2>1, ReplyType, EntryFailedType DEF TypeOK, EvaluateFails
<1>13. ASSUME NEW r \in Requests, CreateError(r) PROVE TypeOK'
  BY <1>13, InsertFailsType DEF TypeOK, CreateError
<1>14. ASSUME NEW r \in Requests, Expire(r) PROVE TypeOK'
  <2>1. req[r] \in ReqType /\ [req[r] EXCEPT !.tx = "closed"] \in ReqType
    BY ReqUpdate DEF TypeOK
  <2>2. req' = [req EXCEPT ![r] = [req[r] EXCEPT !.tx = "closed"]]
    BY <1>14 DEF Expire
  <2> QED
    BY <1>14, <2>1, <2>2 DEF TypeOK, Expire
<1>15. ASSUME NEW r \in Requests, AlertError(r) PROVE TypeOK'
  BY <1>15, AlertsEndType DEF TypeOK, AlertError
<1>16. ASSUME NEW r \in Requests, Crash(r) PROVE TypeOK'
  BY <1>16 DEF TypeOK, Crash, Goto, Labels
<1>17. ASSUME NEW q \in Quotas, SetQuota(q) PROVE TypeOK'
  BY <1>17, QuotaOfType DEF TypeOK, SetQuota, Change
<1>18. ASSUME RemoveAgent PROVE TypeOK'
  <2>1. agent' \in BOOLEAN
    BY <1>18, Zenon DEF RemoveAgent
  <2>2. changes' \in Nat
    BY <1>18 DEF TypeOK, RemoveAgent, Change
  <2> QED
    BY <1>18, <2>1, <2>2 DEF TypeOK, RemoveAgent
<1>19. ASSUME DeleteOrganization PROVE TypeOK'
  <2>1. agent' \in BOOLEAN
    BY <1>19, Zenon DEF DeleteOrganization
  <2>2. changes' \in Nat
    BY <1>19 DEF TypeOK, DeleteOrganization, Change
  <2>3. org' \in [live : BOOLEAN, used : Nat, quota : Quotas, period : Months]
    BY <1>19 DEF TypeOK, DeleteOrganization
  <2> QED
    BY <1>19, <2>1, <2>2, <2>3 DEF TypeOK, DeleteOrganization
<1>20. ASSUME NextMonth PROVE TypeOK'
  BY <1>20, BoundAssumption DEF TypeOK, NextMonth, Months
<1>21. CASE UNCHANGED vars
  BY <1>21 DEF TypeOK, vars
<1> QED
  BY <1>1, <1>2, <1>3, <1>4, <1>5, <1>6, <1>7, <1>8, <1>9, <1>10, <1>11, <1>12, <1>13,
     <1>14, <1>15, <1>16, <1>17, <1>18, <1>19, <1>20, <1>21 DEF Next, Step, Fault

----------------------------------------------------------------------------
(* The quota.                                                              *)

QuotaInv == UsageExact /\ QuotaRespected /\ WindowGuard /\ QuotaGuard

\* A step that leaves the organization row and the calendar alone, and sends no
\* request into the part where it works with what it read from them.
LEMMA QuotaLocal ==
    ASSUME QuotaInv, UNCHANGED <<org, granted, ceiling, month>>,
           \A s \in Requests : \/ pc'[s] \notin {"window", "reset", "reserve"}
                               \/ pc'[s] = pc[s] /\ req'[s] = req[s]
    PROVE  QuotaInv'
<1>1. UsageExact' /\ QuotaRespected'
  BY DEF QuotaInv, UsageExact, QuotaRespected
<1>2. WindowGuard'
  BY DEF QuotaInv, WindowGuard
<1>3. QuotaGuard'
  BY DEF QuotaInv, QuotaGuard
<1> QED
  BY <1>1, <1>2, <1>3 DEF QuotaInv

LEMMA QuotaStep == TypeOK /\ QuotaInv /\ [Next]_vars => QuotaInv'
<1> SUFFICES ASSUME TypeOK, QuotaInv, [Next]_vars PROVE QuotaInv'
  OBVIOUS
<1> USE DEF quotaState, logState, world
<1> DEFINE Kept(s) == \/ pc'[s] \notin {"window", "reset", "reserve"}
                      \/ pc'[s] = pc[s] /\ req'[s] = req[s]
<1>0. /\ org.period \in Nat /\ org.used \in Nat /\ ceiling \in Nat /\ month \in Nat
      /\ org.period \in Months /\ Months \subseteq Nat
      /\ \A w \in Months : granted[w] \in Nat
      /\ \A s \in Requests :
            /\ req[s].n \in Nat /\ req[s].n > 0 /\ req[s].quota \in Nat
            /\ req[s].start \in Nat /\ req[s].period \in Nat /\ req[s].start \in Months
  <2>1. /\ Months \subseteq Nat
        /\ \A i \in Entries : i \in Nat /\ i > 0
    BY BoundAssumption DEF Months, Entries
  <2>2. \A s \in Requests : req[s] \in ReqType
    BY DEF TypeOK
  <2>3. \A s \in Requests : /\ req[s].n \in Entries /\ req[s].quota \in Nat
                            /\ req[s].start \in Months /\ req[s].period \in Months
    BY <2>2 DEF ReqType
  <2>4. /\ org.period \in Months /\ org.used \in Nat /\ ceiling \in Nat /\ month \in Months
        /\ \A w \in Months : granted[w] \in Nat
    BY DEF TypeOK
  <2> QED
    BY <2>1, <2>3, <2>4
<1>a. /\ pc \in [Requests -> Labels] /\ req \in [Requests -> ReqType]
      /\ org \in [live : BOOLEAN, used : Nat, quota : Quotas, period : Months]
      /\ granted \in [Months -> Nat]
  BY DEF TypeOK
<1>1. ASSUME NEW r \in Requests, NEW b \in Bodies, Submit(r, b) PROVE QuotaInv'
  <2>1. \A s \in Requests : Kept(s)
    BY <1>1 DEF TypeOK, Submit, Goto
  <2>2. UNCHANGED <<org, granted, ceiling, month>>
    BY <1>1 DEF Submit
  <2> QED
    BY <2>1, <2>2, QuotaLocal
<1>2. ASSUME NEW r \in Requests, AssertAgents(r) PROVE QuotaInv'
  <2>1. \A s \in Requests : Kept(s)
    BY <1>2 DEF TypeOK, AssertAgents, Reply, Goto
  <2>2. UNCHANGED <<org, granted, ceiling, month>>
    BY <1>2 DEF AssertAgents
  <2> QED
    BY <2>1, <2>2, QuotaLocal
<1>3. ASSUME NEW r \in Requests, Evaluate(r) PROVE QuotaInv'
  <2>1. \A s \in Requests : Kept(s)
    BY <1>3 DEF TypeOK, Evaluate, Goto
  <2>2. UNCHANGED <<org, granted, ceiling, month>>
    BY <1>3 DEF Evaluate
  <2> QED
    BY <2>1, <2>2, QuotaLocal
<1>4. ASSUME NEW r \in Requests, EvaluateFails(r) PROVE QuotaInv'
  <2>1. \A s \in Requests : Kept(s)
    BY <1>4 DEF TypeOK, EvaluateFails, EntryFailed, AfterEntry, Reply, Goto
  <2>2. UNCHANGED <<org, granted, ceiling, month>>
    BY <1>4 DEF EvaluateFails
  <2> QED
    BY <2>1, <2>2, QuotaLocal
<1>5. ASSUME NEW r \in Requests, CreateLog(r) PROVE QuotaInv'
  <2>1. \A s \in Requests : Kept(s)
    BY <1>5 DEF TypeOK, CreateLog, AfterEntry, Goto
  <2>2. UNCHANGED <<org, granted, ceiling, month>>
    BY <1>5 DEF CreateLog
  <2> QED
    BY <2>1, <2>2, QuotaLocal
<1>6. ASSUME NEW r \in Requests, CreateFails(r) PROVE QuotaInv'
  <2>1. \A s \in Requests : Kept(s)
    BY <1>6 DEF TypeOK, CreateFails, InsertFails, EntryFailed, AfterEntry, Reply, Goto
  <2>2. UNCHANGED <<org, granted, ceiling, month>>
    BY <1>6 DEF CreateFails
  <2> QED
    BY <2>1, <2>2, QuotaLocal
<1>7. ASSUME NEW r \in Requests, CreateError(r) PROVE QuotaInv'
  <2>1. \A s \in Requests : Kept(s)
    BY <1>7 DEF TypeOK, CreateError, InsertFails, EntryFailed, AfterEntry, Reply, Goto
  <2>2. UNCHANGED <<org, granted, ceiling, month>>
    BY <1>7 DEF CreateError
  <2> QED
    BY <2>1, <2>2, QuotaLocal
<1>8. ASSUME NEW r \in Requests, Expire(r) PROVE QuotaInv'
  <2>1. \A s \in Requests : Kept(s)
    BY <1>8 DEF TypeOK, Expire, InTx
  <2>2. UNCHANGED <<org, granted, ceiling, month>>
    BY <1>8 DEF Expire
  <2> QED
    BY <2>1, <2>2, QuotaLocal
<1>9. ASSUME NEW r \in Requests, Commit(r) PROVE QuotaInv'
  <2>1. \A s \in Requests : Kept(s)
    BY <1>9 DEF TypeOK, Commit, Reply, Goto
  <2>2. UNCHANGED <<org, granted, ceiling, month>>
    BY <1>9 DEF Commit
  <2> QED
    BY <2>1, <2>2, QuotaLocal
<1>10. ASSUME NEW r \in Requests, CreateAlert(r) PROVE QuotaInv'
  <2>1. \A s \in Requests : Kept(s)
    BY <1>10 DEF TypeOK, CreateAlert, AlertsEnd, Reply, Goto
  <2>2. UNCHANGED <<org, granted, ceiling, month>>
    BY <1>10 DEF CreateAlert
  <2> QED
    BY <2>1, <2>2, QuotaLocal
<1>11. ASSUME NEW r \in Requests, AlertError(r) PROVE QuotaInv'
  <2>1. \A s \in Requests : Kept(s)
    BY <1>11 DEF TypeOK, AlertError, AlertsEnd, Reply, Goto
  <2>2. UNCHANGED <<org, granted, ceiling, month>>
    BY <1>11 DEF AlertError
  <2> QED
    BY <2>1, <2>2, QuotaLocal
<1>12. ASSUME NEW r \in Requests, Crash(r) PROVE QuotaInv'
  <2>1. \A s \in Requests : Kept(s)
    BY <1>12 DEF TypeOK, Crash, Goto
  <2>2. UNCHANGED <<org, granted, ceiling, month>>
    BY <1>12 DEF Crash
  <2> QED
    BY <2>1, <2>2, QuotaLocal
<1>13. ASSUME RemoveAgent PROVE QuotaInv'
  BY <1>13, QuotaLocal DEF RemoveAgent
<1>14. ASSUME NEW r \in Requests, ReadOrg(r) PROVE QuotaInv'
  <2>1. UsageExact' /\ QuotaRespected'
    BY <1>14 DEF ReadOrg, QuotaInv, UsageExact, QuotaRespected
  <2>0. /\ UNCHANGED <<org, granted, ceiling, month>>
        /\ \A s \in Requests \ {r} : pc'[s] = pc[s] /\ req'[s] = req[s]
        /\ \/ pc'[r] = "done"
           \/ /\ pc'[r] = "window" /\ req'[r].period = org.period
              /\ req'[r].quota = QuotaOf(org.quota)
    <3>1. UNCHANGED <<org, granted, ceiling, month>>
      BY <1>14 DEF ReadOrg
    <3>2. CASE org.live
      BY <1>14, <1>a, <3>1, <3>2 DEF ReadOrg, Goto, ReqType
    <3>3. CASE ~org.live
      BY <1>14, <1>a, <3>1, <3>3 DEF ReadOrg, Reply, Goto
    <3> QED
      BY <3>2, <3>3
  <2>2. WindowGuard'
    BY <1>0, <2>0 DEF QuotaInv, WindowGuard
  <2>3. QuotaGuard'
    BY <1>0, <2>0 DEF QuotaInv, QuotaGuard
  <2> QED
    BY <2>1, <2>2, <2>3 DEF QuotaInv
<1>15. ASSUME NEW r \in Requests, Window(r) PROVE QuotaInv'
  <2>1. UsageExact' /\ QuotaRespected'
    BY <1>15 DEF Window, QuotaInv, UsageExact, QuotaRespected
  <2>2. req[r].period <= org.period
    BY <1>15 DEF Window, QuotaInv, WindowGuard
  <2>3. pc'[r] = "reserve" => month <= org.period
    BY <1>15, <1>0, <2>2 DEF Window, Goto, NeedsReset, TypeOK
  <2>4. WindowGuard'
    BY <1>15, <1>0, <2>3 DEF Window, Goto, TypeOK, QuotaInv, WindowGuard
  <2>5. QuotaGuard'
    BY <1>15, <1>0 DEF Window, Goto, TypeOK, QuotaInv, QuotaGuard
  <2> QED
    BY <2>1, <2>4, <2>5 DEF QuotaInv
<1>16. ASSUME NEW r \in Requests, Reset(r) PROVE QuotaInv'
  <2>1. CASE RollDue(r)
    <3>1. /\ org'.used = 0 /\ org'.period = req[r].start /\ org'.quota = org.quota
          /\ org'.live = org.live /\ org.period < req[r].start
          /\ UNCHANGED <<granted, ceiling, month, req>>
      BY <1>16, <2>1 DEF Reset, RollDue, Rolled, TypeOK
    <3>2. req[r].start <= month
      BY <1>16 DEF Reset, QuotaInv, WindowGuard
    <3>3. UsageExact' /\ QuotaRespected'
      BY <3>1, <1>0 DEF QuotaInv, UsageExact, QuotaRespected, WindowGuard
    <3>4. WindowGuard'
      BY <1>16, <1>0, <3>1, <3>2 DEF Reset, Goto, TypeOK, QuotaInv, WindowGuard
    <3>5. QuotaGuard'
      BY <1>16, <1>0, <3>1 DEF Reset, Goto, TypeOK, QuotaInv, QuotaGuard
    <3> QED
      BY <3>3, <3>4, <3>5 DEF QuotaInv
  <2>2. CASE ~RollDue(r)
    <3>1. UNCHANGED <<org, granted, ceiling, month, req>>
      BY <1>16, <2>2 DEF Reset
    <3>2. org.live => req[r].start <= org.period
      BY <2>2, <1>0 DEF RollDue
    <3>3. UsageExact' /\ QuotaRespected'
      BY <3>1 DEF QuotaInv, UsageExact, QuotaRespected
    <3>4. WindowGuard'
      BY <1>16, <1>0, <3>1, <3>2 DEF Reset, Goto, TypeOK, QuotaInv, WindowGuard
    <3>5. QuotaGuard'
      BY <1>16, <1>0, <3>1 DEF Reset, Goto, TypeOK, QuotaInv, QuotaGuard
    <3> QED
      BY <3>3, <3>4, <3>5 DEF QuotaInv
  <2> QED
    BY <2>1, <2>2
<1>17. ASSUME NEW r \in Requests, Reserve(r) PROVE QuotaInv'
  <2>1. CASE Fits(r)
    <3>1. /\ org'.used = org.used + req[r].n /\ org'.period = org.period
          /\ org'.quota = org.quota /\ org'.live = org.live
          /\ org.used + req[r].n <= req[r].quota /\ req[r].quota <= ceiling
          /\ UNCHANGED <<ceiling, month, req>>
      <4>1. org' = [org EXCEPT !.used = org.used + req[r].n] /\ UNCHANGED <<ceiling, month, req>>
        BY <1>17, <2>1 DEF Reserve
      <4>2. org.used <= req[r].quota - req[r].n
        BY <2>1 DEF Fits
      <4>3. req[r].quota <= ceiling
        BY <1>17 DEF Reserve, QuotaInv, QuotaGuard
      <4>4. org.used + req[r].n <= req[r].quota
        BY <4>2, <1>0
      <4> QED
        BY <4>1, <4>3, <4>4, <1>a
    <3>2. granted' = [granted EXCEPT ![org.period] = granted[org.period] + req[r].n]
      BY <1>17, <2>1 DEF Reserve
    <3>3. UsageExact' /\ QuotaRespected'
      BY <3>1, <3>2, <1>0 DEF TypeOK, QuotaInv, UsageExact, QuotaRespected
    <3>4. WindowGuard'
      BY <1>17, <1>0, <3>1, <3>2, <2>1 DEF Reserve, Goto, TypeOK, QuotaInv, WindowGuard
    <3>5. QuotaGuard'
      BY <1>17, <1>0, <3>1, <2>1 DEF Reserve, Goto, TypeOK, QuotaInv, QuotaGuard
    <3> QED
      BY <3>3, <3>4, <3>5 DEF QuotaInv
  <2>2. CASE ~Fits(r)
    <3>1. \A s \in Requests : Kept(s)
      BY <1>17, <2>2 DEF TypeOK, Reserve, Reply, Goto
    <3>2. UNCHANGED <<org, granted, ceiling, month>>
      BY <1>17, <2>2 DEF Reserve
    <3> QED
      BY <3>1, <3>2, QuotaLocal
  <2> QED
    BY <2>1, <2>2
<1>18. ASSUME NEW q \in Quotas, SetQuota(q) PROVE QuotaInv'
  <2>1. /\ org'.used = org.used /\ org'.period = org.period /\ org'.live = org.live
        /\ org'.quota = q /\ ceiling' \in Nat /\ QuotaOf(q) <= ceiling' /\ ceiling <= ceiling'
        /\ UNCHANGED <<granted, month, pc, req>>
    <3>1. /\ org' = [org EXCEPT !.quota = q]
          /\ ceiling' = IF QuotaOf(q) > ceiling THEN QuotaOf(q) ELSE ceiling
          /\ UNCHANGED <<granted, month, pc, req>>
      BY <1>18 DEF SetQuota
    <3>2. QuotaOf(q) \in Nat
      BY QuotaOfType
    <3> QED
      BY <3>1, <3>2, <1>0, <1>a
  <2>2. UsageExact' /\ QuotaRespected'
    <3>1. UsageExact'
      BY <2>1 DEF QuotaInv, UsageExact
    <3>2. \A w \in Months : granted[w] \in Nat /\ granted[w] <= ceiling
      BY <1>0 DEF QuotaInv, QuotaRespected
    <3>3. ceiling \in Nat /\ ceiling' \in Nat /\ ceiling <= ceiling'
      BY <2>1, <1>0
    <3>4. ASSUME NEW w \in Months PROVE granted[w] <= ceiling'
      <4>1. granted[w] \in Nat /\ granted[w] <= ceiling
        BY <3>2
      <4> QED
        BY <4>1, <3>3
    <3> QED
      BY <3>1, <3>4, <2>1 DEF QuotaRespected
  <2>3. WindowGuard'
    BY <2>1 DEF QuotaInv, WindowGuard
  <2>4. QuotaGuard'
    BY <2>1, <1>0 DEF QuotaInv, QuotaGuard
  <2> QED
    BY <2>2, <2>3, <2>4 DEF QuotaInv
<1>19. ASSUME DeleteOrganization PROVE QuotaInv'
  <2>1. /\ org'.used = org.used /\ org'.period = org.period /\ org'.quota = org.quota
        /\ org'.live = FALSE /\ UNCHANGED <<granted, ceiling, month, pc, req>>
    BY <1>19 DEF DeleteOrganization, TypeOK
  <2> QED
    BY <2>1 DEF QuotaInv, UsageExact, QuotaRespected, WindowGuard, QuotaGuard
<1>20. ASSUME NextMonth PROVE QuotaInv'
  <2>1. month' = month + 1 /\ UNCHANGED <<org, granted, ceiling, pc, req>>
    BY <1>20 DEF NextMonth
  <2> QED
    BY <2>1, <1>0 DEF QuotaInv, UsageExact, QuotaRespected, WindowGuard, QuotaGuard
<1>21. CASE UNCHANGED vars
  BY <1>21, QuotaLocal DEF vars
<1> QED
  BY <1>1, <1>2, <1>3, <1>4, <1>5, <1>6, <1>7, <1>8, <1>9, <1>10, <1>11, <1>12, <1>13, <1>14, <1>15, <1>16, <1>17, <1>18, <1>19, <1>20, <1>21 DEF Next, Step, Fault

----------------------------------------------------------------------------
(* The logs.                                                               *)

LogOf(r) ==
    /\ LogGuardOf(r)
    /\ req[r].kind = "batch" =>
        \/ StoredOf(r) = {}
        \/ req[r].reply = "created" /\ StoredOf(r) = req[r].results
    /\ org.live /\ req[r].reply = "created" /\ req[r].errors = 0 =>
        StoredOf(r) = 1 .. req[r].n /\ req[r].results = 1 .. req[r].n

LogInv == LogGuard /\ BatchAllOrNothing /\ CleanReplyStored

LEMMA LogInvEach == LogInv <=> \A r \in Requests : LogOf(r)
BY DEF LogInv, LogOf, LogGuard, BatchAllOrNothing, CleanReplyStored

\* A request whose own state does not change keeps its part of the invariant.
LEMMA LogKept ==
    ASSUME NEW s \in Requests, LogOf(s), pc'[s] = pc[s], req'[s] = req[s],
           \A i \in Entries : <<s, i>> \in stored' <=> <<s, i>> \in stored,
           org'.live => org.live
    PROVE  LogOf(s)'
<1>1. StoredOf(s)' = StoredOf(s)
  BY DEF StoredOf
<1> QED
  BY <1>1 DEF LogOf, LogGuardOf, Answered, Done

\* The statements of a request touch no other request's logs.
LEMMA LogOthers ==
    ASSUME TypeOK, NEW r \in Requests, Step(r) \/ Fault(r) \/ (\E b \in Bodies : Submit(r, b))
    PROVE  /\ \A s \in Requests \ {r} :
                /\ pc'[s] = pc[s] /\ req'[s] = req[s]
                /\ \A i \in Entries : <<s, i>> \in stored' <=> <<s, i>> \in stored
           /\ org'.live = org.live
<1> USE DEF quotaState, logState, world
<1>a. /\ pc \in [Requests -> Labels] /\ req \in [Requests -> ReqType]
      /\ org \in [live : BOOLEAN, used : Nat, quota : Quotas, period : Months]
  BY DEF TypeOK
<1>1. org'.live = org.live
  <2>1. CASE UNCHANGED org
    BY <2>1
  <2>2. CASE Reset(r)
    BY <2>2, <1>a DEF Reset, Rolled
  <2>3. CASE Reserve(r)
    BY <2>3, <1>a DEF Reserve
  <2> QED
    BY <2>1, <2>2, <2>3 DEF Step, Fault, Submit, AssertAgents, ReadOrg, Window, Evaluate,
       CreateLog, CreateFails, Commit, CreateAlert, EvaluateFails, CreateError, Expire,
       AlertError, Crash
<1>2. ASSUME NEW s \in Requests \ {r} PROVE pc'[s] = pc[s] /\ req'[s] = req[s]
  <2> USE <1>a DEF Reply, Goto
  <2>1. CASE AssertAgents(r) \/ ReadOrg(r) \/ Window(r) \/ Reset(r) \/ Reserve(r)
    BY <2>1 DEF AssertAgents, ReadOrg, Window, Reset, Reserve
  <2>2. CASE Evaluate(r) \/ CreateLog(r) \/ CreateFails(r) \/ Commit(r) \/ CreateAlert(r)
    BY <2>2 DEF Evaluate, CreateLog, CreateFails, InsertFails, EntryFailed, Commit,
       CreateAlert, AlertsEnd
  <2>3. CASE Fault(r)
    BY <2>3 DEF Fault, EvaluateFails, CreateError, InsertFails, EntryFailed, Expire,
       AlertError, AlertsEnd, Crash
  <2>4. CASE \E b \in Bodies : Submit(r, b)
    BY <2>4 DEF Submit
  <2> QED
    BY <2>1, <2>2, <2>3, <2>4 DEF Step
<1>3. ASSUME NEW s \in Requests \ {r}, NEW i \in Entries
      PROVE  <<s, i>> \in stored' <=> <<s, i>> \in stored
  <2>1. CASE UNCHANGED stored
    BY <2>1
  <2>2. CASE CreateLog(r)
    BY <2>2 DEF CreateLog, Inserted
  <2>3. CASE Commit(r)
    BY <2>3 DEF Commit
  <2> QED
    BY <2>1, <2>2, <2>3 DEF Step, Fault, Submit, AssertAgents, ReadOrg, Window, Reset, Reserve,
       Evaluate, CreateFails, CreateAlert, EvaluateFails, CreateError, Expire, AlertError, Crash
<1> QED
  BY <1>1, <1>2, <1>3

\* One lemma per kind of step of a request: before the loop, ...
LEMMA LogEarly ==
    ASSUME TypeOK, NEW r \in Requests, LogOf(r), org'.live = org.live,
           AssertAgents(r) \/ ReadOrg(r) \/ Window(r) \/ Reset(r) \/ Reserve(r)
    PROVE  LogOf(r)'
<1> USE DEF quotaState, logState, world
<1>1. /\ pc[r] \in BeforeLoop
      /\ UNCHANGED stored
  BY DEF AssertAgents, ReadOrg, Window, Reset, Reserve, BeforeLoop
<1>2. /\ req'[r].kind = req[r].kind /\ req'[r].n = req[r].n /\ req'[r].next = req[r].next
      /\ req'[r].tx = req[r].tx /\ req'[r].errors = req[r].errors
      /\ req'[r].results = req[r].results /\ req'[r].reply # "created"
      /\ pc'[r] \in (BeforeLoop \ {"idle"}) \cup {"evaluate", "done"}
  <2>1. pc \in [Requests -> Labels] /\ req \in [Requests -> ReqType]
    BY DEF TypeOK
  <2>2. req[r].reply # "created"
    BY <1>1 DEF LogOf, LogGuardOf, Answered
  <2>3. req[r] \in ReqType
    BY <2>1
  <2>4. CASE AssertAgents(r)
    BY <2>1, <2>2, <2>3, <2>4 DEF AssertAgents, Reply, Goto, BeforeLoop, ReqType
  <2>5. CASE ReadOrg(r)
    BY <2>1, <2>2, <2>3, <2>5 DEF ReadOrg, Reply, Goto, BeforeLoop, ReqType
  <2>6. CASE Window(r)
    BY <2>1, <2>2, <2>3, <2>6 DEF Window, Goto, BeforeLoop, ReqType
  <2>7. CASE Reset(r)
    BY <2>1, <2>2, <2>3, <2>7 DEF Reset, Goto, BeforeLoop, ReqType
  <2>8. CASE Reserve(r)
    BY <2>1, <2>2, <2>3, <2>8 DEF Reserve, Reply, Goto, BeforeLoop, ReqType
  <2> QED
    BY <2>4, <2>5, <2>6, <2>7, <2>8
<1>3. StoredOf(r)' = {} /\ req[r].next = 1 /\ req[r].results = {}
  BY <1>1 DEF LogOf, LogGuardOf, StoredOf
<1> QED
  BY <1>1, <1>2, <1>3 DEF LogOf, LogGuardOf, Answered, Done, BeforeLoop

\* ... on arrival, ...
LEMMA LogSubmit ==
    ASSUME TypeOK, NEW r \in Requests, LogOf(r), NEW b \in Bodies, Submit(r, b)
    PROVE  LogOf(r)'
<1>1. pc'[r] = "agents" /\ req'[r] = [NoReq EXCEPT !.kind = b.kind, !.n = b.n,
                                         !.named = b.named, !.flagged = b.flagged]
  BY DEF TypeOK, Submit, Goto
<1>2. /\ req'[r].kind = b.kind /\ req'[r].n = b.n /\ req'[r].next = 1 /\ req'[r].results = {}
      /\ req'[r].errors = 0 /\ req'[r].tx = "open" /\ req'[r].reply = "none"
  BY <1>1 DEF NoReq
<1>3. b.n \in 1 .. MaxEntries /\ (b.kind = "single" => b.n = 1)
  BY BodyAssumption
<1>4. 1 <= b.n
  BY <1>3, BoundAssumption
<1>5. StoredOf(r)' = {}
  BY DEF Submit, logState, StoredOf, LogOf, LogGuardOf, BeforeLoop
<1> QED
  BY <1>1, <1>2, <1>3, <1>4, <1>5 DEF LogOf, LogGuardOf, Answered, BeforeLoop

\* ... when an entry fails, ...
LEMMA LogFailed ==
    ASSUME TypeOK, LogGuard, NEW r \in Requests, LogOf(r), org'.live = org.live,
           EvaluateFails(r) \/ CreateFails(r) \/ CreateError(r)
    PROVE  LogOf(r)'
<1> USE DEF quotaState, logState
<1>1. /\ pc \in [Requests -> Labels] /\ req \in [Requests -> ReqType] /\ req[r] \in ReqType
  BY DEF TypeOK
<1>2. pc[r] \in {"evaluate", "create"} /\ UNCHANGED stored
  BY DEF EvaluateFails, CreateFails, CreateError
<1>3. StoredOf(r)' = {} /\ req[r].reply # "created" /\ req[r].next <= req[r].n
  BY <1>2 DEF LogOf, LogGuardOf, StoredOf, Answered
<1>4. CASE req[r].kind = "single"
  <2>1. Reply(r, "error")
    BY <1>4 DEF EvaluateFails, CreateFails, CreateError, InsertFails
  <2>2. /\ pc'[r] = "done" /\ req'[r] = [req[r] EXCEPT !.reply = "error"]
    BY <2>1, <1>1 DEF Reply, Goto
  <2> QED
    BY <1>1, <1>2, <1>3, <1>4, <2>2 DEF LogOf, LogGuardOf, Answered, BeforeLoop, ReqType
<1>5. CASE req[r].kind = "batch"
  <2>1. PICK t \in {"open", "aborted", "closed"} : EntryFailed(r, t)
    <3>1. req[r].tx \in {"open", "aborted", "closed"}
      BY <1>1 DEF ReqType
    <3> QED
      BY <1>5, <3>1 DEF EvaluateFails, CreateFails, CreateError, InsertFails
  <2>2. /\ pc'[r] \in {"evaluate", "commit"}
        /\ req'[r] = [req[r] EXCEPT !.errors = Failures(r), !.next = NextEntry(r), !.tx = t]
    BY <2>1, <1>1 DEF EntryFailed, Goto, AfterEntry
  <2>3. Failures(r) \in Nat /\ Failures(r) > 0
    BY <1>1 DEF Failures, ReqType
  <2>4. NextEntry(r) <= req[r].n
    BY NextEntryType
  <2> QED
    BY <1>1, <1>2, <1>3, <1>5, <2>2, <2>3, <2>4
       DEF LogOf, LogGuardOf, Answered, BeforeLoop, ReqType
<1> QED
  BY <1>1, <1>4, <1>5 DEF ReqType, Kinds

\* ... when a log is created, ...
LEMMA LogCreate ==
    ASSUME TypeOK, LogGuard, NEW r \in Requests, LogOf(r), org'.live = org.live, CreateLog(r)
    PROVE  LogOf(r)'
<1>1. /\ pc \in [Requests -> Labels] /\ req \in [Requests -> ReqType] /\ req[r] \in ReqType
  BY DEF TypeOK
<1>2. /\ StoredOf(r) = {} /\ req[r].reply # "created" /\ req[r].tx = "open"
      /\ req[r].errors = 0 => req[r].results = 1 .. req[r].next - 1
  BY DEF CreateLog, LogOf, LogGuardOf, Answered, Done
<1>3. /\ req[r].next \in Nat /\ req[r].n \in Nat /\ 1 <= req[r].next /\ req[r].next <= req[r].n
  BY <1>1, BoundAssumption DEF ReqType, Entries, LogOf, LogGuardOf
<1>4. CASE req[r].kind = "single"
  <2>1. req[r].n = 1 /\ req[r].next = 1 /\ req[r].errors = 0
    BY <1>3, <1>4 DEF LogOf, LogGuardOf
  <2>2. /\ pc'[r] = "alerts" /\ req'[r] = [req[r] EXCEPT !.results = {1}]
    BY <1>1, <1>4 DEF CreateLog, Goto
  <2>3. StoredOf(r)' = {1}
    <3>1. stored' = stored \cup {<<r, 1>>}
      BY <1>4, <2>1 DEF CreateLog, Inserted
    <3>2. 1 \in Entries
      BY <1>1, <2>1 DEF ReqType
    <3> QED
      BY <1>2, <3>1, <3>2 DEF StoredOf
  <2> QED
    BY <1>1, <1>2, <1>4, <2>1, <2>2, <2>3 DEF LogOf, LogGuardOf, Answered, BeforeLoop, ReqType
<1>5. CASE req[r].kind = "batch"
  <2>1. /\ pc'[r] = AfterEntry(r)
        /\ req'[r] = [req[r] EXCEPT !.results = req[r].results \cup {req[r].next},
                                    !.next = NextEntry(r)]
    BY <1>1, <1>5 DEF CreateLog, Goto
  <2>2. StoredOf(r)' = {}
    BY <1>2, <1>5 DEF CreateLog, Inserted, StoredOf
  <2>3. /\ req'[r].kind = "batch" /\ req'[r].n = req[r].n /\ req'[r].next = NextEntry(r)
        /\ req'[r].results = req[r].results \cup {req[r].next}
        /\ req'[r].errors = req[r].errors /\ req'[r].tx = "open" /\ req'[r].reply # "created"
    BY <1>1, <1>2, <1>5, <2>1 DEF ReqType
  <2>4. req[r].errors = 0 => req'[r].results = 1 .. req[r].next
    BY <1>2, <1>3, <2>3
  <2>5. CASE req[r].next = req[r].n
    <3>1. pc'[r] = "commit" /\ NextEntry(r) = req[r].n
      BY <2>1, <2>5 DEF AfterEntry, NextEntry, LastEntry
    <3> QED
      BY <1>3, <2>2, <2>3, <2>4, <2>5, <3>1 DEF LogOf, LogGuardOf, Answered, BeforeLoop, Done
  <2>6. CASE req[r].next # req[r].n
    <3>1. pc'[r] = "evaluate" /\ NextEntry(r) = req[r].next + 1
      BY <2>1, <2>6 DEF AfterEntry, NextEntry, LastEntry
    <3>2. NextEntry(r) <= req[r].n /\ NextEntry(r) - 1 = req[r].next
      BY <1>3, <2>6, <3>1
    <3> QED
      BY <1>3, <2>2, <2>3, <2>4, <3>1, <3>2 DEF LogOf, LogGuardOf, Answered, BeforeLoop, Done
  <2> QED
    BY <2>5, <2>6
<1> QED
  BY <1>1, <1>4, <1>5 DEF ReqType, Kinds

\* ... at the end of the transaction, ...
LEMMA LogCommit ==
    ASSUME TypeOK, NEW r \in Requests, LogOf(r), org'.live = org.live, Commit(r)
    PROVE  LogOf(r)'
<1>1. /\ pc \in [Requests -> Labels] /\ req \in [Requests -> ReqType] /\ req[r] \in ReqType
  BY DEF TypeOK
<1>2. /\ req[r].kind = "batch" /\ StoredOf(r) = {} /\ req[r].reply # "created"
      /\ req[r].tx = "aborted" => req[r].errors > 0
      /\ req[r].errors = 0 => req[r].results = 1 .. req[r].n
  BY <1>1 DEF Commit, LogOf, LogGuardOf, Answered, Done, ReqType, Kinds
<1>3. CASE req[r].tx = "closed"
  <2>1. pc'[r] = "done" /\ req'[r] = [req[r] EXCEPT !.reply = "error"] /\ UNCHANGED stored
    BY <1>1, <1>3 DEF Commit, Reply, Goto
  <2>2. StoredOf(r)' = {}
    BY <1>2, <2>1 DEF StoredOf
  <2> QED
    BY <1>1, <1>2, <2>1, <2>2 DEF LogOf, LogGuardOf, Answered, BeforeLoop, ReqType
<1>4. CASE req[r].tx # "closed"
  <2>1. pc'[r] = "alerts" /\ req'[r] = [req[r] EXCEPT !.reply = "created"]
    BY <1>1, <1>4 DEF Commit, Goto
  <2>2. CASE req[r].tx = "open"
    <3>1. stored' = stored \cup {<<r, i>> : i \in req[r].results}
      BY <1>4, <2>2 DEF Commit
    <3>2. StoredOf(r)' = req[r].results
      BY <1>1, <1>2, <3>1 DEF StoredOf, ReqType
    <3> QED
      BY <1>1, <1>2, <2>1, <3>2 DEF LogOf, LogGuardOf, Answered, BeforeLoop, ReqType
  <2>3. CASE req[r].tx # "open"
    <3>1. UNCHANGED stored /\ req[r].errors > 0
      BY <1>1, <1>2, <1>4, <2>3 DEF Commit, ReqType
    <3>2. StoredOf(r)' = {}
      BY <1>2, <3>1 DEF StoredOf
    <3> QED
      BY <1>1, <1>2, <2>1, <3>1, <3>2 DEF LogOf, LogGuardOf, Answered, BeforeLoop, ReqType
  <2> QED
    BY <2>2, <2>3
<1> QED
  BY <1>3, <1>4

\* ... and in the other steps.
LEMMA LogRest ==
    ASSUME TypeOK, NEW r \in Requests, LogOf(r), org'.live = org.live,
           Evaluate(r) \/ Expire(r) \/ CreateAlert(r) \/ AlertError(r) \/ Crash(r)
    PROVE  LogOf(r)'
<1> USE DEF quotaState, logState
<1>1. /\ pc \in [Requests -> Labels] /\ req \in [Requests -> ReqType] /\ req[r] \in ReqType
  BY DEF TypeOK
<1>2. StoredOf(r)' = StoredOf(r)
  <2>1. UNCHANGED stored
    BY DEF Evaluate, Expire, CreateAlert, AlertError, Crash
  <2> QED
    BY <2>1 DEF StoredOf
<1>3. CASE Evaluate(r)
  <2>1. pc[r] = "evaluate" /\ pc'[r] = "create" /\ req'[r] = req[r]
    BY <1>1, <1>3 DEF Evaluate, Goto
  <2> QED
    BY <1>2, <2>1 DEF LogOf, LogGuardOf, Answered, BeforeLoop, Done
<1>4. CASE Expire(r)
  <2>1. /\ pc[r] \in {"evaluate", "create", "commit"} /\ pc'[r] = pc[r]
        /\ req[r].kind = "batch" /\ req'[r] = [req[r] EXCEPT !.tx = "closed"]
    BY <1>1, <1>4 DEF Expire, InTx
  <2>2. Done(r)' = Done(r)
    BY <1>1, <2>1 DEF Done, ReqType
  <2> QED
    BY <1>1, <1>2, <2>1, <2>2 DEF LogOf, LogGuardOf, Answered, BeforeLoop, ReqType
<1>5. CASE CreateAlert(r) \/ AlertError(r)
  <2>1. /\ pc[r] = "alerts"
        /\ \/ pc'[r] = "alerts" /\ req'[r] = req[r]
           \/ pc'[r] = "done" /\ req'[r] = req[r]
           \/ /\ pc'[r] = "done" /\ req[r].kind = "single"
              /\ \E s \in {"created", "error"} : req'[r] = [req[r] EXCEPT !.reply = s]
    BY <1>1, <1>5 DEF CreateAlert, AlertError, AlertsEnd, Reply, Goto
  <2>2. CASE req'[r] = req[r]
    BY <1>2, <2>1, <2>2 DEF LogOf, LogGuardOf, Answered, BeforeLoop
  <2>3. CASE \E s \in {"created", "error"} :
                req[r].kind = "single" /\ pc'[r] = "done" /\ req'[r] = [req[r] EXCEPT !.reply = s]
    <3>1. req[r].n = 1 /\ req[r].results = {1} /\ (org.live => StoredOf(r) = {1})
      BY <2>1, <2>3 DEF LogOf, LogGuardOf
    <3>2. {1} = 1 .. 1
      OBVIOUS
    <3>3. /\ req'[r].kind = "single" /\ req'[r].n = req[r].n /\ req'[r].results = req[r].results
          /\ req'[r].errors = req[r].errors /\ req'[r].tx = req[r].tx
          /\ req'[r].next = req[r].next /\ pc'[r] = "done" /\ req[r].kind = "single"
      BY <1>1, <2>3 DEF ReqType
    <3>4. LogGuardOf(r)'
      BY <1>2, <3>1, <3>3 DEF LogOf, LogGuardOf, Answered, BeforeLoop
    <3>5. req'[r].n = 1 /\ req'[r].results = 1 .. 1 /\ (org'.live => StoredOf(r)' = 1 .. 1)
      BY <1>2, <3>1, <3>2, <3>3
    <3> QED
      BY <3>3, <3>4, <3>5 DEF LogOf
  <2> QED
    BY <2>1, <2>2, <2>3
<1>6. CASE Crash(r)
  <2>1. pc'[r] = "done" /\ req'[r] = req[r]
    BY <1>1, <1>6 DEF Crash, Goto
  <2> QED
    BY <1>2, <2>1 DEF LogOf, LogGuardOf, Answered, BeforeLoop
<1> QED
  BY <1>3, <1>4, <1>5, <1>6

LEMMA LogStep == TypeOK /\ LogInv /\ [Next]_vars => LogInv'
<1> SUFFICES ASSUME TypeOK, LogInv, [Next]_vars PROVE \A s \in Requests : LogOf(s)'
  BY LogInvEach DEF LogInv, LogOf, LogGuard, BatchAllOrNothing, CleanReplyStored
<1> USE DEF quotaState, logState, world
<1>0. LogGuard /\ \A s \in Requests : LogOf(s)
  BY LogInvEach DEF LogInv
<1>1. ASSUME NEW r \in Requests, Step(r) \/ Fault(r) \/ \E b \in Bodies : Submit(r, b)
      PROVE  \A s \in Requests : LogOf(s)'
  <2>1. org'.live = org.live
    BY <1>1, LogOthers
  <2>2. LogOf(r)'
    BY <1>0, <1>1, <2>1, LogEarly, LogSubmit, LogFailed, LogCreate, LogCommit, LogRest
       DEF Step, Fault
  <2>3. ASSUME NEW s \in Requests \ {r} PROVE LogOf(s)'
    BY <1>0, <1>1, <2>1, LogOthers, LogKept
  <2> QED
    BY <2>2, <2>3
<1>2. ASSUME UNCHANGED <<pc, req, stored>>, org'.live = org.live
      PROVE  \A s \in Requests : LogOf(s)'
  BY <1>0, <1>2, LogKept
<1>3. ASSUME DeleteOrganization PROVE \A s \in Requests : LogOf(s)'
  <2>1. /\ UNCHANGED <<pc, req>> /\ ~org'.live
        /\ \A s \in Requests : StoredOf(s)' = {}
    BY <1>3 DEF DeleteOrganization, TypeOK, StoredOf
  <2> QED
    BY <1>0, <2>1 DEF LogOf, LogGuardOf, Answered, Done
<1>4. ASSUME NEW q \in Quotas, SetQuota(q) PROVE org'.live = org.live
  BY <1>4 DEF SetQuota, TypeOK
<1>5. CASE UNCHANGED vars
  BY <1>2, <1>5 DEF vars
<1> QED
  BY <1>1, <1>2, <1>3, <1>4, <1>5 DEF Next, SetQuota, RemoveAgent, NextMonth

----------------------------------------------------------------------------
(* The theorems.                                                           *)

LEMMA InitIInv == Init => IInv
<1> SUFFICES ASSUME Init PROVE IInv
  OBVIOUS
<1>1. /\ month = 0 /\ agent = TRUE /\ stored = {} /\ alerted = {} /\ faults = 0 /\ changes = 0
      /\ org = [live |-> TRUE, used |-> InitUsed, quota |-> InitQuota, period |-> 0]
      /\ pc = [r \in Requests |-> "idle"] /\ req = [r \in Requests |-> NoReq]
      /\ granted = [w \in Months |-> IF w = 0 THEN InitUsed ELSE 0]
      /\ ceiling = QuotaOf(InitQuota)
  BY DEF Init
<1>2. /\ InitUsed \in Nat /\ InitQuota \in Quotas /\ ceiling \in Nat /\ InitUsed <= ceiling
  BY <1>1, QuotaAssumption DEF QuotaOf
<1>3. MaxMonth \in Nat /\ 0 \in Months /\ 1 \in Entries /\ Months \subseteq Nat
  BY BoundAssumption DEF Months, Entries
<1>4. TypeOK
  <2>1. NoReq \in ReqType
    BY <1>3 DEF NoReq, ReqType, Kinds
  <2>2. pc \in [Requests -> Labels] /\ req \in [Requests -> ReqType]
    BY <1>1, <2>1 DEF Labels
  <2>3. org \in [live : BOOLEAN, used : Nat, quota : Quotas, period : Months]
    BY <1>1, <1>2, <1>3
  <2>4. granted \in [Months -> Nat]
    BY <1>1, <1>2
  <2>5. agent \in BOOLEAN
    BY <1>1, Zenon
  <2> QED
    BY <1>1, <1>2, <1>3, <2>2, <2>3, <2>4, <2>5 DEF TypeOK
<1>5. UsageExact /\ QuotaRespected
  <2>1. org.used = InitUsed /\ org.period = 0
    BY <1>1
  <2>2. \A w \in Months : granted[w] = IF w = 0 THEN InitUsed ELSE 0
    BY <1>1
  <2> QED
    BY <1>2, <1>3, <2>1, <2>2 DEF UsageExact, QuotaRespected
<1>6. WindowGuard /\ QuotaGuard
  <2>1. org.period = 0 /\ org.quota = InitQuota /\ \A r \in Requests : pc[r] = "idle"
    BY <1>1
  <2>2. \A w \in Months : w > 0 => granted[w] = 0
    BY <1>1, <1>3
  <2> QED
    BY <1>1, <1>2, <2>1, <2>2 DEF WindowGuard, QuotaGuard
<1>7. \A r \in Requests : LogOf(r)
  <2>1. \A r \in Requests : /\ pc[r] = "idle" /\ req[r].next = 1 /\ req[r].n = 1
                            /\ req[r].tx = "open" /\ req[r].errors = 0 /\ req[r].results = {}
                            /\ req[r].reply = "none" /\ req[r].kind = "single"
                            /\ StoredOf(r) = {}
    BY <1>1 DEF NoReq, StoredOf
  <2> QED
    BY <2>1 DEF LogOf, LogGuardOf, Answered, BeforeLoop
<1> QED
  BY <1>4, <1>5, <1>6, <1>7, LogInvEach DEF IInv, LogInv

LEMMA StepIInv == IInv /\ [Next]_vars => IInv'
BY TypeStep, QuotaStep, LogStep DEF IInv, QuotaInv, LogInv

\* The inductive invariant holds in every reachable state.
THEOREM Invariance == Spec => []IInv
BY InitIInv, StepIInv, PTL DEF Spec

\* The organization row, the requests and the tables keep their types.
THEOREM TypeCorrect == Spec => []TypeOK
<1>1. IInv => TypeOK
  BY DEF IInv
<1> QED
  BY <1>1, Invariance, PTL

\* apiUsed is what was granted in the window of the row, for any number of
\* concurrent requests and any plan changes.
THEOREM UsageIsExact == Spec => []UsageExact
<1>1. IInv => UsageExact
  BY DEF IInv
<1> QED
  BY <1>1, Invariance, PTL

\* No month is granted more than the highest quota the organization has had.
THEOREM QuotaHolds == Spec => []QuotaRespected
<1>1. IInv => QuotaRespected
  BY DEF IInv
<1> QED
  BY <1>1, Invariance, PTL

\* The transaction of a batch stores all of its results or none.
THEOREM AllOrNothing == Spec => []BatchAllOrNothing
<1>1. IInv => BatchAllOrNothing
  BY DEF IInv
<1> QED
  BY <1>1, Invariance, PTL

\* A reply without errors tells the truth about what was stored.
THEOREM CleanReplies == Spec => []CleanReplyStored
<1>1. IInv => CleanReplyStored
  BY DEF IInv
<1> QED
  BY <1>1, Invariance, PTL

\* Only Reserve refuses a request.
LEMMA RejectedByReserve ==
    ASSUME TypeOK, [Next]_vars, NEW r \in Requests,
           req'[r].reply = "rejected", req[r].reply = "none"
    PROVE  Reserve(r) /\ ~Fits(r)
<1>1. req \in [Requests -> ReqType] /\ req[r] \in ReqType
  BY DEF TypeOK
<1> USE <1>1 DEF quotaState, logState, world, Reply, Goto, ReqType
<1>2. ASSUME NEW s \in Requests, Step(s) \/ Fault(s) \/ (\E b \in Bodies : Submit(s, b))
      PROVE  Reserve(r) /\ ~Fits(r)
  <2>1. s = r
    BY <1>2, LogOthers
  <2>2. CASE AssertAgents(r) \/ ReadOrg(r) \/ Window(r) \/ Reset(r)
    BY <2>2 DEF AssertAgents, ReadOrg, Window, Reset
  <2>3. CASE Reserve(r)
    BY <2>3 DEF Reserve
  <2>4. CASE Evaluate(r) \/ CreateLog(r) \/ Commit(r)
    BY <2>4 DEF Evaluate, CreateLog, Commit
  <2>5. CASE CreateFails(r) \/ CreateAlert(r) \/ Fault(r)
    <3>1. CASE UNCHANGED req
      BY <3>1
    <3>2. CASE \E t \in {"created", "error"} : Reply(r, t)
      BY <3>2
    <3>3. CASE \E t : EntryFailed(r, t)
      BY <3>3 DEF EntryFailed
    <3>4. CASE Expire(r)
      BY <3>4 DEF Expire
    <3> HIDE DEF Reply, Goto, ReqType
    <3> QED
      BY <2>5, <3>1, <3>2, <3>3, <3>4 DEF CreateFails, CreateAlert, Fault, EvaluateFails,
         CreateError, InsertFails, AlertError, AlertsEnd, Crash
  <2>6. CASE \E b \in Bodies : Submit(r, b)
    BY <2>6 DEF Submit, NoReq
  <2> QED
    BY <1>2, <2>1, <2>2, <2>3, <2>4, <2>5, <2>6 DEF Step
<1>3. CASE UNCHANGED req
  BY <1>3
<1> QED
  BY <1>2, <1>3 DEF Next, SetQuota, RemoveAgent, DeleteOrganization, NextMonth, vars

\* No request is refused for what was used in an earlier month, or while what was
\* granted in the current one leaves room for it.
THEOREM NoStaleRejections == Spec => NoStaleRejection
<1>1. ASSUME IInv, [Next]_vars, NEW r \in Requests,
             req'[r].reply = "rejected", req[r].reply = "none", org.live
      PROVE  org.period >= req[r].start /\ granted[org.period] + req[r].n > req[r].quota
  <2>1. Reserve(r) /\ ~Fits(r) /\ TypeOK
    BY <1>1, RejectedByReserve DEF IInv
  <2>2. req[r].start <= org.period /\ granted[org.period] = org.used
    BY <1>1, <2>1 DEF IInv, WindowGuard, UsageExact, Reserve
  <2>3. req[r] \in ReqType /\ Entries \subseteq Nat /\ Months \subseteq Nat
    BY <2>1, BoundAssumption DEF TypeOK, Entries, Months
  <2>4. /\ req[r].n \in Nat /\ req[r].quota \in Nat /\ req[r].start \in Nat
        /\ org.used \in Nat /\ org.period \in Nat
    BY <2>1, <2>3 DEF TypeOK, ReqType
  <2>5. ~(org.used <= req[r].quota - req[r].n)
    BY <1>1, <2>1 DEF Fits
  <2> QED
    BY <2>2, <2>4, <2>5
<1>2. IInv /\ [Next]_vars =>
        [\A r \in Requests : req'[r].reply = "rejected" /\ req[r].reply = "none" /\ org.live =>
            /\ org.period >= req[r].start
            /\ granted[org.period] + req[r].n > req[r].quota]_vars
  BY <1>1
<1> QED
  BY <1>2, Invariance, PTL DEF Spec, NoStaleRejection

\* Every step is a step of the ledger, or leaves the ledger as it is.
LEMMA LedgerStep == IInv /\ [Next]_vars => [Ledger!Next]_(Ledger!ledger)
<1> SUFFICES ASSUME IInv, [Next]_vars PROVE [Ledger!Next]_(Ledger!ledger)
  OBVIOUS
<1> USE DEF quotaState, logState, world, Ledger!ledger, Ledger!Next
<1>1. /\ org \in [live : BOOLEAN, used : Nat, quota : Quotas, period : Months]
      /\ ceiling \in Nat /\ \A r \in Requests : req[r] \in ReqType
  BY DEF IInv, TypeOK
<1>2. ASSUME UNCHANGED <<org, ceiling>> PROVE [Ledger!Next]_(Ledger!ledger)
  BY <1>2
<1>3. ASSUME NEW r \in Requests, Reset(r) PROVE [Ledger!Next]_(Ledger!ledger)
  <2>1. CASE RollDue(r)
    <3>1. org' = Rolled(req[r].start) /\ org.period < req[r].start /\ UNCHANGED ceiling
      BY <1>3, <2>1 DEF Reset, RollDue
    <3>2. org'.used = 0 /\ org'.period = req[r].start
      BY <1>1, <3>1 DEF Rolled
    <3>3. org.period \in Nat /\ req[r].start \in Nat
      BY <1>1, BoundAssumption DEF ReqType, Months
    <3>4. org'.period > org.period
      BY <3>1, <3>2, <3>3
    <3> QED
      BY <3>1, <3>2, <3>4 DEF Ledger!Roll
  <2>2. CASE ~RollDue(r)
    BY <1>2, <1>3, <2>2 DEF Reset
  <2> QED
    BY <2>1, <2>2
<1>4. ASSUME NEW r \in Requests, Reserve(r) PROVE [Ledger!Next]_(Ledger!ledger)
  <2>1. CASE Fits(r)
    <3>1. org' = [org EXCEPT !.used = org.used + req[r].n] /\ UNCHANGED ceiling
      BY <1>4, <2>1 DEF Reserve
    <3>2. org.used <= req[r].quota - req[r].n /\ req[r].quota <= ceiling
      BY <1>4, <2>1 DEF Fits, Reserve, IInv, QuotaGuard
    <3>3. req[r].n \in Entries /\ req[r].quota \in Nat /\ org.used \in Nat
      BY <1>1 DEF ReqType
    <3>4. req[r].n \in Nat /\ req[r].n > 0
      BY <3>3, BoundAssumption DEF Entries
    <3>5. org'.used = org.used + req[r].n /\ org'.period = org.period
      BY <1>1, <3>1
    <3>6. org'.used > org.used /\ org'.used <= ceiling
      BY <1>1, <3>2, <3>3, <3>4, <3>5
    <3> QED
      BY <3>1, <3>5, <3>6 DEF Ledger!Grant
  <2>2. CASE ~Fits(r)
    BY <1>2, <1>4, <2>2 DEF Reserve
  <2> QED
    BY <2>1, <2>2
<1>5. ASSUME NEW q \in Quotas, SetQuota(q) PROVE [Ledger!Next]_(Ledger!ledger)
  <2>1. org'.used = org.used /\ org'.period = org.period
    BY <1>1, <1>5 DEF SetQuota
  <2>2. ceiling' = ceiling \/ ceiling' > ceiling
    BY <1>5 DEF SetQuota
  <2> QED
    BY <2>1, <2>2 DEF Ledger!Raise
<1>6. ASSUME DeleteOrganization PROVE [Ledger!Next]_(Ledger!ledger)
  <2>1. org'.used = org.used /\ org'.period = org.period /\ UNCHANGED ceiling
    BY <1>1, <1>6 DEF DeleteOrganization
  <2> QED
    BY <2>1
<1> QED
  BY <1>2, <1>3, <1>4, <1>5, <1>6 DEF Next, Step, Fault, Submit, AssertAgents, ReadOrg, Window,
     Evaluate, CreateLog, CreateFails, Commit, CreateAlert, EvaluateFails, CreateError, Expire,
     AlertError, Crash, RemoveAgent, NextMonth, vars

\* reserveQuota implements the ledger: atomic grants within the cap, and one reset
\* in every later month.
THEOREM LedgerImplemented == Spec => LedgerSpec
<1>1. Init => Ledger!Init
  <2>1. ASSUME Init PROVE Ledger!Init
    <3>1. org.period = 0 /\ org.used = InitUsed /\ ceiling = QuotaOf(InitQuota)
      BY <2>1 DEF Init
    <3>2. ceiling \in Nat /\ InitUsed \in 0 .. ceiling
      BY <3>1, QuotaAssumption DEF QuotaOf
    <3> QED
      BY <3>1, <3>2 DEF Ledger!Init
  <2> QED
    BY <2>1
<1> QED
  BY <1>1, LedgerStep, Invariance, PTL DEF Spec, LedgerSpec, Ledger!Spec
=============================================================================
