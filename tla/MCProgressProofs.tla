-------------------------- MODULE MCProgressProofs ---------------------------
(***************************************************************************)
(* Theorems about the composition MCProgress: what EmailDeliveryProofs     *)
(* proves holds in it, and the safety of the dashboard's policy dialogs    *)
(* and lists, for any sets of policies, sections and calls, any number of  *)
(* pages and any bounds.                                                   *)
(***************************************************************************)
EXTENDS MCProgress, SequenceTheorems, TLAPS

-----------------------------------------------------------------------------
(* The composition runs each component as its own specification.           *)

LEMMA EmailRuns == MCSpec => Email!Spec
<1>1. MCInit => Email!Init
  BY DEF MCInit
<1>2. [MCNext]_allVars => [Email!Next]_Email!vars
  BY DEF MCNext, allVars, emailVars, Email!vars
<1> QED
  BY <1>1, <1>2, PTL DEF MCSpec, Email!Spec

LEMMA DialogRuns == MCSpec => Dialog!DialogSpec
<1>1. MCInit => Dialog!DialogInit
  BY DEF MCInit
<1>2. [MCNext]_allVars => [Dialog!DialogNext]_Dialog!dialogVars
  BY DEF MCNext, allVars, dialogVars, Dialog!dialogVars
<1> QED
  BY <1>1, <1>2, PTL DEF MCSpec, Dialog!DialogSpec

LEMMA ListsRun == MCSpec => Lists!ConsoleSpec
<1>1. MCInit => Lists!ConsoleInit
  BY DEF MCInit
<1>2. [MCNext]_allVars => [Lists!ConsoleNext]_Lists!consoleVars
  BY DEF MCNext, allVars, listVars, Lists!consoleVars
<1> QED
  BY <1>1, <1>2, PTL DEF MCSpec, Lists!ConsoleSpec

-----------------------------------------------------------------------------
(* E-mail delivery.                                                        *)

\* The status of a row is one that the send or the provider it belongs to reported
\* (email.service.ts), for any sends, keys, event types and number of attempts.
THEOREM StatusesHonest ==
    ASSUME MaxAttempts \in Nat \ {0}, Keyed \subseteq Sends,
           EventTypes \subseteq DOMAIN Email!EventStatus
    PROVE  MCSpec => []StatusHonest
<1>1. Email!Spec => []Email!StatusHonest
  BY Email!StatusesAreHonest
<1>2. Email!StatusHonest => StatusHonest
  BY DEF StatusHonest
<1> QED
  BY <1>1, <1>2, EmailRuns, PTL

\* A send that was skipped as a duplicate stands on another of its key that was recorded.
THEOREM DuplicatesBacked ==
    ASSUME MaxAttempts \in Nat \ {0}, Keyed \subseteq Sends,
           EventTypes \subseteq DOMAIN Email!EventStatus
    PROVE  MCSpec => []DuplicateBacked
<1>1. Email!Spec => []Email!DuplicateBacked
  BY Email!DuplicatesAreBacked
<1>2. Email!DuplicateBacked => DuplicateBacked
  BY DEF DuplicateBacked
<1> QED
  BY <1>1, <1>2, EmailRuns, PTL

\* Of two sends of one key that reached the provider, one has no row.
THEOREM SecondMailsAreUnrecorded ==
    ASSUME MaxAttempts \in Nat \ {0}, Keyed \subseteq Sends,
           EventTypes \subseteq DOMAIN Email!EventStatus
    PROVE  MCSpec => []SecondMailUnrecorded
<1>1. Email!Spec => []Email!SecondMailUnrecorded
  BY Email!SecondMailsUnrecorded
<1>2. Email!SecondMailUnrecorded => SecondMailUnrecorded
  BY DEF SecondMailUnrecorded
<1> QED
  BY <1>1, <1>2, EmailRuns, PTL

\* No step lets the sender overwrite what the provider reported.
THEOREM ProviderWins ==
    ASSUME MaxAttempts \in Nat \ {0}, Keyed \subseteq Sends,
           EventTypes \subseteq DOMAIN Email!EventStatus
    PROVE  MCSpec => ProviderHasLastWord
<1>1. Email!Spec => Email!ProviderHasLastWord
  BY Email!ProviderWins
<1> QED
  BY <1>1, EmailRuns, PTL DEF ProviderHasLastWord

-----------------------------------------------------------------------------
(* The policy dialogs.                                                     *)

Opening == [at : {"policy", "analytics", "agents", "versions", "done"}, id : Policies \cup {None}]
Detail == [open : BOOLEAN, title : Policies \cup {None}, agents : Policies \cup {None},
           versions : Policies \cup {None}, buttons : Policies \cup {None}]

DialogTypes ==
    /\ policies \subseteq Policies
    /\ calls \in [Calls -> Opening] /\ detail \in Detail
    /\ crossed \in BOOLEAN

\* How far the dialog is filled when a call of openPolicyDetail waits for an answer.
Filled(c) ==
    /\ calls[c].at = "policy" => detail.title = None
    /\ calls[c].at \in {"analytics", "agents", "versions"} => detail.title = calls[c].id
    /\ calls[c].at \in {"agents", "versions"} => detail.agents = calls[c].id

\* Calls that did not overlap: there is one at most, and what the dialog shows is its doing.
OneOpening ==
    ~crossed =>
        /\ \A c, d \in Dialog!InFlight : c = d
        /\ \A c \in Dialog!InFlight : Filled(c)
        /\ Dialog!InFlight = {} /\ detail.title # None =>
            /\ detail.agents = detail.title /\ detail.buttons = detail.title
            /\ detail.versions \in {None, detail.title}

DialogInv == DialogTypes /\ OneOpening

LEMMA DialogInitInv == Dialog!DialogInit => DialogInv
<1> SUFFICES ASSUME Dialog!DialogInit
             PROVE  DialogInv
  OBVIOUS
<1>1. DialogTypes
  BY DEF Dialog!DialogInit, DialogTypes, Opening, Detail, Dialog!Idle
<1>2. Dialog!InFlight = {} /\ detail.title = None
  BY DEF Dialog!DialogInit, Dialog!InFlight
<1> QED
  BY <1>1, <1>2 DEF DialogInv, OneOpening

\* A call of openPolicyDetail begins: it is the only one unless the calls overlap.
LEMMA OpenStep ==
    ASSUME DialogInv, NEW p \in Policies, Dialog!openPolicyDetail(p), policies' \subseteq Policies
    PROVE  DialogInv'
<1>1. PICK c \in Calls : /\ calls[c] = Dialog!Idle
                         /\ calls' = [calls EXCEPT ![c] = [at |-> "policy", id |-> p]]
  BY DEF Dialog!openPolicyDetail
<1>2. DialogTypes'
  BY <1>1 DEF Dialog!openPolicyDetail, DialogInv, DialogTypes, Opening, Detail
<1>3. ASSUME ~crossed' PROVE Dialog!InFlight' = {c} /\ Filled(c)'
  <2>1. Dialog!InFlight = {}
    BY <1>3 DEF Dialog!openPolicyDetail
  <2>2. Dialog!InFlight' = {c}
    BY <1>1, <2>1 DEF Dialog!InFlight, Dialog!Idle, DialogInv, DialogTypes
  <2>3. calls'[c].at = "policy" /\ detail'.title = None
    BY <1>1 DEF Dialog!openPolicyDetail, DialogInv, DialogTypes, Detail
  <2> QED
    BY <2>2, <2>3 DEF Filled
<1>4. OneOpening'
  BY <1>3 DEF OneOpening
<1> QED
  BY <1>2, <1>4 DEF DialogInv

\* The answers of a call: while it is the only one, the dialog is filled by it alone.
LEMMA AnswerStep ==
    ASSUME DialogInv, NEW c \in Calls,
           \/ Dialog!PolicyAnswer(c) \/ Dialog!AnalyticsAnswer(c)
           \/ Dialog!AgentsAnswer(c) \/ Dialog!VersionsAnswer(c)
    PROVE  DialogInv'
<1>1. /\ calls \in [Calls -> Opening] /\ detail \in Detail /\ policies \subseteq Policies
      /\ crossed \in BOOLEAN /\ crossed' = crossed /\ policies' = policies
  BY DEF DialogInv, DialogTypes, Dialog!PolicyAnswer, Dialog!AnalyticsAnswer,
         Dialog!AgentsAnswer, Dialog!VersionsAnswer
<1>2. c \in Dialog!InFlight
  <2>1. calls[c].at # "done"
    BY DEF Dialog!PolicyAnswer, Dialog!AnalyticsAnswer, Dialog!AgentsAnswer, Dialog!VersionsAnswer
  <2>2. Dialog!Idle.at = "done"
    BY DEF Dialog!Idle
  <2> QED
    BY <2>1, <2>2 DEF Dialog!InFlight
<1>3. PICK o \in Opening : calls' = [calls EXCEPT ![c] = o]
  <2>1. calls[c] \in Opening /\ Dialog!Idle \in Opening
    BY <1>1 DEF Opening, Dialog!Idle
  <2>2. \A a \in {"analytics", "agents", "versions"} :
            /\ [calls EXCEPT ![c].at = a] = [calls EXCEPT ![c] = [calls[c] EXCEPT !.at = a]]
            /\ [calls[c] EXCEPT !.at = a] \in Opening
    BY <2>1 DEF Opening
  <2> QED
    BY <2>1, <2>2 DEF Dialog!PolicyAnswer, Dialog!AnalyticsAnswer, Dialog!AgentsAnswer,
                      Dialog!VersionsAnswer
<1>4. detail' \in Detail
  <2>1. calls[c].id \in Policies \cup {None}
    BY <1>1 DEF Opening
  <2> QED
    BY <1>1, <2>1 DEF Detail, Dialog!PolicyAnswer, Dialog!AnalyticsAnswer,
                      Dialog!AgentsAnswer, Dialog!VersionsAnswer, Dialog!Wired
<1>5. DialogTypes'
  BY <1>1, <1>3, <1>4 DEF DialogTypes
<1>6. ASSUME ~crossed PROVE Dialog!InFlight = {c} /\ Filled(c)
  BY <1>1, <1>2, <1>6 DEF DialogInv, OneOpening
<1>7. /\ \A d \in Calls \ {c} : calls'[d] = calls[d]
      /\ Dialog!InFlight' \subseteq Dialog!InFlight
  BY <1>1, <1>2, <1>3 DEF Dialog!InFlight
<1>8. ASSUME ~crossed
      PROVE  \/ c \in Dialog!InFlight' /\ Filled(c)'
             \/ c \notin Dialog!InFlight' /\ detail'.title = None
             \/ /\ c \notin Dialog!InFlight'
                /\ detail'.agents = detail'.title /\ detail'.buttons = detail'.title
                /\ detail'.versions \in {None, detail'.title}
  <2>1. /\ calls[c] \in Opening /\ Dialog!Idle.at = "done" /\ Filled(c)
        /\ \A a : calls' = [calls EXCEPT ![c].at = a] =>
                 calls'[c].at = a /\ calls'[c].id = calls[c].id
        /\ calls' = [calls EXCEPT ![c] = Dialog!Idle] => c \notin Dialog!InFlight'
        /\ calls'[c].at # "done" => c \in Dialog!InFlight'
    BY <1>1, <1>6, <1>8 DEF Opening, Dialog!InFlight, Dialog!Idle
  <2>2. CASE Dialog!PolicyAnswer(c)
    BY <1>1, <2>1, <2>2 DEF Filled, Detail, Dialog!PolicyAnswer
  <2>3. CASE Dialog!AnalyticsAnswer(c)
    BY <1>1, <2>1, <2>3 DEF Filled, Detail, Dialog!AnalyticsAnswer
  <2>4. CASE Dialog!AgentsAnswer(c)
    BY <1>1, <2>1, <2>4 DEF Filled, Detail, Dialog!AgentsAnswer
  <2>5. CASE Dialog!VersionsAnswer(c)
    BY <1>1, <2>1, <2>5 DEF Filled, Detail, Dialog!VersionsAnswer, Dialog!Wired
  <2> QED
    BY <2>2, <2>3, <2>4, <2>5
<1>9. OneOpening'
  BY <1>1, <1>6, <1>7, <1>8 DEF OneOpening
<1> QED
  BY <1>5, <1>9 DEF DialogInv

\* The other steps at most open or close the dialog, and delete a policy.
LEMMA QuietStep ==
    ASSUME DialogInv, calls' = calls, crossed' = crossed, policies' \subseteq Policies,
           detail' \in {detail, [detail EXCEPT !.open = FALSE]}
    PROVE  DialogInv'
<1>1. /\ detail' \in Detail /\ detail'.title = detail.title /\ detail'.agents = detail.agents
      /\ detail'.buttons = detail.buttons /\ detail'.versions = detail.versions
  BY DEF DialogInv, DialogTypes, Detail
<1>2. Dialog!InFlight' = Dialog!InFlight
  BY DEF Dialog!InFlight
<1> QED
  BY <1>1, <1>2 DEF DialogInv, DialogTypes, OneOpening, Filled

LEMMA DialogNextInv == DialogInv /\ [Dialog!DialogNext]_Dialog!dialogVars => DialogInv'
<1> SUFFICES ASSUME DialogInv, [Dialog!DialogNext]_Dialog!dialogVars
             PROVE  DialogInv'
  OBVIOUS
<1> USE DEF DialogInv, DialogTypes
<1>1. ASSUME NEW p \in Policies, Dialog!Manage(p) PROVE DialogInv'
  BY <1>1, OpenStep DEF Dialog!Manage
<1>2. CASE Dialog!Changed
  BY <1>2, OpenStep DEF Dialog!Changed
<1>3. CASE \/ UNCHANGED Dialog!dialogVars
           \/ Dialog!Close \/ Dialog!Edit \/ Dialog!Ask \/ Dialog!Cancel \/ Dialog!Confirm
           \/ Dialog!Change \/ Dialog!Confirmed \/ Dialog!Failed \/ Dialog!NewPolicy
           \/ Dialog!CloseEditor \/ Dialog!Save \/ Dialog!Saved
  BY <1>3, QuietStep DEF Dialog!dialogVars, Dialog!Close, Dialog!Edit, Dialog!Ask,
     Dialog!Cancel, Dialog!Confirm, Dialog!Change, Dialog!Confirmed, Dialog!Failed,
     Dialog!NewPolicy, Dialog!CloseEditor, Dialog!Save, Dialog!Saved
<1> QED
  BY <1>1, <1>2, <1>3, AnswerStep DEF Dialog!DialogNext

\* A dialog that has settled shows one policy, and its buttons change that one
\* (openPolicyDetail), unless two openings overlapped.
THEOREM SettledDialogsAgree == MCSpec => []SettledDialogAgrees
<1>1. DialogInv => SettledDialogAgrees
  BY DEF DialogInv, OneOpening, SettledDialogAgrees, Dialog!SettledDialogAgrees
<1>2. Dialog!DialogSpec => []DialogInv
  BY DialogInitInv, DialogNextInv, PTL DEF Dialog!DialogSpec
<1> QED
  BY <1>1, <1>2, DialogRuns, PTL

-----------------------------------------------------------------------------
(* The lists.                                                              *)

Stages == {"me", "filter", "sent", "read", "rules"}
Load == {r \in [list : Lists!Lists, at : Stages, seen : Nat, page : Nat] :
            (r.at = "me" => r.list = "keys") /\ (r.at = "rules" => r.list = "packs")}
Display == [rows : BOOLEAN, seen : Nat, page : Nat]

ListTypes ==
    /\ version \in [Lists!Lists -> Nat] /\ confirmed \in [Lists!Lists -> Nat]
    /\ \A l \in Lists!Lists : confirmed[l] <= version[l]
    /\ loads \in Seq(Load) /\ displayed \in [Lists!Lists -> Display]
    /\ logs \in [page : Nat, total : Nat, label : Nat]
    /\ overlapped \subseteq Lists!Lists /\ loaded \subseteq Sections

\* Of a list whose loads did not overlap at most one is in flight.  What that one has read
\* is no older than the last change the page was told of, and of the page of the logs it was
\* turned to; so is what the list displays when none is in flight, for the keys unless an
\* error ended the overview.
Current(l, flying, display, conf, lg, over) ==
    /\ \A i, j \in DOMAIN flying : flying[i].list = l /\ flying[j].list = l => i = j
    /\ \A i \in DOMAIN flying : flying[i].list = l =>
        /\ flying[i].at \in {"read", "rules"} => flying[i].seen >= conf[l]
        /\ l = "logs" => flying[i].page = lg.page
    /\ display[l].rows /\ ~Lists!Has(flying, l) /\ (l = "keys" => over = "none") =>
        /\ display[l].seen >= conf[l]
        /\ l = "logs" => display[l].page = lg.label

ListsCurrent ==
    signedIn => \A l \in Lists!Lists \ overlapped :
        Current(l, loads, displayed, confirmed, logs, overlay)

ListInv == ListTypes /\ ListsCurrent

\* A function on 1 .. n is a sequence of length n.
LEMMA FunctionIsSeq ==
    ASSUME NEW S, NEW n \in Nat, NEW f \in [1 .. n -> S]
    PROVE  f \in Seq(S) /\ Len(f) = n /\ DOMAIN f = 1 .. n
<1>1. f \in Seq(S)
  BY SeqDef
<1> QED
  BY <1>1, LenProperties

LEMMA ListInitInv ==
    ASSUME Pages \in Nat
    PROVE  Lists!ConsoleInit => ListInv
<1> SUFFICES ASSUME Lists!ConsoleInit
             PROVE  ListInv
  OBVIOUS
<1>1. /\ version = [l \in Lists!Lists |-> 0] /\ confirmed = version
      /\ overlapped = {} /\ loaded = {}
      /\ displayed = [l \in Lists!Lists |-> Lists!Blank]
      /\ logs = [page |-> 1, total |-> 1, label |-> 1]
  BY DEF Lists!ConsoleInit
<1> DEFINE first == [list |-> "keys", at |-> "me", seen |-> 0, page |-> 1]
<1>2. loads = <<first>> /\ first \in Load
  BY DEF Lists!ConsoleInit, Load, Stages, Lists!Lists
<1>3. loads \in Seq(Load) /\ DOMAIN loads = {1} /\ loads[1] = first
  BY <1>2
<1>4. ListTypes
  BY <1>1, <1>3 DEF ListTypes, Display, Lists!Blank
<1>5. \A l \in Lists!Lists : Current(l, loads, displayed, confirmed, logs, overlay)
  BY <1>1, <1>3 DEF Current, Lists!Blank
<1> QED
  BY <1>4, <1>5 DEF ListInv, ListsCurrent

\* A load is over: the others keep their order.
LEMMA WithoutKeeps ==
    ASSUME loads \in Seq(Load), NEW i \in DOMAIN loads
    PROVE  /\ Lists!Without(i) \in Seq(Load)
           /\ \A j \in DOMAIN Lists!Without(i) :
                \E k \in DOMAIN loads \ {i} : Lists!Without(i)[j] = loads[k]
           /\ \A k \in DOMAIN loads \ {i} :
                \E j \in DOMAIN Lists!Without(i) : Lists!Without(i)[j] = loads[k]
           /\ \A j, k \in DOMAIN Lists!Without(i) : j # k =>
                \E m, n \in DOMAIN loads \ {i} :
                    m # n /\ Lists!Without(i)[j] = loads[m] /\ Lists!Without(i)[k] = loads[n]
<1> DEFINE n == Len(loads) - 1
           from(j) == IF j < i THEN j ELSE j + 1
           w == Lists!Without(i)
<1>1. Len(loads) \in Nat /\ DOMAIN loads = 1 .. Len(loads) /\ n \in Nat
  BY LenProperties
<1>2. \A j \in 1 .. n : from(j) \in DOMAIN loads \ {i}
  BY <1>1
<1>3. \A j, k \in 1 .. n : j # k => from(j) # from(k)
  BY <1>1
<1>4. \A k \in DOMAIN loads \ {i} : \E j \in 1 .. n : from(j) = k
  <2> TAKE k \in DOMAIN loads \ {i}
  <2>1. CASE k < i
    BY <1>1, <2>1
  <2>2. CASE k > i
    <3>1. k - 1 \in 1 .. n /\ from(k - 1) = k
      BY <1>1, <2>2
    <3> QED
      BY <3>1
  <2> QED
    BY <1>1, <2>1, <2>2
<1>5. w = [j \in 1 .. n |-> loads[from(j)]]
  BY DEF Lists!Without
<1>6. \A k \in DOMAIN loads : loads[k] \in Load
  BY <1>1, ElementOfSeq
<1>7. w \in [1 .. n -> Load] /\ \A j \in 1 .. n : w[j] = loads[from(j)]
  BY <1>2, <1>5, <1>6
<1>8. w \in Seq(Load) /\ DOMAIN w = 1 .. n
  BY <1>1, <1>7, FunctionIsSeq
<1>9. \A k \in DOMAIN loads \ {i} : \E j \in DOMAIN w : w[j] = loads[k]
  BY <1>4, <1>7, <1>8
<1>10. \A j, k \in DOMAIN w : j # k =>
         from(j) # from(k) /\ w[j] = loads[from(j)] /\ w[k] = loads[from(k)]
  BY <1>3, <1>7, <1>8
<1>11. \A j \in DOMAIN w : \E k \in DOMAIN loads \ {i} : w[j] = loads[k]
  BY <1>2, <1>7, <1>8
<1>12. \A j, k \in DOMAIN w : j # k =>
         \E m, p \in DOMAIN loads \ {i} : m # p /\ w[j] = loads[m] /\ w[k] = loads[p]
  <2> SUFFICES ASSUME NEW j \in DOMAIN w, NEW k \in DOMAIN w, j # k
               PROVE  \E m, p \in DOMAIN loads \ {i} :
                        m # p /\ w[j] = loads[m] /\ w[k] = loads[p]
    OBVIOUS
  <2>1. from(j) \in DOMAIN loads \ {i} /\ from(k) \in DOMAIN loads \ {i}
    BY <1>2, <1>8
  <2>2. from(j) # from(k) /\ w[j] = loads[from(j)] /\ w[k] = loads[from(k)]
    BY <1>10
  <2> QED
    BY <2>1, <2>2
<1> QED
  BY <1>8, <1>9, <1>11, <1>12

\* Nothing that holds of a list's loads is lost when one of them is over.
LEMMA WithoutCurrent ==
    ASSUME loads \in Seq(Load), NEW i \in DOMAIN loads, NEW l, NEW display, NEW over,
           Current(l, loads, displayed, confirmed, logs, overlay),
           NEW lg, lg.page = logs.page,
           loads[i].list # l => /\ display[l] = displayed[l]
                                /\ l = "logs" => lg.label = logs.label,
           loads[i].list # l \/ l # "keys" => over = overlay,
           loads[i].list = l /\ display[l].rows /\ (l = "keys" => over = "none") =>
                /\ display[l].seen >= confirmed[l]
                /\ l = "logs" => display[l].page = lg.label
    PROVE  Current(l, Lists!Without(i), display, confirmed, lg, over)
<1> DEFINE w == Lists!Without(i)
<1>1. /\ \A j \in DOMAIN w : \E k \in DOMAIN loads \ {i} : w[j] = loads[k]
      /\ \A k \in DOMAIN loads \ {i} : \E j \in DOMAIN w : w[j] = loads[k]
      /\ \A j, k \in DOMAIN w : j # k =>
            \E m, n \in DOMAIN loads \ {i} : m # n /\ w[j] = loads[m] /\ w[k] = loads[n]
  BY WithoutKeeps
<1>2. \A j, k \in DOMAIN w : w[j].list = l /\ w[k].list = l => j = k
  <2> SUFFICES ASSUME NEW j \in DOMAIN w, NEW k \in DOMAIN w, j # k, w[j].list = l, w[k].list = l
               PROVE  FALSE
    OBVIOUS
  <2>1. PICK m \in DOMAIN loads, n \in DOMAIN loads :
            m # n /\ w[j] = loads[m] /\ w[k] = loads[n]
    BY <1>1
  <2> QED
    BY <2>1 DEF Current
<1>3. \A j \in DOMAIN w : w[j].list = l =>
        /\ w[j].at \in {"read", "rules"} => w[j].seen >= confirmed[l]
        /\ l = "logs" => w[j].page = lg.page
  BY <1>1 DEF Current
<1>4. loads[i].list # l /\ ~Lists!Has(w, l) => ~Lists!Has(loads, l)
  BY <1>1 DEF Lists!Has
<1>5. display[l].rows /\ ~Lists!Has(w, l) /\ (l = "keys" => over = "none") =>
        /\ display[l].seen >= confirmed[l]
        /\ l = "logs" => display[l].page = lg.label
  <2>1. CASE loads[i].list = l
    BY <2>1
  <2>2. CASE loads[i].list # l
    <3>1. displayed[l].rows /\ ~Lists!Has(loads, l) /\ (l = "keys" => overlay = "none") =>
            /\ displayed[l].seen >= confirmed[l]
            /\ l = "logs" => displayed[l].page = logs.label
      BY DEF Current
    <3>2. over = overlay /\ display[l] = displayed[l] /\ (l = "logs" => lg.label = logs.label)
      BY <2>2
    <3> SUFFICES ASSUME display[l].rows, ~Lists!Has(w, l), l = "keys" => over = "none"
                 PROVE  /\ display[l].seen >= confirmed[l]
                        /\ l = "logs" => display[l].page = lg.label
      OBVIOUS
    <3>3. ~Lists!Has(loads, l) /\ (l = "keys" => overlay = "none") /\ displayed[l].rows
      BY <1>4, <2>2, <3>2
    <3> QED
      BY <3>1, <3>2, <3>3
  <2> QED
    BY <2>1, <2>2
<1> QED
  BY <1>2, <1>3, <1>5 DEF Current
\* What begins a load has nothing read yet, and asks for the current page of the logs.
LEMMA NewLoads ==
    ASSUME NEW l \in Lists!Lists, NEW p \in Nat
    PROVE  /\ Lists!New(l, p) \in Load /\ Lists!New(l, p).list = l
           /\ Lists!New(l, p).at \notin {"read", "rules"} /\ Lists!New(l, p).page = p
BY DEF Lists!New, Lists!FirstStage, Load, Stages

\* Begin keeps the types, and of a list whose loads do not overlap what holds of its loads.
LEMMA BeginKeeps ==
    ASSUME ListTypes, NEW flying \in Seq(Load), NEW n \in Nat, NEW ls \in [1 .. n -> Lists!Lists],
           \A i, j \in 1 .. n : ls[i] = ls[j] => i = j,
           NEW p \in Nat, NEW display \in [Lists!Lists -> Display],
           Lists!Begin(flying, ls, p, display)
    PROVE  /\ loads' \in Seq(Load) /\ displayed' \in [Lists!Lists -> Display]
           /\ overlapped' \subseteq Lists!Lists
           /\ \A conf, lg : \A l \in Lists!Lists \ overlapped' :
                /\ lg.page = p
                /\ ~Lists!Starts(ls, l) =>
                     l \in overlapped \/ Current(l, flying, display, conf, lg, overlay)
                => Current(l, loads', displayed', conf, lg, overlay')
<1> DEFINE m == Len(flying)
<1>1. /\ ls \in Seq(Lists!Lists) /\ Len(ls) = n /\ DOMAIN ls = 1 .. n
      /\ m \in Nat /\ DOMAIN flying = 1 .. m /\ flying \in [1 .. m -> Load]
  BY FunctionIsSeq, LenProperties
<1>2. loads' = [j \in 1 .. m + n |->
                    IF j <= m THEN flying[j] ELSE Lists!New(ls[j - m], p)]
  BY <1>1 DEF Lists!Begin
<1>3. \A j \in 1 .. m + n :
        /\ j <= m => j \in 1 .. m /\ flying[j] \in Load
        /\ j > m => /\ j - m \in 1 .. n /\ ls[j - m] \in Lists!Lists
                    /\ Lists!New(ls[j - m], p) \in Load
        /\ j <= m \/ j > m
  <2> TAKE j \in 1 .. m + n
  <2>1. j <= m => j \in 1 .. m
    BY <1>1
  <2>2. j > m => j - m \in 1 .. n
    BY <1>1
  <2>3. j <= m \/ j > m
    BY <1>1
  <2> QED
    BY <1>1, <2>1, <2>2, <2>3, NewLoads
<1>4. loads' \in [1 .. m + n -> Load]
  <2>1. \A j \in 1 .. m + n : (IF j <= m THEN flying[j] ELSE Lists!New(ls[j - m], p)) \in Load
    BY <1>3, Zenon
  <2> QED
    BY <1>2, <2>1
<1>5. loads' \in Seq(Load) /\ DOMAIN loads' = 1 .. m + n
  <2>1. m + n \in Nat
    BY <1>1
  <2> HIDE DEF m
  <2> QED
    BY <1>4, <2>1, FunctionIsSeq
<1>6. /\ \A j \in 1 .. m : loads'[j] = flying[j] /\ j \in DOMAIN loads'
      /\ \A j \in DOMAIN loads' : j > m =>
            /\ loads'[j].list = ls[j - m] /\ loads'[j].page = p
            /\ loads'[j].at \notin {"read", "rules"}
      /\ \A k \in 1 .. n : m + k \in DOMAIN loads' /\ loads'[m + k].list = ls[k]
  <2>1. \A j \in 1 .. m : loads'[j] = flying[j] /\ j \in DOMAIN loads'
    BY <1>1, <1>2, <1>5
  <2>2. \A j \in DOMAIN loads' : j > m => loads'[j] = Lists!New(ls[j - m], p)
    BY <1>1, <1>2, <1>5
  <2>3. \A k \in 1 .. n : m + k \in DOMAIN loads' /\ m + k > m /\ (m + k) - m = k
    BY <1>1, <1>5
  <2>4. \A j \in DOMAIN loads' : j > m =>
            /\ loads'[j].list = ls[j - m] /\ loads'[j].page = p
            /\ loads'[j].at \notin {"read", "rules"}
    BY <1>3, <1>5, <2>2, NewLoads
  <2> QED
    BY <2>1, <2>3, <2>4
<1>7. /\ displayed' \in [Lists!Lists -> Display] /\ overlapped' \subseteq Lists!Lists
      /\ \A l \in Lists!Lists : ~Lists!Starts(ls, l) => displayed'[l] = display[l]
      /\ overlay' = IF Lists!Starts(ls, "keys") THEN "none" ELSE overlay
      /\ \A l \in Lists!Lists \ overlapped' :
            IF Lists!Starts(ls, l) THEN ~Lists!Has(flying, l) ELSE l \notin overlapped
  BY DEF Lists!Begin, Display, Lists!Blank
<1>8. ASSUME NEW l \in Lists!Lists \ overlapped', NEW conf, NEW lg, lg.page = p,
             ~Lists!Starts(ls, l) =>
                l \in overlapped \/ Current(l, flying, display, conf, lg, overlay)
      PROVE  Current(l, loads', displayed', conf, lg, overlay')
  <2>1. CASE Lists!Starts(ls, l)
    <3>1. \A j \in 1 .. m : loads'[j].list # l
      BY <1>1, <1>6, <1>7, <2>1 DEF Lists!Has
    <3>2. \A j \in DOMAIN loads' : loads'[j].list = l =>
            /\ j > m /\ j - m \in 1 .. n /\ ls[j - m] = l
            /\ loads'[j].page = p /\ loads'[j].at \notin {"read", "rules"}
      BY <1>1, <1>3, <1>5, <1>6, <3>1
    <3>3. \A i, j \in DOMAIN loads' : loads'[i].list = l /\ loads'[j].list = l => i = j
      BY <1>1, <1>5, <3>2
    <3>4. Lists!Has(loads', l)
      BY <1>1, <1>6, <2>1 DEF Lists!Starts, Lists!Has
    <3> QED
      <4>1. \A j \in DOMAIN loads' : loads'[j].list = l =>
                /\ loads'[j].at \in {"read", "rules"} => loads'[j].seen >= conf[l]
                /\ l = "logs" => loads'[j].page = lg.page
        BY <1>8, <3>2
      <4> QED
        BY <3>3, <3>4, <4>1 DEF Current
  <2>2. CASE ~Lists!Starts(ls, l)
    <3>1. Current(l, flying, display, conf, lg, overlay)
      BY <1>7, <1>8, <2>2
    <3>2. \A j \in DOMAIN loads' : loads'[j].list = l => j \in 1 .. m /\ loads'[j] = flying[j]
      <4>1. \A k \in 1 .. n : ls[k] # l
        BY <1>1, <2>2 DEF Lists!Starts
      <4>2. \A j \in DOMAIN loads' : j > m => loads'[j].list # l
        BY <1>3, <1>5, <1>6, <4>1
      <4> QED
        BY <1>3, <1>5, <1>6, <4>2
    <3>3. Lists!Has(flying, l) => Lists!Has(loads', l)
      BY <1>1, <1>6 DEF Lists!Has
    <3>4. displayed'[l] = display[l] /\ (l = "keys" => overlay' = overlay)
      BY <1>7, <2>2
    <3> QED
      BY <1>1, <3>1, <3>2, <3>3, <3>4 DEF Current
  <2> QED
    BY <2>1, <2>2
<1> QED
  BY <1>5, <1>7, <1>8

\* The loads of the lists ls begin, of every list that changed among others.
LEMMA StartStep ==
    ASSUME ListInv, NEW n \in Nat, NEW ls \in [1 .. n -> Lists!Lists],
           \A i, j \in 1 .. n : ls[i] = ls[j] => i = j,
           Lists!Begin(loads, ls, logs'.page, displayed),
           signedIn' = signedIn, version' = version, confirmed' \in [Lists!Lists -> Nat],
           logs' \in [page : Nat, total : Nat, label : Nat], loaded' \subseteq Sections,
           \A l \in Lists!Lists : confirmed'[l] <= version[l],
           \A l \in Lists!Lists : ~Lists!Starts(ls, l) =>
                confirmed'[l] = confirmed[l] /\ (l = "logs" => logs' = logs)
    PROVE  ListInv'
<1>1. ListTypes /\ loads \in Seq(Load) /\ displayed \in [Lists!Lists -> Display]
      /\ logs'.page \in Nat
  BY DEF ListInv, ListTypes
<1>2. /\ loads' \in Seq(Load) /\ displayed' \in [Lists!Lists -> Display]
      /\ overlapped' \subseteq Lists!Lists
      /\ \A l \in Lists!Lists \ overlapped' :
            (~Lists!Starts(ls, l) =>
                l \in overlapped \/ Current(l, loads, displayed, confirmed', logs', overlay))
            => Current(l, loads', displayed', confirmed', logs', overlay')
  BY <1>1, BeginKeeps
<1>3. ListTypes'
  BY <1>1, <1>2 DEF ListTypes
<1>4. ASSUME signedIn, NEW l \in Lists!Lists \ overlapped, ~Lists!Starts(ls, l)
      PROVE  Current(l, loads, displayed, confirmed', logs', overlay)
  <2>1. Current(l, loads, displayed, confirmed, logs, overlay)
    BY <1>4 DEF ListInv, ListsCurrent
  <2> QED
    BY <1>4, <2>1 DEF Current
<1>5. ListsCurrent'
  BY <1>2, <1>4 DEF ListsCurrent
<1> QED
  BY <1>3, <1>5 DEF ListInv

\* A load is over: its list displays what it read, or nothing.
LEMMA EndStep ==
    ASSUME ListInv, signedIn, NEW i \in DOMAIN loads,
           NEW n \in Nat, NEW ls \in [1 .. n -> Lists!Lists],
           \A j, k \in 1 .. n : ls[j] = ls[k] => j = k,
           NEW display, Lists!Begin(Lists!Without(i), ls, logs.page, display),
           \/ display = Lists!Blanked(i) /\ logs' = logs
           \/ /\ display = Lists!Displayed(i) /\ loads[i].at \in {"read", "rules"}
              /\ logs' \in [page : Nat, total : Nat, label : Nat] /\ logs'.page = logs.page
              /\ IF loads[i].list = "logs" THEN logs'.label = logs.page ELSE logs' = logs,
           UNCHANGED <<version, confirmed, loaded, signedIn>>
    PROVE  ListInv'
<1>1. /\ ListTypes /\ loads \in Seq(Load) /\ displayed \in [Lists!Lists -> Display]
      /\ logs.page \in Nat /\ logs \in [page : Nat, total : Nat, label : Nat]
  BY DEF ListInv, ListTypes
<1>2. loads[i] \in Load /\ loads[i].list \in Lists!Lists
  BY <1>1, LenProperties, ElementOfSeq DEF Load
<1>3. /\ display \in [Lists!Lists -> Display]
      /\ \A l \in Lists!Lists : l # loads[i].list => display[l] = displayed[l]
      /\ display[loads[i].list].rows => 
            /\ display[loads[i].list].seen = loads[i].seen
            /\ display[loads[i].list].page = loads[i].page
            /\ loads[i].at \in {"read", "rules"}
            /\ loads[i].list = "logs" => logs'.label = logs.page
  <2>1. CASE display = Lists!Blanked(i)
    BY <1>1, <1>2, <2>1 DEF Lists!Blanked, Lists!Blank, Display
  <2>2. CASE /\ display = Lists!Displayed(i) /\ loads[i].at \in {"read", "rules"}
             /\ loads[i].list = "logs" => logs'.label = logs.page
    <3>1. loads[i].seen \in Nat /\ loads[i].page \in Nat
      BY <1>2 DEF Load
    <3> QED
      BY <1>1, <1>2, <2>2, <3>1 DEF Lists!Displayed, Display
  <2> QED
    BY <2>1, <2>2
<1>4. Lists!Without(i) \in Seq(Load)
  BY <1>1, WithoutKeeps
<1>5. /\ loads' \in Seq(Load) /\ displayed' \in [Lists!Lists -> Display]
      /\ overlapped' \subseteq Lists!Lists
      /\ \A l \in Lists!Lists \ overlapped' :
            (~Lists!Starts(ls, l) => 
                \/ l \in overlapped
                \/ Current(l, Lists!Without(i), display, confirmed, logs', overlay))
            => Current(l, loads', displayed', confirmed, logs', overlay')
  <2>1. logs'.page = logs.page
    OBVIOUS
  <2> QED
    BY <1>1, <1>3, <1>4, <2>1, BeginKeeps
<1>6. ListTypes'
  BY <1>1, <1>5 DEF ListTypes
<1>7. ASSUME NEW l \in Lists!Lists \ overlapped
      PROVE  Current(l, Lists!Without(i), display, confirmed, logs', overlay)
  <2>1. Current(l, loads, displayed, confirmed, logs, overlay)
    BY <1>7 DEF ListInv, ListsCurrent
  <2>2. loads[i].list = l /\ display[l].rows =>
            /\ display[l].seen >= confirmed[l]
            /\ l = "logs" => display[l].page = logs'.label
    BY <1>3, <2>1 DEF Current
  <2>3. loads[i].list # l => /\ display[l] = displayed[l]
                             /\ l = "logs" => logs'.label = logs.label
    BY <1>3
  <2>4. logs'.page = logs.page
    OBVIOUS
  <2> QED
    BY <1>1, <2>1, <2>2, <2>3, <2>4, WithoutCurrent
<1>8. ListsCurrent'
  BY <1>5, <1>7 DEF ListsCurrent
<1> QED
  BY <1>6, <1>8 DEF ListInv

\* A load goes on to its next request: the list is read when the server answers.
LEMMA AdvanceStep ==
    ASSUME ListInv, NEW i \in DOMAIN loads, NEW r \in Load,
           loads' = [loads EXCEPT ![i] = r], r.list = loads[i].list,
           r.at \in {"read", "rules"} => 
                \/ r.seen = version[r.list]
                \/ r.seen = loads[i].seen /\ loads[i].at \in {"read", "rules"},
           r.page \in {loads[i].page, logs.page},
           UNCHANGED <<version, confirmed, displayed, loaded, logs, overlay, signedIn, overlapped>>
    PROVE  ListInv'
<1>1. ListTypes /\ loads \in Seq(Load) /\ DOMAIN loads = 1 .. Len(loads) /\ Len(loads) \in Nat
  BY LenProperties DEF ListInv, ListTypes
<1>2. /\ loads' \in Seq(Load) /\ DOMAIN loads' = DOMAIN loads
      /\ \A j \in DOMAIN loads : loads'[j] = IF j = i THEN r ELSE loads[j]
  BY <1>1, ExceptSeq
<1>3. ListTypes'
  BY <1>1, <1>2 DEF ListTypes
<1>4. ASSUME NEW l \in Lists!Lists \ overlapped, signedIn
      PROVE  Current(l, loads', displayed, confirmed, logs, overlay)
  <2>1. Current(l, loads, displayed, confirmed, logs, overlay)
    BY <1>4 DEF ListInv, ListsCurrent
  <2>2. version[l] >= confirmed[l] /\ version[l] \in Nat /\ confirmed[l] \in Nat
    BY <1>1, <1>4 DEF ListTypes
  <2>3. Lists!Has(loads', l) <=> Lists!Has(loads, l)
    BY <1>2 DEF Lists!Has
  <2>4. \A j, k \in DOMAIN loads' : loads'[j].list = l /\ loads'[k].list = l => j = k
    BY <1>2, <2>1 DEF Current
  <2>5. \A j \in DOMAIN loads' : loads'[j].list = l =>
            /\ loads'[j].at \in {"read", "rules"} => loads'[j].seen >= confirmed[l]
            /\ l = "logs" => loads'[j].page = logs.page
    BY <1>2, <2>1, <2>2 DEF Current
  <2> QED
    BY <2>1, <2>3, <2>4, <2>5 DEF Current
<1>5. ListsCurrent'
  BY <1>4 DEF ListsCurrent
<1> QED
  BY <1>3, <1>5 DEF ListInv

\* The page is left: nothing is in flight.
LEMMA LeaveStep ==
    ASSUME ListInv, ~signedIn', loads' = <<>>,
           UNCHANGED <<version, confirmed, displayed, loaded, logs, overlapped>>
    PROVE  ListInv'
BY DEF ListInv, ListTypes, ListsCurrent

\* Steps that leave the loads and the lists alone.
LEMMA RestStep ==
    ASSUME ListInv, version' \in [Lists!Lists -> Nat],
           \A l \in Lists!Lists : version[l] <= version'[l],
           UNCHANGED <<confirmed, loads, displayed, loaded, logs, overlay, signedIn, overlapped>>
    PROVE  ListInv'
<1>1. ListTypes'
  BY DEF ListInv, ListTypes
<1>2. ListsCurrent'
  BY DEF ListInv, ListsCurrent
<1> QED
  BY <1>1, <1>2 DEF ListInv

\* The overview ends with an error over the page.
LEMMA OverlayStep ==
    ASSUME ListInv, NEW i \in DOMAIN loads, loads[i].at = "me",
           loads' = Lists!Without(i), overlay' \in {"retry", "wait"},
           UNCHANGED <<version, confirmed, displayed, loaded, logs, signedIn, overlapped>>
    PROVE  ListInv'
<1>1. ListTypes /\ loads \in Seq(Load)
  BY DEF ListInv, ListTypes
<1>2. loads[i].list = "keys"
  BY <1>1, LenProperties, ElementOfSeq DEF Load
<1>3. ListTypes'
  BY <1>1, WithoutKeeps DEF ListTypes
<1>4. ASSUME NEW l \in Lists!Lists \ overlapped, signedIn
      PROVE  Current(l, Lists!Without(i), displayed, confirmed, logs, overlay')
  <2>1. Current(l, loads, displayed, confirmed, logs, overlay)
    BY <1>4 DEF ListInv, ListsCurrent
  <2>2. CASE l = "keys"
    BY <1>1, <1>2, <2>1, <2>2, WithoutCurrent
  <2>3. CASE l # "keys"
    <3>1. Current(l, Lists!Without(i), displayed, confirmed, logs, overlay)
      BY <1>1, <1>2, <2>1, <2>3, WithoutCurrent
    <3> QED
      BY <2>3, <3>1 DEF Current
  <2> QED
    BY <2>2, <2>3
<1>5. ListsCurrent'
  BY <1>4 DEF ListsCurrent
<1> QED
  BY <1>3, <1>5 DEF ListInv

\* The sequences of lists that are loaded: none, one, and the two below the keys.
LEMMA Sequences ==
    /\ 0 \in Nat /\ <<>> \in [1 .. 0 -> Lists!Lists]
    /\ \A i, j \in 1 .. 0 : <<>>[i] = <<>>[j] => i = j
    /\ 1 \in Nat /\ \A l \in Lists!Lists :
        /\ <<l>> \in [1 .. 1 -> Lists!Lists] /\ Lists!Starts(<<l>>, l)
        /\ \A i, j \in 1 .. 1 : <<l>>[i] = <<l>>[j] => i = j
    /\ 2 \in Nat /\ Lists!Below \in [1 .. 2 -> Lists!Lists]
    /\ \A i, j \in 1 .. 2 : Lists!Below[i] = Lists!Below[j] => i = j
<1>1. <<>> \in [1 .. 0 -> Lists!Lists]
  OBVIOUS
<1>2. ASSUME NEW l \in Lists!Lists
      PROVE  /\ <<l>> \in [1 .. 1 -> Lists!Lists] /\ Lists!Starts(<<l>>, l)
             /\ \A i, j \in 1 .. 1 : <<l>>[i] = <<l>>[j] => i = j
  BY DEF Lists!Starts
<1>3. /\ Lists!Below \in [1 .. 2 -> Lists!Lists]
      /\ \A i, j \in 1 .. 2 : Lists!Below[i] = Lists!Below[j] => i = j
  BY DEF Lists!Below, Lists!Lists
<1> QED
  BY <1>1, <1>2, <1>3

\* The user's clicks and the page's reactions that begin a load.
LEMMA ClickStep ==
    ASSUME ListInv,
           \/ \E s \in Sections : Lists!showSection(s)
           \/ Lists!TurnPage \/ Lists!ShowResolved \/ Lists!Reconnect
           \/ \E l \in Lists!Lists : Lists!Confirm(l)
    PROVE  ListInv'
<1>1. /\ version \in [Lists!Lists -> Nat] /\ confirmed \in [Lists!Lists -> Nat]
      /\ \A l \in Lists!Lists : confirmed[l] <= version[l]
      /\ logs \in [page : Nat, total : Nat, label : Nat] /\ loaded \subseteq Lists!Lists
      /\ loaded \subseteq Sections
  BY DEF ListInv, ListTypes, Lists!Lists
<1>2. ASSUME NEW s \in Sections, Lists!showSection(s) PROVE ListInv'
  <2>1. s \in Lists!Lists
    BY DEF Lists!Lists
  <2> QED
    BY <1>1, <1>2, <2>1, Sequences, StartStep DEF Lists!showSection
<1>3. CASE Lists!TurnPage
  <2>1. PICK p \in ({logs.page - 1, logs.page + 1} \cap 1 .. logs.total) \cup {1} :
            logs' = [logs EXCEPT !.page = p] /\ Lists!Begin(loads, <<"logs">>, p, displayed)
    BY <1>3 DEF Lists!TurnPage
  <2>2. logs' \in [page : Nat, total : Nat, label : Nat] /\ logs'.page = p
    BY <1>1, <2>1
  <2>3. /\ "logs" \in Lists!Lists
        /\ \A l \in Lists!Lists : ~Lists!Starts(<<"logs">>, l) => l # "logs"
    BY <1>1, <1>3, Sequences DEF Lists!TurnPage
  <2> QED
    <3>1. /\ <<"logs">> \in [1 .. 1 -> Lists!Lists] /\ 1 \in Nat
          /\ \A i, j \in 1 .. 1 : <<"logs">>[i] = <<"logs">>[j] => i = j
      BY <2>3, Sequences
    <3>2. /\ signedIn' = signedIn /\ version' = version /\ confirmed' = confirmed
          /\ loaded' \subseteq Sections
      BY <1>1, <1>3 DEF Lists!TurnPage
    <3>3. /\ Lists!Begin(loads, <<"logs">>, logs'.page, displayed)
          /\ \A l \in Lists!Lists : ~Lists!Starts(<<"logs">>, l) =>
                confirmed'[l] = confirmed[l] /\ (l = "logs" => logs' = logs)
      BY <2>1, <2>2, <2>3, <3>2
    <3> QED
      BY <1>1, <2>2, <3>1, <3>2, <3>3, StartStep
<1>4. CASE Lists!ShowResolved
  <2>1. "alerts" \in Lists!Lists
    BY <1>1, <1>4 DEF Lists!ShowResolved
  <2> QED
    BY <1>1, <1>4, <2>1, Sequences, StartStep DEF Lists!ShowResolved
<1>5. CASE Lists!Reconnect
  <2>1. "keys" \in Lists!Lists
    BY DEF Lists!Lists
  <2> QED
    BY <1>1, <1>5, <2>1, Sequences, StartStep DEF Lists!Reconnect
<1>6. ASSUME NEW l \in Lists!Lists, Lists!Confirm(l) PROVE ListInv'
  <2>1. /\ confirmed' = [confirmed EXCEPT ![l] = version[l]] /\ logs' = logs
        /\ Lists!Begin(loads, <<l>>, logs.page, displayed)
        /\ signedIn' = signedIn /\ version' = version /\ loaded' \subseteq Sections
    BY <1>1, <1>6 DEF Lists!Confirm, Lists!AfterChange
  <2>2. /\ confirmed' \in [Lists!Lists -> Nat]
        /\ \A k \in Lists!Lists : confirmed'[k] <= version[k]
        /\ \A k \in Lists!Lists : k # l => confirmed'[k] = confirmed[k]
    BY <1>1, <2>1
  <2>3. \A k \in Lists!Lists : ~Lists!Starts(<<l>>, k) => k # l
    BY Sequences
  <2> QED
    <3>1. /\ <<l>> \in [1 .. 1 -> Lists!Lists] /\ 1 \in Nat
          /\ \A i, j \in 1 .. 1 : <<l>>[i] = <<l>>[j] => i = j
      BY Sequences
    <3>2. /\ Lists!Begin(loads, <<l>>, logs'.page, displayed)
          /\ \A k \in Lists!Lists : ~Lists!Starts(<<l>>, k) =>
                confirmed'[k] = confirmed[k] /\ (k = "logs" => logs' = logs)
      BY <2>1, <2>2, <2>3
    <3> QED
      BY <1>1, <2>1, <2>2, <3>1, <3>2, StartStep
<1> QED
  BY <1>2, <1>3, <1>4, <1>5, <1>6

\* A load moves on by one request.
LEMMA RequestStep ==
    ASSUME ListInv, NEW i \in DOMAIN loads,
           \/ Lists!Read(i) \/ Lists!FilterAnswer(i) \/ Lists!MeAnswer(i)
           \/ /\ loads[i].at = "read" /\ loads[i].list = "packs"
              /\ loads' = [loads EXCEPT ![i].at = "rules"]
              /\ UNCHANGED <<version, confirmed, displayed, loaded, logs, overlay, signedIn,
                             overlapped>>
    PROVE  ListInv'
<1>1. /\ loads \in Seq(Load) /\ version \in [Lists!Lists -> Nat]
      /\ logs \in [page : Nat, total : Nat, label : Nat]
  BY DEF ListInv, ListTypes
<1>2. loads[i] \in Load
  BY <1>1, LenProperties, ElementOfSeq
<1>3. CASE Lists!Read(i)
  <2> DEFINE r == [loads[i] EXCEPT !.at = "read", !.seen = version[loads[i].list]]
  <2>1. /\ r \in Load /\ r.list = loads[i].list /\ r.seen = version[r.list]
        /\ r.page = loads[i].page
    BY <1>1, <1>2 DEF Load, Stages
  <2>2. loads' = [loads EXCEPT ![i] = r]
    BY <1>1, <1>2, <1>3 DEF Lists!Read
  <2> QED
    BY <1>3, <2>1, <2>2, AdvanceStep DEF Lists!Read
<1>4. CASE Lists!FilterAnswer(i)
  <2> DEFINE r == [loads[i] EXCEPT !.at = "sent", !.page = logs.page]
  <2>1. /\ r \in Load /\ r.list = loads[i].list /\ r.at = "sent" /\ r.page = logs.page
    BY <1>1, <1>2 DEF Load, Stages
  <2>2. loads' = [loads EXCEPT ![i] = r]
    BY <1>1, <1>2, <1>4 DEF Lists!FilterAnswer
  <2> QED
    BY <1>4, <2>1, <2>2, AdvanceStep DEF Lists!FilterAnswer
<1>5. CASE Lists!MeAnswer(i)
  <2> DEFINE r == [loads[i] EXCEPT !.at = "sent"]
  <2>1. /\ r \in Load /\ r.list = loads[i].list /\ r.at = "sent" /\ r.page = loads[i].page
    BY <1>1, <1>2 DEF Load, Stages
  <2>2. loads' = [loads EXCEPT ![i] = r]
    BY <1>1, <1>2, <1>5 DEF Lists!MeAnswer
  <2> QED
    BY <1>5, <2>1, <2>2, AdvanceStep DEF Lists!MeAnswer
<1>6. CASE /\ loads[i].at = "read" /\ loads[i].list = "packs"
           /\ loads' = [loads EXCEPT ![i].at = "rules"]
           /\ UNCHANGED <<version, confirmed, displayed, loaded, logs, overlay, signedIn,
                          overlapped>>
  <2> DEFINE r == [loads[i] EXCEPT !.at = "rules"]
  <2>1. /\ r \in Load /\ r.list = loads[i].list /\ r.seen = loads[i].seen
        /\ r.page = loads[i].page
    BY <1>1, <1>2, <1>6 DEF Load, Stages
  <2>2. loads' = [loads EXCEPT ![i] = r]
    BY <1>1, <1>2, <1>6
  <2> QED
    BY <1>6, <2>1, <2>2, AdvanceStep
<1> QED
  BY <1>3, <1>4, <1>5, <1>6

\* The last answer of a load, or the error that ends it, and the loads that follow.
LEMMA AnsweredStep ==
    ASSUME ListInv, signedIn, NEW i \in DOMAIN loads,
           NEW n \in Nat, NEW ls \in [1 .. n -> Lists!Lists],
           \A j, k \in 1 .. n : ls[j] = ls[k] => j = k,
           Lists!Answered(i, ls), logs' = logs, loads[i].list # "logs"
    PROVE  ListInv'
<1>1. logs \in [page : Nat, total : Nat, label : Nat]
  BY DEF ListInv, ListTypes
<1>2. CASE loads[i].at = "read" /\ Lists!Ends(i, ls, Lists!Displayed(i))
  BY <1>1, <1>2, EndStep DEF Lists!Ends
<1>3. CASE Lists!Ends(i, ls, Lists!Blanked(i))
  BY <1>3, EndStep DEF Lists!Ends
<1> QED
  BY <1>2, <1>3 DEF Lists!Answered

LEMMA AnswerStepOfLists ==
    ASSUME ListInv, Pages \in Nat, NEW i \in DOMAIN loads,
           \/ Lists!KeysAnswer(i) \/ Lists!LogsAnswer(i) \/ Lists!SectionAnswer(i)
           \/ Lists!RulesAnswer(i) \/ Lists!PacksAnswer(i) \/ Lists!PackRulesAnswer(i)
    PROVE  ListInv'
<1>1. /\ loads \in Seq(Load) /\ logs \in [page : Nat, total : Nat, label : Nat]
      /\ <<>> \in [1 .. 0 -> Lists!Lists] /\ 0 \in Nat
      /\ \A j, k \in 1 .. 0 : <<>>[j] = <<>>[k] => j = k
  BY Sequences DEF ListInv, ListTypes
<1>2. CASE Lists!KeysAnswer(i)
  BY <1>2, Sequences, AnsweredStep DEF Lists!KeysAnswer
<1>3. CASE Lists!SectionAnswer(i)
  BY <1>1, <1>3, AnsweredStep DEF Lists!SectionAnswer
<1>4. CASE Lists!RulesAnswer(i)
  BY <1>1, <1>4, AnsweredStep DEF Lists!RulesAnswer
<1>5. CASE Lists!LogsAnswer(i)
  <2>1. CASE /\ loads[i].at = "read" /\ Lists!Ends(i, <<>>, Lists!Displayed(i))
             /\ logs' = [logs EXCEPT !.label = logs.page, !.total = Pages]
    <3>1. /\ logs' \in [page : Nat, total : Nat, label : Nat] /\ logs'.page = logs.page
          /\ logs'.label = logs.page
      BY <1>1, <2>1
    <3> QED
      BY <1>1, <1>5, <2>1, <3>1, EndStep DEF Lists!LogsAnswer, Lists!Ends
  <2>2. CASE Lists!Ends(i, <<>>, Lists!Blanked(i)) /\ UNCHANGED logs
    BY <1>1, <1>5, <2>2, EndStep DEF Lists!LogsAnswer, Lists!Ends
  <2> QED
    BY <1>5, <2>1, <2>2 DEF Lists!LogsAnswer
<1>6. CASE Lists!PacksAnswer(i)
  <2>1. CASE /\ loads[i].at = "read" /\ loads' = [loads EXCEPT ![i].at = "rules"]
             /\ UNCHANGED <<version, confirmed, displayed, loaded, logs, overlay, signedIn,
                            overlapped>>
    BY <1>6, <2>1, RequestStep DEF Lists!PacksAnswer
  <2>2. CASE Lists!Ends(i, <<>>, Lists!Blanked(i)) /\ UNCHANGED logs
    BY <1>1, <1>6, <2>2, EndStep DEF Lists!PacksAnswer, Lists!Ends
  <2> QED
    BY <1>6, <2>1, <2>2 DEF Lists!PacksAnswer
<1>7. CASE Lists!PackRulesAnswer(i)
  <2>1. loads[i].list = "packs"
    BY <1>1, <1>7, LenProperties, ElementOfSeq DEF Lists!PackRulesAnswer, Load
  <2> QED
    BY <1>1, <1>7, <2>1, EndStep DEF Lists!PackRulesAnswer, Lists!Ends
<1> QED
  BY <1>2, <1>3, <1>4, <1>5, <1>6, <1>7

LEMMA ListNextInv ==
    ASSUME Pages \in Nat
    PROVE  ListInv /\ [Lists!ConsoleNext]_Lists!consoleVars => ListInv'
<1> SUFFICES ASSUME ListInv, [Lists!ConsoleNext]_Lists!consoleVars
             PROVE  ListInv'
  OBVIOUS
<1>1. version \in [Lists!Lists -> Nat]
  BY DEF ListInv, ListTypes
<1>2. ASSUME NEW l \in Lists!Lists, Lists!Apply(l) PROVE ListInv'
  BY <1>1, <1>2, RestStep DEF Lists!Apply
<1>3. ASSUME NEW l \in Lists!Lists, Lists!Create(l) \/ Lists!PressRow(l) PROVE ListInv'
  BY <1>1, <1>3, RestStep DEF Lists!Create, Lists!PressRow, Lists!SendChange
<1>4. ASSUME NEW l \in Lists!Lists, Lists!Refused(l) PROVE ListInv'
  BY <1>1, <1>4, RestStep DEF Lists!Refused
<1>5. CASE Lists!Leave
  BY <1>5, LeaveStep DEF Lists!Leave
<1>6. ASSUME NEW i \in DOMAIN loads, Lists!MeError(i) PROVE ListInv'
  <2>1. CASE signedIn' = FALSE /\ loads' = <<>>
    BY <1>6, <2>1, LeaveStep DEF Lists!MeError
  <2>2. CASE /\ signedIn' = signedIn /\ loads' = Lists!Without(i)
             /\ overlay' \in {"retry", "wait"}
    BY <1>6, <2>2, OverlayStep DEF Lists!MeError
  <2> QED
    BY <1>6, <2>1, <2>2 DEF Lists!MeError
<1>7. CASE UNCHANGED Lists!consoleVars
  BY <1>1, <1>7, RestStep DEF Lists!consoleVars
<1> QED
  BY <1>2, <1>3, <1>4, <1>5, <1>6, <1>7, ClickStep, RequestStep, AnswerStepOfLists
     DEF Lists!ConsoleNext

\* A list that displays rows with nothing in flight for it shows every change the page was
\* told of, and the page of the logs its controls name, unless two of its loads overlapped
\* (dashboard.js), for any sections, pages, loads in flight and clicks.
THEOREM ListsAreTruthful ==
    ASSUME Pages \in Nat
    PROVE  MCSpec => []ListsTruthful
<1>1. ListInv => ListsTruthful
  <2> SUFFICES ASSUME ListInv, NEW l \in Lists!Lists \ overlapped,
                      signedIn, overlay = "none", displayed[l].rows, ~Lists!InFlight(l)
               PROVE  /\ displayed[l].seen >= confirmed[l]
                      /\ l = "logs" => displayed[l].page = logs.label
    BY DEF ListsTruthful, Lists!ListsTruthful
  <2>1. Current(l, loads, displayed, confirmed, logs, overlay)
    BY DEF ListInv, ListsCurrent
  <2> QED
    BY <2>1 DEF Current, Lists!InFlight
<1>2. ListInv /\ [Lists!ConsoleNext]_Lists!consoleVars => ListInv'
  BY ListNextInv
<1>3. Lists!ConsoleSpec => []ListInv
  BY <1>2, ListInitInv, PTL DEF Lists!ConsoleSpec
<1> QED
  BY <1>1, <1>3, ListsRun, PTL
=============================================================================
