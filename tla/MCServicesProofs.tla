-------------------------- MODULE MCServicesProofs ---------------------------
(***************************************************************************)
(* Theorems about the composition MCServices: what AccountsProofs and      *)
(* PolicyVersionsProofs prove holds in it, and the safety of the limiter   *)
(* for logins, the alert e-mails, the traces of the SDK integrations, the  *)
(* verdicts, billing, the pages of reports and the counts of analytics,    *)
(* for any sizes of their constants.                                       *)
(***************************************************************************)
EXTENDS MCServices, FiniteSetTheorems, SequenceTheorems, WellFoundedInduction, TLAPS

-----------------------------------------------------------------------------
(* The composition runs each component as its own specification.           *)

LEMMA TracesRun == MCSpec => Spec
<1>1. MCInit => Init
  BY DEF MCInit
<1>2. [MCNext]_allVars => [Next]_vars
  BY DEF MCNext, allVars, serviceVars, vars
<1> QED
  BY <1>1, <1>2, PTL DEF MCSpec, Spec

LEMMA NoticesRun == MCSpec => Notices!Spec
<1>1. MCInit => Notices!Init
  BY DEF MCInit
<1>2. [MCNext]_allVars => [Notices!Next]_Notices!vars
  BY DEF MCNext, allVars, serviceVars, noticeVars, Notices!vars
<1> QED
  BY <1>1, <1>2, PTL DEF MCSpec, Notices!Spec

LEMMA LimitsRun == MCSpec => Limits!Spec
<1>1. MCInit => Limits!Init
  BY DEF MCInit
<1>2. [MCNext]_allVars => [Limits!Next]_Limits!vars
  BY DEF MCNext, allVars, serviceVars, limitVars, Limits!vars
<1> QED
  BY <1>1, <1>2, PTL DEF MCSpec, Limits!Spec

LEMMA VersionsRun == MCSpec => Versions!Spec
<1>1. MCInit => Versions!Init
  BY DEF MCInit
<1>2. [MCNext]_allVars => [Versions!Next]_Versions!vars
  BY DEF MCNext, allVars, serviceVars, versionVars, Versions!vars
<1> QED
  BY <1>1, <1>2, PTL DEF MCSpec, Versions!Spec

LEMMA VerdictsRun == MCSpec => Verdicts!Spec
<1>1. MCInit => Verdicts!Init
  BY DEF MCInit
<1>2. [MCNext]_allVars => [Verdicts!Next]_Verdicts!vars
  BY DEF MCNext, allVars, serviceVars, ruleVars, Verdicts!vars
<1> QED
  BY <1>1, <1>2, PTL DEF MCSpec, Verdicts!Spec

LEMMA BillingRuns == MCSpec => Stripe!Spec
<1>1. MCInit => Stripe!Init
  BY DEF MCInit
<1>2. [MCNext]_allVars => [Stripe!Next]_Stripe!vars
  BY DEF MCNext, allVars, serviceVars, billingVars, Stripe!vars
<1> QED
  BY <1>1, <1>2, PTL DEF MCSpec, Stripe!Spec

LEMMA RegistryRuns == MCSpec => Registry!AccountSpec
<1>1. MCInit => Registry!AccountInit
  BY DEF MCInit
<1>2. [MCNext]_allVars => [Registry!AccountNext]_Registry!accountVars
  BY DEF MCNext, allVars, restVars, accountVars, Registry!accountVars
<1> QED
  BY <1>1, <1>2, PTL DEF MCSpec, Registry!AccountSpec

LEMMA FilesRun == MCSpec => Files!ReportSpec
<1>1. MCInit => Files!ReportInit
  BY DEF MCInit
<1>2. [MCNext]_allVars => [Files!ReportNext]_Files!reportVars
  BY DEF MCNext, allVars, restVars, reportVars, Files!reportVars
<1> QED
  BY <1>1, <1>2, PTL DEF MCSpec, Files!ReportSpec

LEMMA AnalyticsRun == MCSpec => Analytics!AnalyticsSpec
<1>1. MCInit => Analytics!AnalyticsInit
  BY DEF MCInit
<1>2. [MCNext]_allVars => [Analytics!AnalyticsNext]_Analytics!analyticsVars
  BY DEF MCNext, allVars, restVars, analyticsVars, Analytics!analyticsVars
<1> QED
  BY <1>1, <1>2, PTL DEF MCSpec, Analytics!AnalyticsSpec

-----------------------------------------------------------------------------
(* Accounts.                                                               *)

\* Whoever signs in through a provider comes to the account given to that identity.
THEOREM SignInsReturn ==
    ASSUME IsFiniteSet(Handlers), Limit \in Nat \ {0}, None \notin Registry!Identities
    PROVE  MCSpec => []SignInReturns
<1>1. Registry!AccountSpec => []Registry!SignInReturns
  BY Registry!SignInsReturn DEF IsFiniteSet, Registry!IsFiniteSet
<1>2. Registry!SignInReturns => SignInReturns
  BY DEF SignInReturns
<1> QED
  BY <1>1, <1>2, RegistryRuns, PTL

\* Requests that overlap exceed the limit of agents by their number less one at most.
THEOREM AgentsAreBounded ==
    ASSUME IsFiniteSet(Handlers), Limit \in Nat \ {0}, None \notin Registry!Identities
    PROVE  MCSpec => []AgentsBounded
<1>1. Registry!AccountSpec => []Registry!AgentsBounded
  BY Registry!AgentsAreBounded DEF IsFiniteSet, Registry!IsFiniteSet
<1>2. Registry!AgentsBounded => AgentsBounded
  BY DEF AgentsBounded
<1> QED
  BY <1>1, <1>2, RegistryRuns, PTL

-----------------------------------------------------------------------------
(* Versions of a policy.                                                   *)

\* The versions are a history of the policy: numbered without a gap, never changed, each
\* with columns and rules the policy had while the call that saved it ran.
THEOREM HistoryIsKept == ASSUME Versions!Values PROVE MCSpec => HistoryKept
<1>1. Versions!Spec => Versions!HistoryKept
  BY Versions!HistoryIsKept
<1> QED
  BY <1>1, VersionsRun, PTL DEF HistoryKept

\* The snapshot of a change has columns of one moment of that change, and rules of that moment or
\* a later one.
THEOREM SnapshotsAreInCall == ASSUME Versions!Values PROVE MCSpec => []SnapshotInCall
<1>1. Versions!Spec => []Versions!SnapshotInCall
  BY Versions!SnapshotsInCall
<1>2. Versions!SnapshotInCall => SnapshotInCall
  BY DEF SnapshotInCall
<1> QED
  BY <1>1, <1>2, VersionsRun, PTL

\* A change that overlaps no other leaves a version of what it replaced.
THEOREM SerialChangesAreReversible ==
    ASSUME Versions!Values
    PROVE  MCSpec => SerialChangesReversible
<1>1. Versions!Spec => Versions!SerialChangesReversible
  BY Versions!ChangesReversible
<1> QED
  BY <1>1, VersionsRun, PTL DEF SerialChangesReversible

-----------------------------------------------------------------------------
(* The limiter for logins.                                                 *)

LoginState == {"idle", "running", "refused", "succeeded", "failed"}
LimitTypes ==
    /\ window \in Limits!Windows
    /\ count \in [Limits!Windows -> Int \cup {NotHit}]
    /\ request \in [Requests -> [state : LoginState, at : Limits!Windows]]
    /\ \A r \in Requests : request[r].at <= window
    /\ opened \in [Limits!Windows -> Nat] /\ carried \in [Limits!Windows -> Nat]

\* The requests of a window that fail or still run, and the hits its row holds.
PendingOf(w) == {r \in Requests : request[r].at = w /\ request[r].state \in {"running", "failed"}}
Hits(w) == IF count[w] = NotHit THEN 0 ELSE count[w]

\* Every such request has a hit in its row, was not counted, or lost its hit to an earlier
\* request that was answered in this window.
Accounted == \A w \in Limits!Windows : Limits!Pending(w) <= Hits(w) + opened[w] + carried[w]

LimitInv == LimitTypes /\ Accounted /\ Limits!FailuresBounded

LEMMA PendingIsCounted ==
    ASSUME IsFiniteSet(Requests), NEW w
    PROVE  /\ Limits!Pending(w) = Cardinality(PendingOf(w)) /\ Limits!Pending(w) \in Nat
           /\ Limits!Pending(w)' = Cardinality(PendingOf(w)') /\ Limits!Pending(w)' \in Nat
           /\ IsFiniteSet(PendingOf(w)) /\ IsFiniteSet(PendingOf(w)')
<1>1. \A S : Limits!Cardinality(S) = Cardinality(S)
  BY DEF Cardinality, Limits!Cardinality
<1>2. IsFiniteSet(PendingOf(w)) /\ Cardinality(PendingOf(w)) \in Nat
  BY FS_Subset, FS_CardinalityType DEF PendingOf
<1>3. IsFiniteSet(PendingOf(w)') /\ Cardinality(PendingOf(w)') \in Nat
  BY FS_Subset, FS_CardinalityType DEF PendingOf
<1> QED
  BY <1>1, <1>2, <1>3 DEF Limits!Pending, PendingOf

LEMMA LimitInitInv ==
    ASSUME IsFiniteSet(Requests), Max \in Nat, MaxWindow \in Nat, NotHit \notin Int, Limits!Init
    PROVE  LimitInv
<1>1. LimitTypes
  BY DEF Limits!Init, LimitTypes, LoginState, Limits!Windows
<1>2. ASSUME NEW w \in Limits!Windows
      PROVE  Limits!Pending(w) = 0 /\ Hits(w) = 0 /\ opened[w] = 0 /\ carried[w] = 0
  <2>1. PendingOf(w) = {}
    BY DEF Limits!Init, PendingOf
  <2> QED
    BY <1>2, <2>1, PendingIsCounted, FS_EmptySet DEF Limits!Init, Hits
<1>3. Accounted /\ Limits!FailuresBounded
  BY <1>2 DEF Accounted, Limits!FailuresBounded
<1> QED
  BY <1>1, <1>3 DEF LimitInv

\* A request takes its hit: one more is pending in the current window at most.
LEMMA HitStep ==
    ASSUME IsFiniteSet(Requests), Max \in Nat, NotHit \notin Int, LimitInv,
           NEW r \in Requests, Limits!Hit(r)
    PROVE  LimitInv'
<1> USE DEF LimitTypes
<1>1. LimitTypes /\ window \in Limits!Windows
  BY DEF LimitInv
<1>2. PICK to \in {"running", "refused"} :
        /\ request' = [request EXCEPT ![r] = [state |-> to, at |-> window]]
        /\ \/ /\ count' = [count EXCEPT ![window] = Hits(window) + 1] /\ opened' = opened
              /\ to = "running" => Hits(window) + 1 <= Max
           \/ /\ opened' = [opened EXCEPT ![window] = @ + 1] /\ count' = count
  <2>1. Hits(window) \in Int
    BY <1>1 DEF Hits
  <2> QED
    BY <1>1, <2>1 DEF Limits!Hit, Limits!Refused, Hits
<1>3. carried' = carried /\ window' = window
  BY DEF Limits!Hit
<1>4. \A w \in Limits!Windows : Hits(w) \in Int /\ opened[w] \in Nat /\ carried[w] \in Nat
  BY <1>1 DEF Hits
<1>5. LimitTypes'
  <2>1. request' \in [Requests -> [state : LoginState, at : Limits!Windows]]
    BY <1>1, <1>2 DEF LoginState
  <2>2. \A q \in Requests : request'[q].at <= window
    BY <1>1, <1>2 DEF Limits!Windows
  <2>3. /\ count' \in [Limits!Windows -> Int \cup {NotHit}]
        /\ opened' \in [Limits!Windows -> Nat]
    BY <1>1, <1>2, <1>4
  <2> QED
    BY <1>1, <1>3, <2>1, <2>2, <2>3
<1>6. \A w \in Limits!Windows : /\ PendingOf(w)' \subseteq PendingOf(w) \cup {r}
                                /\ w # window => PendingOf(w)' \subseteq PendingOf(w)
                                /\ request'[r].state = "refused" => PendingOf(w)' \subseteq PendingOf(w)
  BY <1>1, <1>2 DEF PendingOf
<1>7. ASSUME NEW w \in Limits!Windows
      PROVE  /\ Limits!Pending(w)' \in Nat /\ Limits!Pending(w) \in Nat
             /\ Limits!Pending(w)' <= Limits!Pending(w) + 1
             /\ w # window \/ request'[r].state = "refused" =>
                    Limits!Pending(w)' <= Limits!Pending(w)
  <2>1. /\ Limits!Pending(w) = Cardinality(PendingOf(w)) /\ IsFiniteSet(PendingOf(w))
        /\ Limits!Pending(w)' = Cardinality(PendingOf(w)') /\ Limits!Pending(w) \in Nat
        /\ Limits!Pending(w)' \in Nat
    BY PendingIsCounted
  <2>2. /\ IsFiniteSet(PendingOf(w) \cup {r})
        /\ Cardinality(PendingOf(w) \cup {r}) <= Cardinality(PendingOf(w)) + 1
    <3>1. /\ IsFiniteSet(PendingOf(w) \cup {r})
          /\ Cardinality(PendingOf(w) \cup {r}) =
               IF r \in PendingOf(w) THEN Cardinality(PendingOf(w)) ELSE Cardinality(PendingOf(w)) + 1
      BY <2>1, FS_AddElement
    <3>2. Cardinality(PendingOf(w)) \in Nat
      BY <2>1
    <3> QED
      BY <3>1, <3>2
  <2>3. /\ Cardinality(PendingOf(w)') <= Cardinality(PendingOf(w) \cup {r})
        /\ PendingOf(w)' \subseteq PendingOf(w) =>
                Cardinality(PendingOf(w)') <= Cardinality(PendingOf(w))
    BY <1>6, <2>1, <2>2, FS_Subset
  <2>4. Cardinality(PendingOf(w) \cup {r}) \in Nat
    BY <2>2, FS_CardinalityType
  <2> QED
    BY <1>6, <2>1, <2>2, <2>3, <2>4
<1>8. count' = [count EXCEPT ![window] = Hits(window) + 1] => Hits(window)' = Hits(window) + 1
  <2>1. Hits(window) + 1 \in Int /\ Hits(window) + 1 # NotHit
    BY <1>1, <1>4
  <2>2. ASSUME NEW n, n # NotHit, count' = [count EXCEPT ![window] = n] PROVE Hits(window)' = n
    BY <1>1, <1>3, <2>2 DEF Hits
  <2> QED
    BY <2>1, <2>2
<1>9. Accounted'
  <2> SUFFICES ASSUME NEW w \in Limits!Windows
               PROVE  Limits!Pending(w)' <= Hits(w)' + opened'[w] + carried'[w]
    BY DEF Accounted
  <2>1. Limits!Pending(w) <= Hits(w) + opened[w] + carried[w]
    BY DEF LimitInv, Accounted
  <2>2. w # window => Hits(w)' = Hits(w) /\ opened'[w] = opened[w]
    BY <1>1, <1>2 DEF Hits
  <2>3. Hits(window)' + opened'[window] = Hits(window) + opened[window] + 1
    <3>1. CASE count' = [count EXCEPT ![window] = Hits(window) + 1] /\ opened' = opened
      BY <1>1, <1>4, <1>8, <3>1
    <3>2. CASE opened' = [opened EXCEPT ![window] = @ + 1] /\ count' = count
      <4>1. Hits(window)' = Hits(window) /\ opened'[window] = opened[window] + 1
        BY <1>1, <1>3, <3>2 DEF Hits
      <4> QED
        BY <1>1, <1>4, <4>1
    <3> QED
      BY <1>2, <3>1, <3>2
  <2>4. Hits(w)' \in Int /\ opened'[w] \in Nat
    BY <1>5 DEF Hits
  <2> QED
    BY <1>1, <1>3, <1>4, <1>7, <2>1, <2>2, <2>3, <2>4
<1>10. Limits!FailuresBounded'
  <2> SUFFICES ASSUME NEW w \in Limits!Windows
               PROVE  Limits!Pending(w)' <= Max + opened'[w] + carried'[w]
    BY DEF Limits!FailuresBounded
  <2>1. Limits!Pending(w) <= Max + opened[w] + carried[w]
    BY DEF LimitInv, Limits!FailuresBounded
  <2>2. Limits!Pending(w)' <= Hits(w)' + opened'[w] + carried'[w]
    BY <1>9 DEF Accounted
  <2>3. Hits(w)' \in Int /\ opened'[w] \in Nat /\ carried'[w] \in Nat
    BY <1>5 DEF Hits
  <2>4. CASE w # window \/ to = "refused"
    <3>1. opened'[w] >= opened[w]
      BY <1>1, <1>2
    <3>2. to = "refused" => request'[r].state = "refused"
      BY <1>1, <1>2
    <3> QED
      BY <1>3, <1>4, <1>7, <2>1, <2>3, <2>4, <3>1, <3>2
  <2>5. CASE w = window /\ to = "running"
    <3>1. CASE /\ count' = [count EXCEPT ![window] = Hits(window) + 1]
               /\ to = "running" => Hits(window) + 1 <= Max
      <4>1. Hits(w)' <= Max
        BY <1>3, <1>8, <2>5, <3>1 DEF Hits
      <4> QED
        BY <1>7, <2>2, <2>3, <4>1
    <3>2. CASE opened' = [opened EXCEPT ![window] = @ + 1]
      <4>1. opened'[w] = opened[w] + 1
        BY <1>1, <2>5, <3>2
      <4> QED
        BY <1>3, <1>4, <1>7, <2>1, <2>3, <4>1
    <3> QED
      BY <1>2, <3>1, <3>2
  <2> QED
    BY <2>4, <2>5
<1> QED
  BY <1>5, <1>9, <1>10 DEF LimitInv

\* A response: with the hit, the request or the limit's hit of a later window goes.
LEMMA RespondStep ==
    ASSUME IsFiniteSet(Requests), Max \in Nat, NotHit \notin Int, LimitInv,
           NEW r \in Requests, Limits!Respond(r)
    PROVE  LimitInv'
<1> USE DEF LimitTypes
<1>1. LimitTypes /\ window \in Limits!Windows /\ request[r].at \in Limits!Windows
  BY DEF LimitInv
<1>2. PICK to \in {"succeeded", "failed"} :
        /\ request' = [request EXCEPT ![r].state = to]
        /\ \/ /\ to = "succeeded" /\ count[window] # NotHit
              /\ count' = [count EXCEPT ![window] = @ - 1]
              /\ carried' = IF request[r].at < window
                            THEN [carried EXCEPT ![window] = @ + 1] ELSE carried
           \/ UNCHANGED <<count, carried>>
  BY DEF Limits!Respond, Limits!TakenBack
<1>3. opened' = opened /\ window' = window /\ request[r].state = "running"
  BY DEF Limits!Respond
<1>4. \A w \in Limits!Windows : Hits(w) \in Int /\ opened[w] \in Nat /\ carried[w] \in Nat
  BY <1>1 DEF Hits
<1>5. LimitTypes'
  BY <1>1, <1>2, <1>3, <1>4 DEF LoginState
<1>6. \A w \in Limits!Windows :
        /\ PendingOf(w)' \subseteq PendingOf(w)
        /\ to = "succeeded" /\ w = request[r].at =>
               r \in PendingOf(w) /\ PendingOf(w)' = PendingOf(w) \ {r}
  BY <1>1, <1>2, <1>3 DEF PendingOf
<1>7. ASSUME NEW w \in Limits!Windows
      PROVE  /\ Limits!Pending(w)' \in Nat /\ Limits!Pending(w) \in Nat
             /\ Limits!Pending(w)' <= Limits!Pending(w)
             /\ to = "succeeded" /\ w = request[r].at =>
                    Limits!Pending(w)' = Limits!Pending(w) - 1
  <2>1. /\ Limits!Pending(w) = Cardinality(PendingOf(w)) /\ IsFiniteSet(PendingOf(w))
        /\ Limits!Pending(w)' = Cardinality(PendingOf(w)') /\ Limits!Pending(w) \in Nat
        /\ Limits!Pending(w)' \in Nat
    BY PendingIsCounted
  <2>2. Cardinality(PendingOf(w)') <= Cardinality(PendingOf(w))
    BY <1>6, <2>1, FS_Subset
  <2>3. r \in PendingOf(w) => Cardinality(PendingOf(w) \ {r}) = Cardinality(PendingOf(w)) - 1
    BY <2>1, FS_RemoveElement
  <2> QED
    BY <1>6, <2>1, <2>2, <2>3
<1>8. ASSUME NEW w \in Limits!Windows
      PROVE  carried'[w] >= carried[w] /\ carried'[w] \in Nat
  BY <1>1, <1>2, <1>4
<1>9. Accounted'
  <2> SUFFICES ASSUME NEW w \in Limits!Windows
               PROVE  Limits!Pending(w)' <= Hits(w)' + opened'[w] + carried'[w]
    BY DEF Accounted
  <2>1. Limits!Pending(w) <= Hits(w) + opened[w] + carried[w]
    BY DEF LimitInv, Accounted
  <2>2. Hits(w)' \in Int
    BY <1>5 DEF Hits
  <2>3. CASE Hits(w)' = Hits(w)
    BY <1>3, <1>4, <1>7, <1>8, <2>1, <2>3
  <2>4. CASE Hits(w)' # Hits(w)
    <3>1. /\ w = window /\ to = "succeeded" /\ count[window] # NotHit
          /\ count' = [count EXCEPT ![window] = @ - 1]
          /\ carried' = IF request[r].at < window
                        THEN [carried EXCEPT ![window] = @ + 1] ELSE carried
      BY <1>1, <1>2, <2>4 DEF Hits
    <3>2. Hits(w)' = Hits(w) - 1
      <4>1. count[w] \in Int /\ count'[w] = count[w] - 1 /\ count[w] - 1 # NotHit
        BY <1>1, <3>1
      <4> QED
        BY <3>1, <4>1 DEF Hits
    <3>3. CASE request[r].at < window
      BY <1>1, <1>3, <1>4, <1>7, <2>1, <3>1, <3>2, <3>3
    <3>4. CASE ~(request[r].at < window)
      <4>1. request[r].at = window
        BY <1>1, <3>4 DEF Limits!Windows
      <4> QED
        BY <1>3, <1>4, <1>7, <1>8, <2>1, <3>1, <3>2, <3>4, <4>1
    <3> QED
      BY <3>3, <3>4
  <2> QED
    BY <2>3, <2>4
<1>10. Limits!FailuresBounded'
  <2> SUFFICES ASSUME NEW w \in Limits!Windows
               PROVE  Limits!Pending(w)' <= Max + opened'[w] + carried'[w]
    BY DEF Limits!FailuresBounded
  <2>1. Limits!Pending(w) <= Max + opened[w] + carried[w]
    BY DEF LimitInv, Limits!FailuresBounded
  <2> QED
    BY <1>3, <1>4, <1>7, <1>8, <2>1
<1> QED
  BY <1>5, <1>9, <1>10 DEF LimitInv

LEMMA LimitNextInv ==
    ASSUME IsFiniteSet(Requests), Max \in Nat, MaxWindow \in Nat, NotHit \notin Int,
           LimitInv, [Limits!Next]_Limits!vars
    PROVE  LimitInv'
<1>1. CASE Limits!NextWindow \/ UNCHANGED Limits!vars
  <2>1. /\ count' = count /\ request' = request /\ opened' = opened /\ carried' = carried
        /\ window' \in Limits!Windows /\ window' >= window
    BY <1>1 DEF Limits!NextWindow, Limits!vars, Limits!Windows, LimitInv, LimitTypes
  <2>2. LimitTypes'
    BY <2>1 DEF LimitInv, LimitTypes, Limits!Windows
  <2>3. \A w \in Limits!Windows : Limits!Pending(w)' = Limits!Pending(w) /\ Hits(w)' = Hits(w)
    BY <2>1 DEF Limits!Pending, Hits
  <2>4. Accounted' /\ Limits!FailuresBounded'
    BY <2>1, <2>3 DEF LimitInv, Accounted, Limits!FailuresBounded
  <2> QED
    BY <2>2, <2>4 DEF LimitInv
<1> QED
  BY <1>1, HitStep, RespondStep DEF Limits!Next

\* Of the logins of one window no more than the limit fail or still run, but for those the
\* database did not count and for hits taken back from it by requests of earlier windows
\* (rate-limit-store.ts), for any number of requests, windows and any limit.
THEOREM FailuresAreBounded ==
    ASSUME IsFiniteSet(Requests), Max \in Nat, MaxWindow \in Nat, NotHit \notin Int
    PROVE  MCSpec => []FailuresBounded
<1>1. LimitInv => FailuresBounded
  BY DEF LimitInv, FailuresBounded
<1>2. Limits!Init => LimitInv
  BY LimitInitInv
<1>3. LimitInv /\ [Limits!Next]_Limits!vars => LimitInv'
  BY LimitNextInv
<1>4. Limits!Spec => []LimitInv
  BY <1>2, <1>3, PTL DEF Limits!Spec
<1> QED
  BY <1>1, <1>4, LimitsRun, PTL

-----------------------------------------------------------------------------
(* Alert e-mails.                                                          *)

NoticeTypes ==
    /\ clock \in Nat /\ mails \in Seq(Nat) /\ bucket \subseteq DOMAIN mails
    /\ \A i \in DOMAIN mails : mails[i] <= clock

\* The bucket keeps every e-mail of the window that ends now.
BucketComplete == \A i \in DOMAIN mails : mails[i] > clock - AlertWindow => i \in bucket

NoticeInv == NoticeTypes /\ BucketComplete /\ Notices!WindowRespected

LEMMA SameCardinality == \A S : Notices!Cardinality(S) = Cardinality(S)
BY DEF Cardinality, Notices!Cardinality

LEMMA NoticeInitInv ==
    ASSUME MAX_ALERT_EMAILS \in Nat, Notices!Init
    PROVE  NoticeInv
<1>1. clock = 0 /\ bucket = {} /\ mails = <<>> /\ DOMAIN mails = {} /\ mails \in Seq(Nat)
  BY DEF Notices!Init
<1>2. NoticeTypes /\ BucketComplete
  BY <1>1 DEF NoticeTypes, BucketComplete
<1>3. \A t : Notices!InWindow(t) = {}
  BY <1>1 DEF Notices!InWindow
<1>4. Notices!WindowRespected
  BY <1>3, SameCardinality, FS_EmptySet DEF Notices!WindowRespected
<1> QED
  BY <1>2, <1>4 DEF NoticeInv

\* An e-mail leaves: only the window that ends now has it, and the others of this window
\* are in the bucket.
LEMMA MailStep ==
    ASSUME MAX_ALERT_EMAILS \in Nat, AlertWindow \in Int, NoticeInv,
           ~Notices!AtLimit(Notices!Recent), clock' = clock, mails' = Append(mails, clock),
           bucket' = Notices!Recent \cup {Len(mails')}
    PROVE  NoticeInv'
<1> DEFINE n == Len(mails)
<1>1. /\ clock \in Nat /\ mails \in Seq(Nat) /\ bucket \subseteq DOMAIN mails
      /\ n \in Nat /\ DOMAIN mails = 1 .. n /\ \A i \in 1 .. n : mails[i] \in Nat
      /\ \A i \in 1 .. n : mails[i] <= clock
  BY LenProperties DEF NoticeInv, NoticeTypes
<1>2. /\ mails' \in Seq(Nat) /\ Len(mails') = n + 1 /\ DOMAIN mails' = 1 .. n + 1
      /\ \A i \in 1 .. n : mails'[i] = mails[i]
      /\ mails'[n + 1] = clock
  BY <1>1, AppendProperties, LenProperties
<1>3. NoticeTypes'
  BY <1>1, <1>2 DEF NoticeTypes, Notices!Recent
<1>4. BucketComplete'
  <2> SUFFICES ASSUME NEW i \in 1 .. n + 1, mails'[i] > clock - AlertWindow
               PROVE  i \in bucket'
    BY <1>2 DEF BucketComplete
  <2>1. CASE i = n + 1
    BY <1>2, <2>1
  <2>2. CASE i \in 1 .. n
    BY <1>1, <1>2, <2>2 DEF Notices!Recent, NoticeInv, BucketComplete
  <2> QED
    BY <1>1, <2>1, <2>2
<1>5. /\ IsFiniteSet(Notices!Recent) /\ Cardinality(Notices!Recent) < MAX_ALERT_EMAILS
      /\ Cardinality(Notices!Recent) \in Nat
  <2>1. IsFiniteSet(1 .. n)
    BY <1>1, FS_Interval
  <2>2. IsFiniteSet(Notices!Recent) /\ Cardinality(Notices!Recent) \in Nat
    BY <1>1, <2>1, FS_Subset, FS_CardinalityType DEF Notices!Recent
  <2> QED
    BY <2>2, SameCardinality DEF Notices!AtLimit
<1>6. ASSUME NEW t \in 0 .. clock
      PROVE  Cardinality(Notices!InWindow(t)') <= MAX_ALERT_EMAILS
  <2>1. CASE t < clock
    <3>1. Notices!InWindow(t)' = Notices!InWindow(t)
      BY <1>1, <1>2, <1>6, <2>1 DEF Notices!InWindow
    <3> QED
      BY <1>6, <3>1, SameCardinality DEF NoticeInv, Notices!WindowRespected
  <2>2. CASE t = clock
    <3>1. Notices!InWindow(t)' \subseteq Notices!Recent \cup {n + 1}
      BY <1>1, <1>2, <2>2 DEF Notices!InWindow, Notices!Recent, NoticeInv, BucketComplete
    <3>2. /\ IsFiniteSet(Notices!Recent \cup {n + 1})
          /\ Cardinality(Notices!Recent \cup {n + 1}) <= Cardinality(Notices!Recent) + 1
          /\ Cardinality(Notices!Recent \cup {n + 1}) \in Nat
      <4>1. /\ IsFiniteSet(Notices!Recent \cup {n + 1})
            /\ Cardinality(Notices!Recent \cup {n + 1}) =
                 IF n + 1 \in Notices!Recent THEN Cardinality(Notices!Recent)
                 ELSE Cardinality(Notices!Recent) + 1
        BY <1>5, FS_AddElement
      <4> QED
        BY <1>5, <4>1, FS_CardinalityType
    <3>3. /\ Cardinality(Notices!InWindow(t)') <= Cardinality(Notices!Recent \cup {n + 1})
          /\ Cardinality(Notices!InWindow(t)') \in Nat
      BY <3>1, <3>2, FS_Subset, FS_CardinalityType
    <3> QED
      BY <1>5, <3>2, <3>3
  <2> QED
    BY <1>1, <1>6, <2>1, <2>2
<1>7. Notices!WindowRespected'
  BY <1>6, SameCardinality DEF Notices!WindowRespected
<1> QED
  BY <1>3, <1>4, <1>7 DEF NoticeInv

\* Time passes: a window that ends later has no more of the e-mails sent so far.
LEMMA TickStep ==
    ASSUME MAX_ALERT_EMAILS \in Nat, AlertWindow \in Int, NoticeInv, clock' = clock + 1,
           UNCHANGED <<mails, bucket>>
    PROVE  NoticeInv'
<1>1. /\ clock \in Nat /\ mails \in Seq(Nat) /\ Len(mails) \in Nat
      /\ DOMAIN mails = 1 .. Len(mails)
      /\ \A i \in DOMAIN mails : mails[i] \in Nat /\ mails[i] <= clock
  BY LenProperties DEF NoticeInv, NoticeTypes
<1>2. NoticeTypes' /\ BucketComplete'
  BY <1>1 DEF NoticeInv, NoticeTypes, BucketComplete
<1>3. ASSUME NEW t \in 0 .. clock + 1
      PROVE  Cardinality(Notices!InWindow(t)) <= MAX_ALERT_EMAILS
  <2>1. CASE t \in 0 .. clock
    BY <2>1, SameCardinality DEF NoticeInv, Notices!WindowRespected
  <2>2. CASE t = clock + 1
    <3>1. Notices!InWindow(t) \subseteq Notices!InWindow(clock)
      BY <1>1, <2>2 DEF Notices!InWindow
    <3>2. IsFiniteSet(DOMAIN mails)
      BY <1>1, FS_Interval
    <3>3. IsFiniteSet(Notices!InWindow(clock))
      BY <3>2, FS_Subset DEF Notices!InWindow
    <3>4. /\ Cardinality(Notices!InWindow(t)) <= Cardinality(Notices!InWindow(clock))
          /\ Cardinality(Notices!InWindow(t)) \in Nat /\ Cardinality(Notices!InWindow(clock)) \in Nat
      BY <3>1, <3>3, FS_Subset, FS_CardinalityType
    <3>5. Cardinality(Notices!InWindow(clock)) <= MAX_ALERT_EMAILS
      BY <1>1, SameCardinality DEF NoticeInv, Notices!WindowRespected
    <3> QED
      BY <3>4, <3>5
  <2> QED
    BY <1>1, <2>1, <2>2
<1>4. Notices!WindowRespected'
  BY <1>3, SameCardinality DEF Notices!WindowRespected, Notices!InWindow
<1> QED
  BY <1>2, <1>4 DEF NoticeInv

LEMMA NoticeNextInv ==
    ASSUME MAX_ALERT_EMAILS \in Nat, AlertWindow \in Int, NoticeInv, [Notices!Next]_Notices!vars
    PROVE  NoticeInv'
<1>1. ASSUME UNCHANGED <<clock, bucket, mails>> PROVE NoticeInv'
  BY <1>1 DEF NoticeInv, NoticeTypes, BucketComplete, Notices!WindowRespected, Notices!InWindow
<1>2. ASSUME NEW j \in Jobs, NEW s \in Notices!Severities, Notices!NotifyAlert(j, s)
      PROVE  NoticeInv'
  BY <1>1, <1>2, MailStep DEF Notices!NotifyAlert, Notices!EmailQuota
<1>3. CASE Notices!Restart
  <2>1. /\ clock \in Nat /\ clock' = clock /\ bucket' = {} /\ mails' = <<>>
        /\ DOMAIN mails' = {} /\ mails' \in Seq(Nat)
    BY <1>3 DEF Notices!Restart, NoticeInv, NoticeTypes
  <2>2. NoticeTypes' /\ BucketComplete'
    BY <2>1 DEF NoticeTypes, BucketComplete
  <2>3. \A t : Notices!InWindow(t)' = {}
    BY <2>1 DEF Notices!InWindow
  <2>4. Notices!WindowRespected'
    BY <2>3, SameCardinality, FS_EmptySet DEF Notices!WindowRespected
  <2> QED
    BY <2>2, <2>4 DEF NoticeInv
<1>4. CASE Notices!Tick
  BY <1>4, TickStep DEF Notices!Tick
<1>5. CASE \/ UNCHANGED Notices!vars
           \/ \E j \in Jobs : Notices!ReadSettings(j) \/ Notices!EndJob(j)
           \/ \E settings1 \in Notices!Settings : Notices!UpdateProfile(settings1)
  BY <1>1, <1>5 DEF Notices!vars, Notices!ReadSettings, Notices!EndJob, Notices!UpdateProfile
<1> QED
  BY <1>2, <1>3, <1>4, <1>5 DEF Notices!Next

\* In every window between two restarts no more than the limit of alert e-mails leaves
\* (tryConsumeAlertEmailQuota), although the bucket forgets the earlier ones, for any limit,
\* window and number of e-mails.
THEOREM WindowIsRespected ==
    ASSUME MAX_ALERT_EMAILS \in Nat, AlertWindow \in Int
    PROVE  MCSpec => []WindowRespected
<1>1. NoticeInv => WindowRespected
  BY DEF NoticeInv, WindowRespected
<1>2. Notices!Init => NoticeInv
  BY NoticeInitInv
<1>3. NoticeInv /\ [Notices!Next]_Notices!vars => NoticeInv'
  BY NoticeNextInv
<1>4. Notices!Spec => []NoticeInv
  BY <1>2, <1>3, PTL DEF Notices!Spec
<1> QED
  BY <1>1, <1>4, NoticesRun, PTL

-----------------------------------------------------------------------------
(* The traces of the SDK integrations that wait for every answer.          *)

Roles == {"root", "event", "guarded", "logged", "finish"}
Req == [trace : Nat, parent : Nat, role : Roles, stored : Nat, linked : BOOLEAN]
Log == [trace : Nat, parent : Nat, linked : BOOLEAN]

TraceTypes ==
    /\ traces \in 0 .. MaxTraces /\ trace \in 0 .. traces /\ span \in Nat /\ root \in Nat
    /\ logs \in Seq(Log) /\ flight \subseteq Req /\ rootOf \in [Traces -> Nat]

\* The trace under way was told its root.
Told == trace # 0 /\ rootOf[trace] # 0

\* The current span of such a trace hangs below its root.
SpanBelow == Told => root = rootOf[trace] /\ span \in getChain(root)

\* A root is a stored log, and a trace is told it once it was started.
RootsStored == \A t \in Traces : rootOf[t] \in {0} \cup Ids /\ (t > traces => rootOf[t] = 0)

\* There is one request at most.  It belongs to the trace under way, and hangs below its
\* root if that is told; the first log of a trace is sent before.
RequestBelow ==
    \A r \in flight :
        /\ \A q \in flight : q = r
        /\ r.trace = trace /\ (r.linked <=> Told)
        /\ r.role = "root" => trace # 0 /\ rootOf[trace] = 0
        /\ Told => r.parent \in getChain(rootOf[trace])
        /\ r.stored # 0 => r.stored \in Ids /\ logs[r.stored].parent = r.parent

\* A linked log belongs to a trace whose root was told, and hangs below it.
LogsBelow ==
    \A i \in Ids : logs[i].linked =>
        /\ logs[i].trace \in Traces /\ rootOf[logs[i].trace] # 0
        /\ i \in getChain(rootOf[logs[i].trace])

TraceInv == Waits => TraceTypes /\ SpanBelow /\ RootsStored /\ RequestBelow /\ LogsBelow

\* A log is in its own chain, and so is every log whose parent is in it.
LEMMA ChainRoot == ASSUME NEW id \in Ids PROVE id \in getChain(id)
BY DEF getChain

LEMMA ChainChild ==
    ASSUME NEW id, NEW i \in Ids, logs[i].parent \in getChain(id)
    PROVE  i \in getChain(id)
<1>1. \A S \in SUBSET Ids : id \in S /\ Closed(S) => i \in S
  BY DEF getChain, Closed
<1> QED
  BY <1>1 DEF getChain

\* A new log takes nothing from a chain, and joins the chain its parent is in.
LEMMA ChainGrows ==
    ASSUME logs \in Seq(Log), NEW e \in Log, logs' = Append(logs, e), NEW id \in Ids
    PROVE  /\ getChain(id) \subseteq getChain(id)'
           /\ e.parent \in getChain(id) => Len(logs') \in getChain(id)'
<1>1. /\ Len(logs) \in Nat /\ Ids = 1 .. Len(logs) /\ Len(logs') = Len(logs) + 1
      /\ Ids' = 1 .. Len(logs) + 1 /\ \A i \in Ids : logs'[i] = logs[i]
      /\ logs'[Len(logs')] = e
  BY AppendProperties, LenProperties DEF Ids
<1>2. ASSUME NEW i \in getChain(id), NEW S \in SUBSET Ids', id \in S, Closed(S)'
      PROVE  i \in S
  <2>1. Closed(S \cap Ids)
    BY <1>1, <1>2 DEF Closed
  <2> QED
    BY <1>2, <2>1 DEF getChain
<1>3. getChain(id) \subseteq getChain(id)'
  BY <1>1, <1>2 DEF getChain
<1>4. ASSUME e.parent \in getChain(id) PROVE Len(logs') \in getChain(id)'
  <2>1. ASSUME NEW S \in SUBSET Ids', id \in S, Closed(S)' PROVE Len(logs') \in S
    <3>1. e.parent \in S
      BY <1>2, <1>4, <2>1
    <3> QED
      BY <1>1, <2>1, <3>1 DEF Closed
  <2> QED
    BY <1>1, <2>1 DEF getChain, Closed
<1> QED
  BY <1>3, <1>4

LEMMA TraceInitInv == ASSUME MaxTraces \in Nat, Init PROVE TraceInv
<1>1. logs = <<>> /\ logs \in Seq(Log) /\ Ids = {} /\ flight = {}
  BY DEF Init, Ids
<1>2. /\ trace = 0 /\ root = 0 /\ span = 0 /\ traces = 0 /\ rootOf = [t \in Traces |-> 0]
  BY DEF Init
<1> QED
  BY <1>1, <1>2 DEF TraceInv, TraceTypes, Told, SpanBelow, RootsStored, RequestBelow, LogsBelow

\* A request is linked when its trace was told its root.
LEMMA RequestType ==
    ASSUME NEW t \in Nat, NEW p \in Nat, NEW role \in Roles
    PROVE  /\ Request(t, p, role) \in Req /\ Request(t, p, role).trace = t
           /\ Request(t, p, role).parent = p /\ Request(t, p, role).role = role
           /\ Request(t, p, role).stored = 0
           /\ Request(t, p, role).linked <=> t # 0 /\ role # "root" /\ rootOf[t] # 0
<1> DEFINE b == t # 0 /\ role # "root" /\ rootOf[t] # 0
<1>1. b \in BOOLEAN
  OBVIOUS
<1>2. Request(t, p, role) =
        [trace |-> t, parent |-> p, role |-> role, stored |-> 0, linked |-> b]
  BY DEF Request
<1> HIDE DEF b
<1>3. /\ Request(t, p, role) \in Req /\ Request(t, p, role).trace = t
      /\ Request(t, p, role).parent = p /\ Request(t, p, role).role = role
      /\ Request(t, p, role).stored = 0 /\ Request(t, p, role).linked = b
  BY <1>1, <1>2 DEF Req
<1> QED
  BY <1>1, <1>3 DEF b

\* A step sends a request that hangs where the current trace is.
LEMMA SendStep ==
    ASSUME MaxTraces \in Nat, TraceInv, Waits, flight = {},
           UNCHANGED <<kind, logs, rootOf, trace, traces, span, root>>,
           NEW p \in {span, root}, NEW role \in Roles \ {"root"},
           flight' = flight \cup {Request(trace, p, role)}
    PROVE  TraceInv'
<1> DEFINE q == Request(trace, p, role)
<1>1. TraceTypes /\ SpanBelow /\ RootsStored /\ LogsBelow
  BY DEF TraceInv
<1>2. /\ q \in Req /\ q.trace = trace /\ q.parent = p /\ q.role # "root" /\ q.stored = 0
      /\ q.linked <=> Told
  <2>1. trace \in Nat /\ p \in Nat /\ role # "root"
    BY <1>1 DEF TraceTypes, Roles
  <2> QED
    BY <2>1, RequestType DEF Told
<1>3. flight' = {q}
  OBVIOUS
<1>4. Told => p \in getChain(rootOf[trace])
  <2>1. Told => rootOf[trace] \in Ids
    BY <1>1 DEF TraceTypes, Told, RootsStored, Traces
  <2> QED
    BY <1>1, <2>1, ChainRoot DEF SpanBelow
<1>5. TraceTypes' /\ RootsStored'
  BY <1>1, <1>2, <1>3 DEF TraceTypes, RootsStored, Ids
<1>6. SpanBelow' /\ LogsBelow' /\ (Told' <=> Told) /\ (\A id : getChain(id)' = getChain(id))
  BY <1>1 DEF SpanBelow, LogsBelow, Told, getChain, Closed, Ids
<1>7. RequestBelow'
  <2> HIDE DEF q
  <2> QED
    BY <1>2, <1>3, <1>4, <1>6 DEF RequestBelow
<1> QED
  BY <1>5, <1>6, <1>7 DEF TraceInv, Waits

\* A run starts: its trace is new.
LEMMA StartTraceStep ==
    ASSUME MaxTraces \in Nat, TraceInv, StartTrace
    PROVE  TraceInv'
<1> DEFINE q == Request(trace', 0, "root")
<1>1. TraceTypes /\ RootsStored /\ LogsBelow /\ flight = {} /\ Waits
  BY DEF TraceInv, StartTrace, Ready
<1>2. /\ traces' = traces + 1 /\ trace' = traces' /\ traces < MaxTraces
      /\ kind' = kind /\ logs' = logs /\ rootOf' = rootOf /\ flight' = {q}
  BY <1>1 DEF StartTrace, Send
<1>3. /\ trace' \in Traces /\ trace' # 0 /\ rootOf[trace'] = 0 /\ span' \in Nat /\ root' \in Nat
  BY <1>1, <1>2 DEF TraceTypes, RootsStored, Traces, StartTrace, SpanAtStart
<1>4. /\ q \in Req /\ q.trace = trace' /\ q.role = "root" /\ q.stored = 0 /\ ~q.linked
  <2>1. trace' \in Nat /\ 0 \in Nat /\ "root" \in Roles
    BY <1>1, <1>2 DEF TraceTypes, Roles
  <2>2. \A t \in Nat : LET r == Request(t, 0, "root")
                       IN  r \in Req /\ r.trace = t /\ r.role = "root" /\ r.stored = 0 /\ ~r.linked
    BY <2>1, RequestType
  <2> QED
    BY <2>1, <2>2
<1>5. TraceTypes' /\ RootsStored'
  BY <1>1, <1>2, <1>3, <1>4 DEF TraceTypes, RootsStored, Traces, Ids
<1>6. ~Told' /\ SpanBelow' /\ LogsBelow'
  BY <1>1, <1>2, <1>3 DEF Told, SpanBelow, LogsBelow, getChain, Closed, Ids
<1>7. RequestBelow'
  <2> HIDE DEF q
  <2> QED
    BY <1>2, <1>3, <1>4, <1>6 DEF RequestBelow
<1> QED
  BY <1>1, <1>2, <1>5, <1>6, <1>7 DEF TraceInv, Waits

\* What is known of the request under way.
LEMMA UnderWay ==
    ASSUME MaxTraces \in Nat, TraceInv, Waits, NEW r \in flight
    PROVE  /\ flight = {r} /\ r \in Req /\ r.trace = trace /\ (r.linked <=> Told)
           /\ Told => /\ trace \in Traces /\ rootOf[trace] \in Ids /\ root = rootOf[trace]
                      /\ r.role # "root" /\ r.parent \in getChain(root) /\ span \in getChain(root)
           /\ r.role = "root" => trace \in Traces /\ rootOf[trace] = 0
           /\ r.stored # 0 => r.stored \in Ids /\ logs[r.stored].parent = r.parent
           /\ Told /\ r.stored # 0 => r.stored \in getChain(root)
<1>1. TraceTypes /\ SpanBelow /\ RootsStored /\ RequestBelow
  BY DEF TraceInv
<1>2. flight = {r} /\ r \in Req /\ r.trace = trace /\ (r.linked <=> Told)
  BY <1>1 DEF TraceTypes, RequestBelow
<1>3. trace # 0 => trace \in Traces
  BY <1>1 DEF TraceTypes, Traces
<1>4. r.stored # 0 => r.stored \in Ids /\ logs[r.stored].parent = r.parent
  BY <1>1 DEF RequestBelow
<1>5. Told => /\ trace \in Traces /\ rootOf[trace] \in Ids /\ root = rootOf[trace]
              /\ r.role # "root" /\ r.parent \in getChain(root) /\ span \in getChain(root)
  BY <1>1, <1>3 DEF Told, RootsStored, SpanBelow, RequestBelow
<1>6. r.role = "root" => trace \in Traces /\ rootOf[trace] = 0
  BY <1>1, <1>3 DEF RequestBelow
<1> QED
  BY <1>2, <1>4, <1>5, <1>6, ChainChild

\* A log is stored: chains only grow.
LEMMA StoreStep ==
    ASSUME MaxTraces \in Nat, TraceInv, Waits, NEW r \in flight, Store(r)
    PROVE  TraceInv'
<1> DEFINE e == [trace |-> r.trace, parent |-> r.parent, linked |-> r.linked]
           n == Len(logs')
           q == [r EXCEPT !.stored = n]
<1>1. TraceTypes /\ SpanBelow /\ RootsStored /\ LogsBelow
  BY DEF TraceInv
<1>2. /\ flight = {r} /\ r \in Req /\ r.trace = trace /\ (r.linked <=> Told)
      /\ r.role = "root" => trace \in Traces /\ rootOf[trace] = 0
      /\ Told => trace \in Traces /\ rootOf[trace] \in Ids /\ root = rootOf[trace]
                 /\ r.parent \in getChain(rootOf[trace])
  BY UnderWay
<1>3. /\ logs' = Append(logs, e) /\ flight' = {q}
      /\ UNCHANGED <<kind, rootOf, trace, root, span, traces>>
  BY <1>2 DEF Store, Handler
<1>4. e \in Log /\ e.trace = r.trace /\ e.parent = r.parent /\ e.linked = r.linked
  BY <1>2 DEF Req, Log
<1>5. /\ logs' \in Seq(Log) /\ Ids \subseteq Ids' /\ n \in Ids' /\ n # 0 /\ n \in Nat
      /\ Ids' = Ids \cup {n} /\ logs'[n] = e /\ \A i \in Ids : logs'[i] = logs[i] /\ i # 0
  <2>1. logs \in Seq(Log)
    BY <1>1 DEF TraceTypes
  <2>2. /\ logs' \in Seq(Log) /\ n = Len(logs) + 1 /\ logs'[n] = e
        /\ \A i \in 1 .. Len(logs) : logs'[i] = logs[i]
    BY <1>3, <1>4, <2>1, AppendProperties
  <2>3. Len(logs) \in Nat /\ Ids = 1 .. Len(logs) /\ Ids' = 1 .. n
    BY <2>1, <2>2, LenProperties DEF Ids
  <2> HIDE DEF n, e
  <2> QED
    BY <2>2, <2>3
<1>6. /\ q \in Req /\ q.trace = r.trace /\ q.parent = r.parent /\ q.role = r.role
      /\ q.linked = r.linked /\ q.stored = n
  BY <1>2, <1>5 DEF Req
<1>7. \A id \in Ids : /\ getChain(id) \subseteq getChain(id)'
                      /\ r.parent \in getChain(id) => n \in getChain(id)'
  BY <1>1, <1>3, <1>4, ChainGrows DEF TraceTypes
<1> HIDE DEF n, e, q
<1>8. TraceTypes' /\ RootsStored'
  BY <1>1, <1>3, <1>5, <1>6 DEF TraceTypes, RootsStored, Traces
<1>9. (Told' <=> Told) /\ SpanBelow'
  BY <1>1, <1>2, <1>3, <1>7 DEF SpanBelow, Told
<1>10. RequestBelow'
  <2>1. logs'[n].parent = r.parent /\ q.stored \in Ids'
    BY <1>4, <1>5, <1>6
  <2>2. Told => r.parent \in getChain(rootOf[trace])'
    <3>1. ASSUME Told PROVE getChain(rootOf[trace]) \subseteq getChain(rootOf[trace])'
      <4>1. \A id : id = rootOf[trace] => getChain(id) \subseteq getChain(id)'
        BY <1>2, <1>7, <3>1
      <4> QED
        BY <1>3, <4>1
    <3> QED
      BY <1>2, <3>1
  <2>3. /\ q.trace = trace' /\ (q.linked <=> Told')
        /\ q.role = "root" => trace' # 0 /\ rootOf'[trace'] = 0
        /\ Told' => q.parent \in getChain(rootOf[trace])'
        /\ q.stored \in Ids' /\ logs'[q.stored].parent = q.parent
    <3>1. trace \in Traces => trace # 0
      BY DEF Traces
    <3> QED
      BY <1>2, <1>3, <1>6, <1>9, <2>1, <2>2, <3>1
  <2> QED
    BY <1>3, <2>3 DEF RequestBelow
<1>11. LogsBelow'
  <2>1. ASSUME NEW i \in Ids', logs'[i].linked
        PROVE  /\ logs'[i].trace \in Traces /\ rootOf[logs'[i].trace] \in Ids
               /\ \A id : id = rootOf[logs'[i].trace] => i \in getChain(id)'
    <3>1. CASE i = n
      <4>1. Told /\ logs'[i].trace = trace
        BY <1>2, <1>4, <1>5, <2>1, <3>1
      <4> QED
        BY <1>2, <1>7, <3>1, <4>1
    <3>2. CASE i \in Ids
      <4>1. /\ logs[i].trace \in Traces /\ rootOf[logs[i].trace] # 0
            /\ i \in getChain(rootOf[logs[i].trace]) /\ logs'[i] = logs[i]
        BY <1>1, <1>5, <2>1, <3>2 DEF LogsBelow
      <4>2. rootOf[logs[i].trace] \in Ids
        BY <1>1, <4>1 DEF RootsStored
      <4> QED
        BY <1>7, <4>1, <4>2
    <3> QED
      BY <1>5, <2>1, <3>1, <3>2
  <2>2. Traces' = Traces /\ \A i \in Ids : i # 0
    BY <1>5 DEF Traces
  <2>3. ASSUME NEW i \in Ids', logs'[i].linked
        PROVE  i \in getChain(rootOf[logs[i].trace])'
    BY <1>3, <2>1, <2>3
  <2> QED
    BY <1>3, <2>1, <2>2, <2>3 DEF LogsBelow
<1> QED
  BY <1>3, <1>8, <1>9, <1>10, <1>11 DEF TraceInv, Waits

\* Without a change of the logs and roots, what is below a root stays below it.
LEMMA ChainsKept ==
    ASSUME UNCHANGED logs
    PROVE  Ids' = Ids /\ \A id : getChain(id)' = getChain(id)
BY DEF Ids, getChain, Closed

\* A request is sent again: it has not been stored yet.
LEMMA RetryStep ==
    ASSUME MaxTraces \in Nat, TraceInv, Waits, NEW r \in flight, Retry(r)
    PROVE  TraceInv'
<1> DEFINE q == [r EXCEPT !.stored = 0]
<1>1. TraceTypes /\ SpanBelow /\ RootsStored /\ LogsBelow /\ RequestBelow
  BY DEF TraceInv
<1>2. flight = {r} /\ r \in Req
  BY UnderWay
<1>3. flight' = {q} /\ UNCHANGED <<kind, logs, rootOf, trace, root, span, traces>>
  BY <1>2 DEF Retry, Handler
<1>4. /\ q \in Req /\ q.trace = r.trace /\ q.parent = r.parent /\ q.role = r.role
      /\ q.linked = r.linked /\ q.stored = 0
  BY <1>2 DEF Req
<1> HIDE DEF q
<1>5. TraceTypes' /\ RootsStored' /\ SpanBelow' /\ LogsBelow' /\ (Told' <=> Told)
  BY <1>1, <1>3, <1>4, ChainsKept DEF TraceTypes, RootsStored, SpanBelow, LogsBelow, Told, Traces
<1>6. RequestBelow'
  BY <1>1, <1>2, <1>3, <1>4, <1>5, ChainsKept DEF RequestBelow
<1> QED
  BY <1>3, <1>5, <1>6 DEF TraceInv, Waits

\* An answer or an error: nothing is under way, and the trace goes on below its root, was
\* just told its root, or is left.
LEMMA EndOfRequest ==
    ASSUME MaxTraces \in Nat, TraceInv, Waits, NEW r \in flight, flight' = flight \ {r},
           UNCHANGED <<kind, traces, logs>>,
           trace' \in {0, trace}, root' \in Nat, span' \in Nat,
           \/ rootOf' = rootOf
           \/ /\ r.role = "root" /\ r.stored # 0
              /\ rootOf' = [rootOf EXCEPT ![r.trace] = r.stored],
           trace' # 0 /\ rootOf'[trace] # 0 => root' = rootOf'[trace] /\ span' \in getChain(root')
    PROVE  TraceInv'
<1>1. TraceTypes /\ SpanBelow /\ RootsStored /\ LogsBelow /\ RequestBelow
  BY DEF TraceInv
<1>2. /\ flight = {r} /\ r \in Req /\ r.trace = trace
      /\ r.role = "root" => trace \in Traces /\ rootOf[trace] = 0
      /\ r.stored # 0 => r.stored \in Ids
  BY UnderWay
<1>3. flight' = {} /\ RequestBelow'
  BY <1>2 DEF RequestBelow
<1>4. rootOf' \in [Traces -> Nat] /\ RootsStored'
  <2>1. /\ r.stored \in Nat /\ rootOf \in [Traces -> Nat] /\ Ids' = Ids /\ traces' = traces
        /\ (r.role = "root" => trace <= traces)
    BY <1>1, <1>2, ChainsKept DEF Req, TraceTypes
  <2>2. CASE rootOf' = rootOf
    BY <1>1, <2>1, <2>2 DEF RootsStored, Traces
  <2>3. CASE r.role = "root" /\ r.stored # 0 /\ rootOf' = [rootOf EXCEPT ![r.trace] = r.stored]
    <3>1. /\ rootOf' \in [Traces -> Nat] /\ rootOf'[trace] = r.stored /\ trace \in Traces
          /\ \A t \in Traces : t # trace => rootOf'[t] = rootOf[t]
      BY <1>2, <2>1, <2>3
    <3>2. trace \in Int /\ traces \in Int /\ Traces' = Traces
      BY <1>1 DEF TraceTypes, Traces
    <3>3. ASSUME NEW t \in Traces PROVE rootOf'[t] \in {0} \cup Ids /\ (t > traces => rootOf'[t] = 0)
      BY <1>1, <1>2, <2>1, <2>3, <3>1, <3>2 DEF RootsStored
    <3> QED
      BY <2>1, <3>1, <3>2, <3>3 DEF RootsStored
  <2> QED
    BY <2>2, <2>3
<1>5. TraceTypes'
  BY <1>1, <1>3, <1>4 DEF TraceTypes
<1>6. SpanBelow'
  BY ChainsKept DEF SpanBelow, Told
<1>7. LogsBelow'
  <2>1. \A t \in Traces : rootOf[t] # 0 => rootOf'[t] = rootOf[t]
    BY <1>1, <1>2 DEF TraceTypes
  <2> QED
    BY <1>1, <2>1, ChainsKept DEF LogsBelow
<1> QED
  BY <1>3, <1>4, <1>5, <1>6, <1>7 DEF TraceInv, Waits
\* What an end leaves: the trace as it is, or none.
LEMMA LeaveStep ==
    ASSUME MaxTraces \in Nat, TraceInv, Waits, NEW r \in flight, flight' = flight \ {r},
           UNCHANGED <<kind, traces, logs, rootOf>>,
           Reset \/ UNCHANGED <<trace, root, span>>
    PROVE  TraceInv'
<1>1. /\ trace' \in {0, trace} /\ root' \in Nat /\ span' \in Nat
  BY DEF TraceInv, TraceTypes, Reset
<1>2. trace' # 0 /\ rootOf'[trace] # 0 => root' = rootOf'[trace] /\ span' \in getChain(root')
  BY DEF TraceInv, SpanBelow, Told, Reset
<1> QED
  BY <1>1, <1>2, EndOfRequest

LEMMA AnswerKeeps ==
    ASSUME MaxTraces \in Nat, TraceInv, Waits, NEW r \in flight, Answer(r)
    PROVE  TraceInv'
<1>1. /\ flight' = flight \ {r} /\ UNCHANGED <<kind, traces, logs>> /\ r.stored # 0
  BY DEF Answer
<1>2. TraceTypes
  BY DEF TraceInv
<1>3. /\ r.trace = trace /\ r.stored \in Nat /\ r.stored \in Ids
      /\ r.role = "root" => trace \in Traces
      /\ Told => root = rootOf[trace] /\ span \in getChain(root) /\ r.stored \in getChain(root)
  BY <1>1, UnderWay DEF Req
<1>4. CASE AnswerRoot(r)
  <2>1. /\ trace' = trace /\ root' = r.stored /\ span' = r.stored /\ r.role = "root"
        /\ rootOf' = [rootOf EXCEPT ![r.trace] = r.stored]
    BY <1>4 DEF AnswerRoot, SpanOfRoot
  <2>2. rootOf'[trace] = r.stored
    BY <1>2, <1>3, <2>1 DEF TraceTypes
  <2>3. span' \in getChain(root')
    BY <1>3, <2>1, ChainRoot
  <2> QED
    BY <1>1, <1>3, <2>1, <2>2, <2>3, EndOfRequest
<1>5. CASE AnswerStep(r)
  <2>1. UNCHANGED <<trace, root, rootOf>> /\ span' \in {r.stored, span}
    BY <1>5 DEF AnswerStep, updateSpan, AfterEnd
  <2>2. span' \in Nat /\ root' \in Nat
    BY <1>2, <1>3, <2>1 DEF TraceTypes
  <2>3. trace' # 0 /\ rootOf'[trace] # 0 => root' = rootOf'[trace] /\ span' \in getChain(root')
    BY <1>3, <2>1 DEF Told
  <2> QED
    BY <1>1, <2>1, <2>2, <2>3, EndOfRequest
<1>6. CASE r.role = "finish" /\ AfterFinish
  BY <1>1, <1>6, LeaveStep DEF AfterFinish
<1> QED
  BY <1>4, <1>5, <1>6 DEF Answer

LEMMA FailKeeps ==
    ASSUME MaxTraces \in Nat, TraceInv, Waits, NEW r \in flight, Fail(r)
    PROVE  TraceInv'
<1>1. /\ flight' = flight \ {r} /\ UNCHANGED <<kind, traces, logs, rootOf>>
      /\ Reset \/ UNCHANGED <<trace, root, span>>
  BY DEF Fail, AfterFinish
<1> QED
  BY <1>1, LeaveStep

LEMMA TraceNextInv == ASSUME MaxTraces \in Nat, TraceInv, [Next]_vars PROVE TraceInv'
<1>1. CASE UNCHANGED vars
  BY <1>1, ChainsKept
     DEF vars, TraceInv, Waits, TraceTypes, SpanBelow, RootsStored, RequestBelow, LogsBelow,
         Told, Traces
<1>2. CASE StartTrace
  BY <1>2, StartTraceStep
<1>3. ASSUME NEW p \in {span, root}, NEW role \in Roles \ {"root"}, Waits, Stepping,
             Send({Request(trace, p, role)})
      PROVE  TraceInv'
  <2>1. /\ flight = {} /\ UNCHANGED <<kind, logs, rootOf, trace, traces, span, root>>
        /\ flight' = flight \cup {Request(trace, p, role)}
    BY <1>3 DEF Stepping, Ready, Handler, Send
  <2> QED
    BY <1>3, <2>1, SendStep
<1>4. CASE Event \/ EndOfStep
  BY <1>3, <1>4 DEF Event, EndOfStep, Roles
<1>5. CASE Finish
  <2>1. Waits /\ Stepping /\ Send({Request(trace, root, "finish")})
    BY <1>5 DEF Finish, FinishParent, Waits
  <2> QED
    BY <1>3, <2>1 DEF Roles
<1>6. ASSUME ~Waits, kind' = kind PROVE TraceInv'
  BY <1>6 DEF TraceInv, Waits
<1>7. CASE handleFirstStart \/ handleStart \/ handleEnd \/ handleError
  BY <1>6, <1>7 DEF handleFirstStart, handleStart, handleEnd, handleError, guardrail, log, Send
<1>8. ASSUME NEW r \in flight, Store(r) \/ Retry(r) \/ Answer(r) \/ Fail(r) \/ Unhandled(r)
      PROVE  TraceInv'
  <2>1. CASE Waits
    BY <1>8, <2>1, StoreStep, RetryStep, AnswerKeeps, FailKeeps DEF Unhandled
  <2>2. CASE ~Waits
    BY <1>6, <1>8, <2>2 DEF Store, Retry, Answer, Fail, Unhandled
  <2> QED
    BY <2>1, <2>2
<1> QED
  BY <1>1, <1>2, <1>4, <1>5, <1>7, <1>8 DEF Next

\* Once a trace was told its root, every log that the waiting integrations send for it hangs
\* below that root (getChain of the audit log route), with requests failing or repeated, for
\* any number of traces and logs and every kind of integration.
THEOREM ChainsComplete ==
    ASSUME MaxTraces \in Nat
    PROVE  MCSpec => []ChainComplete
<1>1. TraceInv => ChainComplete
  BY DEF TraceInv, LogsBelow, ChainComplete
<1>2. Init => TraceInv
  BY TraceInitInv
<1>3. TraceInv /\ [Next]_vars => TraceInv'
  BY TraceNextInv
<1>4. Spec => []TraceInv
  BY <1>2, <1>3, PTL DEF Spec
<1> QED
  BY <1>1, <1>4, TracesRun, PTL

-----------------------------------------------------------------------------
(* The verdict on a submission.                                            *)

Stages == {"idle", "scope", "rules", "rate", "create", "commit"}
ForceRules == [rule : Verdicts!Rules, action : Verdicts!Actions]
Submission ==
    [at : Stages, size : {0} \cup 1 .. MaxBatch, match : BOOLEAN, scope : SUBSET Policies,
     verdict : Verdicts!Actions, entries : Seq([at : Nat, flagged : BOOLEAN]),
     steady : SUBSET ForceRules]

VerdictTypes ==
    /\ now \in Nat /\ mode \in [Policies -> Verdicts!Actions]
    /\ assigned \subseteq Policies /\ active \subseteq Verdicts!Rules
    /\ timeOfDay \in (0 .. Verdicts!Day - 1) \X (0 .. Verdicts!Day - 1)
    /\ req \in [Slots -> Submission]

\* What was in force since the entry began still is.
SteadyInForce == \A s \in Slots : req[s].steady \subseteq Verdicts!InForce(now, assigned, active, mode)

\* The rules among it are in the scope that was built, and the verdict is their action at least.
SteadyCovered ==
    \A s \in Slots :
        /\ req[s].at = "rate" => rule = "rate"
        /\ req[s].at = "rules" => \A f \in req[s].steady : Verdicts!InScope(f.rule, req[s].scope)
        /\ rule = "texts" /\ req[s].at = "create" /\ req[s].match =>
            \A f \in req[s].steady :
                Verdicts!ACTION_RANK[req[s].verdict] >= Verdicts!ACTION_RANK[f.action]

VerdictInv == VerdictTypes /\ SteadyInForce /\ SteadyCovered

VerdictConstants ==
    /\ PerHour \in Nat \ {0} /\ Hours \in Nat \ {0}
    /\ Starts \subseteq 0 .. Verdicts!Day - 1 /\ Ends \subseteq 0 .. Verdicts!Day - 1
    /\ Modes \subseteq Verdicts!Actions

\* Remainders of what is less than one day off.
LEMMA DayRemainder ==
    ASSUME NEW D \in Nat \ {0}, NEW x \in Int
    PROVE  /\ 0 <= x /\ x < D => x % D = x
           /\ D <= x /\ x < 2 * D => x % D = x - D
           /\ x < 0 /\ -D <= x => x % D = x + D
OBVIOUS

\* The window that is open by the clock on the wall is open for the code, but for the hour
\* after midnight.
LEMMA OpenInWindow ==
    ASSUME VerdictConstants, NEW t \in Nat, t % Verdicts!Day >= PerHour,
           NEW w \in (0 .. Verdicts!Day - 1) \X (0 .. Verdicts!Day - 1), Verdicts!Open(w, t)
    PROVE  Verdicts!inWindow(w, Verdicts!currentMinutes(t))
<1> DEFINE D == Verdicts!Day
           m == t % D
<1>1. D \in Nat \ {0}
  BY DEF VerdictConstants, Verdicts!Day
<1>2. PICK k \in 0 .. (w[2] - w[1]) % D : (w[1] + k) % D = m
  BY DEF Verdicts!Open
<1>3. PerHour \in Nat /\ m >= PerHour
  BY DEF VerdictConstants
<1>4. Verdicts!currentMinutes(t) = m /\ m \in Nat
  BY <1>1, <1>3 DEF Verdicts!currentMinutes
<1>5. w[1] \in 0 .. D - 1 /\ w[2] \in 0 .. D - 1
  OBVIOUS
<1> HIDE DEF D, m
<1>6. CASE w[1] <= w[2]
  <2>1. (w[2] - w[1]) % D = w[2] - w[1]
    BY <1>1, <1>5, <1>6, DayRemainder
  <2>2. k \in Int /\ 0 <= k /\ k <= w[2] - w[1]
    BY <1>1, <1>2, <1>5, <2>1
  <2>3. w[1] + k \in Int /\ 0 <= w[1] + k /\ w[1] + k < D
    BY <1>1, <1>5, <2>2
  <2>4. (w[1] + k) % D = w[1] + k
    BY <1>1, <2>3, DayRemainder
  <2> QED
    BY <1>1, <1>2, <1>4, <1>5, <1>6, <2>2, <2>4 DEF Verdicts!inWindow
<1>7. CASE w[1] > w[2]
  <2>1. (w[2] - w[1]) % D = w[2] - w[1] + D
    BY <1>1, <1>5, <1>7, DayRemainder
  <2>2. k \in Int /\ 0 <= k /\ k <= w[2] - w[1] + D
    BY <1>1, <1>2, <1>5, <2>1
  <2>3. w[1] + k < D => (w[1] + k) % D = w[1] + k
    BY <1>1, <1>5, <2>2, DayRemainder
  <2>4. w[1] + k >= D => (w[1] + k) % D = w[1] + k - D
    BY <1>1, <1>5, <1>7, <2>2, DayRemainder
  <2> QED
    BY <1>1, <1>2, <1>4, <1>5, <1>7, <2>2, <2>3, <2>4 DEF Verdicts!inWindow
<1> QED
  BY <1>5, <1>6, <1>7

\* Verdict picks an action that is as strong as that of any rule it is given.
LEMMA VerdictIsStrongest ==
    ASSUME VerdictTypes, NEW rs \in SUBSET Verdicts!Rules
    PROVE  /\ Verdicts!Verdict(rs) \in Verdicts!Actions
           /\ \A r \in rs : Verdicts!ACTION_RANK[Verdicts!Verdict(rs)]
                              >= Verdicts!ACTION_RANK[Verdicts!resolveAction(r)]
<1> DEFINE act(r) == Verdicts!resolveAction(r)
           acts == {"allow"} \cup {act(r) : r \in rs}
           best(a) == \A r \in rs : Verdicts!strongerAction(a, act(r)) = a
<1>1. \A r \in rs : act(r) \in Verdicts!Actions
  BY DEF VerdictTypes, Verdicts!Rules, Verdicts!resolveAction, Verdicts!Actions
<1>2. \A a, b \in Verdicts!Actions :
        (Verdicts!strongerAction(a, b) = a) <=> Verdicts!ACTION_RANK[a] >= Verdicts!ACTION_RANK[b]
  BY DEF Verdicts!strongerAction, Verdicts!ACTION_RANK, Verdicts!Actions
<1>3. \E a \in acts : best(a)
  <2> HIDE DEF act
  <2>1. CASE "block" \in acts
    BY <1>1, <1>2, <2>1 DEF Verdicts!ACTION_RANK, Verdicts!Actions
  <2>2. CASE "block" \notin acts /\ "flag" \in acts
    BY <1>1, <1>2, <2>2 DEF Verdicts!ACTION_RANK, Verdicts!Actions
  <2>3. CASE "block" \notin acts /\ "flag" \notin acts /\ "log" \in acts
    BY <1>1, <1>2, <2>3 DEF Verdicts!ACTION_RANK, Verdicts!Actions
  <2>4. CASE "block" \notin acts /\ "flag" \notin acts /\ "log" \notin acts
    BY <1>1, <1>2, <2>4 DEF Verdicts!ACTION_RANK, Verdicts!Actions
  <2> QED
    BY <2>1, <2>2, <2>3, <2>4
<1>4. Verdicts!Verdict(rs) \in acts /\ best(Verdicts!Verdict(rs))
  <2>1. Verdicts!Verdict(rs) = CHOOSE a \in acts : best(a)
    BY DEF Verdicts!Verdict
  <2> QED
    BY <1>3, <2>1
<1>5. acts \subseteq Verdicts!Actions
  BY <1>1 DEF Verdicts!Actions
<1> QED
  BY <1>1, <1>2, <1>4, <1>5

\* What was in force keeps being so under a change that Keep goes with.
LEMMA KeepStep ==
    ASSUME VerdictInv, rule' = rule, timeOfDay' = timeOfDay,
           now' \in Nat, mode' \in [Policies -> Verdicts!Actions],
           assigned' \subseteq Policies, active' \subseteq Verdicts!Rules,
           req' = Verdicts!Keep(now', assigned', active', mode')
    PROVE  VerdictInv'
<1> DEFINE F == Verdicts!InForce(now', assigned', active', mode')
<1>1. VerdictTypes /\ SteadyInForce /\ SteadyCovered
  BY DEF VerdictInv
<1>2. F = Verdicts!InForce(now, assigned, active, mode)'
  BY DEF Verdicts!InForce, Verdicts!Holds, Verdicts!Open
<1>3. req' = [s \in Slots |-> [req[s] EXCEPT !.steady = @ \cap F]]
  BY DEF Verdicts!Keep
<1> HIDE DEF F
<1>4. ASSUME NEW s \in Slots
      PROVE  /\ req'[s] \in Submission /\ req'[s].at = req[s].at /\ req'[s].match = req[s].match
             /\ req'[s].scope = req[s].scope /\ req'[s].verdict = req[s].verdict
             /\ req'[s].steady = req[s].steady \cap F
  <2>1. req[s] \in Submission /\ req[s].steady \cap F \in SUBSET ForceRules
    BY <1>1 DEF VerdictTypes, Submission
  <2>2. req'[s] = [req[s] EXCEPT !.steady = req[s].steady \cap F]
    BY <1>3
  <2> QED
    BY <2>1, <2>2 DEF Submission
<1>5. VerdictTypes'
  BY <1>1, <1>3, <1>4 DEF VerdictTypes, Verdicts!Day
<1>6. SteadyInForce'
  BY <1>2, <1>4 DEF SteadyInForce
<1>7. SteadyCovered'
  BY <1>1, <1>4 DEF SteadyCovered, Verdicts!InScope, Verdicts!ACTION_RANK
<1> QED
  BY <1>5, <1>6, <1>7 DEF VerdictInv

\* A step of one submission, which leaves everything else as it is.
LEMMA SlotStep ==
    ASSUME VerdictInv, NEW s \in Slots, NEW x \in Submission, req' = [req EXCEPT ![s] = x],
           UNCHANGED <<now, rule, mode, assigned, active, timeOfDay>>,
           x.steady \subseteq Verdicts!InForce(now, assigned, active, mode),
           x.at = "rate" => rule = "rate",
           x.at = "rules" => \A f \in x.steady : Verdicts!InScope(f.rule, x.scope),
           rule = "texts" /\ x.at = "create" /\ x.match =>
             \A f \in x.steady : Verdicts!ACTION_RANK[x.verdict] >= Verdicts!ACTION_RANK[f.action]
    PROVE  VerdictInv'
<1>1. VerdictTypes /\ SteadyInForce /\ SteadyCovered
  BY DEF VerdictInv
<1>2. req' \in [Slots -> Submission] /\ req'[s] = x /\ \A q \in Slots : q # s => req'[q] = req[q]
  BY <1>1 DEF VerdictTypes
<1>3. VerdictTypes'
  BY <1>1, <1>2 DEF VerdictTypes, Verdicts!Day
<1>4. Verdicts!InForce(now, assigned, active, mode)' = Verdicts!InForce(now, assigned, active, mode)
  BY DEF Verdicts!InForce, Verdicts!Holds, Verdicts!Open
<1>5. SteadyInForce'
  BY <1>1, <1>2, <1>4 DEF SteadyInForce
<1>6. SteadyCovered'
  BY <1>1, <1>2 DEF SteadyCovered, Verdicts!InScope, Verdicts!ACTION_RANK
<1> QED
  BY <1>3, <1>5, <1>6 DEF VerdictInv

\* What is in force are rules with their actions.
LEMMA ForceTypes ==
    ASSUME VerdictTypes
    PROVE  Verdicts!InForce(now, assigned, active, mode) \subseteq ForceRules
<1>1. \A r \in active : (IF r = Org THEN "flag" ELSE mode[r]) \in Verdicts!Actions
  BY DEF VerdictTypes, Verdicts!Rules, Verdicts!Actions
<1> QED
  BY <1>1 DEF VerdictTypes, Verdicts!InForce, ForceRules

\* An entry is taken up.
LEMMA EntryStep ==
    ASSUME VerdictInv, NEW s \in Slots, NEW y \in Submission, NEW match \in BOOLEAN,
           UNCHANGED <<now, rule, mode, assigned, active, timeOfDay>>,
           req' = [req EXCEPT ![s] = Verdicts!Entry(y, match)]
    PROVE  VerdictInv'
<1> DEFINE x == Verdicts!Entry(y, match)
           F == Verdicts!InForce(now, assigned, active, mode)
<1>1. F \subseteq ForceRules
  BY ForceTypes DEF VerdictInv
<1>2. x = [y EXCEPT !.at = IF rule = "rate" THEN "rate" ELSE "scope", !.match = match,
                    !.scope = {}, !.verdict = "allow", !.steady = F]
  BY DEF Verdicts!Entry
<1> HIDE DEF x, F
<1>3. /\ x \in Submission /\ x.at = (IF rule = "rate" THEN "rate" ELSE "scope") /\ x.steady = F
  BY <1>1, <1>2 DEF Submission, Stages, Verdicts!Actions
<1> USE DEF F
<1> QED
  BY <1>3, SlotStep DEF x

\* The scope of the rules is built: what was in force is in it.
LEMMA ScopeStep ==
    ASSUME VerdictConstants, VerdictInv, NEW s \in Slots, Verdicts!buildRuleScope(s)
    PROVE  VerdictInv'
<1> DEFINE scope == Verdicts!activePolicyIds(now)
           x == [req[s] EXCEPT !.at = "rules", !.scope = scope]
<1>1. VerdictTypes /\ SteadyInForce /\ req[s] \in Submission
  BY DEF VerdictInv, VerdictTypes
<1>2. /\ req' = [req EXCEPT ![s] = x]
      /\ UNCHANGED <<now, rule, mode, assigned, active, timeOfDay>>
  BY <1>1 DEF Verdicts!buildRuleScope, VerdictTypes
<1>3. scope \in SUBSET Policies
  BY <1>1 DEF VerdictTypes, Verdicts!activePolicyIds
<1>4. ASSUME NEW f \in req[s].steady PROVE Verdicts!InScope(f.rule, scope)
  <2>1. f.rule = Org \/ /\ f.rule \in assigned
                        /\ f.rule = Timed => /\ now % Verdicts!Day >= PerHour
                                             /\ Verdicts!Open(timeOfDay, now)
    BY <1>1 DEF SteadyInForce, Verdicts!InForce, Verdicts!Holds
  <2>2. f.rule = Timed /\ f.rule # Org =>
            Verdicts!inWindow(timeOfDay, Verdicts!currentMinutes(now))
    BY <1>1, <2>1, OpenInWindow DEF VerdictTypes
  <2> QED
    BY <2>1, <2>2 DEF Verdicts!InScope, Verdicts!activePolicyIds, Verdicts!evaluatePolicyConditions
<1> HIDE DEF scope
<1>5. /\ x \in Submission /\ x.at = "rules" /\ x.scope = scope /\ x.steady = req[s].steady
  BY <1>1, <1>3 DEF Submission, Stages
<1> HIDE DEF x
<1> QED
  BY <1>1, <1>2, <1>4, <1>5, SlotStep DEF SteadyInForce

\* The rules are read: what was in force is among those that count.
LEMMA FindStep ==
    ASSUME VerdictInv, NEW s \in Slots, Verdicts!FindRules(s)
    PROVE  VerdictInv'
<1> DEFINE found == {r \in active : Verdicts!InScope(r, req[s].scope)}
           verdict == IF req[s].match THEN Verdicts!Verdict(found) ELSE "allow"
           x == [req[s] EXCEPT !.at = "create", !.verdict = verdict]
<1>1. VerdictTypes /\ SteadyInForce /\ SteadyCovered /\ req[s] \in Submission
  BY DEF VerdictInv, VerdictTypes
<1>2. /\ req' = [req EXCEPT ![s] = x] /\ req[s].at = "rules"
      /\ UNCHANGED <<now, rule, mode, assigned, active, timeOfDay>>
  BY <1>1 DEF Verdicts!FindRules, VerdictTypes
<1>3. found \in SUBSET Verdicts!Rules
  BY <1>1 DEF VerdictTypes
<1>4. ASSUME NEW f \in req[s].steady, req[s].match
      PROVE  Verdicts!ACTION_RANK[verdict] >= Verdicts!ACTION_RANK[f.action]
  <2>1. f.rule \in active /\ f.action = Verdicts!resolveAction(f.rule)
    BY <1>1 DEF SteadyInForce, Verdicts!InForce, Verdicts!resolveAction
  <2>2. f.rule \in found
    BY <1>1, <1>2, <2>1 DEF SteadyCovered
  <2> QED
    BY <1>1, <1>3, <1>4, <2>1, <2>2, VerdictIsStrongest
<1>5. verdict \in Verdicts!Actions
  BY <1>1, <1>3, VerdictIsStrongest DEF Verdicts!Actions
<1> HIDE DEF verdict
<1>6. /\ x \in Submission /\ x.at = "create" /\ x.match = req[s].match
      /\ x.verdict = verdict /\ x.steady = req[s].steady
  BY <1>1, <1>5 DEF Submission, Stages
<1> HIDE DEF x
<1> QED
  BY <1>1, <1>2, <1>4, <1>6, SlotStep DEF SteadyInForce

LEMMA IdleType == Verdicts!Idle \in Submission /\ Verdicts!Idle.at = "idle" /\ Verdicts!Idle.steady = {}
BY DEF Verdicts!Idle, Submission, Stages, Verdicts!Actions

LEMMA VerdictInitInv == ASSUME VerdictConstants, Verdicts!Init PROVE VerdictInv
<1>1. /\ req = [s \in Slots |-> Verdicts!Idle] /\ now = 0
      /\ Verdicts!Day \in Nat \ {0}
  BY DEF Verdicts!Init, VerdictConstants, Verdicts!Day
<1>2. /\ mode \in [Policies -> Verdicts!Actions] /\ assigned \subseteq Policies
      /\ active \subseteq Verdicts!Rules
  BY DEF Verdicts!Init, VerdictConstants, Verdicts!Rules, Verdicts!Actions
<1>3. timeOfDay \in (0 .. Verdicts!Day - 1) \X (0 .. Verdicts!Day - 1)
  <2>1. timeOfDay \in Starts \X Ends \/ timeOfDay = <<0, 0>>
    BY DEF Verdicts!Init
  <2>2. 0 \in 0 .. Verdicts!Day - 1
    BY <1>1
  <2>3. /\ Starts \subseteq 0 .. Verdicts!Day - 1 /\ Ends \subseteq 0 .. Verdicts!Day - 1
    BY DEF VerdictConstants
  <2> DEFINE M == 0 .. Verdicts!Day - 1
  <2> HIDE DEF M
  <2>4. CASE timeOfDay \in Starts \X Ends
    <3>1. PICK a \in Starts, b \in Ends : timeOfDay = <<a, b>>
      BY <2>4
    <3>2. a \in M /\ b \in M
      BY <2>3 DEF M
    <3>3. timeOfDay \in M \X M
      BY <3>1, <3>2
    <3> QED
      BY <3>3 DEF M
  <2>5. CASE timeOfDay = <<0, 0>>
    BY <2>2, <2>5 DEF M
  <2> QED
    BY <2>1, <2>4, <2>5
<1>4. \A s \in Slots : req[s] \in Submission /\ req[s].at = "idle" /\ req[s].steady = {}
  BY <1>1, IdleType
<1>5. VerdictTypes
  BY <1>1, <1>2, <1>3, <1>4 DEF VerdictTypes
<1>6. SteadyInForce
  BY <1>4 DEF SteadyInForce
<1>7. SteadyCovered
  BY <1>4 DEF SteadyCovered
<1> QED
  BY <1>5, <1>6, <1>7 DEF VerdictInv

\* The steps of one submission.
LEMMA SubmissionSteps ==
    ASSUME VerdictConstants, VerdictInv, NEW s \in Slots,
           \/ \E size \in 1 .. MaxBatch, match \in BOOLEAN : Verdicts!Submit(s, size, match)
           \/ Verdicts!buildRuleScope(s) \/ Verdicts!FindRules(s) \/ Verdicts!checkRateLimit(s)
           \/ Verdicts!CreateLog(s) \/ Verdicts!Commit(s)
    PROVE  VerdictInv'
<1>1. /\ VerdictTypes /\ SteadyInForce /\ SteadyCovered /\ req[s] \in Submission
      /\ req[s].steady \subseteq Verdicts!InForce(now, assigned, active, mode)
  BY DEF VerdictInv, VerdictTypes, SteadyInForce
<1>2. ASSUME NEW size \in 1 .. MaxBatch, NEW match \in BOOLEAN, Verdicts!Submit(s, size, match)
      PROVE  VerdictInv'
  <2> DEFINE y == [Verdicts!Idle EXCEPT !.size = size]
  <2>1. y \in Submission
    BY IdleType DEF Submission
  <2>2. /\ req' = [req EXCEPT ![s] = Verdicts!Entry(y, match)]
        /\ UNCHANGED <<now, rule, mode, assigned, active, timeOfDay>>
    BY <1>2 DEF Verdicts!Submit
  <2> HIDE DEF y
  <2> QED
    BY <2>1, <2>2, EntryStep
<1>3. CASE Verdicts!checkRateLimit(s)
  <2> DEFINE verdict == IF Verdicts!OverLimit(Verdicts!Cardinality(Verdicts!Recent))
                        THEN "flag" ELSE "allow"
             x == [req[s] EXCEPT !.at = "create", !.verdict = verdict]
  <2>1. /\ req' = [req EXCEPT ![s] = x] /\ rule = "rate"
        /\ UNCHANGED <<now, rule, mode, assigned, active, timeOfDay>>
    BY <1>1, <1>3 DEF Verdicts!checkRateLimit, SteadyCovered, VerdictTypes
  <2>2. verdict \in Verdicts!Actions
    BY DEF Verdicts!Actions
  <2> HIDE DEF verdict
  <2>3. x \in Submission /\ x.at = "create" /\ x.steady = req[s].steady
    BY <1>1, <2>2 DEF Submission, Stages
  <2> HIDE DEF x
  <2> QED
    BY <1>1, <2>1, <2>3, SlotStep
<1>4. CASE Verdicts!CreateLog(s)
  <2> DEFINE e == [at |-> now, flagged |-> req[s].verdict # "allow"]
             x == [req[s] EXCEPT !.entries = Append(@, e)]
             y == [x EXCEPT !.at = "commit"]
  <2>1. /\ UNCHANGED <<now, rule, mode, assigned, active, timeOfDay>>
        /\ \/ \E match \in BOOLEAN : req' = [req EXCEPT ![s] = Verdicts!Entry(x, match)]
           \/ req' = [req EXCEPT ![s] = y]
    BY <1>4 DEF Verdicts!CreateLog
  <2>2. Append(req[s].entries, e) \in Seq([at : Nat, flagged : BOOLEAN])
    <3>1. e \in [at : Nat, flagged : BOOLEAN]
      BY <1>1 DEF VerdictTypes
    <3> HIDE DEF e
    <3> QED
      BY <1>1, <3>1, AppendProperties DEF Submission
  <2>3. x \in Submission /\ x.steady = req[s].steady
    <3> HIDE DEF e
    <3> QED
      BY <1>1, <2>2 DEF Submission
  <2> HIDE DEF x
  <2>4. y \in Submission /\ y.at = "commit" /\ y.steady = req[s].steady
    BY <2>3 DEF Submission, Stages
  <2> HIDE DEF y
  <2>5. ASSUME NEW match \in BOOLEAN, req' = [req EXCEPT ![s] = Verdicts!Entry(x, match)]
        PROVE  VerdictInv'
    BY <2>1, <2>3, <2>5, EntryStep
  <2>6. CASE req' = [req EXCEPT ![s] = y]
    BY <1>1, <2>1, <2>4, <2>6, SlotStep
  <2> QED
    BY <2>1, <2>5, <2>6
<1>5. CASE Verdicts!Commit(s)
  <2>1. /\ req' = [req EXCEPT ![s] = Verdicts!Idle]
        /\ UNCHANGED <<now, rule, mode, assigned, active, timeOfDay>>
    BY <1>5 DEF Verdicts!Commit
  <2> QED
    BY <2>1, IdleType, SlotStep
<1> QED
  BY <1>2, <1>3, <1>4, <1>5, ScopeStep, FindStep

LEMMA VerdictNextInv ==
    ASSUME VerdictConstants, VerdictInv, [Verdicts!Next]_Verdicts!vars
    PROVE  VerdictInv'
<1>1. VerdictTypes
  BY DEF VerdictInv
<1>2. CASE UNCHANGED Verdicts!vars
  BY <1>2 DEF Verdicts!vars, VerdictInv, VerdictTypes, SteadyInForce, SteadyCovered,
              Verdicts!Day, Verdicts!InForce, Verdicts!Holds, Verdicts!Open, Verdicts!InScope,
              Verdicts!ACTION_RANK
<1>3. ASSUME NEW as \in SUBSET Policies, NEW on \in SUBSET Verdicts!Rules,
             NEW m \in [Policies -> Verdicts!Actions], Verdicts!Change(as, on, m)
      PROVE  VerdictInv'
  <2>1. /\ rule' = rule /\ timeOfDay' = timeOfDay /\ now' = now
        /\ assigned' = as /\ active' = on /\ mode' = m /\ req' = Verdicts!Keep(now, as, on, m)
    BY <1>3 DEF Verdicts!Change
  <2>2. req' = Verdicts!Keep(now', assigned', active', mode')
    BY <2>1
  <2> QED
    BY <1>1, <2>1, <2>2, KeepStep DEF VerdictTypes
<1>4. ASSUME NEW p \in Policies,
             \/ Verdicts!assignToAgent(p) \/ Verdicts!removeFromAgent(p)
             \/ \E m \in Modes : Verdicts!SetMode(p, m)
      PROVE  VerdictInv'
  <2>1. assigned \cup {p} \in SUBSET Policies /\ assigned \ {p} \in SUBSET Policies
    BY <1>1 DEF VerdictTypes
  <2>2. \A m \in Modes : [mode EXCEPT ![p] = m] \in [Policies -> Verdicts!Actions]
    BY <1>1 DEF VerdictTypes, VerdictConstants
  <2> QED
    BY <1>1, <1>3, <1>4, <2>1, <2>2
       DEF VerdictTypes, Verdicts!assignToAgent, Verdicts!removeFromAgent, Verdicts!SetMode
<1>5. ASSUME NEW r \in Verdicts!Rules, NEW on \in BOOLEAN, Verdicts!SetActive(r, on)
      PROVE  VerdictInv'
  <2>1. (IF on THEN active \cup {r} ELSE active \ {r}) \in SUBSET Verdicts!Rules
    BY <1>1 DEF VerdictTypes
  <2> QED
    BY <1>1, <1>3, <1>5, <2>1 DEF VerdictTypes, Verdicts!SetActive
<1>6. CASE Verdicts!Tick
  <2>1. /\ now' = now + 1 /\ UNCHANGED <<rule, mode, assigned, active, timeOfDay>>
        /\ req' = Verdicts!Keep(now', assigned, active, mode)
    BY <1>6 DEF Verdicts!Tick
  <2>2. /\ now' \in Nat /\ req' = Verdicts!Keep(now', assigned', active', mode')
    BY <1>1, <2>1 DEF VerdictTypes
  <2> QED
    BY <1>1, <2>1, <2>2, KeepStep DEF VerdictTypes
<1> QED
  BY <1>2, <1>4, <1>5, <1>6, SubmissionSteps DEF Verdicts!Next

\* A rule that was in force from the moment an entry was taken up until its verdict has its
\* action or a stronger one carried out when it matches (evaluateComplianceRules), for any
\* policies, modes, windows in minutes of the day and number of concurrent changes.
THEOREM VerdictsCover == ASSUME VerdictConstants PROVE MCSpec => []VerdictCovers
<1>1. VerdictInv => VerdictCovers
  BY DEF VerdictInv, SteadyCovered, VerdictCovers, Verdicts!VerdictCovers
<1>2. Verdicts!Init => VerdictInv
  BY VerdictInitInv
<1>3. VerdictInv /\ [Verdicts!Next]_Verdicts!vars => VerdictInv'
  BY VerdictNextInv
<1>4. Verdicts!Spec => []VerdictInv
  BY <1>2, <1>3, PTL DEF Verdicts!Spec
<1> QED
  BY <1>1, <1>4, VerdictsRun, PTL

-----------------------------------------------------------------------------
(* The rate rule.                                                          *)

StoredLog == [at : Nat, flagged : BOOLEAN]
Places == Slots \X (1 .. MaxBatch)

\* An entry that escapes the rate rule in the window that ends at t, or still may: it was
\* let pass and is inserted at the time of that moment.
MayEscape(x, i, t) ==
    \/ i \in DOMAIN x.entries /\ x.entries[i].at \in t - Window .. t /\ ~x.entries[i].flagged
    \/ i = Len(x.entries) + 1 /\ x.at = "create" /\ x.verdict = "allow" /\ now <= t

\* The entries of the submissions under way that do.
Underway(t) == {e \in Places : MayEscape(req[e[1]], e[2], t)}

\* Under the rate rule a submission has no more entries than its size.
Sized(x) ==
    /\ x.at \notin {"scope", "rules"}
    /\ x.at \in {"rate", "create"} => Len(x.entries) < x.size
    /\ x.at = "idle" => x.entries = <<>>
    /\ Len(x.entries) <= x.size

Charged(t) ==
    Cardinality(Verdicts!Escaped(t)) + Cardinality(Underway(t)) <= MaxRequests + Cardinality(Places)

RateInv ==
    /\ VerdictTypes /\ stored \in Seq(StoredLog)
    /\ rule # "rate" => stored = <<>>
    /\ rule = "rate" =>
        /\ \A s \in Slots : Sized(req[s])
        /\ \A t \in Nat : Charged(t)

RateConstants ==
    /\ IsFiniteSet(Slots) /\ Slots # {}
    /\ MaxRequests \in Nat /\ MaxBatch \in Nat /\ Window \in Nat

LEMMA VerdictCardinality == \A S : Verdicts!Cardinality(S) = Cardinality(S)
BY DEF Cardinality, Verdicts!Cardinality

\* The sets that are counted are finite.
LEMMA PlacesCount ==
    ASSUME RateConstants
    PROVE  /\ IsFiniteSet(Places) /\ Cardinality(Places) \in Nat
           /\ Cardinality(Places) = Cardinality(Slots) * MaxBatch
<1>1. IsFiniteSet(1 .. MaxBatch) /\ Cardinality(1 .. MaxBatch) = MaxBatch
  BY FS_Interval DEF RateConstants
<1>2. IsFiniteSet(Slots)
  BY DEF RateConstants
<1> QED
  BY <1>1, <1>2, FS_Product, FS_CardinalityType DEF Places

LEMMA UnderwayCount ==
    ASSUME RateConstants, NEW t
    PROVE  /\ IsFiniteSet(Underway(t)) /\ Cardinality(Underway(t)) \in Nat
           /\ Cardinality(Underway(t)) <= Cardinality(Places)
<1>1. Underway(t) \in SUBSET Places
  BY DEF Underway
<1> QED
  BY <1>1, PlacesCount, FS_Subset, FS_CardinalityType

LEMMA StoredCount ==
    ASSUME stored \in Seq(StoredLog)
    PROVE  \A S \in SUBSET DOMAIN stored : IsFiniteSet(S) /\ Cardinality(S) \in Nat
<1>1. DOMAIN stored = 1 .. Len(stored) /\ Len(stored) \in Nat
  BY LenProperties
<1>2. IsFiniteSet(DOMAIN stored)
  BY <1>1, FS_Interval
<1> QED
  BY <1>2, FS_Subset, FS_CardinalityType

LEMMA EscapedCount ==
    ASSUME stored \in Seq(StoredLog), NEW t
    PROVE  IsFiniteSet(Verdicts!Escaped(t)) /\ Cardinality(Verdicts!Escaped(t)) \in Nat
<1>1. Verdicts!Escaped(t) \in SUBSET DOMAIN stored
  BY DEF Verdicts!Escaped
<1> QED
  BY <1>1, StoredCount

LEMMA RateInitInv ==
    ASSUME VerdictConstants, RateConstants, Verdicts!Init
    PROVE  RateInv
<1>1. VerdictTypes
  BY VerdictInitInv DEF VerdictInv
<1>2. /\ req = [s \in Slots |-> Verdicts!Idle] /\ now = 0 /\ rule \in {"texts", "rate"}
      /\ \E m \in {0, MaxBatch} : stored = Verdicts!Stored(m) /\ (rule = "texts" => m = 0)
  BY DEF Verdicts!Init
<1>3. PICK m \in {0, MaxBatch} : stored = Verdicts!Stored(m) /\ (rule = "texts" => m = 0)
  BY <1>2
<1>4. m \in Nat /\ stored = [i \in 1 .. m |-> [at |-> 0, flagged |-> FALSE]]
  BY <1>3 DEF RateConstants, Verdicts!Stored
<1>5. [at |-> 0, flagged |-> FALSE] \in StoredLog
  BY DEF StoredLog
<1>6. stored \in Seq(StoredLog) /\ DOMAIN stored = 1 .. m
  <2> DEFINE e == [at |-> 0, flagged |-> FALSE]
  <2>1. e \in StoredLog
    BY <1>5
  <2>2. stored = [i \in 1 .. m |-> e]
    BY <1>4
  <2> HIDE DEF e
  <2>3. stored \in [1 .. m -> StoredLog] /\ DOMAIN stored = 1 .. m
    BY <2>1, <2>2
  <2> QED
    BY <1>4, <2>3, SeqDef
<1>7. rule = "texts" => stored = <<>>
  <2> SUFFICES ASSUME rule = "texts" PROVE stored = <<>>
    OBVIOUS
  <2>1. m = 0
    BY <1>3
  <2>2. Len(stored) = 0
    BY <1>4, <1>6, <2>1, LenProperties
  <2> QED
    BY <1>6, <2>2, EmptySeq
<1>8. \A s \in Slots : Sized(req[s])
  <2>1. /\ Verdicts!Idle.at = "idle" /\ Verdicts!Idle.entries = <<>> /\ Verdicts!Idle.size = 0
        /\ Len(<<>>) = 0
    BY DEF Verdicts!Idle
  <2> QED
    BY <1>2, <2>1 DEF Sized
<1>9. ASSUME NEW t \in Nat PROVE Charged(t)
  <2>1. Underway(t) = {}
    <3>1. /\ Verdicts!Idle.at = "idle" /\ Verdicts!Idle.entries = <<>> /\ DOMAIN <<>> = {}
      BY DEF Verdicts!Idle
    <3>2. \A s \in Slots : \A i \in 1 .. MaxBatch : ~MayEscape(req[s], i, t)
      BY <1>2, <3>1 DEF MayEscape
    <3> QED
      BY <3>2 DEF Underway, Places
  <2>2. Verdicts!Escaped(t) \in SUBSET (1 .. m)
    BY <1>6 DEF Verdicts!Escaped
  <2>3. IsFiniteSet(1 .. m) /\ Cardinality(1 .. m) = m
    BY <1>4, FS_Interval
  <2>4. /\ Cardinality(Verdicts!Escaped(t)) <= m /\ Cardinality(Verdicts!Escaped(t)) \in Nat
        /\ Cardinality(Underway(t)) = 0
    BY <2>1, <2>2, <2>3, FS_Subset, FS_CardinalityType, FS_EmptySet
  <2>5. m <= Cardinality(Places)
    <3>1. Cardinality(Slots) \in Nat /\ Cardinality(Slots) # 0
      BY FS_CardinalityType, FS_EmptySet DEF RateConstants
    <3>2. \A n \in Nat, b \in Nat : n # 0 => b <= n * b
      <4> SUFFICES ASSUME NEW n \in Nat, NEW b \in Nat, n # 0 PROVE b <= n * b
        OBVIOUS
      <4>1. PICK p \in Nat : n = p + 1
        BY n - 1 \in Nat
      <4>2. n * b = p * b + b /\ p * b \in Nat
        BY <4>1
      <4> QED
        BY <4>2
    <3>3. m <= MaxBatch /\ MaxBatch \in Nat
      BY <1>3 DEF RateConstants
    <3>4. MaxBatch <= Cardinality(Slots) * MaxBatch
      BY <3>1, <3>2, <3>3
    <3> QED
      BY <1>4, <3>3, <3>4, PlacesCount
  <2> QED
    BY <1>4, <2>4, <2>5, PlacesCount DEF Charged, RateConstants
<1> QED
  BY <1>1, <1>2, <1>6, <1>7, <1>8, <1>9 DEF RateInv

\* A step of one submission after which nothing more may escape, unless the rule was asked.
LEMMA NoMoreUnderway ==
    ASSUME RateConstants, RateInv, rule = "rate", VerdictTypes', UNCHANGED <<rule, stored>>,
           \A s \in Slots : Sized(req'[s]),
           \A t \in Nat : Underway(t)' \subseteq Underway(t)
    PROVE  RateInv'
<1>1. ASSUME NEW t \in Nat PROVE Charged(t)'
  <2>1. Verdicts!Escaped(t)' = Verdicts!Escaped(t)
    BY DEF Verdicts!Escaped
  <2>2. Cardinality(Underway(t)') <= Cardinality(Underway(t)) /\ Cardinality(Underway(t)') \in Nat
    BY UnderwayCount, FS_Subset, FS_CardinalityType
  <2>3. Cardinality(Verdicts!Escaped(t)) \in Nat /\ Cardinality(Underway(t)) \in Nat
    BY EscapedCount, UnderwayCount DEF RateInv
  <2>4. Charged(t)
    BY DEF RateInv
  <2> QED
    BY <2>1, <2>2, <2>3, <2>4, PlacesCount DEF Charged, RateConstants
<1>2. \A t \in Nat : Charged(t)'
  BY <1>1
<1> QED
  BY <1>2 DEF RateInv

\* A slot whose new state lets nothing more escape.
LEMMA SlotUnderway ==
    ASSUME RateInv, UNCHANGED now, NEW s \in Slots, NEW x, req' = [req EXCEPT ![s] = x], NEW t \in Nat,
           \A i \in 1 .. MaxBatch : MayEscape(x, i, t) => MayEscape(req[s], i, t)
    PROVE  Underway(t)' \subseteq Underway(t)
<1>1. \A r \in Slots : req'[r] = IF r = s THEN x ELSE req[r]
  BY DEF RateInv, VerdictTypes
<1>2. \A r \in Slots, i \in 1 .. MaxBatch : MayEscape(req[r], i, t)' => MayEscape(req[r], i, t)
  BY <1>1 DEF MayEscape
<1> QED
  BY <1>2 DEF Underway, Places

LEMMA RateSubmit ==
    ASSUME RateConstants, RateInv, rule = "rate", VerdictTypes', NEW s \in Slots,
           NEW size \in 1 .. MaxBatch, NEW match \in BOOLEAN, Verdicts!Submit(s, size, match)
    PROVE  RateInv'
<1> DEFINE x == Verdicts!Entry([Verdicts!Idle EXCEPT !.size = size], match)
<1>1. /\ req' = [req EXCEPT ![s] = x] /\ UNCHANGED <<now, rule, stored>>
  BY DEF Verdicts!Submit
<1>2. x.at = "rate" /\ x.entries = <<>> /\ x.size = size
  BY DEF Verdicts!Entry, Verdicts!Idle
<1>3. req \in [Slots -> Submission] /\ Len(<<>>) = 0 /\ DOMAIN <<>> = {}
  BY DEF RateInv, VerdictTypes
<1> HIDE DEF x
<1>4. Sized(x)
  BY <1>2, <1>3 DEF Sized
<1>5. \A i, t : ~MayEscape(x, i, t)
  BY <1>2, <1>3 DEF MayEscape
<1>6. \A r \in Slots : Sized(req'[r])
  BY <1>1, <1>3, <1>4 DEF RateInv
<1>7. \A t \in Nat : Underway(t)' \subseteq Underway(t)
  BY <1>1, <1>5, SlotUnderway
<1> QED
  BY <1>1, <1>6, <1>7, NoMoreUnderway

\* checkRateLimit lets an entry pass at a moment when no more than the limit is stored in
\* the window that ends now, and so in every later one.
LEMMA RateCheck ==
    ASSUME RateConstants, RateInv, rule = "rate", VerdictTypes', NEW s \in Slots,
           Verdicts!checkRateLimit(s)
    PROVE  RateInv'
<1> DEFINE verdict == IF Verdicts!OverLimit(Verdicts!Cardinality(Verdicts!Recent))
                      THEN "flag" ELSE "allow"
           x == [req[s] EXCEPT !.at = "create", !.verdict = verdict]
<1>1. /\ req' = [req EXCEPT ![s] = x] /\ req[s].at = "rate"
      /\ UNCHANGED <<now, rule, stored>>
  <2>1. req' = [req EXCEPT ![s].at = "create", ![s].verdict = verdict]
    BY DEF Verdicts!checkRateLimit
  <2>2. req \in [Slots -> Submission]
    BY DEF RateInv, VerdictTypes
  <2> HIDE DEF verdict
  <2> QED
    BY <2>1, <2>2 DEF Verdicts!checkRateLimit
<1>2. /\ req \in [Slots -> Submission] /\ req[s] \in Submission /\ now \in Nat
      /\ stored \in Seq(StoredLog) /\ \A r \in Slots : Sized(req[r])
  BY DEF RateInv, VerdictTypes
<1>3. /\ x.at = "create" /\ x.entries = req[s].entries /\ x.size = req[s].size
      /\ x.verdict = verdict
  BY <1>2 DEF Submission
<1>4. verdict = "allow" => Cardinality(Verdicts!Recent) <= MaxRequests
  <2>1. Verdicts!Recent \in SUBSET DOMAIN stored
    BY DEF Verdicts!Recent
  <2>2. Cardinality(Verdicts!Recent) \in Nat
    BY <1>2, <2>1, StoredCount
  <2> QED
    BY <2>2, VerdictCardinality DEF Verdicts!OverLimit, RateConstants
<1> HIDE DEF x, verdict
<1>5. \A r \in Slots : Sized(req'[r])
  BY <1>1, <1>2, <1>3 DEF Sized
<1>6. \A t : Verdicts!Escaped(t)' = Verdicts!Escaped(t)
  BY <1>1 DEF Verdicts!Escaped
<1>7. ASSUME NEW t \in Nat PROVE Charged(t)'
  <2>1. CASE verdict = "allow" /\ now <= t
    <3>1. Verdicts!Escaped(t) \subseteq Verdicts!Recent
      <4>1. \A i \in DOMAIN stored : stored[i].at \in Nat
        <5> SUFFICES ASSUME NEW i \in DOMAIN stored PROVE stored[i].at \in Nat
          OBVIOUS
        <5>1. i \in 1 .. Len(stored)
          BY <1>2, LenProperties
        <5>2. stored[i] \in StoredLog
          BY <1>2, <5>1, ElementOfSeq
        <5> QED
          BY <5>2 DEF StoredLog
      <4>2. \A n \in Nat : n \in t - Window .. t => n >= now - Window
        BY <1>2, <2>1 DEF RateConstants
      <4> QED
        BY <4>1, <4>2 DEF Verdicts!Escaped, Verdicts!Recent
    <3>2. /\ IsFiniteSet(Verdicts!Recent) /\ Cardinality(Verdicts!Recent) \in Nat
      <4>1. Verdicts!Recent \in SUBSET DOMAIN stored
        BY DEF Verdicts!Recent
      <4> QED
        BY <1>2, <4>1, StoredCount
    <3>3. /\ Cardinality(Verdicts!Escaped(t)) <= Cardinality(Verdicts!Recent)
      BY <3>1, <3>2, FS_Subset
    <3>4. /\ Cardinality(Underway(t)') <= Cardinality(Places) /\ Cardinality(Underway(t)') \in Nat
      <4>1. Underway(t)' \in SUBSET Places
        BY DEF Underway
      <4> QED
        BY <4>1, PlacesCount, FS_Subset, FS_CardinalityType
    <3>5. Cardinality(Verdicts!Escaped(t)) \in Nat
      BY <1>2, EscapedCount
    <3> QED
      BY <1>4, <1>6, <2>1, <3>2, <3>3, <3>4, <3>5, PlacesCount DEF Charged, RateConstants
  <2>2. CASE ~(verdict = "allow" /\ now <= t)
    <3>1. \A i : MayEscape(x, i, t) => MayEscape(req[s], i, t)
      BY <1>3, <2>2 DEF MayEscape
    <3>2. Underway(t)' \subseteq Underway(t)
      BY <1>1, <3>1, SlotUnderway
    <3>3. /\ Cardinality(Underway(t)') <= Cardinality(Underway(t))
          /\ Cardinality(Underway(t)') \in Nat /\ Cardinality(Underway(t)) \in Nat
      BY <3>2, UnderwayCount, FS_Subset, FS_CardinalityType
    <3>4. Cardinality(Verdicts!Escaped(t)) \in Nat
      BY <1>2, EscapedCount
    <3>5. Charged(t)
      BY DEF RateInv
    <3> QED
      BY <1>6, <3>3, <3>4, <3>5, PlacesCount DEF Charged, RateConstants
  <2> QED
    BY <2>1, <2>2
<1>8. \A t \in Nat : Charged(t)'
  BY <1>7
<1> QED
  BY <1>1, <1>2, <1>5, <1>8 DEF RateInv

LEMMA RateCreate ==
    ASSUME RateConstants, RateInv, rule = "rate", VerdictTypes', NEW s \in Slots,
           Verdicts!CreateLog(s)
    PROVE  RateInv'
<1> DEFINE e == [at |-> now, flagged |-> req[s].verdict # "allow"]
           x == [req[s] EXCEPT !.entries = Append(@, e)]
           y == req'[s]
<1>1. /\ req \in [Slots -> Submission] /\ req[s] \in Submission /\ now \in Nat
      /\ \A r \in Slots : Sized(req[r])
  BY DEF RateInv, VerdictTypes
<1>2. /\ x.entries = Append(req[s].entries, e) /\ x.size = req[s].size
      /\ req[s].entries \in Seq(StoredLog) /\ req[s].size \in Nat
  BY <1>1 DEF Submission, StoredLog, RateConstants
<1>3. /\ req[s].at = "create" /\ UNCHANGED <<now, rule, stored>>
      /\ \/ /\ Len(x.entries) < x.size
            /\ \E match \in BOOLEAN : req' = [req EXCEPT ![s] = Verdicts!Entry(x, match)]
         \/ /\ Len(x.entries) = x.size
            /\ req' = [req EXCEPT ![s] = [x EXCEPT !.at = "commit"]]
  BY DEF Verdicts!CreateLog
<1>4. req[s].entries \in Seq(StoredLog) /\ e \in StoredLog
  BY <1>1, <1>2 DEF StoredLog
<1>5. e.at = now /\ e.flagged = (req[s].verdict # "allow")
  OBVIOUS
<1>6. \A m \in BOOLEAN : /\ Verdicts!Entry(x, m).at = "rate"
                         /\ Verdicts!Entry(x, m).entries = x.entries
                         /\ Verdicts!Entry(x, m).size = x.size
  BY <1>1 DEF Verdicts!Entry, Submission
<1>7. /\ [x EXCEPT !.at = "commit"].at = "commit" /\ [x EXCEPT !.at = "commit"].entries = x.entries
      /\ [x EXCEPT !.at = "commit"].size = x.size
  BY <1>1 DEF Submission
<1> HIDE DEF x, e
<1>8. /\ req' = [req EXCEPT ![s] = y] /\ y.entries = x.entries /\ y.size = x.size
      /\ y.at \in {"rate", "commit"}
      /\ y.at = "rate" => Len(x.entries) < x.size
      /\ Len(x.entries) <= x.size
  <2>1. Len(x.entries) \in Nat /\ x.size \in Nat
    BY <1>2, <1>4, AppendProperties, LenProperties
  <2>2. CASE /\ Len(x.entries) < x.size
             /\ \E match \in BOOLEAN : req' = [req EXCEPT ![s] = Verdicts!Entry(x, match)]
    <3>1. PICK m \in BOOLEAN : req' = [req EXCEPT ![s] = Verdicts!Entry(x, m)]
      BY <2>2
    <3>2. y = Verdicts!Entry(x, m)
      BY <1>1, <3>1
    <3>3. y.at = "rate" /\ y.entries = x.entries /\ y.size = x.size
      BY <1>6, <3>2
    <3>4. req' = [req EXCEPT ![s] = y]
      BY <3>1, <3>2
    <3>5. Len(x.entries) < x.size
      BY <2>2
    <3>6. Len(x.entries) <= x.size
      BY <2>1, <3>5
    <3> HIDE DEF y
    <3>7. y.at \in {"rate", "commit"}
      BY <3>3
    <3> QED
      BY <3>3, <3>4, <3>5, <3>6, <3>7, Zenon
  <2>3. CASE /\ Len(x.entries) = x.size
             /\ req' = [req EXCEPT ![s] = [x EXCEPT !.at = "commit"]]
    <3>1. y = [x EXCEPT !.at = "commit"]
      BY <1>1, <2>3
    <3>2. y.at = "commit" /\ y.entries = x.entries /\ y.size = x.size
      BY <1>7, <3>1
    <3>3. req' = [req EXCEPT ![s] = y]
      BY <2>3, <3>1
    <3>4. Len(x.entries) <= x.size
      BY <2>1, <2>3
    <3> HIDE DEF y
    <3>5. y.at \in {"rate", "commit"} /\ y.at # "rate"
      BY <3>2
    <3> QED
      BY <3>2, <3>3, <3>4, <3>5, Zenon
  <2> QED
    BY <1>3, <2>2, <2>3
<1> HIDE DEF y
<1>9. /\ Len(y.entries) = Len(req[s].entries) + 1 /\ DOMAIN y.entries = 1 .. Len(req[s].entries) + 1
      /\ DOMAIN req[s].entries = 1 .. Len(req[s].entries) /\ Len(req[s].entries) \in Nat
      /\ \A i \in 1 .. Len(req[s].entries) : y.entries[i] = req[s].entries[i]
      /\ y.entries[Len(req[s].entries) + 1] = e
  <2>1. y.entries = Append(req[s].entries, e)
    BY <1>2, <1>8
  <2>2. DOMAIN req[s].entries = 1 .. Len(req[s].entries) /\ Len(req[s].entries) \in Nat
    BY <1>4, LenProperties
  <2>3. /\ Append(req[s].entries, e) \in Seq(StoredLog)
        /\ Len(Append(req[s].entries, e)) = Len(req[s].entries) + 1
        /\ \A i \in 1 .. Len(req[s].entries) :
             Append(req[s].entries, e)[i] = req[s].entries[i]
        /\ Append(req[s].entries, e)[Len(req[s].entries) + 1] = e
    BY <1>4, <2>2, AppendProperties
  <2>4. DOMAIN y.entries = 1 .. Len(y.entries)
    BY <2>1, <2>3, LenProperties
  <2> QED
    BY <2>1, <2>2, <2>3, <2>4
<1>10. Sized(y)
  BY <1>8 DEF Sized
<1>11. \A r \in Slots : Sized(req'[r])
  BY <1>1, <1>8, <1>10
<1>12. ASSUME NEW t \in Nat, NEW i \in 1 .. MaxBatch, MayEscape(y, i, t)
       PROVE  MayEscape(req[s], i, t)
  <2>1. i \in DOMAIN y.entries /\ y.entries[i].at \in t - Window .. t /\ ~y.entries[i].flagged
    BY <1>8, <1>12 DEF MayEscape
  <2>2. CASE i \in 1 .. Len(req[s].entries)
    BY <1>9, <2>1, <2>2 DEF MayEscape
  <2>3. CASE i = Len(req[s].entries) + 1
    <3>1. now \in t - Window .. t /\ req[s].verdict = "allow"
      BY <1>5, <1>9, <2>1, <2>3
    <3> QED
      BY <1>1, <1>3, <2>3, <3>1 DEF MayEscape
  <2> QED
    BY <1>9, <2>1, <2>2, <2>3
<1>13. \A t \in Nat : Underway(t)' \subseteq Underway(t)
  BY <1>3, <1>8, <1>12, SlotUnderway
<1> QED
  BY <1>3, <1>11, <1>13, NoMoreUnderway

\* The commit moves what escapes from the submission to the stored logs.
LEMMA RateCommit ==
    ASSUME RateConstants, RateInv, rule = "rate", VerdictTypes', NEW s \in Slots,
           Verdicts!Commit(s)
    PROVE  RateInv'
<1> DEFINE entries == req[s].entries
           n == Len(stored)
<1>1. /\ req' = [req EXCEPT ![s] = Verdicts!Idle] /\ UNCHANGED <<now, rule>>
      /\ stored' = stored \o entries \/ stored' = stored
  BY DEF Verdicts!Commit
<1>2. /\ req \in [Slots -> Submission] /\ now \in Nat /\ \A r \in Slots : Sized(req[r])
      /\ stored \in Seq(StoredLog) /\ entries \in Seq(StoredLog) /\ req[s].size \in 0 .. MaxBatch
  <2>1. /\ req \in [Slots -> Submission] /\ now \in Nat /\ stored \in Seq(StoredLog)
    BY DEF RateInv, VerdictTypes
  <2>2. \A r \in Slots : Sized(req[r])
    BY DEF RateInv
  <2>3. req[s] \in Submission
    BY <2>1
  <2>4. entries \in Seq(StoredLog) /\ req[s].size \in {0} \cup 1 .. MaxBatch
    BY <2>3 DEF Submission, StoredLog
  <2>5. req[s].size \in 0 .. MaxBatch
    BY <2>4 DEF RateConstants
  <2> QED
    BY <2>1, <2>2, <2>4, <2>5
<1>3. /\ Verdicts!Idle.at = "idle" /\ Verdicts!Idle.entries = <<>> /\ Verdicts!Idle.size = 0
      /\ Len(<<>>) = 0 /\ DOMAIN <<>> = {}
  BY DEF Verdicts!Idle
<1>4. Sized(Verdicts!Idle) /\ \A i, t : ~MayEscape(Verdicts!Idle, i, t)
  BY <1>3 DEF Sized, MayEscape
<1>5. \A r \in Slots : Sized(req'[r])
  BY <1>1, <1>2, <1>4
<1>6. \A t \in Nat : Underway(t)' \subseteq Underway(t)
  BY <1>1, <1>4, SlotUnderway
<1>7. CASE stored' = stored
  BY <1>1, <1>5, <1>6, <1>7, NoMoreUnderway
<1>8. CASE stored' = stored \o entries
  <2>1. /\ stored' \in Seq(StoredLog) /\ n \in Nat /\ Len(entries) \in Nat
        /\ DOMAIN stored = 1 .. n /\ DOMAIN entries = 1 .. Len(entries)
        /\ Len(stored') = n + Len(entries) /\ DOMAIN stored' = 1 .. n + Len(entries)
        /\ \A i \in 1 .. n : stored'[i] = stored[i]
        /\ \A i \in 1 .. Len(entries) : stored'[n + i] = entries[i]
        /\ Len(entries) <= MaxBatch
    BY <1>2, <1>8, ConcatProperties, LenProperties DEF Sized, RateConstants
  <2> HIDE DEF n, entries
  <2>2. ASSUME NEW t \in Nat PROVE Charged(t)'
    <3> DEFINE Old == Verdicts!Escaped(t)
               New == {j \in n + 1 .. n + Len(entries) :
                         stored'[j].at \in t - Window .. t /\ ~stored'[j].flagged}
               Left == Underway(t) \ Underway(t)'
               f == [j \in New |-> <<s, j - n>>]
    <3>1. Verdicts!Escaped(t)' = Old \cup New /\ Old \cap New = {}
      BY <2>1 DEF Verdicts!Escaped
    <3>2. f \in Injection(New, Left)
      <4>1. ASSUME NEW j \in New PROVE <<s, j - n>> \in Left
        <5>1. /\ j - n \in 1 .. Len(entries) /\ stored'[j] = entries[j - n]
              /\ j - n \in 1 .. MaxBatch
          <6>1. j \in n + 1 .. n + Len(entries) /\ j = n + (j - n) /\ j - n \in 1 .. Len(entries)
            BY <2>1
          <6> QED
            BY <2>1, <6>1 DEF RateConstants
        <5>2. MayEscape(req[s], j - n, t)
          BY <2>1, <5>1 DEF MayEscape, entries
        <5>3. <<s, j - n>> \in Underway(t)
          BY <5>1, <5>2 DEF Underway, Places
        <5>4. req'[s] = Verdicts!Idle
          BY <1>1, <1>2
        <5>5. ASSUME <<s, j - n>> \in Underway(t)' PROVE FALSE
          <6> DEFINE e == <<s, j - n>>
          <6>1. \/ e[2] \in DOMAIN req'[e[1]].entries
                \/ req'[e[1]].at = "create"
            BY <5>5 DEF Underway, MayEscape
          <6>2. e[1] = s
            OBVIOUS
          <6> QED
            BY <1>3, <5>4, <6>1, <6>2
        <5> QED
          BY <5>3, <5>5
      <4>2. \A j, k \in New : <<s, j - n>> = <<s, k - n>> => j = k
        BY <2>1
      <4> QED
        BY <4>1, <4>2 DEF Injection, IsInjective
    <3>3. IsFiniteSet(Left)
      BY UnderwayCount, FS_Difference
    <3> HIDE DEF f, New, Left, Old
    <3>4. IsFiniteSet(New) /\ Cardinality(New) <= Cardinality(Left)
      BY <3>2, <3>3, FS_Injection
    <3>5. /\ IsFiniteSet(Old) /\ Cardinality(Old) \in Nat
          /\ IsFiniteSet(Underway(t)) /\ Cardinality(Underway(t)) \in Nat
      BY <1>2, EscapedCount, UnderwayCount DEF Old
    <3>6. Cardinality(Old \cup New) = Cardinality(Old) + Cardinality(New)
      <4>1. Cardinality(Old \cap New) = 0
        BY <3>1, FS_EmptySet
      <4>2. Cardinality(Old \cup New) = Cardinality(Old) + Cardinality(New) - Cardinality(Old \cap New)
        BY <3>4, <3>5, FS_Union
      <4>3. Cardinality(New) \in Nat
        BY <3>4, FS_CardinalityType
      <4> QED
        BY <3>5, <4>1, <4>2, <4>3
    <3>7. Cardinality(Underway(t)) = Cardinality(Left) + Cardinality(Underway(t)')
      <4>1. Underway(t)' \subseteq Underway(t)
        BY <1>6
      <4>2. IsFiniteSet(Underway(t)')
        BY <3>5, <4>1, FS_Subset
      <4>3. Cardinality(Left) = Cardinality(Underway(t)) - Cardinality(Underway(t) \cap Underway(t)')
        BY <3>5, FS_Difference DEF Left
      <4>4. Underway(t) \cap Underway(t)' = Underway(t)'
        BY <4>1
      <4>5. Cardinality(Underway(t)') \in Nat
        BY <4>2, FS_CardinalityType
      <4>6. Cardinality(Left) = Cardinality(Underway(t)) - Cardinality(Underway(t)')
        BY <4>3, <4>4
      <4>7. \A a, b, c : a \in Nat /\ c \in Nat /\ b = a - c => a = b + c
        OBVIOUS
      <4> QED
        BY <3>5, <4>5, <4>6, <4>7
    <3>8. /\ Cardinality(New) \in Nat /\ Cardinality(Left) \in Nat
          /\ Cardinality(Underway(t)') \in Nat
      BY <1>6, <3>3, <3>4, <3>5, FS_Subset, FS_CardinalityType
    <3>9. Cardinality(Old) + Cardinality(Underway(t)) <= MaxRequests + Cardinality(Places)
      BY DEF RateInv, Charged, Old
    <3>10. Cardinality(Verdicts!Escaped(t)') + Cardinality(Underway(t)')
             <= MaxRequests + Cardinality(Places)
      BY <3>1, <3>4, <3>5, <3>6, <3>7, <3>8, <3>9, PlacesCount DEF RateConstants
    <3> QED
      BY <3>10 DEF Charged
  <2>3. \A t \in Nat : Charged(t)'
    BY <2>2
  <2> QED
    BY <1>1, <1>5, <2>1, <2>3 DEF RateInv
<1> QED
  BY <1>1, <1>7, <1>8

LEMMA RateNextInv ==
    ASSUME RateConstants, RateInv, VerdictTypes', [Verdicts!Next]_Verdicts!vars
    PROVE  RateInv'
<1>1. VerdictTypes /\ rule' = rule
  BY DEF RateInv, Verdicts!Next, Verdicts!vars, Verdicts!Submit, Verdicts!buildRuleScope,
         Verdicts!FindRules, Verdicts!checkRateLimit, Verdicts!CreateLog, Verdicts!Commit,
         Verdicts!Change, Verdicts!assignToAgent, Verdicts!removeFromAgent, Verdicts!SetMode,
         Verdicts!SetActive, Verdicts!Tick
<1>2. ASSUME \A s \in Slots : ~Verdicts!Commit(s) PROVE stored' = stored
  BY <1>2 DEF Verdicts!Next, Verdicts!vars, Verdicts!Submit, Verdicts!buildRuleScope,
         Verdicts!FindRules, Verdicts!checkRateLimit, Verdicts!CreateLog,
         Verdicts!Change, Verdicts!assignToAgent, Verdicts!removeFromAgent, Verdicts!SetMode,
         Verdicts!SetActive, Verdicts!Tick
<1>3. CASE rule # "rate"
  <2>1. stored' = stored
    BY <1>2, <1>3 DEF Verdicts!Commit
  <2> QED
    BY <1>1, <1>3, <2>1 DEF RateInv
<1>4. CASE rule = "rate"
  <2>1. CASE UNCHANGED Verdicts!vars
    <3>1. \A t \in Nat : Underway(t)' \subseteq Underway(t)
      <4>1. req' = req
        BY <2>1 DEF Verdicts!vars
      <4>2. now' = now
        BY <2>1 DEF Verdicts!vars
      <4>3. \A t \in Nat, s \in Slots, i \in 1 .. MaxBatch :
              MayEscape(req[s], i, t)' => MayEscape(req[s], i, t)
        BY <4>1, <4>2 DEF MayEscape
      <4> SUFFICES ASSUME NEW t \in Nat, NEW e \in Underway(t)' PROVE e \in Underway(t)
        OBVIOUS
      <4>4. e \in Places /\ e[1] \in Slots /\ e[2] \in 1 .. MaxBatch
        BY DEF Underway, Places
      <4>5. MayEscape(req[e[1]], e[2], t)'
        BY <4>4 DEF Underway
      <4> QED
        BY <4>3, <4>4, <4>5 DEF Underway
    <3>2. \A s \in Slots : Sized(req'[s])
      BY <1>4, <2>1 DEF Verdicts!vars, RateInv
    <3> QED
      BY <1>4, <2>1, <3>1, <3>2, NoMoreUnderway DEF Verdicts!vars
  <2>2. CASE Verdicts!Tick
    <3>1. /\ now' = now + 1 /\ now \in Nat /\ UNCHANGED <<rule, stored>>
          /\ req' = Verdicts!Keep(now', assigned, active, mode)
      BY <1>1, <2>2 DEF Verdicts!Tick, VerdictTypes
    <3>2. \A s \in Slots : /\ req'[s].at = req[s].at /\ req'[s].entries = req[s].entries
                           /\ req'[s].size = req[s].size /\ req'[s].verdict = req[s].verdict
      <4>1. req \in [Slots -> Submission]
        BY <1>1 DEF VerdictTypes
      <4> SUFFICES ASSUME NEW s \in Slots
                   PROVE  /\ req'[s].at = req[s].at /\ req'[s].entries = req[s].entries
                          /\ req'[s].size = req[s].size /\ req'[s].verdict = req[s].verdict
        OBVIOUS
      <4>2. req'[s] = [req[s] EXCEPT !.steady =
                         req[s].steady \cap Verdicts!InForce(now', assigned, active, mode)]
        BY <3>1 DEF Verdicts!Keep
      <4>3. \A x \in Submission : \A b :
              LET y == [x EXCEPT !.steady = b]
              IN  y.at = x.at /\ y.entries = x.entries /\ y.size = x.size /\ y.verdict = x.verdict
        BY DEF Submission
      <4>4. PICK b : req'[s] = [req[s] EXCEPT !.steady = b]
        BY <4>2, Zenon
      <4> QED
        BY <4>1, <4>3, <4>4
    <3>3. \A s \in Slots : Sized(req'[s])
      BY <1>4, <3>2 DEF RateInv, Sized
    <3>4. ASSUME NEW t \in Nat, NEW s \in Slots, NEW i \in 1 .. MaxBatch, MayEscape(req[s], i, t)'
          PROVE  MayEscape(req[s], i, t)
      BY <3>1, <3>2, <3>4 DEF MayEscape
    <3>5. \A t \in Nat : Underway(t)' \subseteq Underway(t)
      BY <3>4 DEF Underway, Places
    <3> QED
      BY <1>4, <3>1, <3>3, <3>5, NoMoreUnderway
  <2>3. ASSUME NEW s \in Slots,
               \/ \E size \in 1 .. MaxBatch, match \in BOOLEAN : Verdicts!Submit(s, size, match)
               \/ Verdicts!checkRateLimit(s) \/ Verdicts!CreateLog(s) \/ Verdicts!Commit(s)
        PROVE  RateInv'
    BY <1>4, <2>3, RateSubmit, RateCheck, RateCreate, RateCommit
  <2>4. ASSUME NEW s \in Slots, Verdicts!buildRuleScope(s) \/ Verdicts!FindRules(s) PROVE FALSE
    BY <1>4, <2>4 DEF RateInv, Sized, Verdicts!buildRuleScope, Verdicts!FindRules
  <2>5. \A as, on, m : ~Verdicts!Change(as, on, m)
    BY <1>4 DEF Verdicts!Change
  <2> QED
    BY <2>1, <2>2, <2>3, <2>4, <2>5 DEF Verdicts!Next, Verdicts!assignToAgent,
       Verdicts!removeFromAgent, Verdicts!SetMode, Verdicts!SetActive
<1> QED
  BY <1>3, <1>4

\* No window has more logs the rate rule let pass (checkRateLimit) than its limit and, for
\* each submission that can be under way at a time, one batch, for any limit, window, number
\* of submissions and size of batches.
THEOREM RateIsBounded ==
    ASSUME VerdictConstants, RateConstants
    PROVE  MCSpec => []RateBounded
<1>1. RateInv => RateBounded
  <2> SUFFICES ASSUME RateInv, NEW t \in 0 .. now
               PROVE  Cardinality(Verdicts!Escaped(t)) <= MaxRequests + Cardinality(Slots) * MaxBatch
    BY VerdictCardinality DEF RateBounded, Verdicts!RateBounded
  <2>1. t \in Nat /\ stored \in Seq(StoredLog)
    BY DEF RateInv, VerdictTypes
  <2>2. CASE rule = "rate"
    <3>1. Charged(t)
      BY <2>1, <2>2 DEF RateInv
    <3> QED
      BY <2>1, <3>1, PlacesCount, EscapedCount, UnderwayCount DEF Charged, RateConstants
  <2>3. CASE rule # "rate"
    <3>1. Verdicts!Escaped(t) = {}
      BY <2>3 DEF RateInv, Verdicts!Escaped
    <3> QED
      BY <3>1, PlacesCount, FS_EmptySet DEF RateConstants
  <2> QED
    BY <2>2, <2>3
<1>2. Verdicts!Init => VerdictInv /\ RateInv
  BY VerdictInitInv, RateInitInv
<1>3. VerdictInv /\ RateInv /\ [Verdicts!Next]_Verdicts!vars => (VerdictInv /\ RateInv)'
  <2>1. VerdictInv /\ [Verdicts!Next]_Verdicts!vars => VerdictInv'
    BY VerdictNextInv
  <2>2. VerdictInv' => VerdictTypes'
    BY DEF VerdictInv
  <2> QED
    BY <2>1, <2>2, RateNextInv
<1>4. Verdicts!Spec => []RateInv
  BY <1>2, <1>3, PTL DEF Verdicts!Spec
<1> QED
  BY <1>1, <1>4, VerdictsRun, PTL

-----------------------------------------------------------------------------
(* The plan and its subscription.                                          *)

Stages7 == {"link", "read", "retrieve", "find", "apply", "end", "clear"}
Prices == Plans \cup {Unknown}
States3 == {"active", "past_due", "canceled"}
StripeSub == [sub : Subs, state : States3 \cup {"none"}, price : Prices]
StripeEvent ==
    [type : {"completed", "updated", "deleted"}, sub : Subs, state : States3, price : Prices]
Carry ==
    [sub : Subs \cup {None}, state : States3 \cup {"none"}, price : Prices,
     plan : Prices \cup {"free"}]

OrgRow == [plan : Prices \cup {"free"}, quota : Prices \cup {"free"}, sub : Subs \cup {None}]

BillTypes ==
    /\ org \in OrgRow
    /\ stripe \in [Subs -> StripeSub] /\ \A s \in Subs : stripe[s].sub = s
    /\ events \in Seq(StripeEvent) /\ handled \in 0 .. Len(events)
    /\ handler \in [Handlers -> Stages7 \cup {"idle"}] /\ carries \in [Handlers -> Carry]

Same(x, y) == x.state = y.state /\ x.price = y.price
Awaited(s) == \E j \in DOMAIN events : j > handled /\ events[j].sub = s
Latest(i, s) ==
    /\ events[i].sub = s /\ Same(events[i], stripe[s])
    /\ \A j \in DOMAIN events : j > i => events[j].sub # s

\* The last event of a subscription says what Stripe says, and nothing follows its end.
EventsAgree ==
    /\ \A i \in DOMAIN events : events[i].type = "deleted" <=> events[i].state = "canceled"
    /\ \A i, j \in DOMAIN events :
        i < j /\ events[i].sub = events[j].sub => events[i].state # "canceled"
    /\ \A s \in Subs : stripe[s].state = "none" => \A i \in DOMAIN events : events[i].sub # s
    /\ \A s \in Subs : stripe[s].state # "none" => \E i \in DOMAIN events : Latest(i, s)

\* Whoever is at work handles the event taken up last, or its twin.  What it is going to
\* write is up to date, or an event that says otherwise is to come.
Ending(g) == handler[g] \in {"end", "clear"}
HandlersAgree ==
    \A g \in Handlers : handler[g] # "idle" =>
        /\ handled # 0 /\ carries[g].sub = events[handled].sub
        /\ Ending(g) <=> events[handled].state = "canceled"
        /\ handler[g] = "find" => Same(carries[g], events[handled])
        /\ handler[g] \in {"read", "retrieve", "apply"} => org.sub = carries[g].sub
        /\ handler[g] = "apply" =>
            \/ Same(carries[g], stripe[carries[g].sub])
            \/ \E j \in DOMAIN events : /\ j > handled /\ events[j].sub = carries[g].sub
                                        /\ ~Same(events[j], events[handled])

\* Without a subscription the plan is free; the end of the one that is linked is being
\* handled; and its plan is in force, or will be when a handler or a later event is done.
OrgAgrees ==
    /\ org.sub = None => org.plan = "free"
    /\ \A i \in 1 .. handled :
        events[i].sub = org.sub /\ events[i].state = "canceled" =>
            i = handled /\ \E g \in Handlers : Ending(g)
    /\ \A s \in Subs :
        org.sub = s /\ stripe[s].state = "active" /\ Stripe!Known(s) /\ ~Awaited(s) =>
            \/ org.plan = stripe[s].price /\ org.quota = stripe[s].price
            \/ \E g \in Handlers : /\ handler[g] \in Stages7 /\ ~Ending(g)
                                   /\ carries[g].sub = s

BillInv == serial /\ alive => BillTypes /\ EventsAgree /\ HandlersAgree /\ OrgAgrees

LEMMA BillInitInv == ASSUME Stripe!Init PROVE BillInv
<1>1. /\ org = [plan |-> "free", quota |-> "free", sub |-> None] /\ events = <<>> /\ handled = 0
      /\ stripe = [s \in Subs |-> [sub |-> s, state |-> "none", price |-> Unknown]]
      /\ handler = [g \in Handlers |-> "idle"] /\ carries = [g \in Handlers |-> Stripe!Nothing]
  BY DEF Stripe!Init, Stripe!Sub
<1>2. Stripe!Nothing \in Carry
  BY DEF Stripe!Nothing, Carry, Prices
<1>3. events \in Seq(StripeEvent) /\ Len(events) = 0 /\ DOMAIN events = {}
  BY <1>1
<1>4. BillTypes
  BY <1>1, <1>2, <1>3 DEF BillTypes, OrgRow, StripeSub, Prices
<1>5. EventsAgree
  BY <1>1, <1>3 DEF EventsAgree
<1>6. HandlersAgree
  BY <1>1 DEF HandlersAgree
<1>7. OrgAgrees
  <2>1. 1 .. handled = {}
    BY <1>1
  <2>2. \A s \in Subs : stripe[s].state # "active"
    BY <1>1
  <2> QED
    BY <1>1, <2>1, <2>2 DEF OrgAgrees
<1> QED
  BY <1>4, <1>5, <1>6, <1>7 DEF BillInv

\* What is appended to the events.
LEMMA MadeEvents ==
    ASSUME events \in Seq(StripeEvent), NEW s \in Subs, NEW x \in StripeSub,
           NEW made \in Seq(StripeEvent), Len(made) # 0,
           Len(made) = 1 \/ x.state # "canceled",
           \A k \in DOMAIN made : /\ made[k].sub = s /\ Same(made[k], x)
                                  /\ made[k].type = "deleted" <=> x.state = "canceled",
           events' = events \o made
    PROVE  /\ events' \in Seq(StripeEvent) /\ Len(events) \in Nat /\ Len(events') \in Nat
           /\ Len(events') > Len(events)
           /\ DOMAIN events = 1 .. Len(events) /\ DOMAIN events' = 1 .. Len(events')
           /\ Len(events') = Len(events) + 1 \/ x.state # "canceled"
           /\ \A i \in 1 .. Len(events) : events'[i] = events[i]
           /\ \A i \in Len(events) + 1 .. Len(events') :
                /\ events'[i].sub = s /\ Same(events'[i], x)
                /\ events'[i].type = "deleted" <=> x.state = "canceled"
<1> DEFINE n == Len(events)
           N == Len(events')
<1>1. n \in Nat /\ DOMAIN events = 1 .. n /\ Len(made) \in Nat /\ DOMAIN made = 1 .. Len(made)
  BY LenProperties
<1>2. /\ events' \in Seq(StripeEvent) /\ N = n + Len(made)
      /\ \A i \in 1 .. n + Len(made) : events'[i] = IF i <= n THEN events[i] ELSE made[i - n]
  BY ConcatProperties
<1>3. DOMAIN events' = 1 .. N
  BY <1>2, LenProperties
<1> HIDE DEF n, N
<1>4. \A i \in 1 .. n : events'[i] = events[i]
  BY <1>1, <1>2
<1>5. ASSUME NEW i \in n + 1 .. N
      PROVE  \E k \in DOMAIN made : events'[i] = made[k]
  <2>1. events'[i] = made[i - n] /\ i - n \in DOMAIN made
    BY <1>1, <1>2, <1>5
  <2> QED
    BY <2>1
<1>6. ASSUME NEW i \in n + 1 .. N
      PROVE  /\ events'[i].sub = s /\ Same(events'[i], x)
             /\ events'[i].type = "deleted" <=> x.state = "canceled"
  <2>1. PICK k \in DOMAIN made : events'[i] = made[k]
    BY <1>5
  <2>2. /\ made[k].sub = s /\ Same(made[k], x)
        /\ made[k].type = "deleted" <=> x.state = "canceled"
    OBVIOUS
  <2> QED
    BY ONLY <2>1, <2>2
<1>7. N \in Nat /\ N > n /\ (N = n + 1 \/ x.state # "canceled")
  BY <1>1, <1>2
<1> QED
  BY <1>1, <1>2, <1>3, <1>4, <1>6, <1>7 DEF n, N

\* Stripe changes one subscription and makes its events.
LEMMA MadeStep ==
    ASSUME BillInv, serial, alive, NEW s \in Subs, NEW x \in StripeSub, x.sub = s,
           x.state # "none", stripe' = [stripe EXCEPT ![s] = x],
           stripe[s].state # "canceled", stripe'[s] # stripe[s],
           events' \in Seq(StripeEvent), NEW n \in Nat, NEW N \in Nat, N > n,
           n = Len(events), N = Len(events'), DOMAIN events = 1 .. n, DOMAIN events' = 1 .. N,
           N = n + 1 \/ x.state # "canceled",
           \A i \in 1 .. n : events'[i] = events[i],
           \A i \in n + 1 .. N : /\ events'[i].sub = s /\ Same(events'[i], x)
                                 /\ events'[i].type = "deleted" <=> x.state = "canceled",
           org' = org, handled' = handled, handler' = handler, carries' = carries
    PROVE  BillInv'
<1>1. BillTypes /\ EventsAgree /\ HandlersAgree /\ OrgAgrees
  BY DEF BillInv
<1>2. /\ DOMAIN events = 1 .. n /\ DOMAIN events' = 1 .. N /\ (N = n + 1 \/ x.state # "canceled")
      /\ \A i \in 1 .. n : events'[i] = events[i]
      /\ \A i \in n + 1 .. N : /\ events'[i].sub = s /\ Same(events'[i], x)
                               /\ events'[i].type = "deleted" <=> x.state = "canceled"
  OBVIOUS
<1>3. /\ stripe' \in [Subs -> StripeSub] /\ stripe'[s] = x
      /\ \A t \in Subs : t # s => stripe'[t] = stripe[t]
      /\ \A t \in Subs : stripe'[t].sub = t
  BY <1>1 DEF BillTypes
<1>4. ~Same(x, stripe[s])
  <2>1. stripe[s] \in StripeSub /\ stripe[s].sub = x.sub /\ stripe[s] # x
    BY <1>1, <1>3 DEF BillTypes
  <2> QED
    BY <2>1 DEF StripeSub, Same
<1>5. BillTypes'
  BY <1>1, <1>2, <1>3 DEF BillTypes
<1>6. \A i \in 1 .. n : events[i].sub = s => events[i].state # "canceled"
  <2> SUFFICES ASSUME NEW i \in 1 .. n, events[i].sub = s, events[i].state = "canceled"
               PROVE  FALSE
    OBVIOUS
  <2>1. PICK k \in 1 .. n : Latest(k, s)
    BY <1>1, <1>2 DEF EventsAgree
  <2>2. events[k].sub = s /\ \A j \in 1 .. n : j > k => events[j].sub # s
    BY <1>2, <2>1 DEF Latest
  <2>3. i # k
    BY <2>1 DEF Latest, Same
  <2>4. i < k
    BY <2>2, <2>3
  <2> QED
    BY <1>1, <1>2, <2>2, <2>4 DEF EventsAgree
<1>7. EventsAgree'
  <2>1. \A i \in DOMAIN events' : events'[i].type = "deleted" <=> events'[i].state = "canceled"
    <3>1. \A i \in 1 .. n : events'[i].type = "deleted" <=> events'[i].state = "canceled"
      BY <1>1, <1>2 DEF EventsAgree
    <3>2. \A i \in n + 1 .. N : events'[i].type = "deleted" <=> events'[i].state = "canceled"
      BY <1>2 DEF Same
    <3> QED
      BY <1>2, <3>1, <3>2
  <2>2. ASSUME NEW i \in DOMAIN events', NEW j \in DOMAIN events',
               i < j, events'[i].sub = events'[j].sub
        PROVE  events'[i].state # "canceled"
    <3>1. CASE j <= n
      BY <1>1, <1>2, <2>2, <3>1 DEF EventsAgree
    <3>2. CASE j > n /\ i <= n
      BY <1>2, <1>6, <2>2, <3>2
    <3>3. CASE i > n
      BY <1>2, <2>2, <3>3 DEF Same
    <3> QED
      BY <1>2, <3>1, <3>2, <3>3
  <2>3. ASSUME NEW t \in Subs, stripe'[t].state = "none", NEW i \in DOMAIN events'
        PROVE  events'[i].sub # t
    BY <1>1, <1>2, <1>3, <2>3 DEF EventsAgree
  <2>4. ASSUME NEW t \in Subs, stripe'[t].state # "none"
        PROVE  \E i \in DOMAIN events' : Latest(i, t)'
    <3>1. CASE t = s
      <4>1. N \in n + 1 .. N /\ N \in DOMAIN events' /\ \A j \in DOMAIN events' : ~ j > N
        BY <1>2
      <4>2. events'[N].sub = t /\ Same(events'[N], stripe'[t])
        BY <1>2, <1>3, <3>1, <4>1
      <4> QED
        BY <4>1, <4>2 DEF Latest, Same
    <3>2. CASE t # s
      <4>1. PICK i \in 1 .. n : Latest(i, t)
        BY <1>1, <1>2, <1>3, <2>4, <3>2 DEF EventsAgree
      <4>2. i \in DOMAIN events' /\ events'[i] = events[i] /\ stripe'[t] = stripe[t]
        BY <1>2, <1>3, <3>2
      <4>3. \A j \in DOMAIN events' : j > i => events'[j].sub # t
        BY <1>2, <3>2, <4>1 DEF Latest
      <4> QED
        BY <4>1, <4>2, <4>3 DEF Latest, Same
    <3> QED
      BY <3>1, <3>2
  <2> QED
    BY <2>1, <2>2, <2>3, <2>4 DEF EventsAgree
<1>8. handled \in Nat /\ handled <= n /\ (handled # 0 => events'[handled] = events[handled])
  BY <1>1, <1>2 DEF BillTypes
\* Whoever is about to write what is not up to date any more has another event to come.
<1>9. ASSUME NEW g \in Handlers, handler[g] = "apply", carries[g].sub = s
      PROVE  \E j \in DOMAIN events' : j > handled /\ events'[j].sub = s
                                       /\ ~Same(events'[j], events[handled])
  <2>1. handled \in 1 .. n /\ events[handled].sub = s
    BY <1>1, <1>8, <1>9 DEF HandlersAgree
  <2>2. N \in n + 1 .. N /\ N \in DOMAIN events' /\ N > handled
    BY <1>2, <1>8
  <2>3. CASE ~Same(x, events[handled])
    BY <1>2, <2>2, <2>3 DEF Same
  <2>4. CASE Same(x, events[handled])
    <3>1. PICK k \in 1 .. n : Latest(k, s)
      BY <1>1, <1>2, <2>1 DEF EventsAgree
    <3>2. /\ events[k].sub = s /\ Same(events[k], stripe[s])
          /\ \A j \in 1 .. n : j > k => events[j].sub # s
      BY <1>2, <3>1 DEF Latest
    <3>3. ~Same(events[k], events[handled])
      BY <1>4, <2>4, <3>2 DEF Same
    <3>4. k > handled
      <4>1. k # handled
        BY <3>3 DEF Same
      <4> QED
        BY <2>1, <3>2, <4>1
    <3>5. k \in DOMAIN events' /\ events'[k] = events[k]
      BY <1>2
    <3> QED
      BY <3>2, <3>3, <3>4, <3>5
  <2> QED
    BY <2>3, <2>4
<1>10. HandlersAgree'
  <2> SUFFICES ASSUME NEW g \in Handlers, handler[g] # "idle"
               PROVE  /\ handled # 0 /\ carries[g].sub = events'[handled].sub
                      /\ Ending(g) <=> events'[handled].state = "canceled"
                      /\ handler[g] = "find" => Same(carries[g], events'[handled])
                      /\ handler[g] \in {"read", "retrieve", "apply"} => org.sub = carries[g].sub
                      /\ handler[g] = "apply" =>
                          \/ Same(carries[g], stripe'[carries[g].sub])
                          \/ \E j \in DOMAIN events' :
                                /\ j > handled /\ events'[j].sub = carries[g].sub
                                /\ ~Same(events'[j], events'[handled])
    BY DEF HandlersAgree, Ending, Same
  <2>1. /\ handled \in 1 .. n /\ events'[handled] = events[handled]
        /\ carries[g].sub = events[handled].sub /\ events[handled].sub \in Subs
    <3>1. handled # 0 /\ carries[g].sub = events[handled].sub
      BY <1>1 DEF HandlersAgree
    <3>2. handled \in 1 .. n
      BY <1>8, <3>1
    <3>3. events[handled] \in StripeEvent
      BY <1>1, <1>2, <3>2 DEF BillTypes
    <3> QED
      BY <1>2, <3>1, <3>2, <3>3 DEF StripeEvent
  <2>2. /\ Ending(g) <=> events[handled].state = "canceled"
        /\ handler[g] = "find" => Same(carries[g], events[handled])
        /\ handler[g] \in {"read", "retrieve", "apply"} => org.sub = carries[g].sub
    BY <1>1 DEF HandlersAgree
  <2>3. ASSUME handler[g] = "apply", carries[g].sub # s
        PROVE  \/ Same(carries[g], stripe'[carries[g].sub])
               \/ \E j \in DOMAIN events' : /\ j > handled /\ events'[j].sub = carries[g].sub
                                            /\ ~Same(events'[j], events'[handled])
    <3>1. stripe'[carries[g].sub] = stripe[carries[g].sub]
      BY <1>3, <2>1, <2>3
    <3>2. \/ Same(carries[g], stripe[carries[g].sub])
          \/ \E j \in 1 .. n : /\ j > handled /\ events[j].sub = carries[g].sub
                               /\ ~Same(events[j], events[handled])
      BY <1>1, <1>2, <2>3 DEF HandlersAgree
    <3>3. \A j \in 1 .. n : j \in DOMAIN events' /\ events'[j] = events[j]
      BY <1>2
    <3> QED
      BY <2>1, <3>1, <3>2, <3>3
  <2> QED
    BY <1>8, <1>9, <2>1, <2>2, <2>3
<1>11. OrgAgrees'
  <2>1. org.sub = None => org.plan = "free"
    BY <1>1 DEF OrgAgrees
  <2>2. ASSUME NEW i \in 1 .. handled, events'[i].sub = org.sub, events'[i].state = "canceled"
        PROVE  i = handled /\ \E g \in Handlers : Ending(g)
    <3>1. events'[i] = events[i]
      BY <1>2, <1>8
    <3> QED
      BY <1>1, <2>2, <3>1 DEF OrgAgrees
  <2>3. ASSUME NEW t \in Subs, org.sub = t, stripe'[t].state = "active", stripe'[t].price # Unknown,
               ~Awaited(t)'
        PROVE  \/ org.plan = stripe'[t].price /\ org.quota = stripe'[t].price
               \/ \E g \in Handlers : handler[g] \in Stages7 /\ ~Ending(g) /\ carries[g].sub = t
    <3>1. N \in n + 1 .. N /\ N \in DOMAIN events' /\ N > handled
      BY <1>2, <1>8
    <3>2. t # s /\ stripe'[t] = stripe[t]
      BY <1>2, <1>3, <2>3, <3>1 DEF Awaited
    <3>3. ~Awaited(t)
      BY <1>2, <1>8, <2>3 DEF Awaited
    <3> QED
      BY <1>1, <2>3, <3>2, <3>3 DEF OrgAgrees, Stripe!Known
  <2> QED
    BY <2>1, <2>2, <2>3 DEF OrgAgrees, Ending, Stripe!Known
<1> QED
  BY <1>5, <1>7, <1>10, <1>11 DEF BillInv

\* An event is taken up in its turn.
LEMMA DeliverStep ==
    ASSUME BillInv, serial, alive, serial', NEW g \in Handlers, NEW i \in DOMAIN events,
           Stripe!Deliver(g, i)
    PROVE  BillInv'
<1>1. BillTypes /\ EventsAgree /\ HandlersAgree /\ OrgAgrees
  BY DEF BillInv
<1>2. /\ handler[g] = "idle" /\ org' = org /\ stripe' = stripe /\ events' = events
      /\ handler' = [handler EXCEPT ![g] = Stripe!FirstStep(events[i].type)]
      /\ carries' = [carries EXCEPT ![g] = [sub |-> events[i].sub, state |-> events[i].state,
                                            price |-> events[i].price, plan |-> "free"]]
      /\ handled' = (IF i = handled + 1 THEN i ELSE handled) /\ i \in {handled, handled + 1}
      /\ (\A f \in Handlers : handler[f] = "idle") \/ Stripe!Twins(i, handled)
  BY DEF Stripe!Deliver
<1>3. /\ Len(events) \in Nat /\ DOMAIN events = 1 .. Len(events) /\ handled \in Nat
      /\ handled <= Len(events) /\ i \in 1 .. Len(events) /\ handled' = i
      /\ \A j \in DOMAIN events : events[j] \in StripeEvent
  <2>1. Len(events) \in Nat /\ DOMAIN events = 1 .. Len(events) /\ handled \in Nat
    BY <1>1, LenProperties DEF BillTypes
  <2> QED
    BY <1>1, <1>2, <2>1 DEF BillTypes
<1>4. ASSUME NEW f \in Handlers, handler[f] # "idle"
      PROVE  /\ handled \in DOMAIN events /\ events[i].sub = events[handled].sub
             /\ Same(events[i], events[handled])
  <2>1. handled # 0 /\ Stripe!Twins(i, handled)
    BY <1>1, <1>2, <1>4 DEF HandlersAgree
  <2>2. Stripe!Event("updated", events[i]) = Stripe!Event("updated", events[handled])
    BY <2>1 DEF Stripe!Twins
  <2> QED
    BY <1>3, <2>1, <2>2 DEF Stripe!Event, Same
<1>5. /\ events[i].type \in {"completed", "updated", "deleted"} /\ events[i].sub \in Subs
      /\ events[i].state \in States3 /\ events[i].price \in Prices
      /\ events[i].type = "deleted" <=> events[i].state = "canceled"
  BY <1>1, <1>3 DEF StripeEvent, EventsAgree
<1>6. /\ handler' \in [Handlers -> Stages7 \cup {"idle"}] /\ carries' \in [Handlers -> Carry]
      /\ handler'[g] \in {"link", "find", "end"}
      /\ handler'[g] = "end" <=> events[i].state = "canceled"
      /\ carries'[g].sub = events[i].sub /\ Same(carries'[g], events[i])
      /\ \A f \in Handlers : f # g => handler'[f] = handler[f] /\ carries'[f] = carries[f]
  <2>1. /\ Stripe!FirstStep(events[i].type) \in {"link", "find", "end"}
        /\ Stripe!FirstStep(events[i].type) = "end" <=> events[i].type = "deleted"
    BY <1>5 DEF Stripe!FirstStep
  <2>2. [sub |-> events[i].sub, state |-> events[i].state, price |-> events[i].price,
         plan |-> "free"] \in Carry
    BY <1>5 DEF Carry
  <2>3. handler \in [Handlers -> Stages7 \cup {"idle"}] /\ carries \in [Handlers -> Carry]
    BY <1>1 DEF BillTypes
  <2> QED
    BY <1>2, <1>5, <2>1, <2>2, <2>3 DEF Stages7, Same
<1>7. BillTypes'
  BY <1>1, <1>2, <1>3, <1>6 DEF BillTypes
<1>8. EventsAgree'
  BY <1>1, <1>2 DEF EventsAgree, Latest, Same
<1>9. HandlersAgree'
  <2> SUFFICES ASSUME NEW f \in Handlers, handler'[f] # "idle"
               PROVE  /\ i # 0 /\ carries'[f].sub = events[i].sub
                      /\ handler'[f] \in {"end", "clear"} <=> events[i].state = "canceled"
                      /\ handler'[f] = "find" => Same(carries'[f], events[i])
                      /\ handler'[f] \in {"read", "retrieve", "apply"} => org.sub = carries'[f].sub
                      /\ handler'[f] = "apply" =>
                          \/ Same(carries'[f], stripe[carries'[f].sub])
                          \/ \E j \in DOMAIN events :
                                /\ j > i /\ events[j].sub = carries'[f].sub
                                /\ ~Same(events[j], events[i])
    BY <1>2, <1>3 DEF HandlersAgree, Ending, Same
  <2>1. CASE f = g
    BY <1>3, <1>6, <2>1
  <2>2. CASE f # g
    <3>1. handler'[f] = handler[f] /\ carries'[f] = carries[f] /\ handler[f] # "idle"
      BY <1>6, <2>2
    <3>2. /\ handled \in DOMAIN events /\ events[i].sub = events[handled].sub
          /\ Same(events[i], events[handled])
      BY <1>4, <3>1
    <3>3. /\ carries[f].sub = events[handled].sub
          /\ handler[f] \in {"end", "clear"} <=> events[handled].state = "canceled"
          /\ handler[f] = "find" => Same(carries[f], events[handled])
          /\ handler[f] \in {"read", "retrieve", "apply"} => org.sub = carries[f].sub
      BY <1>1, <3>1 DEF HandlersAgree, Ending
    <3>4. ASSUME handler[f] = "apply"
          PROVE  \/ Same(carries[f], stripe[carries[f].sub])
                 \/ \E j \in DOMAIN events : /\ j > i /\ events[j].sub = carries[f].sub
                                             /\ ~Same(events[j], events[i])
      <4>1. \/ Same(carries[f], stripe[carries[f].sub])
            \/ \E j \in DOMAIN events : /\ j > handled /\ events[j].sub = carries[f].sub
                                        /\ ~Same(events[j], events[handled])
        BY <1>1, <3>1, <3>4 DEF HandlersAgree
      <4>2. ASSUME NEW j \in DOMAIN events, j > handled, ~Same(events[j], events[handled])
            PROVE  j > i /\ ~Same(events[j], events[i])
        <5>1. ~Same(events[j], events[i])
          BY <3>2, <4>2 DEF Same
        <5>2. j # i
          BY <5>1 DEF Same
        <5> QED
          BY <1>2, <1>3, <4>2, <5>1, <5>2
      <4> QED
        BY <4>1, <4>2
    <3>5. /\ events[i].state = "canceled" <=> events[handled].state = "canceled"
          /\ handler[f] = "find" => Same(carries[f], events[i])
      BY <3>2, <3>3 DEF Same
    <3> QED
      BY <1>3, <3>1, <3>2, <3>3, <3>4, <3>5
  <2> QED
    BY <2>1, <2>2
<1>10. OrgAgrees'
  <2>1. org.sub = None => org.plan = "free"
    BY <1>1 DEF OrgAgrees
  <2>2. ASSUME NEW k \in 1 .. i, events[k].sub = org.sub, events[k].state = "canceled"
        PROVE  k = i /\ \E f \in Handlers : handler'[f] \in {"end", "clear"}
    <3>1. CASE k = i
      BY <1>6, <2>2, <3>1
    <3>2. CASE k # i
      <4>1. k \in 1 .. handled /\ k < i /\ k \in DOMAIN events
        BY <1>2, <1>3, <3>2
      <4>2. k = handled /\ \E f \in Handlers : Ending(f)
        BY <1>1, <2>2, <4>1 DEF OrgAgrees
      <4>3. events[i].sub = events[k].sub
        BY <1>4, <4>2 DEF Ending
      <4> QED
        BY <1>1, <2>2, <4>1, <4>3 DEF EventsAgree
    <3> QED
      BY <3>1, <3>2
  <2>3. ASSUME NEW s \in Subs, org.sub = s, stripe[s].state = "active", stripe[s].price # Unknown,
               \A j \in DOMAIN events : j > i => events[j].sub # s
        PROVE  \/ org.plan = stripe[s].price /\ org.quota = stripe[s].price
               \/ \E f \in Handlers : /\ handler'[f] \in Stages7 /\ handler'[f] \notin {"end", "clear"}
                                      /\ carries'[f].sub = s
    <3>1. CASE events[i].sub = s
      <4>1. PICK k \in DOMAIN events : Latest(k, s)
        BY <1>1, <2>3 DEF EventsAgree
      <4>2. /\ events[k].sub = s /\ events[k].state = "active"
            /\ \A j \in DOMAIN events : j > k => events[j].sub # s
        BY <2>3, <4>1 DEF Latest, Same
      <4>3. k = i
        BY <1>3, <2>3, <3>1, <4>2
      <4> QED
        BY <1>6, <3>1, <4>2, <4>3 DEF Stages7
    <3>2. CASE events[i].sub # s
      <4>1. ~Awaited(s)
        BY <1>2, <1>3, <2>3, <3>2 DEF Awaited
      <4>2. \/ org.plan = stripe[s].price /\ org.quota = stripe[s].price
            \/ \E f \in Handlers : /\ handler[f] \in Stages7 /\ ~Ending(f)
                                   /\ carries[f].sub = s
        BY <1>1, <2>3, <4>1 DEF OrgAgrees, Stripe!Known
      <4>3. \A f \in Handlers : handler[f] \in Stages7 => f # g
        BY <1>2 DEF Stages7
      <4> QED
        BY <1>6, <4>2, <4>3 DEF Ending
    <3> QED
      BY <3>1, <3>2
  <2> QED
    BY <1>2, <1>3, <2>1, <2>2, <2>3 DEF OrgAgrees, Ending, Awaited, Stripe!Known
<1> QED
  BY <1>7, <1>8, <1>9, <1>10 DEF BillInv

\* A statement of a handler: the stage and data it leaves, and what it does to the row.
Work(g, st, c) ==
    /\ handler[g] # "idle" /\ stripe' = stripe /\ events' = events /\ handled' = handled
    /\ st \in Stages7 \cup {"idle"} /\ handler' = [handler EXCEPT ![g] = st]
    /\ c \in Carry /\ carries' = [carries EXCEPT ![g] = c]
    /\ c.sub = carries[g].sub /\ st # "find"
    /\ st # "idle" => (st \in {"end", "clear"} <=> Ending(g))
    /\ st \in {"read", "retrieve", "apply"} => org'.sub = c.sub
    /\ st = "apply" =>
          \/ Same(c, stripe[c.sub])
          \/ \E j \in DOMAIN events : /\ j > handled /\ events[j].sub = c.sub
                                      /\ ~Same(events[j], events[handled])
    /\ org' \in OrgRow
    /\ \/ org' = org
       \/ ~Ending(g) /\ org'.sub = c.sub
       \/ Ending(g) /\ org'.sub = None /\ org'.plan = "free"
    /\ st = "idle" /\ org'.sub = c.sub =>
          /\ ~Ending(g)
          /\ stripe[c.sub].state = "active" /\ Stripe!Known(c.sub) /\ ~Awaited(c.sub) =>
                org'.plan = stripe[c.sub].price /\ org'.quota = stripe[c.sub].price

LEMMA WorkStep ==
    ASSUME BillInv, serial, alive, None \notin Subs, NEW g \in Handlers, NEW st, NEW c,
           Work(g, st, c)
    PROVE  BillInv'
<1> USE DEF Work
<1>1. BillTypes /\ EventsAgree /\ HandlersAgree /\ OrgAgrees
  BY DEF BillInv
<1>2. /\ handled \in DOMAIN events /\ events[handled] \in StripeEvent
      /\ c.sub = events[handled].sub /\ c.sub \in Subs
      /\ Ending(g) <=> events[handled].state = "canceled"
      /\ DOMAIN events = 1 .. Len(events) /\ Len(events) \in Nat /\ handled \in Nat
  <2>1. Len(events) \in Nat /\ DOMAIN events = 1 .. Len(events) /\ handled \in Nat
    BY <1>1, LenProperties DEF BillTypes
  <2>2. /\ handled # 0 /\ c.sub = events[handled].sub
        /\ Ending(g) <=> events[handled].state = "canceled"
    BY <1>1 DEF HandlersAgree
  <2>3. handled \in DOMAIN events /\ events[handled] \in StripeEvent
    BY <1>1, <2>1, <2>2 DEF BillTypes
  <2> QED
    BY <2>1, <2>2, <2>3 DEF StripeEvent
<1>3. /\ handler' \in [Handlers -> Stages7 \cup {"idle"}] /\ carries' \in [Handlers -> Carry]
      /\ handler'[g] = st /\ carries'[g] = c
      /\ \A f \in Handlers : f # g => handler'[f] = handler[f] /\ carries'[f] = carries[f]
  BY <1>1 DEF BillTypes
<1>4. BillTypes'
  BY <1>1, <1>3 DEF BillTypes
<1>5. EventsAgree'
  BY <1>1 DEF EventsAgree, Latest, Same
\* All are at work on the same subscription, and all of them end it or none does.
<1>6. \A f \in Handlers : handler[f] # "idle" =>
        carries[f].sub = c.sub /\ (Ending(f) <=> Ending(g))
  BY <1>1, <1>2 DEF HandlersAgree
<1>7. HandlersAgree'
  <2> SUFFICES ASSUME NEW f \in Handlers, handler'[f] # "idle"
               PROVE  /\ handled # 0 /\ carries'[f].sub = events[handled].sub
                      /\ handler'[f] \in {"end", "clear"} <=> events[handled].state = "canceled"
                      /\ handler'[f] = "find" => Same(carries'[f], events[handled])
                      /\ handler'[f] \in {"read", "retrieve", "apply"} => org'.sub = carries'[f].sub
                      /\ handler'[f] = "apply" =>
                          \/ Same(carries'[f], stripe[carries'[f].sub])
                          \/ \E j \in DOMAIN events :
                                /\ j > handled /\ events[j].sub = carries'[f].sub
                                /\ ~Same(events[j], events[handled])
    BY DEF HandlersAgree, Ending, Same
  <2>1. CASE f = g
    <3>1. handled # 0
      BY <1>2
    <3> QED
      BY <1>2, <1>3, <2>1, <3>1
  <2>2. CASE f # g
    <3>1. handler'[f] = handler[f] /\ carries'[f] = carries[f] /\ handler[f] # "idle"
      BY <1>3, <2>2
    <3>2. /\ handled # 0 /\ carries[f].sub = events[handled].sub
          /\ handler[f] \in {"end", "clear"} <=> events[handled].state = "canceled"
          /\ handler[f] = "find" => Same(carries[f], events[handled])
          /\ handler[f] \in {"read", "retrieve", "apply"} => org.sub = carries[f].sub
          /\ handler[f] = "apply" =>
              \/ Same(carries[f], stripe[carries[f].sub])
              \/ \E j \in DOMAIN events : /\ j > handled /\ events[j].sub = carries[f].sub
                                          /\ ~Same(events[j], events[handled])
      BY <1>1, <3>1 DEF HandlersAgree, Ending
    <3>3. handler[f] \in {"read", "retrieve", "apply"} => org'.sub = carries[f].sub
      <4>1. handler[f] \in {"read", "retrieve", "apply"} => ~Ending(g)
        BY <1>6, <3>1 DEF Ending
      <4> QED
        BY <1>6, <3>1, <3>2, <4>1
    <3> QED
      BY <3>1, <3>2, <3>3
  <2> QED
    BY <2>1, <2>2
<1>8. OrgAgrees'
  <2>1. org'.sub = None => org'.plan = "free"
    BY <1>1, <1>2 DEF OrgAgrees
  <2>2. ASSUME NEW k \in 1 .. handled, events[k].sub = org'.sub, events[k].state = "canceled"
        PROVE  k = handled /\ \E f \in Handlers : handler'[f] \in {"end", "clear"}
    <3>1. k \in DOMAIN events /\ events[k].sub \in Subs
      <4>1. k \in DOMAIN events
        BY <1>2
      <4>2. events[k] \in StripeEvent
        BY <1>1, <4>1 DEF BillTypes
      <4> QED
        BY <4>1, <4>2 DEF StripeEvent
    <3>2. CASE org'.sub = c.sub
      <4>1. k = handled
        BY <1>1, <1>2, <2>2, <3>1, <3>2 DEF EventsAgree
      <4>2. st \in {"end", "clear"}
        BY <1>2, <2>2, <3>2, <4>1
      <4> QED
        BY <1>3, <4>1, <4>2
    <3>3. CASE org' = org /\ org.sub # c.sub
      <4>1. k = handled
        BY <1>1, <2>2, <3>3 DEF OrgAgrees
      <4> QED
        BY <1>2, <2>2, <3>3, <4>1
    <3> QED
      BY <2>2, <3>1, <3>2, <3>3
  <2>3. ASSUME NEW s \in Subs, org'.sub = s, stripe[s].state = "active", Stripe!Known(s), ~Awaited(s)
        PROVE  \/ org'.plan = stripe[s].price /\ org'.quota = stripe[s].price
               \/ \E f \in Handlers : /\ handler'[f] \in Stages7 /\ handler'[f] \notin {"end", "clear"}
                                      /\ carries'[f].sub = s
    <3>1. CASE s = c.sub /\ ~Ending(g)
      BY <1>3, <2>3, <3>1
    <3>2. CASE s # c.sub \/ Ending(g)
      <4>1. org' = org
        BY <2>3, <3>2
      <4>2. \A f \in Handlers : handler[f] \in Stages7 /\ ~Ending(f) => carries[f].sub # s
        BY <1>6, <3>2 DEF Stages7
      <4> QED
        BY <1>1, <2>3, <4>1, <4>2 DEF OrgAgrees
    <3> QED
      BY <3>1, <3>2
  <2> QED
    BY <2>1, <2>2, <2>3 DEF OrgAgrees, Ending, Awaited, Stripe!Known
<1> QED
  BY <1>4, <1>5, <1>7, <1>8 DEF BillInv

\* The statements of the handlers.
LEMMA HandlerSteps ==
    ASSUME BillInv, serial, alive, None \notin Subs, NEW g \in Handlers,
           \/ Stripe!Link(g) \/ Stripe!Read(g) \/ Stripe!Retrieve(g) \/ Stripe!Find(g)
           \/ Stripe!Apply(g) \/ Stripe!End(g) \/ Stripe!Clear(g)
    PROVE  BillInv'
<1> USE DEF Stripe!Goto, Stripe!Elsewhere
<1>1. /\ BillTypes /\ EventsAgree /\ HandlersAgree
      /\ carries[g] \in Carry /\ carries \in [Handlers -> Carry]
      /\ carries = [carries EXCEPT ![g] = carries[g]]
      /\ org \in OrgRow
  <2>1. carries \in [Handlers -> Carry]
    BY DEF BillInv, BillTypes
  <2>2. carries = [carries EXCEPT ![g] = carries[g]]
    BY <2>1
  <2> QED
    BY <2>1, <2>2 DEF BillInv, BillTypes
<1>2. handler[g] # "idle" =>
        /\ handled \in DOMAIN events /\ events[handled].sub = carries[g].sub
        /\ carries[g].sub \in Subs
  <2> SUFFICES ASSUME handler[g] # "idle"
               PROVE  /\ handled \in DOMAIN events /\ events[handled].sub = carries[g].sub
                      /\ carries[g].sub \in Subs
    OBVIOUS
  <2>1. handled # 0 /\ events[handled].sub = carries[g].sub
    BY <1>1 DEF HandlersAgree
  <2>2. Len(events) \in Nat /\ DOMAIN events = 1 .. Len(events)
    BY <1>1, LenProperties DEF BillTypes
  <2>3. handled \in DOMAIN events
    BY <1>1, <2>1, <2>2 DEF BillTypes
  <2>4. events[handled] \in StripeEvent
    BY <1>1, <2>3 DEF BillTypes
  <2> QED
    BY <2>1, <2>3, <2>4 DEF StripeEvent
<1>3. CASE Stripe!Link(g)
  <2>1. /\ handler[g] = "link" /\ handler' = [handler EXCEPT ![g] = "read"] /\ carries' = carries
        /\ org' = [org EXCEPT !.sub = carries[g].sub]
        /\ stripe' = stripe /\ events' = events /\ handled' = handled
    BY <1>3 DEF Stripe!Link
  <2>2. /\ org' \in OrgRow
        /\ org'.sub = carries[g].sub
    BY <1>1, <1>2, <2>1 DEF OrgRow
  <2>3. Work(g, "read", carries[g])
    BY <1>1, <2>1, <2>2 DEF Work, Stages7, Ending
  <2> QED
    BY <2>3, WorkStep
<1>4. CASE Stripe!Read(g)
  <2> DEFINE c == [carries[g] EXCEPT !.plan = org.plan]
  <2>1. /\ handler[g] = "read" /\ handler' = [handler EXCEPT ![g] = "retrieve"] /\ org' = org
        /\ carries' = [carries EXCEPT ![g] = c]
        /\ stripe' = stripe /\ events' = events /\ handled' = handled
    BY <1>1, <1>4 DEF Stripe!Read
  <2>2. c \in Carry /\ c.sub = carries[g].sub
    BY <1>1 DEF Carry, OrgRow
  <2>3. org.sub = carries[g].sub
    BY <1>1, <2>1 DEF HandlersAgree
  <2> HIDE DEF c
  <2>4. Work(g, "retrieve", c)
    BY <1>1, <2>1, <2>2, <2>3 DEF Work, Stages7, Ending
  <2> QED
    BY <2>4, WorkStep
<1>5. CASE Stripe!Retrieve(g)
  <2> DEFINE c == [carries[g] EXCEPT !.state = stripe[carries[g].sub].state,
                                     !.price = stripe[carries[g].sub].price]
  <2>1. /\ handler[g] = "retrieve" /\ handler' = [handler EXCEPT ![g] = "apply"] /\ org' = org
        /\ carries' = [carries EXCEPT ![g] = c]
        /\ stripe' = stripe /\ events' = events /\ handled' = handled
    BY <1>1, <1>5 DEF Stripe!Retrieve, Stripe!Retrieved
  <2>2. stripe[carries[g].sub] \in StripeSub
    BY <1>1, <1>2, <2>1 DEF BillTypes
  <2>3. c \in Carry /\ c.sub = carries[g].sub /\ Same(c, stripe[carries[g].sub])
    BY <1>1, <2>2 DEF Carry, StripeSub, Same
  <2>4. org.sub = carries[g].sub
    BY <1>1, <2>1 DEF HandlersAgree
  <2> HIDE DEF c
  <2>5. Work(g, "apply", c)
    BY <1>1, <2>1, <2>3, <2>4 DEF Work, Stages7, Ending
  <2> QED
    BY <2>5, WorkStep
<1>6. CASE Stripe!Find(g)
  <2> DEFINE c == [carries[g] EXCEPT !.plan = org.plan]
  <2>1. /\ handler[g] = "find" /\ org' = org
        /\ stripe' = stripe /\ events' = events /\ handled' = handled
        /\ \/ /\ handler' = [handler EXCEPT ![g] = "apply"] /\ org.sub = carries[g].sub
              /\ carries' = [carries EXCEPT ![g] = c]
           \/ /\ handler' = [handler EXCEPT ![g] = "idle"] /\ org.sub # carries[g].sub
              /\ carries' = carries
    BY <1>1, <1>6 DEF Stripe!Find
  <2>2. c \in Carry /\ c.sub = carries[g].sub /\ Same(c, carries[g])
    BY <1>1 DEF Carry, OrgRow, Same
  <2>3. Same(c, events[handled])
    BY <1>1, <2>1, <2>2 DEF HandlersAgree, Same
  <2>4. \/ Same(c, stripe[c.sub])
        \/ \E j \in DOMAIN events : /\ j > handled /\ events[j].sub = c.sub
                                    /\ ~Same(events[j], events[handled])
    <3>1. PICK k \in DOMAIN events : Latest(k, c.sub)
      BY <1>1, <1>2, <2>1, <2>2 DEF EventsAgree
    <3>2. /\ events[k].sub = c.sub /\ Same(events[k], stripe[c.sub])
          /\ \A j \in DOMAIN events : j > k => events[j].sub # c.sub
      BY <3>1 DEF Latest
    <3>3. CASE Same(events[k], events[handled])
      BY <2>3, <3>2, <3>3 DEF Same
    <3>4. CASE ~Same(events[k], events[handled])
      <4>1. k # handled
        BY <3>4 DEF Same
      <4>2. DOMAIN events = 1 .. Len(events) /\ Len(events) \in Nat
        BY <1>1, LenProperties DEF BillTypes
      <4>3. k > handled
        BY <1>2, <2>1, <2>2, <3>2, <4>1, <4>2
      <4> QED
        BY <3>2, <3>4, <4>3
    <3> QED
      BY <3>3, <3>4
  <2> HIDE DEF c
  <2>5. CASE handler' = [handler EXCEPT ![g] = "apply"] /\ org.sub = carries[g].sub
             /\ carries' = [carries EXCEPT ![g] = c]
    <3>1. Work(g, "apply", c)
      BY <1>1, <2>1, <2>2, <2>4, <2>5 DEF Work, Stages7, Ending
    <3> QED
      BY <3>1, WorkStep
  <2>6. CASE handler' = [handler EXCEPT ![g] = "idle"] /\ org.sub # carries[g].sub
             /\ carries' = carries
    <3>1. Work(g, "idle", carries[g])
      BY <1>1, <2>1, <2>6 DEF Work, Stages7, Ending
    <3> QED
      BY <3>1, WorkStep
  <2> QED
    BY <2>1, <2>5, <2>6
<1>7. CASE Stripe!Apply(g)
  <2> DEFINE p == Stripe!NewPlan(carries[g])
  <2>1. /\ handler[g] = "apply" /\ handler' = [handler EXCEPT ![g] = "idle"] /\ carries' = carries
        /\ stripe' = stripe /\ events' = events /\ handled' = handled
        /\ \/ carries[g].state = "active" /\ org' = [org EXCEPT !.plan = p, !.quota = p]
           \/ carries[g].state # "active" /\ org' = org
    BY <1>7 DEF Stripe!Apply, Stripe!Applies
  <2>2. p \in Prices \cup {"free"} /\ (carries[g].price # Unknown => p = carries[g].price)
    BY <1>1 DEF Carry, Stripe!NewPlan
  <2>3. org.sub = carries[g].sub
    BY <1>1, <2>1 DEF HandlersAgree
  <2> HIDE DEF p
  <2>4. /\ org' \in OrgRow
        /\ org'.sub = carries[g].sub
        /\ carries[g].state = "active" => org'.plan = p /\ org'.quota = p
    BY <1>1, <2>1, <2>2, <2>3 DEF OrgRow
  <2>5. ~Awaited(carries[g].sub) => Same(carries[g], stripe[carries[g].sub])
    BY <1>1, <2>1 DEF HandlersAgree, Awaited
  <2>6. stripe[carries[g].sub].state = "active" /\ Stripe!Known(carries[g].sub)
          /\ ~Awaited(carries[g].sub) =>
            org'.plan = stripe[carries[g].sub].price /\ org'.quota = stripe[carries[g].sub].price
    BY <2>2, <2>4, <2>5 DEF Same, Stripe!Known
  <2>7. Work(g, "idle", carries[g])
    BY <1>1, <2>1, <2>4, <2>6 DEF Work, Stages7, Ending
  <2> QED
    BY <2>7, WorkStep
<1>8. CASE Stripe!End(g)
  <2>1. /\ handler[g] = "end" /\ carries' = carries /\ org' = org
        /\ handler' = [handler EXCEPT ![g] = IF org.sub = carries[g].sub THEN "clear" ELSE "idle"]
        /\ stripe' = stripe /\ events' = events /\ handled' = handled
    BY <1>8 DEF Stripe!End
  <2>2. CASE org.sub = carries[g].sub
    <3>1. Work(g, "clear", carries[g])
      BY <1>1, <2>1, <2>2 DEF Work, Stages7, Ending
    <3> QED
      BY <3>1, WorkStep
  <2>3. CASE org.sub # carries[g].sub
    <3>1. Work(g, "idle", carries[g])
      BY <1>1, <2>1, <2>3 DEF Work, Stages7, Ending
    <3> QED
      BY <3>1, WorkStep
  <2> QED
    BY <2>2, <2>3
<1>9. CASE Stripe!Clear(g)
  <2>1. /\ handler[g] = "clear" /\ handler' = [handler EXCEPT ![g] = "idle"] /\ carries' = carries
        /\ org' = [org EXCEPT !.plan = "free", !.sub = None]
        /\ stripe' = stripe /\ events' = events /\ handled' = handled
    BY <1>9 DEF Stripe!Clear, Stripe!Downgraded
  <2>2. /\ org' \in OrgRow
        /\ org'.sub = None /\ org'.plan = "free" /\ carries[g].sub # None
    BY <1>1, <1>2, <2>1 DEF OrgRow
  <2>3. Work(g, "idle", carries[g])
    BY <1>1, <2>1, <2>2 DEF Work, Stages7, Ending
  <2> QED
    BY <2>3, WorkStep
<1> QED
  BY <1>3, <1>4, <1>5, <1>6, <1>7, <1>8, <1>9

\* What happens at Stripe.
LEMMA MakeStep ==
    ASSUME BillInv, serial, alive, NEW s \in Subs, NEW x \in StripeSub, x.sub = s,
           x.state # "none", stripe' = [stripe EXCEPT ![s] = x],
           stripe[s].state # "canceled", stripe'[s] # stripe[s],
           NEW made \in Seq(StripeEvent), Len(made) # 0,
           Len(made) = 1 \/ x.state # "canceled",
           \A k \in DOMAIN made : /\ made[k].sub = s /\ Same(made[k], x)
                                  /\ made[k].type = "deleted" <=> x.state = "canceled",
           events' = events \o made,
           org' = org, handled' = handled, handler' = handler, carries' = carries
    PROVE  BillInv'
<1>1. events \in Seq(StripeEvent)
  BY DEF BillInv, BillTypes
<1> DEFINE n == Len(events)
           N == Len(events')
<1>2. /\ events' \in Seq(StripeEvent) /\ n \in Nat /\ N \in Nat /\ N > n
      /\ DOMAIN events = 1 .. n /\ DOMAIN events' = 1 .. N
      /\ N = n + 1 \/ x.state # "canceled"
      /\ \A i \in 1 .. n : events'[i] = events[i]
      /\ \A i \in n + 1 .. N : /\ events'[i].sub = s /\ Same(events'[i], x)
                               /\ events'[i].type = "deleted" <=> x.state = "canceled"
  BY <1>1, MadeEvents
<1>3. n = Len(events) /\ N = Len(events')
  OBVIOUS
<1> HIDE DEF n, N
<1> QED
  BY <1>2, <1>3, MadeStep

LEMMA StripeSteps ==
    ASSUME BillInv, serial, alive, NEW s \in Subs,
           \/ \E p \in Plans \cup {Unknown} :
                \/ Stripe!CompleteCheckout(s, p)
                \/ \E state \in {"active", "past_due"} : Stripe!UpdateSubscription(s, state, p)
           \/ Stripe!CancelSubscription(s)
    PROVE  BillInv'
<1>1. /\ stripe \in [Subs -> StripeSub] /\ stripe[s] \in StripeSub /\ stripe[s].sub = s
  BY DEF BillInv, BillTypes
<1>2. ASSUME NEW p \in Prices, Stripe!CompleteCheckout(s, p) PROVE BillInv'
  <2> DEFINE x == [sub |-> s, state |-> "active", price |-> p]
             one == [type |-> "completed", sub |-> s, state |-> "active", price |-> p]
             two == [type |-> "updated", sub |-> s, state |-> "active", price |-> p]
  <2>1. /\ stripe[s].state = "none" /\ stripe' = [stripe EXCEPT ![s] = x]
        /\ events' = events \o <<one, two>> \/ events' = events \o <<two, one>>
        /\ org' = org /\ handled' = handled /\ handler' = handler /\ carries' = carries
    BY <1>2 DEF Stripe!CompleteCheckout, Stripe!Make, Stripe!Event, Stripe!Sub
  <2>2. x \in StripeSub /\ x.sub = s /\ x.state = "active" /\ stripe'[s] = x /\ stripe'[s] # stripe[s]
    BY <1>1, <2>1 DEF StripeSub, States3
  <2>3. /\ one \in StripeEvent /\ one.sub = s /\ Same(one, x) /\ one.type # "deleted"
        /\ two \in StripeEvent /\ two.sub = s /\ Same(two, x) /\ two.type # "deleted"
    BY DEF StripeEvent, States3, Same
  <2> HIDE DEF x, one, two
  <2>4. ASSUME NEW e1 \in {one, two}, NEW e2 \in {one, two}, events' = events \o <<e1, e2>>
        PROVE  BillInv'
    <3>1. /\ <<e1, e2>> \in Seq(StripeEvent) /\ Len(<<e1, e2>>) = 2
          /\ DOMAIN <<e1, e2>> = {1, 2}
      BY <2>3
    <3>2. \A k \in DOMAIN <<e1, e2>> : <<e1, e2>>[k] \in {one, two}
      BY <3>1
    <3>3. \A k \in DOMAIN <<e1, e2>> :
            /\ <<e1, e2>>[k].sub = s /\ Same(<<e1, e2>>[k], x)
            /\ <<e1, e2>>[k].type = "deleted" <=> x.state = "canceled"
      BY <2>2, <2>3, <3>2
    <3> DEFINE made == <<e1, e2>>
    <3>4. made \in Seq(StripeEvent) /\ Len(made) # 0
      BY <3>1
    <3>5. events' = events \o made
      BY <2>4
    <3>6. \A k \in DOMAIN made :
            /\ made[k].sub = s /\ Same(made[k], x)
            /\ made[k].type = "deleted" <=> x.state = "canceled"
      BY <3>3
    <3> HIDE DEF made
    <3> QED
      BY <2>1, <2>2, <3>4, <3>5, <3>6, MakeStep
  <2> QED
    BY <2>1, <2>4
<1>3. ASSUME NEW x \in StripeSub, NEW e \in StripeEvent, x.sub = s, x.state # "none",
             stripe[s].state \notin {"none", "canceled"}, stripe' = [stripe EXCEPT ![s] = x],
             stripe' # stripe, events' = events \o <<e>>, e.sub = s, Same(e, x),
             e.type = "deleted" <=> x.state = "canceled",
             org' = org, handled' = handled, handler' = handler, carries' = carries
      PROVE  BillInv'
  <2> DEFINE made == <<e>>
  <2>1. made \in Seq(StripeEvent) /\ Len(made) = 1 /\ DOMAIN made = {1} /\ made[1] = e
    OBVIOUS
  <2>2. stripe'[s] # stripe[s]
    BY <1>1, <1>3
  <2>3. events' = events \o made
    BY <1>3
  <2> HIDE DEF made
  <2>4. \A k \in DOMAIN made :
          /\ made[k].sub = s /\ Same(made[k], x)
          /\ made[k].type = "deleted" <=> x.state = "canceled"
    BY <1>3, <2>1
  <2>5. Len(made) # 0
    BY <2>1
  <2> QED
    BY <1>3, <2>1, <2>2, <2>3, <2>4, <2>5, MakeStep
<1>4. ASSUME NEW p \in Prices, NEW state \in {"active", "past_due"},
             Stripe!UpdateSubscription(s, state, p)
      PROVE  BillInv'
  <2> DEFINE x == [sub |-> s, state |-> state, price |-> p]
             e == [type |-> "updated", sub |-> s, state |-> state, price |-> p]
  <2>1. /\ stripe[s].state \in {"active", "past_due"} /\ stripe' = [stripe EXCEPT ![s] = x]
        /\ stripe' # stripe /\ stripe'[s] = x
        /\ org' = org /\ handled' = handled /\ handler' = handler /\ carries' = carries
    BY <1>1, <1>4 DEF Stripe!UpdateSubscription, Stripe!Sub
  <2>2. events' = events \o <<e>>
    BY <1>4, <2>1 DEF Stripe!UpdateSubscription, Stripe!Make, Stripe!Event
  <2>3. /\ x \in StripeSub /\ x.sub = s /\ x.state \in {"active", "past_due"}
        /\ e \in StripeEvent /\ e.sub = s /\ Same(e, x) /\ e.type = "updated"
    BY DEF StripeSub, StripeEvent, States3, Same
  <2> HIDE DEF x, e
  <2> QED
    BY <1>3, <2>1, <2>2, <2>3
<1>5. CASE Stripe!CancelSubscription(s)
  <2> DEFINE x == [stripe[s] EXCEPT !.state = "canceled"]
             e == [type |-> "deleted", sub |-> s, state |-> "canceled", price |-> x.price]
  <2>1. /\ stripe[s].state \in {"active", "past_due"} /\ stripe' = [stripe EXCEPT ![s] = x]
        /\ stripe'[s] = x
        /\ org' = org /\ handled' = handled /\ handler' = handler /\ carries' = carries
    BY <1>1, <1>5 DEF Stripe!CancelSubscription
  <2>2. x \in StripeSub /\ x.sub = s /\ x.state = "canceled"
    BY <1>1 DEF StripeSub, States3
  <2>3. events' = events \o <<e>>
    BY <1>5, <2>1, <2>2 DEF Stripe!CancelSubscription, Stripe!Make, Stripe!Event
  <2>4. e \in StripeEvent /\ e.sub = s /\ Same(e, x) /\ e.type = "deleted"
    BY <2>2 DEF StripeSub, StripeEvent, States3, Same
  <2> HIDE DEF x, e
  <2>5. stripe' # stripe
    BY <2>1, <2>2
  <2> QED
    BY <1>3, <2>1, <2>2, <2>3, <2>4, <2>5
<1> QED
  BY <1>2, <1>4, <1>5 DEF Prices

LEMMA BillNextInv ==
    ASSUME None \notin Subs, BillInv, [Stripe!Next]_Stripe!vars
    PROVE  BillInv'
<1>1. CASE UNCHANGED Stripe!vars
  BY <1>1 DEF Stripe!vars, BillInv, BillTypes, EventsAgree, HandlersAgree, OrgAgrees, Latest, Same,
              Ending, Awaited, Stripe!Known
<1>2. CASE Stripe!Next
  <2>1. (serial' => serial) /\ (alive' => alive)
    <3>1. ASSUME NEW s \in Subs, NEW p \in Plans \cup {Unknown},
                 \/ Stripe!CompleteCheckout(s, p) \/ Stripe!CancelSubscription(s)
                 \/ \E state \in {"active", "past_due"} : Stripe!UpdateSubscription(s, state, p)
          PROVE  (serial' => serial) /\ (alive' => alive)
      BY <3>1 DEF Stripe!CompleteCheckout, Stripe!UpdateSubscription, Stripe!CancelSubscription
    <3>2. ASSUME NEW g \in Handlers,
                 \/ \E i \in DOMAIN events : Stripe!Deliver(g, i)
                 \/ Stripe!Link(g) \/ Stripe!Read(g) \/ Stripe!Retrieve(g) \/ Stripe!Find(g)
                 \/ Stripe!Apply(g) \/ Stripe!End(g) \/ Stripe!Clear(g) \/ Stripe!Status(g)
          PROVE  (serial' => serial) /\ (alive' => alive)
      <4>1. ASSUME NEW i \in DOMAIN events, Stripe!Deliver(g, i)
            PROVE  (serial' => serial) /\ (alive' => alive)
        BY <4>1 DEF Stripe!Deliver
      <4>2. CASE Stripe!Status(g)
        BY <4>2 DEF Stripe!Status
      <4>3. CASE \/ Stripe!Link(g) \/ Stripe!Read(g) \/ Stripe!Retrieve(g) \/ Stripe!Find(g)
                 \/ Stripe!Apply(g) \/ Stripe!End(g) \/ Stripe!Clear(g)
        BY <4>3 DEF Stripe!Link, Stripe!Read, Stripe!Retrieve, Stripe!Find, Stripe!Apply,
                    Stripe!End, Stripe!Clear, Stripe!Elsewhere
      <4> QED
        BY <3>2, <4>1, <4>2, <4>3
    <3>3. CASE Stripe!DeleteOrganization
      BY <3>3 DEF Stripe!DeleteOrganization
    <3>4. ASSUME NEW s \in Subs, Stripe!CancelSubscription(s)
          PROVE  (serial' => serial) /\ (alive' => alive)
      BY <3>4 DEF Stripe!CancelSubscription
    <3> QED
      BY <1>2, <3>1, <3>2, <3>3, <3>4 DEF Stripe!Next
  <2>2. ASSUME serial', alive' PROVE BillInv'
    <3>1. \/ \E s \in Subs :
               \/ \E p \in Plans \cup {Unknown} :
                    \/ Stripe!CompleteCheckout(s, p)
                    \/ \E state \in {"active", "past_due"} : Stripe!UpdateSubscription(s, state, p)
               \/ Stripe!CancelSubscription(s)
          \/ \E g \in Handlers :
               \/ \E i \in DOMAIN events : Stripe!Deliver(g, i)
               \/ Stripe!Link(g) \/ Stripe!Read(g) \/ Stripe!Retrieve(g) \/ Stripe!Find(g)
               \/ Stripe!Apply(g) \/ Stripe!End(g) \/ Stripe!Clear(g)
      BY <1>2, <2>2 DEF Stripe!Next, Stripe!Status, Stripe!DeleteOrganization
    <3> QED
      BY <2>1, <2>2, <3>1, StripeSteps, DeliverStep, HandlerSteps
  <2> QED
    BY <2>2 DEF BillInv
<1> QED
  BY <1>1, <1>2

\* When the events of Stripe were handled in order, a linked subscription has not ended and
\* its plan and quota are in force, and without one the plan is free (billing webhook), for
\* any number of subscriptions, plans, events and handlers.
THEOREM SerialBillingAgree == ASSUME None \notin Subs PROVE MCSpec => []SerialBillingAgrees
<1>1. BillInv => SerialBillingAgrees
  <2> SUFFICES ASSUME BillInv, serial, alive, Stripe!Quiet
               PROVE  /\ org.sub = None => org.plan = "free"
                      /\ \A s \in Subs : org.sub = s =>
                          /\ stripe[s].state # "canceled"
                          /\ stripe[s].state = "active" /\ Stripe!Known(s) =>
                                org.plan = stripe[s].price /\ org.quota = stripe[s].price
    BY DEF SerialBillingAgrees, Stripe!SerialBillingAgrees
  <2>1. /\ EventsAgree /\ OrgAgrees /\ handled = Len(events) /\ DOMAIN events = 1 .. handled
        /\ handled \in Nat /\ \A g \in Handlers : handler[g] = "idle"
    BY LenProperties DEF BillInv, BillTypes, Stripe!Quiet
  <2>2. ASSUME NEW s \in Subs, org.sub = s PROVE stripe[s].state # "canceled"
    <3> SUFFICES ASSUME stripe[s].state = "canceled" PROVE FALSE
      OBVIOUS
    <3>1. PICK i \in DOMAIN events : Latest(i, s)
      BY <2>1 DEF EventsAgree
    <3>2. i \in 1 .. handled /\ events[i].sub = org.sub /\ events[i].state = "canceled"
      BY <2>1, <2>2, <3>1 DEF Latest, Same
    <3>3. PICK g \in Handlers : Ending(g)
      BY <2>1, <3>2 DEF OrgAgrees
    <3> QED
      BY <2>1, <3>3 DEF Ending
  <2>3. \A s \in Subs : ~Awaited(s)
    BY <2>1 DEF Awaited
  <2> QED
    BY <2>1, <2>2, <2>3 DEF OrgAgrees, Stages7
<1>2. Stripe!Init => BillInv
  BY BillInitInv
<1>3. BillInv /\ [Stripe!Next]_Stripe!vars => BillInv'
  BY BillNextInv
<1>4. Stripe!Spec => []BillInv
  BY <1>2, <1>3, PTL DEF Stripe!Spec
<1> QED
  BY <1>1, <1>4, BillingRuns, PTL

-----------------------------------------------------------------------------
(* Loops: induction over the turns, and that a recursive function has the    *)
(* values its definition says.                                               *)

LEMMA NatSets ==
    ASSUME NEW S, 0 \in S, \A n \in Nat : n \in S => n + 1 \in S
    PROVE  Nat \subseteq S
<1> SUFFICES ASSUME Nat \ S # {} PROVE FALSE
  OBVIOUS
<1> DEFINE Less == {p \in Nat \X Nat : p[1] < p[2]}
<1>1. IsWellFoundedOn(Less, Nat)
  BY NatLessThanWellFounded DEF OpToRel
<1> HIDE DEF Less
<1>2. PICK m \in Nat \ S : \A k \in Nat \ S : <<k, m>> \notin Less
  BY <1>1, WFMin
<1>3. m # 0 /\ m - 1 \in Nat /\ m = (m - 1) + 1
  BY <1>2
<1>4. <<m - 1, m>> \in Less
  BY <1>3 DEF Less
<1>5. m - 1 \in S
  BY <1>2, <1>3, <1>4
<1> QED
  BY <1>2, <1>3, <1>5

\* The first n turns of a loop that starts from a and whose turn k is t.
Partial(P, a, t, n) ==
    {f \in [0 .. n -> P] : f[0] = a /\ \A k \in 0 .. n - 1 : f[k + 1] = t[<<k, f[k]>>]}

LEMMA PartialExists ==
    ASSUME NEW P, NEW a \in P, NEW t \in [Nat \X P -> P]
    PROVE  \A n \in Nat : Partial(P, a, t, n) # {}
<1> DEFINE S == {n \in Nat : Partial(P, a, t, n) # {}}
<1>1. 0 \in S
  <2> DEFINE f == [i \in 0 .. 0 |-> a]
  <2>1. f \in Partial(P, a, t, 0)
    BY DEF Partial
  <2> QED
    BY <2>1
<1>2. ASSUME NEW n \in Nat, n \in S PROVE n + 1 \in S
  <2>1. PICK f : f \in Partial(P, a, t, n)
    BY <1>2
  <2> DEFINE f1 == [i \in 0 .. n + 1 |-> IF i = n + 1 THEN t[<<n, f[n]>>] ELSE f[i]]
  <2>2. f \in [0 .. n -> P] /\ f[0] = a /\ \A k \in 0 .. n - 1 : f[k + 1] = t[<<k, f[k]>>]
    BY <2>1 DEF Partial
  <2>3. f[n] \in P /\ t[<<n, f[n]>>] \in P
    BY <2>2
  <2>4. f1 \in [0 .. n + 1 -> P]
    BY <2>2, <2>3
  <2>5. f1[0] = a
    BY <2>2
  <2>6. ASSUME NEW k \in 0 .. n PROVE f1[k + 1] = t[<<k, f1[k]>>]
    <3>1. f1[k] = f[k]
      OBVIOUS
    <3>2. CASE k = n
      <4>1. f1[n + 1] = t[<<n, f[n]>>]
        OBVIOUS
      <4> QED
        BY <3>1, <3>2, <4>1
    <3>3. CASE k # n
      <4>1. k \in 0 .. n - 1 /\ k + 1 \in 0 .. n + 1 /\ k + 1 # n + 1
        BY <3>3
      <4> QED
        BY <2>2, <3>1, <4>1
    <3> QED
      BY <3>2, <3>3
  <2> HIDE DEF f1
  <2>7. f1 \in Partial(P, a, t, n + 1)
    BY <2>4, <2>5, <2>6 DEF Partial
  <2> QED
    BY <2>7
<1>3. Nat \subseteq S
  <2> HIDE DEF S
  <2> QED
    BY <1>1, <1>2, NatSets
<1> QED
  BY <1>3

LEMMA PartialAgrees ==
    ASSUME NEW P, NEW a \in P, NEW t \in [Nat \X P -> P], NEW n \in Nat,
           NEW f \in Partial(P, a, t, n), NEW g \in Partial(P, a, t, n + 1)
    PROVE  f[n] = g[n]
<1> DEFINE S == {i \in Nat : i <= n => f[i] = g[i]}
<1>1. /\ f[0] = a /\ g[0] = a
      /\ \A k \in 0 .. n - 1 : f[k + 1] = t[<<k, f[k]>>] /\ g[k + 1] = t[<<k, g[k]>>]
  BY DEF Partial
<1>2. 0 \in S
  BY <1>1
<1>3. ASSUME NEW i \in Nat, i \in S PROVE i + 1 \in S
  <2> SUFFICES ASSUME i + 1 <= n PROVE f[i + 1] = g[i + 1]
    OBVIOUS
  <2>1. i \in 0 .. n - 1 /\ f[i] = g[i]
    BY <1>3
  <2> QED
    BY <1>1, <2>1
<1>4. Nat \subseteq S
  <2> HIDE DEF S
  <2> QED
    BY <1>2, <1>3, NatSets
<1> QED
  BY <1>4

\* All turns of the loop.
Loop(f, P, a, t) ==
    f \in [Nat -> P] /\ f[0] = a /\ \A k \in Nat : f[k + 1] = t[<<k, f[k]>>]

LEMMA LoopExists ==
    ASSUME NEW P, NEW a \in P, NEW t \in [Nat \X P -> P]
    PROVE  \E f : Loop(f, P, a, t)
<1> DEFINE Turns(n) == CHOOSE f : f \in Partial(P, a, t, n)
           f == [n \in Nat |-> Turns(n)[n]]
<1>1. ASSUME NEW n \in Nat PROVE Turns(n) \in Partial(P, a, t, n)
  BY PartialExists
<1>2. \A n \in Nat : Turns(n) \in Partial(P, a, t, n)
  BY <1>1
<1> HIDE DEF Turns
<1>3. f \in [Nat -> P]
  BY <1>2 DEF Partial
<1>4. f[0] = a
  BY <1>2 DEF Partial
<1>5. ASSUME NEW k \in Nat PROVE f[k + 1] = t[<<k, f[k]>>]
  <2>1. Turns(k)[k] = Turns(k + 1)[k]
    BY <1>2, PartialAgrees
  <2>2. Turns(k + 1)[k + 1] = t[<<k, Turns(k + 1)[k]>>]
    BY <1>2 DEF Partial
  <2> QED
    BY <2>1, <2>2
<1> HIDE DEF f
<1>6. Loop(f, P, a, t)
  BY <1>3, <1>4, <1>5 DEF Loop
<1> QED
  BY <1>6

-----------------------------------------------------------------------------
(* The pages of a report.                                                    *)

BlankPage == [Files!NoPdf EXCEPT !.rowY = Files!FirstRow]

\* k rows on the pages of p, between header and footer, and none reaches into the next.
LaidOut(p, k) ==
    /\ p \in Files!Document /\ p.page >= 1 /\ p.next = k
    /\ p.footers = 1 .. p.page - 1
    /\ IsFiniteSet(p.drawn) /\ Cardinality(p.drawn) = k
    /\ p.rowY >= IF p.page = 1 THEN Files!FirstRow ELSE Files!ContinuedRow
    /\ \A row \in p.drawn :
        /\ row[2] >= IF row[1] = 1 THEN Files!FirstRow ELSE Files!ContinuedRow
        /\ row[1] <= p.page /\ row[2] + Files!ROW_H <= Files!FooterRule
        /\ row[1] = p.page => row[2] + Files!ROW_H <= p.rowY
        /\ \A other \in p.drawn :
            row[1] = other[1] /\ row[2] < other[2] => row[2] + Files!ROW_H <= other[2]

LEMMA FileCardinality == \A S : Files!Cardinality(S) = Cardinality(S)
BY DEF Cardinality, Files!Cardinality

LEMMA Layout ==
    /\ Files!FirstRow = 348 /\ Files!ContinuedRow = 74 /\ Files!ROW_H = 24
    /\ Files!FooterRule = 769
    /\ \A y \in Nat : Files!Overflow(y) <=> y + 24 > 737
BY DEF Files!FirstRow, Files!ContinuedRow, Files!ROW_H, Files!FooterRule, Files!Overflow,
   Files!drawTableHeader, Files!SECTION_Y, Files!STAT_Y, Files!META_Y, Files!ML,
   Files!PageHeight, Files!BOTTOM_MARGIN

LEMMA FirstPage == LaidOut(BlankPage, 0)
<1>1. /\ BlankPage.drawn = {} /\ BlankPage.next = 0 /\ BlankPage.page = 1
      /\ BlankPage.rowY = Files!FirstRow /\ BlankPage.footers = {}
  BY DEF BlankPage, Files!NoPdf
<1>2. BlankPage = [drawn |-> {}, next |-> 0, page |-> 1, rowY |-> Files!FirstRow, footers |-> {}]
  BY DEF BlankPage, Files!NoPdf
<1>3. BlankPage \in Files!Document
  BY <1>2, Layout DEF Files!Document
<1>4. 1 .. 1 - 1 = {}
  OBVIOUS
<1> QED
  BY <1>1, <1>3, <1>4, Layout, FS_EmptySet DEF LaidOut

\* The page a turn draws on: with the header again when there was no room.
PageFor(p) == IF Files!Overflow(p.rowY) THEN Files!Continued(p) ELSE p

LEMMA PageForRow ==
    ASSUME NEW k \in Nat, NEW p, LaidOut(p, k)
    PROVE  /\ LaidOut(PageFor(p), k)
           /\ PageFor(p).rowY + Files!ROW_H <= Files!FooterRule
<1>1. p \in Files!Document /\ p.rowY \in Nat /\ p.page \in Nat
  BY DEF LaidOut, Files!Document
<1>2. CASE ~Files!Overflow(p.rowY)
  BY <1>1, <1>2, Layout DEF PageFor
<1>3. CASE Files!Overflow(p.rowY)
  <2> DEFINE q == Files!Continued(p)
  <2>1. /\ q.drawn = p.drawn /\ q.next = p.next /\ q.page = p.page + 1
        /\ q.rowY = Files!ContinuedRow /\ q.footers = p.footers \cup {p.page}
        /\ q \in Files!Document
    <3>1. /\ q.drawn = p.drawn /\ q.next = p.next /\ q.page = p.page + 1
          /\ q.rowY = Files!ContinuedRow /\ q.footers = p.footers \cup {p.page}
      BY <1>1 DEF Files!Continued, Files!Document
    <3>2. /\ p.footers \cup {p.page} \in SUBSET Nat /\ p.page + 1 \in Nat
          /\ Files!ContinuedRow \in Nat
      BY <1>1, Layout DEF Files!Document
    <3>3. q \in Files!Document
      BY <1>1, <3>2 DEF Files!Continued, Files!Document
    <3> QED
      BY <3>1, <3>3
  <2> HIDE DEF q
  <2>2. q.footers = 1 .. q.page - 1
    BY <1>1, <2>1 DEF LaidOut
  <2>3. q.page >= 1 /\ q.page # 1
    BY <1>1, <2>1 DEF LaidOut
  <2>4. \A row \in q.drawn : row[1] <= q.page /\ row[1] # q.page
    <3> SUFFICES ASSUME NEW row \in q.drawn PROVE row[1] <= q.page /\ row[1] # q.page
      OBVIOUS
    <3>1. row[1] \in Nat /\ row[1] <= p.page
      BY <1>1, <2>1 DEF LaidOut, Files!Document
    <3> QED
      BY <1>1, <2>1, <3>1
  <2>5. IsFiniteSet(q.drawn) /\ Cardinality(q.drawn) = k /\ q.next = k
    BY <2>1 DEF LaidOut
  <2>6. q.rowY >= IF q.page = 1 THEN Files!FirstRow ELSE Files!ContinuedRow
    BY <2>1, <2>3, Layout
  <2>7. \A row \in q.drawn :
          /\ row[2] >= IF row[1] = 1 THEN Files!FirstRow ELSE Files!ContinuedRow
          /\ row[2] + Files!ROW_H <= Files!FooterRule
          /\ \A other \in q.drawn :
              row[1] = other[1] /\ row[2] < other[2] => row[2] + Files!ROW_H <= other[2]
    BY <2>1 DEF LaidOut
  <2>8. LaidOut(q, k)
    BY <2>1, <2>2, <2>3, <2>4, <2>5, <2>6, <2>7 DEF LaidOut
  <2> QED
    BY <1>3, <2>1, <2>8, Layout DEF PageFor, q
<1> QED
  BY <1>2, <1>3

LEMMA TurnDraws ==
    ASSUME NEW k \in Nat, NEW p, LaidOut(p, k)
    PROVE  LaidOut(Files!Turn[p], k + 1)
<1> DEFINE q == PageFor(p)
           new == <<q.page, q.rowY>>
           x == Files!Turn[p]
<1>1. LaidOut(q, k) /\ q.rowY + Files!ROW_H <= Files!FooterRule
  BY PageForRow
<1>2. q \in Files!Document /\ q.rowY \in Nat /\ q.page \in Nat /\ q.next = k /\ q.drawn \subseteq Nat \X Nat
  BY <1>1 DEF LaidOut, Files!Document
<1>3. x = [q EXCEPT !.drawn = @ \cup {new}, !.next = @ + 1, !.rowY = @ + Files!ROW_H]
  <2>1. p \in Files!Document
    BY DEF LaidOut
  <2> QED
    BY <2>1 DEF Files!Turn, PageFor
<1> HIDE DEF q
<1>4. /\ x.drawn = q.drawn \cup {new} /\ x.next = k + 1 /\ x.page = q.page
      /\ x.rowY = q.rowY + 24 /\ x.footers = q.footers
      /\ x \in Files!Document
  <2>1. /\ x.drawn = q.drawn \cup {new} /\ x.next = q.next + 1 /\ x.page = q.page
        /\ x.rowY = q.rowY + Files!ROW_H /\ x.footers = q.footers
    BY <1>2, <1>3 DEF Files!Document
  <2>2. new \in Nat \X Nat
    BY <1>2
  <2>3. /\ q.drawn \cup {new} \in SUBSET (Nat \X Nat) /\ q.next + 1 \in Nat
        /\ q.rowY + Files!ROW_H \in Nat
    BY <1>2, <2>2, Layout
  <2> HIDE DEF new
  <2>4. x \in Files!Document
    BY <1>2, <1>3, <2>3 DEF Files!Document
  <2> QED
    BY <1>2, <2>1, <2>4, Layout
<1> HIDE DEF x
<1>5. new[1] = q.page /\ new[2] = q.rowY
  OBVIOUS
<1> HIDE DEF new
<1>6. /\ x.page >= 1 /\ x.footers = 1 .. x.page - 1
      /\ x.rowY >= IF x.page = 1 THEN Files!FirstRow ELSE Files!ContinuedRow
      /\ new[2] >= IF new[1] = 1 THEN Files!FirstRow ELSE Files!ContinuedRow
  BY <1>1, <1>2, <1>4, <1>5, Layout DEF LaidOut
<1>7. \A row \in q.drawn :
        /\ row[1] \in Nat /\ row[2] \in Nat
        /\ row[2] >= IF row[1] = 1 THEN Files!FirstRow ELSE Files!ContinuedRow
        /\ row[1] <= q.page /\ row[2] + 24 <= Files!FooterRule
        /\ row[1] = q.page => row[2] + 24 <= q.rowY
        /\ \A other \in q.drawn : row[1] = other[1] /\ row[2] < other[2] => row[2] + 24 <= other[2]
  BY <1>1, <1>2, Layout DEF LaidOut
<1>8. new \notin q.drawn
  <2> SUFFICES ASSUME new \in q.drawn PROVE FALSE
    OBVIOUS
  <2>1. new[2] + 24 <= q.rowY
    BY <1>5, <1>7
  <2> QED
    BY <1>2, <1>5, <2>1
<1>9. IsFiniteSet(x.drawn) /\ Cardinality(x.drawn) = k + 1
  <2>1. IsFiniteSet(q.drawn) /\ Cardinality(q.drawn) = k
    BY <1>1 DEF LaidOut
  <2>2. /\ IsFiniteSet(q.drawn \cup {new})
        /\ Cardinality(q.drawn \cup {new}) =
            IF new \in q.drawn THEN Cardinality(q.drawn) ELSE Cardinality(q.drawn) + 1
    BY <2>1, FS_AddElement
  <2> QED
    BY <1>4, <1>8, <2>1, <2>2, Zenon
<1>10. ASSUME NEW row \in x.drawn
       PROVE  /\ row[2] >= IF row[1] = 1 THEN Files!FirstRow ELSE Files!ContinuedRow
              /\ row[1] <= x.page /\ row[2] + 24 <= Files!FooterRule
              /\ row[1] = x.page => row[2] + 24 <= x.rowY
  <2>1. CASE row = new
    BY <1>1, <1>2, <1>4, <1>5, <1>6, <2>1, Layout
  <2>2. CASE row \in q.drawn
    BY <1>2, <1>4, <1>7, <2>2
  <2> QED
    BY <1>4, <2>1, <2>2
<1>11. ASSUME NEW row \in x.drawn, NEW other \in x.drawn, row[1] = other[1], row[2] < other[2]
       PROVE  row[2] + 24 <= other[2]
  <2>1. CASE row \in q.drawn /\ other \in q.drawn
    BY <1>7, <1>11, <2>1
  <2>2. CASE row \in q.drawn /\ other = new
    BY <1>5, <1>7, <1>11, <2>2
  <2>3. CASE row = new /\ other \in q.drawn
    <3>1. other[2] + 24 <= q.rowY /\ other[2] \in Nat
      BY <1>5, <1>7, <1>11, <2>3
    <3> QED
      BY <1>2, <1>5, <1>11, <2>3, <3>1
  <2>4. CASE row = new /\ other = new
    BY <1>2, <1>5, <1>11, <2>4
  <2> QED
    BY <1>4, <2>1, <2>2, <2>3, <2>4
<1>12. LaidOut(x, k + 1)
  BY <1>4, <1>6, <1>9, <1>10, <1>11, Layout DEF LaidOut
<1> QED
  BY <1>12 DEF x

\* forEach has the values its definition says, for every number of turns.
LEMMA Turns ==
    /\ Files!forEach[0] = BlankPage
    /\ \A k \in Nat : Files!forEach[k + 1] = Files!Turn[Files!forEach[k]]
<1> DEFINE P == UNION {{p \in Files!Document : LaidOut(p, k)} : k \in Nat}
           t == [e \in Nat \X P |-> Files!Turn[e[2]]]
           Body(f) == [k \in Nat |-> IF k = 0 THEN BlankPage ELSE Files!Turn[f[k - 1]]]
<1>1. \A p \in P : Files!Turn[p] \in P
  <2> SUFFICES ASSUME NEW p \in P PROVE Files!Turn[p] \in P
    OBVIOUS
  <2>1. PICK k \in Nat : LaidOut(p, k)
    OBVIOUS
  <2>2. LaidOut(Files!Turn[p], k + 1)
    BY <2>1, TurnDraws
  <2>3. Files!Turn[p] \in Files!Document
    BY <2>2 DEF LaidOut
  <2> QED
    BY <2>2, <2>3
<1>2. BlankPage \in P
  BY FirstPage DEF LaidOut
<1> HIDE DEF P
<1>3. t \in [Nat \X P -> P]
  BY <1>1
<1>4. \A k \in Nat : \A p \in P : t[<<k, p>>] = Files!Turn[p]
  OBVIOUS
<1> HIDE DEF t
<1>5. PICK f : Loop(f, P, BlankPage, t)
  BY <1>2, <1>3, LoopExists
<1>6. f \in [Nat -> P] /\ f[0] = BlankPage /\ \A k \in Nat : f[k + 1] = Files!Turn[f[k]]
  BY <1>4, <1>5 DEF Loop
<1>7. f = Body(f)
  <2>1. ASSUME NEW k \in Nat PROVE f[k] = Body(f)[k]
    <3>1. CASE k = 0
      BY <1>6, <3>1
    <3>2. CASE k # 0
      <4>1. k - 1 \in Nat /\ (k - 1) + 1 = k
        BY <3>2
      <4> QED
        BY <1>6, <3>2, <4>1
    <3> QED
      BY <3>1, <3>2
  <2> QED
    BY <1>6, <2>1
<1>8. Files!forEach = CHOOSE g : g = Body(g)
  BY DEF Files!forEach, BlankPage
<1>9. Files!forEach = Body(Files!forEach)
  BY <1>7, <1>8
<1>10. /\ Files!forEach[0] = BlankPage
       /\ \A k \in Nat : Files!forEach[k] = IF k = 0 THEN BlankPage ELSE Files!Turn[Files!forEach[k - 1]]
  BY <1>9
<1>11. \A k \in Nat : k + 1 \in Nat /\ k + 1 # 0 /\ (k + 1) - 1 = k
  OBVIOUS
<1> QED
  BY <1>10, <1>11

LEMMA AllLaidOut == \A k \in Nat : LaidOut(Files!forEach[k], k)
<1> DEFINE S == {k \in Nat : LaidOut(Files!forEach[k], k)}
<1>1. 0 \in S
  BY Turns, FirstPage
<1>2. \A k \in Nat : k \in S => k + 1 \in S
  BY Turns, TurnDraws
<1>3. Nat \subseteq S
  <2> HIDE DEF S
  <2> QED
    BY <1>1, <1>2, NatSets
<1> QED
  BY <1>3

ReportConstants == Days \subseteq Int /\ Bulks \subseteq Nat

Rows == [format : Files!Formats, from : Days, to : Days]
Downloads ==
    [at : {"idle", "found", "sent"}, report : Rows \cup {None}, rows : Nat]

\* A download that is under way has found a row; the document being sent is that of all the
\* logs the second statement read.
ReportInv ==
    /\ reports \in [ReportIds -> Rows \cup {None}] /\ byDay \in [Days -> Nat]
    /\ download \in Downloads
    /\ download.at = "found" => download.report \in Rows
    /\ download.at = "sent" => pdf = Files!generatePdf(download.rows)

\* The logs of a range are finitely many.
LEMMA RangeCount ==
    ASSUME ReportConstants, byDay \in [Days -> Nat], NEW r \in Rows
    PROVE  Files!InRange(r) \in Nat
<1> DEFINE D == Days \cap (r.from .. r.to)
           Logs(d) == {d} \X (1 .. byDay[d])
           f == [d \in D |-> Logs(d)]
<1>1. r.from \in Int /\ r.to \in Int
  BY DEF Rows, ReportConstants
<1>2. IsFiniteSet(D)
  BY <1>1, FS_Interval, FS_Subset
<1>3. ASSUME NEW d \in D PROVE IsFiniteSet(Logs(d))
  <2>1. byDay[d] \in Nat
    OBVIOUS
  <2>2. IsFiniteSet(1 .. byDay[d])
    BY <2>1, FS_Interval
  <2>3. IsFiniteSet({d})
    BY FS_Singleton
  <2> QED
    BY <2>2, <2>3, FS_Product
<1>4. \A d \in D : IsFiniteSet(Logs(d))
  BY <1>3
<1> HIDE DEF D, Logs
<1>5. f \in Surjection(D, {Logs(d) : d \in D})
  BY DEF Surjection
<1>6. IsFiniteSet({Logs(d) : d \in D})
  BY <1>2, <1>5, FS_Surjection
<1>7. \A T \in {Logs(d) : d \in D} : IsFiniteSet(T)
  BY <1>4
<1>8. IsFiniteSet(UNION {Logs(d) : d \in D})
  BY <1>6, <1>7, FS_UNION
<1>9. Cardinality(UNION {Logs(d) : d \in D}) \in Nat
  BY <1>8, FS_CardinalityType
<1> QED
  BY <1>9, FileCardinality DEF Files!InRange, D, Logs

LEMMA ReportNextInv ==
    ASSUME ReportConstants, ReportInv, [Files!ReportNext]_Files!reportVars
    PROVE  ReportInv'
<1>1. /\ reports \in [ReportIds -> Rows \cup {None}] /\ byDay \in [Days -> Nat]
      /\ download \in Downloads
      /\ download.at = "found" => download.report \in Rows
      /\ download.at = "sent" => pdf = Files!generatePdf(download.rows)
  BY DEF ReportInv
<1>2. CASE UNCHANGED Files!reportVars
  BY <1>1, <1>2 DEF Files!reportVars, ReportInv
<1>3. ASSUME NEW i \in ReportIds, Files!Create(i) PROVE ReportInv'
  <2>1. UNCHANGED <<byDay, download, pdf>>
    BY <1>3 DEF Files!Create
  <2>2. PICK format \in Files!Formats, from \in Days, to \in Days :
          reports' = [reports EXCEPT ![i] = [format |-> format, from |-> from, to |-> to]]
    BY <1>3 DEF Files!Create
  <2>3. [format |-> format, from |-> from, to |-> to] \in Rows
    BY DEF Rows
  <2>4. reports' \in [ReportIds -> Rows \cup {None}]
    BY <1>1, <2>2, <2>3
  <2> QED
    BY <1>1, <2>1, <2>4 DEF ReportInv
<1>4. ASSUME NEW i \in ReportIds, Files!FindToRemove(i) PROVE ReportInv'
  BY <1>1, <1>4 DEF Files!FindToRemove, ReportInv
<1>5. ASSUME Files!Remove PROVE ReportInv'
  <2>1. UNCHANGED <<byDay, download, pdf>> /\ reports' = [reports EXCEPT ![removing] = None]
    BY <1>5 DEF Files!Remove
  <2>2. reports' \in [ReportIds -> Rows \cup {None}]
    BY <1>1, <2>1
  <2> QED
    BY <1>1, <2>1, <2>2 DEF ReportInv
<1>6. ASSUME NEW i \in ReportIds, Files!Find(i) PROVE ReportInv'
  <2>1. /\ UNCHANGED <<reports, byDay, pdf>> /\ reports[i] \in Rows
        /\ download' = [download EXCEPT !.at = "found", !.report = reports[i]]
    BY <1>1, <1>6 DEF Files!Find
  <2>2. download' \in Downloads /\ download'.at = "found" /\ download'.report \in Rows
    BY <1>1, <2>1 DEF Downloads
  <2> QED
    BY <1>1, <2>1, <2>2 DEF ReportInv
<1>7. ASSUME Files!ReadLogs PROVE ReportInv'
  <2> DEFINE n == Files!InRange(download.report)
  <2>1. UNCHANGED <<reports, byDay>> /\ download.at = "found"
    BY <1>7 DEF Files!ReadLogs
  <2>2. n \in Nat
    BY <1>1, <2>1, RangeCount
  <2>3. \/ /\ download' = [download EXCEPT !.at = "sent", !.rows = n]
           /\ pdf' = Files!generatePdf(n)
        \/ download' = Files!Idle
    BY <1>7 DEF Files!ReadLogs
  <2> HIDE DEF n
  <2>4. CASE /\ download' = [download EXCEPT !.at = "sent", !.rows = n]
             /\ pdf' = Files!generatePdf(n)
    <3>1. download' \in Downloads /\ download'.at = "sent" /\ download'.rows = n
      BY <1>1, <2>2, <2>4 DEF Downloads
    <3>2. Files!generatePdf(download'.rows) = Files!generatePdf(n)
      BY <3>1
    <3> QED
      BY <1>1, <2>1, <2>4, <3>1, <3>2 DEF ReportInv
  <2>5. CASE download' = Files!Idle
    <3>1. download' \in Downloads /\ download'.at = "idle"
      BY <2>5 DEF Files!Idle, Downloads
    <3> QED
      BY <1>1, <2>1, <3>1 DEF ReportInv
  <2> QED
    BY <2>3, <2>4, <2>5
<1>8. ASSUME Files!Sent PROVE ReportInv'
  <2>1. download' \in Downloads /\ download'.at = "idle" /\ UNCHANGED <<reports, byDay>>
    BY <1>8 DEF Files!Sent, Files!Idle, Downloads
  <2> QED
    BY <1>1, <2>1 DEF ReportInv
<1>9. ASSUME Files!LogsArrive \/ Files!LogsErased PROVE ReportInv'
  <2>1. UNCHANGED <<reports, download, pdf>>
    BY <1>9 DEF Files!LogsArrive, Files!LogsErased
  <2>2. byDay' \in [Days -> Nat]
    BY <1>1, <1>9 DEF Files!LogsArrive, Files!LogsErased, ReportConstants
  <2> QED
    BY <1>1, <2>1, <2>2 DEF ReportInv
<1> QED
  BY <1>2, <1>3, <1>4, <1>5, <1>6, <1>7, <1>8, <1>9 DEF Files!ReportNext

\* The PDF of any number of logs has a row for each, on pages of their own header and footer
\* (generatePdf), whatever rows and logs come and go between the statements of a download.
THEOREM RowsAlwaysFit == ASSUME ReportConstants PROVE MCSpec => []RowsFit
<1>1. ReportInv => RowsFit
  <2> SUFFICES ASSUME ReportInv, download.at = "sent"
               PROVE  /\ pdf.next = download.rows /\ Cardinality(pdf.drawn) = download.rows
                      /\ \A row \in pdf.drawn :
                          /\ row[2] >= IF row[1] = 1 THEN Files!FirstRow ELSE Files!ContinuedRow
                          /\ row[2] + Files!ROW_H <= Files!FooterRule
                          /\ \A other \in pdf.drawn :
                              row[1] = other[1] /\ row[2] < other[2]
                                => row[2] + Files!ROW_H <= other[2]
                      /\ pdf.footers = 1 .. pdf.page
    BY FileCardinality DEF RowsFit, Files!RowsFit
  <2> DEFINE p == Files!forEach[download.rows]
  <2>1. download.rows \in Nat /\ pdf = Files!EndPdf(p)
    BY DEF ReportInv, Downloads, Files!generatePdf
  <2>2. LaidOut(p, download.rows)
    BY <2>1, AllLaidOut
  <2> HIDE DEF p
  <2>3. p \in Files!Document /\ p.page \in Nat
    BY <2>2 DEF LaidOut, Files!Document
  <2>4. /\ pdf.next = p.next /\ pdf.drawn = p.drawn /\ pdf.page = p.page
        /\ pdf.footers = p.footers \cup {p.page}
    BY <2>1, <2>3 DEF Files!EndPdf, Files!Document
  <2>5. pdf.footers = 1 .. pdf.page
    BY <2>2, <2>3, <2>4 DEF LaidOut
  <2> QED
    BY <2>2, <2>4, <2>5 DEF LaidOut
<1>2. Files!ReportInit => ReportInv
  <2> SUFFICES ASSUME Files!ReportInit PROVE ReportInv
    OBVIOUS
  <2>1. /\ reports \in [ReportIds -> Rows \cup {None}] /\ byDay \in [Days -> Nat]
        /\ download = Files!Idle
    BY DEF Files!ReportInit
  <2>2. download \in Downloads /\ download.at = "idle"
    BY <2>1 DEF Files!Idle, Downloads
  <2> QED
    BY <2>1, <2>2 DEF ReportInv
<1>3. ReportInv /\ [Files!ReportNext]_Files!reportVars => ReportInv'
  BY ReportNextInv
<1>4. Files!ReportSpec => []ReportInv
  BY <1>2, <1>3, PTL DEF Files!ReportSpec
<1> QED
  BY <1>1, <1>4, FilesRun, PTL

-----------------------------------------------------------------------------
(* The analytics of a policy: one pass counts what the window holds.         *)

LEMMA LogCardinality == \A S : Analytics!Cardinality(S) = Cardinality(S)
BY DEF Cardinality, Analytics!Cardinality

AuditRules == {Order[1]} \X {"warning", "critical"}

LEMMA AuditRulesFinite == IsFiniteSet(AuditRules)
<1>1. IsFiniteSet({Order[1]}) /\ IsFiniteSet({"warning"})
  BY FS_Singleton
<1>2. IsFiniteSet({"warning"} \cup {"critical"})
  BY <1>1, FS_AddElement
<1>3. {"warning", "critical"} = {"warning"} \cup {"critical"}
  OBVIOUS
<1>4. IsFiniteSet({"warning", "critical"})
  BY <1>2, <1>3, Zenon
<1> QED
  BY <1>1, <1>4, FS_Product DEF AuditRules

\* A log is stored with another action than `allow` exactly when it has violations.
AuditLog ==
    {l \in [day : Days, agent : Agents \cup {None}, details : SUBSET AuditRules,
            action : EnforcementActions \cup {"allow"}] : l.action = "allow" <=> l.details = {}}

DayTally == [audits : Nat, violations : Nat, blocks : Nat]
Tally ==
    [audits : Nat, violations : Nat, actions : [EnforcementActions -> Nat],
     rules : [AuditRules -> Nat], agents : [Agents \cup {None} -> Nat],
     days : [Days -> DayTally]]

\* The counts c are those of the logs `hits` of s and of the violations `found` in them.
Agree(c, hits, found, s) ==
    /\ c.audits = Cardinality(hits)
    /\ c.violations = Cardinality(found)
    /\ \A e \in EnforcementActions :
        c.actions[e] = Cardinality({i \in hits : s[i].action = e})
    /\ \A r \in AuditRules : c.rules[r] = Cardinality({v \in found : v[2] = r})
    /\ \A a \in Agents \cup {None} :
        c.agents[a] = Cardinality({i \in hits : s[i].agent = a})
    /\ \A d \in Days :
        /\ c.days[d].audits = Cardinality({i \in hits : s[i].day = d})
        /\ c.days[d].violations = Cardinality({v \in found : s[v[1]].day = d})
        /\ c.days[d].blocks = Cardinality({i \in hits : s[i].day = d /\ s[i].action = "block"})

\* How many of S are in F.
Part(S, F) == Cardinality(S \cap F)

\* One log more: those in F are one more if it is in F.
LEMMA CountHit ==
    ASSUME NEW hits, IsFiniteSet(hits), NEW x, x \notin hits, NEW F
    PROVE  Part(hits \cup {x}, F) = Part(hits, F) + Analytics!One(x \in F)
<1>1. IsFiniteSet(hits \cap F)
  BY FS_Intersection
<1>2. Cardinality(hits \cap F) \in Nat
  BY <1>1, FS_CardinalityType
<1>3. CASE x \in F
  <2>1. (hits \cup {x}) \cap F = (hits \cap F) \cup {x} /\ x \notin hits \cap F
    BY <1>3
  <2>2. Cardinality((hits \cap F) \cup {x}) = Cardinality(hits \cap F) + 1
    BY <1>1, <2>1, FS_AddElement
  <2> QED
    BY <1>3, <2>1, <2>2 DEF Analytics!One, Part
<1>4. CASE x \notin F
  <2>1. (hits \cup {x}) \cap F = hits \cap F
    BY <1>4
  <2>2. Analytics!One(x \in F) = 0
    BY <1>4 DEF Analytics!One
  <2>3. Cardinality((hits \cup {x}) \cap F) = Cardinality(hits \cap F)
    BY <2>1, Zenon
  <2> QED
    BY <1>2, <2>2, <2>3 DEF Part
<1> QED
  BY <1>3, <1>4

\* The violations of one log more: those in F are more by its own that are in F.
LEMMA CountFound ==
    ASSUME NEW found, IsFiniteSet(found), NEW own, IsFiniteSet(own), found \cap own = {}, NEW F
    PROVE  Part(found \cup own, F) = Part(found, F) + Part(own, F)
<1> DEFINE A == found \cap F
           B == own \cap F
<1>1. IsFiniteSet(A) /\ IsFiniteSet(B)
  BY FS_Intersection
<1>2. A \cap B = {} /\ (found \cup own) \cap F = A \cup B
  OBVIOUS
<1> HIDE DEF A, B
<1>3. Cardinality(A \cup B) = Cardinality(A) + Cardinality(B) - Cardinality(A \cap B)
  BY <1>1, FS_Union
<1>4. Cardinality(A \cap B) = 0
  BY <1>2, FS_EmptySet
<1>5. Cardinality(A) \in Nat /\ Cardinality(B) \in Nat
  BY <1>1, FS_CardinalityType
<1>6. Cardinality(A \cup B) = Cardinality(A) + Cardinality(B)
  BY <1>3, <1>4, <1>5
<1>7. Cardinality((found \cup own) \cap F) = Cardinality(A \cup B)
  BY <1>2, Zenon
<1> QED
  BY <1>6, <1>7 DEF A, B, Part

LEMMA RowCardinality ==
    ASSUME NEW x, NEW M, IsFiniteSet(M)
    PROVE  IsFiniteSet({x} \X M) /\ Cardinality({x} \X M) = Cardinality(M)
<1>1. IsFiniteSet({x}) /\ Cardinality({x}) = 1
  BY FS_Singleton
<1>2. IsFiniteSet({x} \X M) /\ Cardinality({x} \X M) = 1 * Cardinality(M)
  BY <1>1, FS_Product
<1>3. Cardinality(M) \in Nat
  BY FS_CardinalityType
<1> QED
  BY <1>2, <1>3

\* The body of the loop, for a log x of its own violations M.
LEMMA CountedAgrees ==
    ASSUME NEW c \in Tally, NEW s, NEW x, s[x] \in AuditLog,
           NEW hits, IsFiniteSet(hits), x \notin hits,
           NEW found, IsFiniteSet(found), found \subseteq hits \X AuditRules,
           NEW M, M \subseteq s[x].details, M # {}, Agree(c, hits, found, s)
    PROVE  /\ Analytics!Counted(c, s[x], M) \in Tally
           /\ Agree(Analytics!Counted(c, s[x], M), hits \cup {x}, found \cup ({x} \X M), s)
<1> DEFINE more == Analytics!Counted(c, s[x], M)
           n == Cardinality(M)
           day == c.days[s[x].day]
           hits1 == hits \cup {x}
           own == {x} \X M
           found1 == found \cup own
<1>1. /\ s[x].day \in Days /\ s[x].agent \in Agents \cup {None}
      /\ s[x].action \in EnforcementActions /\ M \subseteq AuditRules
  BY DEF AuditLog
<1>2. IsFiniteSet(M) /\ n \in Nat
  BY <1>1, AuditRulesFinite, FS_Subset, FS_CardinalityType
<1>3. /\ c.audits \in Nat /\ c.violations \in Nat
      /\ c.actions \in [EnforcementActions -> Nat] /\ c.rules \in [AuditRules -> Nat]
      /\ c.agents \in [Agents \cup {None} -> Nat] /\ c.days \in [Days -> DayTally]
  BY DEF Tally
<1>4. day \in DayTally /\ day.audits \in Nat /\ day.violations \in Nat /\ day.blocks \in Nat
  BY <1>1, <1>3 DEF DayTally
<1>5. /\ Analytics!One(s[x].action = "block") \in Nat
      /\ \A r \in AuditRules : Analytics!One(r \in M) \in Nat
  BY DEF Analytics!One
<1>6. /\ more.audits = c.audits + 1 /\ more.violations = c.violations + n
      /\ more.actions = [c.actions EXCEPT ![s[x].action] = @ + 1]
      /\ more.rules = [r \in AuditRules |-> c.rules[r] + Analytics!One(r \in M)]
      /\ more.agents = [c.agents EXCEPT ![s[x].agent] = @ + 1]
      /\ more.days = [c.days EXCEPT ![s[x].day] =
            [audits |-> day.audits + 1, violations |-> day.violations + n,
             blocks |-> day.blocks + Analytics!One(s[x].action = "block")]]
  BY LogCardinality DEF Analytics!Counted, AuditRules
<1>7. more \in Tally
  <2> DEFINE day1 == [audits |-> day.audits + 1, violations |-> day.violations + n,
                      blocks |-> day.blocks + Analytics!One(s[x].action = "block")]
  <2>1. day1 \in DayTally
    BY <1>2, <1>4, <1>5 DEF DayTally
  <2> HIDE DEF day1
  <2>2. more.days \in [Days -> DayTally]
    <3>1. more.days = [c.days EXCEPT ![s[x].day] = day1]
      BY <1>6 DEF day1
    <3> HIDE DEF more
    <3> QED
      BY <1>1, <1>3, <2>1, <3>1
  <2>3. more.rules \in [AuditRules -> Nat]
    BY <1>3, <1>5, <1>6
  <2>4. more.actions \in [EnforcementActions -> Nat] /\ more.agents \in [Agents \cup {None} -> Nat]
    BY <1>1, <1>3, <1>6
  <2>5. more.audits \in Nat /\ more.violations \in Nat
    BY <1>2, <1>3, <1>6
  <2>6. more = [audits |-> more.audits, violations |-> more.violations, actions |-> more.actions,
                rules |-> more.rules, agents |-> more.agents, days |-> more.days]
    BY DEF Analytics!Counted
  <2> HIDE DEF more
  <2> QED
    BY <2>2, <2>3, <2>4, <2>5, <2>6 DEF Tally
<1> HIDE DEF more, n, day
<1>8. \A F : Part(hits1, F) = Part(hits, F) + Analytics!One(x \in F)
  BY CountHit
<1>9. \A F : Part(found1, F) = Part(found, F) + Part(own, F)
  <2>1. IsFiniteSet(own)
    BY <1>2, RowCardinality
  <2>2. found \cap own = {}
    OBVIOUS
  <2> HIDE DEF own
  <2> QED
    BY <2>1, <2>2, CountFound
<1>10. Agree(c, hits, found, s)
  OBVIOUS
<1>11. x \in hits1 /\ IsFiniteSet(own) /\ Cardinality(own) = n /\ found \cap own = {}
  BY <1>2, RowCardinality DEF n
<1> HIDE DEF hits1, found1, own
<1>12. more.audits = Cardinality(hits1)
  <2>1. c.audits = Cardinality(hits) /\ Cardinality(hits1) = Cardinality(hits) + 1
    BY <1>10, FS_AddElement DEF Agree, hits1
  <2> QED
    BY <1>6, <2>1
<1>13. more.violations = Cardinality(found1)
  <2>1. c.violations = Cardinality(found)
    BY <1>10 DEF Agree
  <2>2. Cardinality(found1) = Cardinality(found) + Cardinality(own) - Cardinality(found \cap own)
    BY <1>11, FS_Union DEF found1
  <2>3. Cardinality(found \cap own) = 0
    BY <1>11, FS_EmptySet
  <2> QED
    BY <1>2, <1>3, <1>6, <1>11, <2>1, <2>2, <2>3
<1>14. ASSUME NEW e \in EnforcementActions
      PROVE  more.actions[e] = Cardinality({i \in hits1 : s[i].action = e})
  <2> DEFINE F == {i \in hits1 : s[i].action = e}
  <2>1. F = hits1 \cap F /\ {i \in hits : s[i].action = e} = hits \cap F /\ (x \in F <=> s[x].action = e)
    BY DEF hits1
  <2>2. Cardinality(F) = Part(hits1, F) /\ Cardinality({i \in hits : s[i].action = e}) = Part(hits, F)
    BY <2>1, Zenon DEF Part
  <2>3. Analytics!One(x \in F) = IF s[x].action = e THEN 1 ELSE 0
    BY <2>1 DEF Analytics!One
  <2>4. more.actions[e] = c.actions[e] + IF s[x].action = e THEN 1 ELSE 0
    BY <1>1, <1>3, <1>4, <1>6
  <2>5. c.actions[e] = Cardinality({i \in hits : s[i].action = e})
    BY <1>10, Zenon DEF Agree
  <2> HIDE DEF F
  <2>6. more.actions[e] = Cardinality(F)
    BY <1>8, <2>2, <2>3, <2>4, <2>5
  <2> QED
    BY <2>6 DEF F
<1>15. ASSUME NEW a \in Agents \cup {None}
      PROVE  more.agents[a] = Cardinality({i \in hits1 : s[i].agent = a})
  <2> DEFINE F == {i \in hits1 : s[i].agent = a}
  <2>1. F = hits1 \cap F /\ {i \in hits : s[i].agent = a} = hits \cap F /\ (x \in F <=> s[x].agent = a)
    BY DEF hits1
  <2>2. Cardinality(F) = Part(hits1, F) /\ Cardinality({i \in hits : s[i].agent = a}) = Part(hits, F)
    BY <2>1, Zenon DEF Part
  <2>3. Analytics!One(x \in F) = IF s[x].agent = a THEN 1 ELSE 0
    BY <2>1 DEF Analytics!One
  <2>4. more.agents[a] = c.agents[a] + IF s[x].agent = a THEN 1 ELSE 0
    BY <1>1, <1>3, <1>4, <1>6
  <2>5. c.agents[a] = Cardinality({i \in hits : s[i].agent = a})
    BY <1>10, Zenon DEF Agree
  <2> HIDE DEF F
  <2>6. more.agents[a] = Cardinality(F)
    BY <1>8, <2>2, <2>3, <2>4, <2>5
  <2> QED
    BY <2>6 DEF F
<1>16. ASSUME NEW d \in Days
      PROVE  more.days[d].audits = Cardinality({i \in hits1 : s[i].day = d})
  <2> DEFINE F == {i \in hits1 : s[i].day = d}
  <2>1. F = hits1 \cap F /\ {i \in hits : s[i].day = d} = hits \cap F /\ (x \in F <=> s[x].day = d)
    BY DEF hits1
  <2>2. Cardinality(F) = Part(hits1, F) /\ Cardinality({i \in hits : s[i].day = d}) = Part(hits, F)
    BY <2>1, Zenon DEF Part
  <2>3. Analytics!One(x \in F) = IF s[x].day = d THEN 1 ELSE 0
    BY <2>1 DEF Analytics!One
  <2>4. more.days[d].audits = c.days[d].audits + IF s[x].day = d THEN 1 ELSE 0
    BY <1>1, <1>3, <1>4, <1>6 DEF DayTally, day
  <2>5. c.days[d].audits = Cardinality({i \in hits : s[i].day = d})
    BY <1>10, Zenon DEF Agree
  <2> HIDE DEF F
  <2>6. more.days[d].audits = Cardinality(F)
    BY <1>8, <2>2, <2>3, <2>4, <2>5
  <2> QED
    BY <2>6 DEF F
<1>17. ASSUME NEW d \in Days
      PROVE  more.days[d].blocks = Cardinality({i \in hits1 : s[i].day = d /\ s[i].action = "block"})
  <2> DEFINE F == {i \in hits1 : s[i].day = d /\ s[i].action = "block"}
  <2>1. F = hits1 \cap F /\ {i \in hits : s[i].day = d /\ s[i].action = "block"} = hits \cap F /\ (x \in F <=> (s[x].day = d /\ s[x].action = "block"))
    BY DEF hits1
  <2>2. Cardinality(F) = Part(hits1, F) /\ Cardinality({i \in hits : s[i].day = d /\ s[i].action = "block"}) = Part(hits, F)
    BY <2>1, Zenon DEF Part
  <2>3. Analytics!One(x \in F) = IF (s[x].day = d /\ s[x].action = "block") THEN 1 ELSE 0
    BY <2>1 DEF Analytics!One
  <2>4. more.days[d].blocks = c.days[d].blocks + IF (s[x].day = d /\ s[x].action = "block") THEN 1 ELSE 0
    BY <1>1, <1>3, <1>4, <1>6 DEF DayTally, day, Analytics!One
  <2>5. c.days[d].blocks = Cardinality({i \in hits : s[i].day = d /\ s[i].action = "block"})
    BY <1>10, Zenon DEF Agree
  <2> HIDE DEF F
  <2>6. more.days[d].blocks = Cardinality(F)
    BY <1>8, <2>2, <2>3, <2>4, <2>5
  <2> QED
    BY <2>6 DEF F
<1>18. ASSUME NEW r \in AuditRules
       PROVE  more.rules[r] = Cardinality({v \in found1 : v[2] = r})
  <2> DEFINE F == {v \in found1 : v[2] = r}
  <2>1. F = found1 \cap F /\ {v \in found : v[2] = r} = found \cap F
    BY DEF found1
  <2>2. Cardinality(F) = Part(found1, F) /\ Cardinality({v \in found : v[2] = r}) = Part(found, F)
    BY <2>1, Zenon DEF Part
  <2>3. Cardinality(own \cap F) = Analytics!One(r \in M)
    <3>1. CASE r \in M
      <4>1. own \cap F = {<<x, r>>}
        BY <3>1 DEF own, found1
      <4> QED
        BY <3>1, <4>1, FS_Singleton DEF Analytics!One
    <3>2. CASE r \notin M
      <4>1. own \cap F = {}
        BY <3>2 DEF own, found1
      <4> QED
        BY <3>2, <4>1, FS_EmptySet DEF Analytics!One
    <3> QED
      BY <3>1, <3>2
  <2>4. more.rules[r] = c.rules[r] + Analytics!One(r \in M)
    BY <1>6
  <2>5. c.rules[r] = Cardinality({v \in found : v[2] = r})
    BY <1>10, Zenon DEF Agree
  <2> HIDE DEF F
  <2>6. Part(own, F) = Analytics!One(r \in M)
    BY <2>3 DEF Part
  <2>7. more.rules[r] = Cardinality(F)
    BY <1>9, <2>2, <2>4, <2>5, <2>6
  <2> QED
    BY <2>7 DEF F
<1>19. ASSUME NEW d \in Days
       PROVE  more.days[d].violations = Cardinality({v \in found1 : s[v[1]].day = d})
  <2> DEFINE F == {v \in found1 : s[v[1]].day = d}
  <2>1. F = found1 \cap F /\ {v \in found : s[v[1]].day = d} = found \cap F
    BY DEF found1
  <2>2. /\ Cardinality(F) = Part(found1, F)
        /\ Cardinality({v \in found : s[v[1]].day = d}) = Part(found, F)
    BY <2>1, Zenon DEF Part
  <2>3. Cardinality(own \cap F) = IF s[x].day = d THEN n ELSE 0
    <3>1. CASE s[x].day = d
      <4>1. own \cap F = own
        BY <3>1 DEF own, found1
      <4> QED
        BY <1>11, <3>1, <4>1
    <3>2. CASE s[x].day # d
      <4>1. own \cap F = {}
        BY <3>2 DEF own, found1
      <4> QED
        BY <3>2, <4>1, FS_EmptySet
    <3> QED
      BY <3>1, <3>2
  <2>4. more.days[d].violations = c.days[d].violations + IF s[x].day = d THEN n ELSE 0
    BY <1>1, <1>2, <1>3, <1>4, <1>6 DEF DayTally, day
  <2>5. c.days[d].violations = Cardinality({v \in found : s[v[1]].day = d})
    BY <1>10, Zenon DEF Agree
  <2> HIDE DEF F
  <2>6. Part(own, F) = IF s[x].day = d THEN n ELSE 0
    BY <2>3 DEF Part
  <2>7. more.days[d].violations = Cardinality(F)
    BY <1>9, <2>2, <2>4, <2>5, <2>6
  <2> QED
    BY <2>7 DEF F
<1>20. Agree(more, hits1, found1, s)
  BY <1>12, <1>13, <1>14, <1>15, <1>16, <1>17, <1>18, <1>19, Zenon DEF Agree
<1> QED
  BY <1>7, <1>20 DEF more, hits1, found1, own

\* The logs of the first n of s that count, and the violations of the policy in them.
HitsTo(p, q, s, n) ==
    {i \in 1 .. n : Analytics!InWindow(s[i], q) /\ Analytics!Matching(s[i], p, q) # {}}
FoundTo(p, q, s, n) ==
    {v \in HitsTo(p, q, s, n) \X AuditRules : v[2] \in Analytics!Matching(s[v[1]], p, q)}

\* One turn of the loop.
OneLog(c, l, p, q) == IF Analytics!InWindow(l, q) THEN Analytics!Pass(c, l, p, q) ELSE c

LEMMA OneLogAgrees ==
    ASSUME NEW s \in Seq(AuditLog), NEW n \in Nat, n < Len(s), NEW p, NEW q, NEW c \in Tally,
           Agree(c, HitsTo(p, q, s, n), FoundTo(p, q, s, n), s)
    PROVE  /\ OneLog(c, s[n + 1], p, q) \in Tally
           /\ Agree(OneLog(c, s[n + 1], p, q), HitsTo(p, q, s, n + 1), FoundTo(p, q, s, n + 1), s)
<1> DEFINE x == n + 1
           M == Analytics!Matching(s[x], p, q)
           hits == HitsTo(p, q, s, n)
           found == FoundTo(p, q, s, n)
           In == Analytics!InWindow(s[x], q)
<1>1. s[x] \in AuditLog /\ x \notin hits /\ M \subseteq s[x].details
  BY DEF HitsTo, Analytics!Matching
<1>2. IsFiniteSet(hits)
  <2>1. IsFiniteSet(1 .. n) /\ hits \in SUBSET (1 .. n)
    BY FS_Interval DEF HitsTo
  <2> QED
    BY <2>1, FS_Subset
<1>3. IsFiniteSet(found) /\ found \subseteq hits \X AuditRules
  <2>1. IsFiniteSet(hits \X AuditRules)
    BY <1>2, AuditRulesFinite, FS_Product
  <2>2. found \in SUBSET (hits \X AuditRules)
    BY DEF FoundTo
  <2> QED
    BY <2>1, <2>2, FS_Subset
<1>4. M \subseteq AuditRules
  BY <1>1 DEF AuditLog
<1>5. CASE In /\ M # {}
  <2>1. HitsTo(p, q, s, n + 1) = hits \cup {x}
    BY <1>5 DEF HitsTo
  <2>2. FoundTo(p, q, s, n + 1) = found \cup ({x} \X M)
    BY <1>4, <2>1 DEF FoundTo
  <2>3. OneLog(c, s[x], p, q) = Analytics!Counted(c, s[x], M)
    BY <1>5 DEF OneLog, Analytics!Pass
  <2> HIDE DEF hits, found, M, x, In
  <2>4. /\ Analytics!Counted(c, s[x], M) \in Tally
        /\ Agree(Analytics!Counted(c, s[x], M), hits \cup {x}, found \cup ({x} \X M), s)
    <3>1. Agree(c, hits, found, s)
      BY DEF hits, found
    <3> QED
      BY <1>1, <1>2, <1>3, <1>5, <3>1, CountedAgrees
  <2> QED
    BY <2>1, <2>2, <2>3, <2>4, Zenon DEF x
<1>6. CASE ~ (In /\ M # {})
  <2>1. HitsTo(p, q, s, n + 1) = hits
    BY <1>6 DEF HitsTo
  <2>2. FoundTo(p, q, s, n + 1) = found
    BY <2>1 DEF FoundTo
  <2>3. OneLog(c, s[x], p, q) = c
    BY <1>6 DEF OneLog, Analytics!Pass
  <2> QED
    BY <2>1, <2>2, <2>3, Zenon
<1> QED
  BY <1>5, <1>6

LEMMA NothingCounted ==
    ASSUME NEW s, NEW p, NEW q
    PROVE  /\ Analytics!NoCounts \in Tally
           /\ Agree(Analytics!NoCounts, HitsTo(p, q, s, 0), FoundTo(p, q, s, 0), s)
<1> DEFINE c == Analytics!NoCounts
<1>1. /\ c.audits = 0 /\ c.violations = 0 /\ c.actions = [e \in EnforcementActions |-> 0]
      /\ c.rules = [r \in AuditRules |-> 0] /\ c.agents = [a \in Agents \cup {None} |-> 0]
      /\ c.days = [d \in Days |-> [audits |-> 0, violations |-> 0, blocks |-> 0]]
  BY DEF Analytics!NoCounts, AuditRules
<1>2. c \in Tally
  BY DEF Analytics!NoCounts, AuditRules, Tally, DayTally
<1>3. HitsTo(p, q, s, 0) = {} /\ FoundTo(p, q, s, 0) = {}
  BY DEF HitsTo, FoundTo
<1> HIDE DEF c
<1>4. Agree(c, {}, {}, s)
  <2>1. /\ \A e : {i \in {} : s[i].action = e} = {}
        /\ \A a : {i \in {} : s[i].agent = a} = {}
        /\ \A r : {v \in {} : v[2] = r} = {}
        /\ \A d : /\ {i \in {} : s[i].day = d} = {}
                  /\ {v \in {} : s[v[1]].day = d} = {}
                  /\ {i \in {} : s[i].day = d /\ s[i].action = "block"} = {}
    OBVIOUS
  <2>2. Cardinality({}) = 0
    BY FS_EmptySet
  <2>3. /\ \A e \in EnforcementActions : c.actions[e] = 0
        /\ \A r \in AuditRules : c.rules[r] = 0
        /\ \A a \in Agents \cup {None} : c.agents[a] = 0
        /\ \A d \in Days : c.days[d].audits = 0 /\ c.days[d].violations = 0 /\ c.days[d].blocks = 0
    BY <1>1
  <2> QED
    BY <1>1, <2>1, <2>2, <2>3, Zenon DEF Agree
<1> QED
  BY <1>2, <1>3, <1>4, Zenon DEF c

\* What one pass over s counts.
LEMMA PassAgrees ==
    ASSUME NEW s \in Seq(AuditLog), NEW p, NEW q
    PROVE  /\ Analytics!getPolicyAnalytics(p, q, s) \in Tally
           /\ Agree(Analytics!getPolicyAnalytics(p, q, s), HitsTo(p, q, s, Len(s)),
                    FoundTo(p, q, s, Len(s)), s)
<1> DEFINE n == Len(s)
           zero == Analytics!NoCounts
           t == [e \in Nat \X Tally |->
                    IF e[1] < n /\ OneLog(e[2], s[e[1] + 1], p, q) \in Tally
                    THEN OneLog(e[2], s[e[1] + 1], p, q) ELSE e[2]]
           Body(f) == [k \in 0 .. n |-> IF k = 0 THEN zero ELSE OneLog(f[k - 1], s[k], p, q)]
           Holds(f, k) == f[k] \in Tally /\ Agree(f[k], HitsTo(p, q, s, k), FoundTo(p, q, s, k), s)
<1>1. n \in Nat /\ zero \in Tally
  BY NothingCounted
<1>2. t \in [Nat \X Tally -> Tally]
  OBVIOUS
<1>3. \A k \in 0 .. n - 1 : \A c \in Tally : OneLog(c, s[k + 1], p, q) \in Tally
        => t[<<k, c>>] = OneLog(c, s[k + 1], p, q)
  BY <1>1
<1> HIDE DEF t, zero
<1>4. PICK f : f \in Partial(Tally, zero, t, n)
  BY <1>1, <1>2, PartialExists
<1>5. /\ f \in [0 .. n -> Tally] /\ f[0] = zero
      /\ \A k \in 0 .. n - 1 : f[k + 1] = t[<<k, f[k]>>]
  BY <1>4 DEF Partial
<1>6. \A k \in 0 .. n : Holds(f, k)
  <2> DEFINE S == {k \in Nat : k <= n => Holds(f, k)}
  <2>1. 0 \in S
    BY <1>5, NothingCounted, Zenon DEF zero
  <2>2. ASSUME NEW k \in Nat, k \in S PROVE k + 1 \in S
    <3> SUFFICES ASSUME k + 1 <= n PROVE Holds(f, k + 1)
      OBVIOUS
    <3>1. k < n /\ k \in 0 .. n - 1 /\ Holds(f, k)
      BY <1>1, <2>2
    <3>2. /\ OneLog(f[k], s[k + 1], p, q) \in Tally
          /\ Agree(OneLog(f[k], s[k + 1], p, q), HitsTo(p, q, s, k + 1), FoundTo(p, q, s, k + 1), s)
      BY <3>1, OneLogAgrees
    <3>3. f[k + 1] = OneLog(f[k], s[k + 1], p, q)
      BY <1>3, <1>5, <3>1, <3>2
    <3> QED
      BY <3>2, <3>3, Zenon
  <2> HIDE DEF S
  <2>3. Nat \subseteq S
    BY <2>1, <2>2, NatSets
  <2> QED
    BY <1>1, <2>3 DEF S
<1>7. ASSUME NEW k \in 0 .. n - 1 PROVE f[k + 1] = OneLog(f[k], s[k + 1], p, q)
  <2>1. OneLog(f[k], s[k + 1], p, q) \in Tally
    <3>1. k \in Nat /\ k < n /\ Holds(f, k)
      BY <1>1, <1>6
    <3> QED
      BY <3>1, OneLogAgrees
  <2>2. f[k] \in Tally /\ f[k + 1] = t[<<k, f[k]>>]
    BY <1>1, <1>5
  <2> QED
    BY <1>3, <2>1, <2>2
<1>8. f = Body(f)
  <2>1. ASSUME NEW k \in 0 .. n PROVE f[k] = Body(f)[k]
    <3>1. CASE k = 0
      BY <1>5, <3>1
    <3>2. CASE k # 0
      <4>1. k - 1 \in 0 .. n - 1 /\ (k - 1) + 1 = k
        BY <1>1, <3>2
      <4> QED
        BY <1>7, <3>2, <4>1
    <3> QED
      BY <3>1, <3>2
  <2> QED
    BY <1>5, <2>1
<1>9. Analytics!getPolicyAnalytics(p, q, s) = (CHOOSE g : g = Body(g))[n]
  BY DEF Analytics!getPolicyAnalytics, OneLog, zero
<1> DEFINE g == CHOOSE h1 : h1 = Body(h1)
<1>10. g = Body(g)
  BY <1>8
<1> HIDE DEF g
<1>11. \A k \in 0 .. n : g[k] = IF k = 0 THEN zero ELSE OneLog(g[k - 1], s[k], p, q)
  BY <1>10
<1>12. g[n] = f[n]
  <2> DEFINE S == {k \in Nat : k <= n => g[k] = f[k]}
  <2>1. 0 \in S
    BY <1>1, <1>5, <1>11
  <2>2. ASSUME NEW k \in Nat, k \in S PROVE k + 1 \in S
    <3> SUFFICES ASSUME k + 1 <= n PROVE g[k + 1] = f[k + 1]
      OBVIOUS
    <3>1. k \in 0 .. n - 1 /\ k + 1 \in 0 .. n /\ k + 1 # 0 /\ (k + 1) - 1 = k /\ g[k] = f[k]
      BY <1>1, <2>2
    <3>2. g[k + 1] = OneLog(g[k], s[k + 1], p, q)
      BY <1>11, <3>1
    <3> QED
      BY <1>7, <3>1, <3>2
  <2> HIDE DEF S
  <2>3. Nat \subseteq S
    BY <2>1, <2>2, NatSets
  <2> QED
    BY <1>1, <2>3 DEF S
<1>13. Holds(f, n) /\ Analytics!getPolicyAnalytics(p, q, s) = f[n]
  BY <1>1, <1>6, <1>9, <1>12 DEF g
<1> QED
  BY <1>13, Zenon

-----------------------------------------------------------------------------
AnalyticsConstants ==
    Days \subseteq Int /\ \E last \in Days : \A d \in Days : d <= last

Summaries == [policy : Analytics!All, logs : Seq(AuditLog), counts : Tally]

\* The summary r counts what the window of the request q holds of its policy.
Counts(r, q) ==
    Agree(r.counts, HitsTo(r.policy, q, r.logs, Len(r.logs)),
          FoundTo(r.policy, q, r.logs, Len(r.logs)), r.logs)

\* The summaries are those of the request being answered, which asks for a window; without
\* a request there is none.
AnalyticsInv ==
    /\ policies \subseteq Analytics!All /\ read \in Seq(AuditLog)
    /\ results \in Seq(Summaries)
    /\ \A k \in DOMAIN results : Counts(results[k], asked)
    /\ asked = [todo |-> asked.todo, agent |-> asked.agent, severity |-> asked.severity,
                start |-> asked.start, end |-> asked.end]
    /\ \/ asked = Analytics!Idle /\ results = <<>>
       \/ asked.start \in Int /\ asked.end \in Int /\ asked.start <= asked.end

\* What counts depends on the request by its window and filters only.
LEMMA SameWindow ==
    ASSUME NEW r, NEW q, NEW q1, q1.agent = q.agent, q1.severity = q.severity,
           q1.start = q.start, q1.end = q.end, Counts(r, q)
    PROVE  Counts(r, q1)
<1>1. \A l, p : /\ Analytics!InWindow(l, q1) = Analytics!InWindow(l, q)
                /\ Analytics!Matching(l, p, q1) = Analytics!Matching(l, p, q)
  BY DEF Analytics!InWindow, Analytics!Matching
<1>2. \A p, s, n : HitsTo(p, q1, s, n) = HitsTo(p, q, s, n)
  BY <1>1 DEF HitsTo
<1>3. \A p, s, n : FoundTo(p, q1, s, n) = FoundTo(p, q, s, n)
  BY <1>1, <1>2 DEF FoundTo
<1> QED
  BY <1>2, <1>3, Zenon DEF Counts

LEMMA AnalyticsNextInv ==
    ASSUME AnalyticsConstants, AnalyticsInv, [Analytics!AnalyticsNext]_Analytics!analyticsVars
    PROVE  AnalyticsInv'
<1>1. /\ policies \subseteq Analytics!All /\ read \in Seq(AuditLog)
      /\ results \in Seq(Summaries)
      /\ \A k \in DOMAIN results : Counts(results[k], asked)
      /\ asked = [todo |-> asked.todo, agent |-> asked.agent, severity |-> asked.severity,
                  start |-> asked.start, end |-> asked.end]
      /\ \/ asked = Analytics!Idle /\ results = <<>>
         \/ asked.start \in Int /\ asked.end \in Int /\ asked.start <= asked.end
  BY DEF AnalyticsInv
<1>2. CASE UNCHANGED Analytics!analyticsVars
  BY <1>1, <1>2 DEF Analytics!analyticsVars, AnalyticsInv, Counts
<1>3. ASSUME Analytics!StoreLog PROVE AnalyticsInv'
  <2>1. PICK day \in Days, agent \in Agents \cup {None}, details \in SUBSET AuditRules,
             action \in EnforcementActions \cup {"allow"} :
          /\ action = "allow" <=> details = {}
          /\ read' = Append(read, [day |-> day, agent |-> agent, details |-> details,
                                   action |-> action])
    BY <1>3 DEF Analytics!StoreLog, AuditRules
  <2>2. UNCHANGED <<policies, asked, results>>
    BY <1>3 DEF Analytics!StoreLog
  <2>3. [day |-> day, agent |-> agent, details |-> details, action |-> action] \in AuditLog
    BY <2>1 DEF AuditLog
  <2>4. read' \in Seq(AuditLog)
    BY <1>1, <2>1, <2>3, AppendProperties
  <2> QED
    BY <1>1, <2>2, <2>4 DEF AnalyticsInv, Counts
<1>4. ASSUME Analytics!Ask PROVE AnalyticsInv'
  <2>1. /\ asked = Analytics!Idle /\ UNCHANGED <<policies, read, results>>
        /\ \E todo, agent, severity : \E start \in Days :
            asked' = [todo |-> todo, agent |-> agent, severity |-> severity,
                      start |-> start, end |-> Analytics!Max(Days)]
    BY <1>4 DEF Analytics!Ask
  <2>2. PICK todo, agent, severity : \E start \in Days :
            asked' = [todo |-> todo, agent |-> agent, severity |-> severity,
                      start |-> start, end |-> Analytics!Max(Days)]
    BY <2>1
  <2>3. PICK start \in Days :
            asked' = [todo |-> todo, agent |-> agent, severity |-> severity,
                      start |-> start, end |-> Analytics!Max(Days)]
    BY <2>2
  <2>4. Analytics!Max(Days) \in Int /\ start \in Int /\ start <= Analytics!Max(Days)
    BY DEF AnalyticsConstants, Analytics!Max
  <2>5. results = <<>>
    BY <1>1, <2>1 DEF Analytics!Idle
  <2>6. /\ asked'.todo = todo /\ asked'.agent = agent /\ asked'.severity = severity
        /\ asked'.start = start /\ asked'.end = Analytics!Max(Days)
    BY <2>3
  <2>7. asked' = [todo |-> asked'.todo, agent |-> asked'.agent, severity |-> asked'.severity,
                  start |-> asked'.start, end |-> asked'.end]
    BY <2>3, <2>6
  <2>8. results' = <<>> /\ DOMAIN results' = {}
    BY <2>1, <2>5
  <2> QED
    BY <1>1, <2>1, <2>4, <2>6, <2>7, <2>8 DEF AnalyticsInv
<1>5. ASSUME Analytics!Summarise PROVE AnalyticsInv'
  <2> DEFINE p == Head(asked.todo)
             rest == Tail(asked.todo)
             new == [policy |-> p, logs |-> read,
                     counts |-> Analytics!getPolicyAnalytics(p, asked, read)]
  <2>1. /\ asked.todo # <<>> /\ UNCHANGED <<policies, read>>
        /\ results' = IF p \in policies THEN Append(results, new) ELSE results
        /\ asked' = [asked EXCEPT !.todo = rest]
    BY <1>5 DEF Analytics!Summarise
  <2>2. asked # Analytics!Idle
    BY <2>1 DEF Analytics!Idle
  <2> HIDE DEF rest
  <2>3. /\ asked'.agent = asked.agent /\ asked'.severity = asked.severity
        /\ asked'.start = asked.start /\ asked'.end = asked.end
        /\ asked' = [todo |-> asked'.todo, agent |-> asked'.agent, severity |-> asked'.severity,
                     start |-> asked'.start, end |-> asked'.end]
    BY <1>1, <2>1
  <2>4. \A r : Counts(r, asked) => Counts(r, asked')
    BY <2>3, SameWindow
  <2>5. ASSUME p \in policies PROVE new \in Summaries /\ Counts(new, asked)
    <3>1. /\ Analytics!getPolicyAnalytics(p, asked, read) \in Tally
          /\ Agree(Analytics!getPolicyAnalytics(p, asked, read), HitsTo(p, asked, read, Len(read)),
                   FoundTo(p, asked, read, Len(read)), read)
      BY <1>1, PassAgrees
    <3> QED
      BY <1>1, <2>5, <3>1 DEF Summaries, Counts
  <2> HIDE DEF new, p
  <2>6. results' \in Seq(Summaries) /\ \A k \in DOMAIN results' : Counts(results'[k], asked')
    <3>1. CASE p \in policies
      <4>1. results' = Append(results, new) /\ new \in Summaries /\ Counts(new, asked)
        BY <2>1, <2>5, <3>1
      <4>2. results' \in Seq(Summaries)
        BY <1>1, <4>1, AppendProperties
      <4>3. ASSUME NEW k \in DOMAIN results' PROVE Counts(results'[k], asked')
        <5>1. CASE k \in DOMAIN results
          <6>1. results'[k] = results[k]
            BY <1>1, <4>1, <5>1
          <6> QED
            BY <1>1, <2>4, <5>1, <6>1
        <5>2. CASE k \notin DOMAIN results
          <6>1. results'[k] = new
            BY <1>1, <4>1, <4>3, <5>2
          <6> QED
            BY <2>4, <4>1, <6>1
        <5> QED
          BY <5>1, <5>2
      <4> QED
        BY <4>2, <4>3
    <3>2. CASE p \notin policies
      BY <1>1, <2>1, <2>4, <3>2
    <3> QED
      BY <3>1, <3>2
  <2>7. asked'.start \in Int /\ asked'.end \in Int /\ asked'.start <= asked'.end
    BY <1>1, <2>2, <2>3
  <2>8. policies' \subseteq Analytics!All /\ read' \in Seq(AuditLog)
    BY <1>1, <2>1
  <2> QED
    BY <2>3, <2>6, <2>7, <2>8 DEF AnalyticsInv, Counts
<1>6. ASSUME Analytics!Answer PROVE AnalyticsInv'
  <2>1. asked' = Analytics!Idle /\ results' = <<>> /\ UNCHANGED <<policies, read>>
    BY <1>6 DEF Analytics!Answer
  <2>2. asked' = [todo |-> asked'.todo, agent |-> asked'.agent, severity |-> asked'.severity,
                  start |-> asked'.start, end |-> asked'.end]
    BY <2>1 DEF Analytics!Idle
  <2> QED
    BY <1>1, <2>1, <2>2 DEF AnalyticsInv
<1>7. ASSUME NEW p \in Analytics!All, Analytics!DeletePolicy(p) PROVE AnalyticsInv'
  <2>1. policies' = policies \ {p} /\ UNCHANGED <<read, asked, results>>
    BY <1>7 DEF Analytics!DeletePolicy
  <2> QED
    BY <1>1, <2>1 DEF AnalyticsInv, Counts
<1>8. ASSUME NEW a \in Agents, Analytics!DeleteAgent(a) PROVE AnalyticsInv'
  <2>1. /\ UNCHANGED <<policies, asked, results>>
        /\ read' = [i \in DOMAIN read |->
                     IF read[i].agent = a THEN [read[i] EXCEPT !.agent = None] ELSE read[i]]
    BY <1>8 DEF Analytics!DeleteAgent
  <2>2. ASSUME NEW i \in DOMAIN read
        PROVE  (IF read[i].agent = a THEN [read[i] EXCEPT !.agent = None] ELSE read[i]) \in AuditLog
    <3> DEFINE l == read[i]
    <3>1. l \in AuditLog
      BY <1>1
    <3> HIDE DEF l
    <3>2. [l EXCEPT !.agent = None] \in AuditLog
      BY <3>1 DEF AuditLog
    <3> QED
      BY <3>1, <3>2 DEF l
  <2>3. read' \in Seq(AuditLog)
    BY <1>1, <2>1, <2>2
  <2> QED
    BY <1>1, <2>1, <2>3 DEF AnalyticsInv, Counts
<1> QED
  BY <1>2, <1>3, <1>4, <1>5, <1>6, <1>7, <1>8 DEF Analytics!AnalyticsNext

\* What the single pass over the logs counted for a policy (getPolicyAnalytics), total by total
\* and entry by entry of the breakdowns, is what the window of the request holds, while logs
\* arrive and policies and agents go between the passes of one request.
THEOREM TotalsAlwaysAgree == ASSUME AnalyticsConstants PROVE MCSpec => []TotalsAgree
<1>1. AnalyticsInv => TotalsAgree
  <2> SUFFICES ASSUME AnalyticsInv PROVE Analytics!TotalsAgree
    BY DEF TotalsAgree
  <2> SUFFICES ASSUME NEW k \in DOMAIN results
               PROVE  Agree(results[k].counts, Analytics!Hits(results[k]),
                            Analytics!Violations(results[k]), results[k].logs)
    BY LogCardinality, Zenon DEF Analytics!TotalsAgree, Agree, AuditRules
  <2> DEFINE r == results[k]
             p == r.policy
  <2>1. results \in Seq(Summaries) /\ Counts(r, asked)
    BY DEF AnalyticsInv
  <2>2. r.logs \in Seq(AuditLog)
    <3>1. r \in Summaries
      BY <2>1
    <3> HIDE DEF r
    <3> QED
      BY <3>1 DEF Summaries
  <2> HIDE DEF r
  <2>3. \A i : Analytics!Own(r, i) = Analytics!Matching(r.logs[i], p, asked)
    BY DEF Analytics!Own, Analytics!Matching
  <2>4. Analytics!Hits(r) = HitsTo(p, asked, r.logs, Len(r.logs))
    BY <2>2, <2>3 DEF Analytics!Hits, HitsTo
  <2>5. Analytics!Violations(r) = FoundTo(p, asked, r.logs, Len(r.logs))
    BY <2>3, <2>4 DEF Analytics!Violations, FoundTo, AuditRules
  <2> QED
    BY <2>1, <2>4, <2>5, Zenon DEF Counts, r
<1>2. Analytics!AnalyticsInit => AnalyticsInv
  <2> SUFFICES ASSUME Analytics!AnalyticsInit PROVE AnalyticsInv
    OBVIOUS
  <2>1. policies = Analytics!All /\ read = <<>> /\ asked = Analytics!Idle /\ results = <<>>
    BY DEF Analytics!AnalyticsInit
  <2>2. asked = [todo |-> asked.todo, agent |-> asked.agent, severity |-> asked.severity,
                 start |-> asked.start, end |-> asked.end]
    BY <2>1 DEF Analytics!Idle
  <2> QED
    BY <2>1, <2>2 DEF AnalyticsInv
<1>3. AnalyticsInv /\ [Analytics!AnalyticsNext]_Analytics!analyticsVars => AnalyticsInv'
  BY AnalyticsNextInv
<1>4. Analytics!AnalyticsSpec => []AnalyticsInv
  BY <1>2, <1>3, PTL DEF Analytics!AnalyticsSpec
<1> QED
  BY <1>1, <1>4, AnalyticsRun, PTL

=============================================================================
