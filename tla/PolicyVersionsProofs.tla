------------------------ MODULE PolicyVersionsProofs ------------------------
(***************************************************************************)
(* Theorems about PolicyVersions, for any number of concurrent calls, any  *)
(* rule texts and columns, and any number of rules and versions.           *)
(***************************************************************************)
EXTENDS PolicyVersions, FiniteSetTheorems, TLAPS

Rule == [id : Nat, text : Texts, pack : BOOLEAN]
Contents == {x \in [meta : Metas, rules : SUBSET Rule] : IsFiniteSet(x.rules)}
Version == [nr : Nat, content : Contents, from : Nat \cup {None}]
ChangeKinds == {"manual", "update", "create", "edit", "remove", "restore"}
Labels == {"idle", "done", "failed"} \cup Working
Call == [kind : ChangeKinds, rule : Nat \cup {None}, text : Texts \cup {None}, meta : Metas \cup {None},
         content : Contents \cup {None}, nr : Nat, saved : Contents \cup {None},
         version : Nat \cup {None}]

\* The named values are none of the others.
Values == Gone \notin Metas /\ Gone \notin Contents /\ None \notin Contents

Types ==
    /\ policy \in Metas \cup {Gone} /\ rules \in SUBSET Rule /\ IsFiniteSet(rules)
    /\ lastId \in Nat /\ versions \in SUBSET Version /\ IsFiniteSet(versions)
    /\ pc \in [Calls -> Labels] /\ call \in [Calls -> Call]
    /\ seen \in [Calls -> Seq(Contents \cup {Gone})]

\* The last of what a call at work has seen is what the policy says now.
UpToDate(c) == Len(seen[c]) > 0 /\ seen[c][Len(seen[c])] = Now

\* Its columns are those of a moment of s.
ColumnsOf(x, s) == \E i \in DOMAIN s : s[i] # Gone /\ x.meta = s[i].meta

\* What a call holds at each of its labels.  Of a policy deleted after the columns were read the
\* rules are none, which is nothing it ever said; no version of it can be saved.
CallGuard(c) ==
    /\ call[c].kind = "update" => call[c].meta \in Metas
    /\ call[c].kind \in {"create", "edit"} => call[c].text \in Texts
    /\ pc[c] \in {"restore", "include", "number", "insert"} => call[c].content \in Contents
    /\ pc[c] \in Working => UpToDate(c)
    /\ pc[c] = "include" => ColumnsOf(call[c].content, seen[c])
    /\ pc[c] \in {"number", "insert"} /\ policy # Gone => InOrder(call[c].content, seen[c])
    /\ pc[c] = "insert" /\ policy # Gone => call[c].nr \in 1 .. Cardinality(versions) + 1
    /\ pc[c] = "write" => call[c].saved \in Contents /\ InOrder(call[c].saved, seen[c])
    /\ pc[c] = "write" /\ policy # Gone => \E v \in versions : v.content = call[c].saved

\* The numbers have no gap.
VersionsDense == {v.nr : v \in versions} = 1 .. Cardinality(versions)

IInv == Types /\ VersionsDense /\ \A c \in Calls : CallGuard(c)

-----------------------------------------------------------------------------
LEMMA SeeFacts ==
    ASSUME NEW p, NEW rs, See(p, rs), NEW c \in Calls
    PROVE  /\ DOMAIN seen' = Calls
           /\ pc[c] \in Working => seen'[c] = Append(seen[c], Saying(p, rs))
           /\ pc[c] \notin Working => seen'[c] = seen[c]
BY DEF See

\* What a call has seen stays where it is.
LEMMA MoreSeen ==
    ASSUME NEW S, NEW s \in Seq(S), NEW e \in S, NEW x
    PROVE  LET t == Append(s, e) IN
           /\ t \in Seq(S) /\ Len(t) > 0 /\ t[Len(t)] = e
           /\ ColumnsOf(x, s) => ColumnsOf(x, t)
           /\ InOrder(x, s) => InOrder(x, t)
           /\ {t[i] : i \in DOMAIN t} = {s[i] : i \in DOMAIN s} \cup {e}
<1> DEFINE t == Append(s, e)
<1>1. t \in Seq(S) /\ Len(t) = Len(s) + 1 /\ Len(s) \in Nat /\ t[Len(t)] = e
      /\ DOMAIN s = 1 .. Len(s) /\ DOMAIN t = 1 .. Len(s) + 1
      /\ \A i \in DOMAIN s : t[i] = s[i]
  OBVIOUS
<1> HIDE DEF t
<1>2. \A i \in DOMAIN s : i \in DOMAIN t
  BY <1>1
<1>3. ColumnsOf(x, s) => ColumnsOf(x, t)
  BY <1>1, <1>2 DEF ColumnsOf
<1>4. InOrder(x, s) => InOrder(x, t)
  <2> SUFFICES ASSUME NEW i \in DOMAIN s, NEW j \in DOMAIN s, i <= j, s[i] # Gone, s[j] # Gone,
                      x = [meta |-> s[i].meta, rules |-> s[j].rules]
               PROVE  InOrder(x, t)
    BY DEF InOrder
  <2>1. i \in DOMAIN t /\ j \in DOMAIN t /\ t[i] = s[i] /\ t[j] = s[j]
    BY <1>1, <1>2
  <2> QED
    BY <2>1 DEF InOrder
<1>5. {t[i] : i \in DOMAIN t} = {s[i] : i \in DOMAIN s} \cup {e}
  <2>1. \A i \in DOMAIN t : i \in DOMAIN s \/ i = Len(t)
    BY <1>1
  <2>2. Len(t) \in DOMAIN t
    BY <1>1
  <2> QED
    BY <1>1, <1>2, <2>1, <2>2
<1>6. Len(t) > 0
  BY <1>1
<1> QED
  BY <1>1, <1>3, <1>4, <1>5, <1>6 DEF t

LEMMA NowContent ==
    ASSUME Types, policy # Gone
    PROVE  Now \in Contents
BY DEF Types, Now, Saying, Contents

\* The numbers are dense, so the latest is the count.
LEMMA LatestIsCount ==
    ASSUME Types, VersionsDense
    PROVE  Latest = Cardinality(versions) /\ Cardinality(versions) \in Nat
<1> DEFINE N == Cardinality(versions)
           nrs == {v.nr : v \in versions}
<1>1. N \in Nat
  BY FS_CardinalityType DEF Types
<1>2. nrs = 1 .. N
  BY DEF VersionsDense
<1>3. CASE versions = {}
  BY <1>3, FS_EmptySet DEF Latest
<1>4. CASE versions # {}
  <2>1. N # 0
    BY <1>4, FS_EmptySet DEF Types
  <2>2. N \in nrs /\ \A v \in versions : v.nr <= N
    <3>1. N \in 1 .. N
      BY <1>1, <2>1
    <3>2. \A v \in versions : v.nr \in nrs
      OBVIOUS
    <3> HIDE DEF nrs
    <3> QED
      BY <1>1, <1>2, <3>1, <3>2
  <2>3. Latest \in nrs /\ \A v \in versions : v.nr <= Latest
    BY <1>4, <2>2 DEF Latest
  <2>4. N <= Latest
    <3>1. PICK v \in versions : v.nr = N
      BY <2>2
    <3> QED
      BY <2>3, <3>1
  <2> HIDE DEF nrs, N
  <2>5. Latest \in 1 .. N
    BY <1>2, <2>3
  <2> QED
    BY <1>1, <2>4, <2>5 DEF N
<1> QED
  BY <1>1, <1>3, <1>4

LEMMA InitIInv == ASSUME Values, Init PROVE IInv
<1>1. Types
  <2>1. rules \in SUBSET Rule /\ IsFiniteSet(rules)
    <3>1. PICK t \in Texts : rules = {[id |-> 1, text |-> t, pack |-> TRUE]}
      BY DEF Init
    <3>2. [id |-> 1, text |-> t, pack |-> TRUE] \in Rule
      BY DEF Rule
    <3>3. IsFiniteSet({[id |-> 1, text |-> t, pack |-> TRUE]})
      BY FS_Singleton
    <3> QED
      BY <3>1, <3>2, <3>3
  <2>2. IsFiniteSet({})
    BY FS_EmptySet
  <2>3. Idle \in Call
    BY DEF Idle, Call, ChangeKinds
  <2>4. seen \in [Calls -> Seq(Contents \cup {Gone})]
    BY DEF Init
  <2> QED
    BY <2>1, <2>2, <2>3, <2>4 DEF Init, Types, Labels
<1>2. VersionsDense
  BY FS_EmptySet DEF Init, VersionsDense
<1>3. \A c \in Calls : CallGuard(c)
  BY DEF Init, CallGuard, Idle, Working
<1> QED
  BY <1>1, <1>2, <1>3 DEF IInv

\* A step of one call that leaves the policy and its versions alone.
LEMMA LocalStep ==
    ASSUME IInv, NEW c \in Calls, NEW at \in Labels, NEW l \in Call,
           pc' = [pc EXCEPT ![c] = at], call' = [call EXCEPT ![c] = l],
           \A d \in Calls \ {c} : seen'[d] = seen[d],
           seen' \in [Calls -> Seq(Contents \cup {Gone})],
           UNCHANGED <<policy, rules, lastId, versions>>, CallGuard(c)'
    PROVE  IInv'
<1>1. Types' /\ VersionsDense'
  BY DEF IInv, Types, VersionsDense
<1>2. ASSUME NEW d \in Calls \ {c} PROVE CallGuard(d)'
  <2>1. pc'[d] = pc[d] /\ call'[d] = call[d] /\ seen'[d] = seen[d] /\ CallGuard(d)
    BY DEF IInv, Types
  <2> QED
    BY <2>1 DEF CallGuard, UpToDate, Now
<1> QED
  BY <1>1, <1>2 DEF IInv

LEMMA BeginStep ==
    ASSUME Values, IInv, NEW c \in Calls, NEW kind \in ChangeKinds, NEW l \in Call, Begin(c, kind, l),
           l.kind = kind, l.kind = "update" => l.meta \in Metas,
           l.kind \in {"create", "edit"} => l.text \in Texts,
           kind = "restore" => l.content \in Contents
    PROVE  IInv'
<1> DEFINE at == FirstStep(kind)
<1>1. pc' = [pc EXCEPT ![c] = at] /\ call' = [call EXCEPT ![c] = l] /\ policy # Gone
      /\ seen' = [seen EXCEPT ![c] = <<Now>>] /\ UNCHANGED <<policy, rules, lastId, versions>>
  BY DEF Begin
<1>2. at \in {"restore", "snapshot"} /\ (at = "restore" => kind = "restore")
  BY DEF FirstStep
<1>3. pc \in [Calls -> Labels] /\ call \in [Calls -> Call]
      /\ seen \in [Calls -> Seq(Contents \cup {Gone})]
  BY DEF IInv, Types
<1>4. <<Now>> \in Seq(Contents \cup {Gone}) /\ Len(<<Now>>) > 0 /\ <<Now>>[Len(<<Now>>)] = Now
  <2>1. Now \in Contents
    BY <1>1, NowContent DEF IInv
  <2> QED
    BY <2>1
<1> HIDE DEF at
<1>5. pc'[c] = at /\ call'[c] = l /\ seen'[c] = <<Now>> /\ Now' = Now
      /\ (\A d \in Calls \ {c} : seen'[d] = seen[d])
      /\ seen' \in [Calls -> Seq(Contents \cup {Gone})]
  BY <1>1, <1>3, <1>4 DEF Now
<1>6. UpToDate(c)'
  BY <1>4, <1>5 DEF UpToDate
<1>7. CallGuard(c)'
  BY <1>2, <1>5, <1>6 DEF CallGuard, Working
<1>8. at \in Labels
  BY <1>2 DEF Labels, Working
<1> QED
  BY <1>1, <1>5, <1>7, <1>8, LocalStep

\* The lookups of the six kinds of calls.
LEMMA LookupStep ==
    ASSUME Values, IInv, NEW c \in Calls,
           \/ \E m \in Metas : update(c, m)
           \/ \E t \in Texts : create(c, t) \/ edit(c, t)
           \/ removeRule(c) \/ restoreVersion(c) \/ saveVersion(c)
    PROVE  IInv'
<1>1. Idle \in Call
  BY DEF Idle, Call, ChangeKinds
<1>2. rules \in SUBSET Rule /\ versions \in SUBSET Version
  BY DEF IInv, Types
<1>3. ASSUME NEW m \in Metas, update(c, m) PROVE IInv'
  <2> DEFINE l == [Idle EXCEPT !.kind = "update", !.meta = m]
  <2>1. l \in Call /\ l.kind = "update" /\ l.meta = m /\ l.kind \in ChangeKinds
    BY DEF Idle, Call, ChangeKinds
  <2>2. Begin(c, "update", l)
    BY <1>3 DEF update
  <2> HIDE DEF l
  <2> QED
    BY <2>1, <2>2, BeginStep
<1>4. ASSUME NEW t \in Texts, create(c, t) PROVE IInv'
  <2> DEFINE l == [Idle EXCEPT !.kind = "create", !.text = t]
  <2>1. l \in Call /\ l.kind = "create" /\ l.text = t /\ l.kind \in ChangeKinds
    BY DEF Idle, Call, ChangeKinds
  <2>2. Begin(c, "create", l)
    BY <1>4 DEF create
  <2> HIDE DEF l
  <2> QED
    BY <2>1, <2>2, BeginStep
<1>5. ASSUME NEW t \in Texts, edit(c, t) PROVE IInv'
  <2>1. PICK r \in rules :
          Begin(c, "edit", [Idle EXCEPT !.kind = "edit", !.rule = r.id, !.text = t])
    BY <1>5 DEF edit
  <2> DEFINE l == [Idle EXCEPT !.kind = "edit", !.rule = r.id, !.text = t]
  <2>2. r.id \in Nat
    BY <1>2 DEF Rule
  <2>3. l \in Call /\ l.kind = "edit" /\ l.text = t /\ l.kind \in ChangeKinds
    BY <2>2 DEF Idle, Call, ChangeKinds
  <2>4. Begin(c, "edit", l)
    BY <2>1
  <2> HIDE DEF l
  <2> QED
    BY <2>3, <2>4, BeginStep
<1>6. ASSUME removeRule(c) PROVE IInv'
  <2>1. PICK r \in rules : Begin(c, "remove", [Idle EXCEPT !.kind = "remove", !.rule = r.id])
    BY <1>6 DEF removeRule
  <2> DEFINE l == [Idle EXCEPT !.kind = "remove", !.rule = r.id]
  <2>2. r.id \in Nat
    BY <1>2 DEF Rule
  <2>3. l \in Call /\ l.kind = "remove" /\ l.kind \in ChangeKinds
    BY <2>2 DEF Idle, Call, ChangeKinds
  <2>4. Begin(c, "remove", l)
    BY <2>1
  <2> HIDE DEF l
  <2> QED
    BY <2>3, <2>4, BeginStep
<1>7. ASSUME restoreVersion(c) PROVE IInv'
  <2>1. PICK v \in versions :
          Begin(c, "restore",
                [Idle EXCEPT !.kind = "restore", !.content = v.content, !.version = v.nr])
    BY <1>7 DEF restoreVersion
  <2> DEFINE l == [Idle EXCEPT !.kind = "restore", !.content = v.content, !.version = v.nr]
  <2>2. v.content \in Contents /\ v.nr \in Nat
    BY <1>2 DEF Version
  <2>3. l \in Call /\ l.kind = "restore" /\ l.content = v.content /\ l.kind \in ChangeKinds
    BY <2>2 DEF Idle, Call, ChangeKinds
  <2>4. Begin(c, "restore", l)
    BY <2>1
  <2> HIDE DEF l
  <2> QED
    BY <2>2, <2>3, <2>4, BeginStep
<1>8. ASSUME saveVersion(c) PROVE IInv'
  <2>1. Idle.kind = "manual" /\ "manual" \in ChangeKinds /\ Begin(c, "manual", Idle)
    BY <1>8 DEF saveVersion, Idle, ChangeKinds
  <2> QED
    BY <1>1, <2>1, BeginStep
<1> QED
  BY <1>3, <1>4, <1>5, <1>6, <1>7, <1>8

\* A call that fails holds nothing.
LEMMA FailsStep ==
    ASSUME IInv, NEW c \in Calls, pc' = [pc EXCEPT ![c] = "failed"],
           UNCHANGED <<policy, rules, lastId, versions, call, seen>>
    PROVE  IInv'
<1>1. "failed" \in Labels /\ pc \in [Calls -> Labels] /\ call \in [Calls -> Call]
      /\ seen' \in [Calls -> Seq(Contents \cup {Gone})]
  BY DEF IInv, Types, Labels
<1>2. call[c] \in Call /\ call' = [call EXCEPT ![c] = call[c]] /\ pc'[c] = "failed"
  BY <1>1
<1>3. CallGuard(c)'
  BY <1>2 DEF IInv, CallGuard, Working
<1> QED
  BY <1>1, <1>2, <1>3, LocalStep

\* A call that is up to date, and whose policy is as before, stays so.
LEMMA StillUpToDate ==
    ASSUME IInv, NEW c \in Calls, pc[c] \in Working, UNCHANGED <<policy, rules, seen>>
    PROVE  UpToDate(c)' /\ UpToDate(c) /\ seen'[c] = seen[c] /\ Now' = Now
           /\ seen' \in [Calls -> Seq(Contents \cup {Gone})]
BY DEF IInv, Types, CallGuard, UpToDate, Now

LEMMA ReadColumnsStep ==
    ASSUME Values, IInv, NEW c \in Calls, ReadColumns(c)
    PROVE  IInv'
<1>1. pc[c] = "snapshot" /\ UNCHANGED <<policy, rules, lastId, versions, seen>>
  BY DEF ReadColumns
<1>2. CASE /\ policy # Gone /\ pc' = [pc EXCEPT ![c] = "include"]
           /\ call' = [call EXCEPT ![c].content = [meta |-> policy, rules |-> {}]]
  <2> DEFINE x == [meta |-> policy, rules |-> {}]
             l == [call[c] EXCEPT !.content = x]
             k == Len(seen[c])
  <2>1. x \in Contents /\ call[c] \in Call
    BY <1>2, FS_EmptySet DEF IInv, Types, Contents
  <2>2. l \in Call /\ l.kind = call[c].kind /\ l.meta = call[c].meta /\ l.text = call[c].text
        /\ l.content = x
    BY <2>1 DEF Call
  <2>3. call' = [call EXCEPT ![c] = l] /\ "include" \in Labels
    BY <1>2 DEF Labels, Working
  <2>4. pc'[c] = "include" /\ call'[c] = l
    BY <1>1, <1>2, <2>3 DEF IInv, Types
  <2>5. UpToDate(c)' /\ UpToDate(c) /\ seen'[c] = seen[c] /\ Now' = Now
        /\ seen' \in [Calls -> Seq(Contents \cup {Gone})]
    BY <1>1, StillUpToDate DEF Working
  <2>6. ColumnsOf(x, seen[c])
    <3>1. seen[c][k] = Now /\ k \in DOMAIN seen[c]
      BY <1>1, <2>5 DEF UpToDate, IInv, Types
    <3>2. Now # Gone /\ Now.meta = policy
      BY <1>2, NowContent DEF IInv, Now, Saying, Values
    <3> QED
      BY <3>1, <3>2 DEF ColumnsOf
  <2> HIDE DEF l, x
  <2>7. CallGuard(c)'
    BY <1>1, <2>1, <2>2, <2>4, <2>5, <2>6 DEF IInv, CallGuard
  <2> QED
    BY <1>1, <1>2, <2>2, <2>3, <2>5, <2>7, LocalStep
<1>3. CASE pc' = [pc EXCEPT ![c] = "failed"] /\ UNCHANGED call
  BY <1>1, <1>3, FailsStep
<1> QED
  BY <1>2, <1>3 DEF ReadColumns

\* The rules are those of now, the columns those of a moment not later.
LEMMA ReadRulesStep ==
    ASSUME Values, IInv, NEW c \in Calls, ReadRules(c)
    PROVE  IInv'
<1> DEFINE x == [call[c].content EXCEPT !.rules = rules]
           l == [call[c] EXCEPT !.content = x]
           k == Len(seen[c])
<1>1. pc[c] = "include" /\ UNCHANGED <<policy, rules, lastId, versions, seen>>
      /\ pc' = [pc EXCEPT ![c] = "number"] /\ call' = [call EXCEPT ![c] = l]
  BY DEF ReadRules
<1>2. call[c].content \in Contents /\ call[c] \in Call /\ rules \in SUBSET Rule /\ IsFiniteSet(rules)
      /\ ColumnsOf(call[c].content, seen[c])
  BY <1>1 DEF IInv, Types, CallGuard
<1>3. x \in Contents /\ x = [meta |-> call[c].content.meta, rules |-> rules]
  BY <1>2 DEF Contents
<1>4. l \in Call /\ l.kind = call[c].kind /\ l.meta = call[c].meta /\ l.text = call[c].text
      /\ l.content = x
  BY <1>2, <1>3 DEF Call
<1>5. "number" \in Labels
  BY DEF Labels, Working
<1>6. UpToDate(c)' /\ UpToDate(c) /\ seen'[c] = seen[c] /\ Now' = Now
      /\ seen' \in [Calls -> Seq(Contents \cup {Gone})]
  BY <1>1, StillUpToDate DEF Working
<1>7. ASSUME policy # Gone PROVE InOrder(x, seen[c])
  <2>1. seen[c][k] = Now /\ k \in DOMAIN seen[c] /\ DOMAIN seen[c] = 1 .. k /\ k \in Nat
    BY <1>1, <1>6 DEF UpToDate, IInv, Types
  <2>2. Now # Gone /\ Now.rules = rules
    BY <1>7, NowContent DEF IInv, Now, Saying, Values
  <2>3. PICK i \in DOMAIN seen[c] : seen[c][i] # Gone /\ call[c].content.meta = seen[c][i].meta
    BY <1>2 DEF ColumnsOf
  <2>4. i <= k /\ x = [meta |-> seen[c][i].meta, rules |-> seen[c][k].rules]
    BY <1>3, <2>1, <2>2, <2>3
  <2> QED
    BY <2>1, <2>2, <2>3, <2>4 DEF InOrder
<1> HIDE DEF l, x
<1>8. pc'[c] = "number" /\ call'[c] = l
  BY <1>1 DEF IInv, Types
<1>9. CallGuard(c)'
  BY <1>1, <1>3, <1>4, <1>6, <1>7, <1>8 DEF IInv, CallGuard
<1> QED
  BY <1>1, <1>4, <1>5, <1>6, <1>9, LocalStep

LEMMA NumberStep ==
    ASSUME Values, IInv, NEW c \in Calls, Number(c)
    PROVE  IInv'
<1> DEFINE l == [call[c] EXCEPT !.nr = Latest + 1]
<1>1. pc[c] = "number" /\ UNCHANGED <<policy, rules, lastId, versions, seen>>
      /\ pc' = [pc EXCEPT ![c] = "insert"] /\ call' = [call EXCEPT ![c] = l]
  BY DEF Number
<1>2. Latest = Cardinality(versions) /\ Cardinality(versions) \in Nat /\ call[c] \in Call
  BY LatestIsCount DEF IInv, Types
<1>3. l \in Call /\ l.kind = call[c].kind /\ l.meta = call[c].meta /\ l.text = call[c].text
      /\ l.content = call[c].content /\ l.nr = Cardinality(versions) + 1
  BY <1>2 DEF Call
<1>4. "insert" \in Labels
  BY DEF Labels, Working
<1>5. UpToDate(c)' /\ seen'[c] = seen[c] /\ seen' \in [Calls -> Seq(Contents \cup {Gone})]
  BY <1>1, StillUpToDate DEF Working
<1> HIDE DEF l
<1>6. pc'[c] = "insert" /\ call'[c] = l
  BY <1>1 DEF IInv, Types
<1>7. call'[c].nr \in 1 .. Cardinality(versions') + 1
  BY <1>1, <1>2, <1>3, <1>6
<1>8. call[c].content \in Contents /\ (policy # Gone => InOrder(call[c].content, seen[c]))
  BY <1>1 DEF IInv, CallGuard
<1>9. CallGuard(c)'
  BY <1>1, <1>3, <1>5, <1>6, <1>7, <1>8 DEF IInv, CallGuard
<1> QED
  BY <1>1, <1>3, <1>4, <1>5, <1>9, LocalStep

\* The unique index makes a number that is at most one too high the next one.
LEMMA InsertStep ==
    ASSUME Values, IInv, NEW c \in Calls, InsertVersion(c)
    PROVE  IInv'
<1> DEFINE n == call[c].nr
           new == [nr |-> n, content |-> call[c].content, from |-> call[c].version]
           N == Cardinality(versions)
<1>1. pc[c] = "insert" /\ UNCHANGED <<policy, rules, lastId, seen>> /\ call[c] \in Call
      /\ versions \in SUBSET Version /\ IsFiniteSet(versions) /\ N \in Nat
  BY FS_CardinalityType DEF InsertVersion, IInv, Types
<1>2. CASE ~Insertable(n)
  <2>1. pc' = [pc EXCEPT ![c] = "failed"] /\ UNCHANGED <<versions, call>>
    BY <1>2 DEF InsertVersion, AfterConflict
  <2> QED
    BY <1>1, <2>1, FailsStep
<1>3. CASE Insertable(n)
  <2> DEFINE at == IF call[c].kind \in {"manual", "restore"} THEN "done" ELSE "write"
             l == [call[c] EXCEPT !.saved = call[c].content]
  <2>1. versions' = versions \cup {new} /\ call' = [call EXCEPT ![c] = l]
        /\ pc' = [pc EXCEPT ![c] = at]
    BY <1>3 DEF InsertVersion
  <2>2. policy # Gone /\ n \notin {v.nr : v \in versions} /\ n \in 1 .. N + 1
    BY <1>1, <1>3 DEF Insertable, IInv, CallGuard
  <2>3. {v.nr : v \in versions} = 1 .. N
    BY DEF IInv, VersionsDense
  <2>4. n = N + 1
    BY <1>1, <2>2, <2>3
  <2>5. call[c].content \in Contents /\ InOrder(call[c].content, seen[c])
    BY <1>1, <2>2 DEF IInv, CallGuard
  <2>6. new \in Version /\ new.nr = n /\ new.content = call[c].content /\ new \notin versions
    <3>1. n \in Nat /\ call[c].version \in Nat \cup {None}
      BY <1>1 DEF Call
    <3>2. new \in Version /\ new.nr = n /\ new.content = call[c].content
      BY <2>5, <3>1 DEF Version
    <3> QED
      BY <2>2, <3>2
  <2>7. l \in Call /\ l.kind = call[c].kind /\ l.meta = call[c].meta /\ l.text = call[c].text
        /\ l.saved = call[c].content
    BY <1>1, <2>5 DEF Call
  <2>8. at \in {"done", "write"} /\ at \in Labels
    BY DEF Labels, Working
  <2> HIDE DEF at, l, new, n, N
  <2>9. IsFiniteSet(versions') /\ Cardinality(versions') = N + 1
    BY <1>1, <2>1, <2>6, FS_AddElement DEF N
  <2>10. Types'
    BY <1>1, <2>1, <2>6, <2>7, <2>8, <2>9 DEF IInv, Types
  <2>11. VersionsDense'
    <3>1. {v.nr : v \in versions'} = {v.nr : v \in versions} \cup {n}
      BY <2>1, <2>6
    <3>2. 1 .. N + 1 = (1 .. N) \cup {N + 1}
      BY <1>1
    <3> QED
      BY <2>3, <2>4, <2>9, <3>1, <3>2 DEF VersionsDense
  <2>12. CallGuard(c)'
    <3>1. pc'[c] = at /\ call'[c] = l /\ seen'[c] = seen[c] /\ UpToDate(c)'
      BY <1>1, <2>1, StillUpToDate DEF IInv, Types, Working
    <3>2. \E v \in versions' : v.content = l.saved
      BY <2>1, <2>6, <2>7
    <3>3. l.kind = "update" => l.meta \in Metas
      BY <2>7 DEF IInv, CallGuard
    <3>4. l.kind \in {"create", "edit"} => l.text \in Texts
      BY <2>7 DEF IInv, CallGuard
    <3> QED
      BY <1>1, <2>5, <2>7, <2>8, <3>1, <3>2, <3>3, <3>4 DEF CallGuard
  <2>13. ASSUME NEW d \in Calls \ {c} PROVE CallGuard(d)'
    <3>1. pc'[d] = pc[d] /\ call'[d] = call[d] /\ seen'[d] = seen[d] /\ CallGuard(d) /\ Now' = Now
      BY <1>1, <2>1 DEF IInv, Types, Now
    <3>2. call[d].nr \in 1 .. N + 1 => call[d].nr \in 1 .. Cardinality(versions') + 1
      BY <1>1, <2>9
    <3>3. policy' = policy /\ seen' = seen /\ versions \subseteq versions'
      BY <1>1, <2>1
    <3> QED
      BY <3>1, <3>2, <3>3 DEF CallGuard, UpToDate, N
  <2> QED
    BY <2>10, <2>11, <2>12, <2>13 DEF IInv
<1> QED
  BY <1>2, <1>3

\* What a change leaves a call at work: it has seen the change, and nothing it saw is lost.
SeenGuard(c, p, rs) ==
    pc[c] \in Working =>
        /\ UpToDate(c)'
        /\ {seen'[c][i] : i \in DOMAIN seen'[c]} = {seen[c][i] : i \in DOMAIN seen[c]} \cup {Saying(p, rs)}
        /\ ColumnsOf(call[c].content, seen[c]) => ColumnsOf(call[c].content, seen'[c])
        /\ InOrder(call[c].content, seen[c]) => InOrder(call[c].content, seen'[c])
        /\ InOrder(call[c].saved, seen[c]) => InOrder(call[c].saved, seen'[c])

LEMMA SeeStep ==
    ASSUME IInv, policy' \in Metas \cup {Gone}, rules' \in SUBSET Rule, IsFiniteSet(rules'),
           See(policy', rules')
    PROVE  /\ seen' \in [Calls -> Seq(Contents \cup {Gone})]
           /\ \A c \in Calls : SeenGuard(c, policy', rules')
<1> DEFINE e == Saying(policy', rules')
           S == Contents \cup {Gone}
<1>1. e \in S /\ Now' = e
  BY DEF Saying, Contents, Now
<1>2. seen \in [Calls -> Seq(S)] /\ seen' = [c \in Calls |-> IF pc[c] \in Working
                                                 THEN Append(seen[c], e) ELSE seen[c]]
  BY DEF IInv, Types, See
<1> HIDE DEF e, S
<1>3. ASSUME NEW c \in Calls PROVE seen'[c] \in Seq(S) /\ SeenGuard(c, policy', rules')
  <2>1. CASE pc[c] \in Working
    <3> DEFINE t == Append(seen[c], e)
    <3>1. seen'[c] = t /\ seen[c] \in Seq(S)
      BY <1>2, <2>1
    <3>2. \A x : /\ t \in Seq(S) /\ Len(t) > 0 /\ t[Len(t)] = e
                 /\ ColumnsOf(x, seen[c]) => ColumnsOf(x, t)
                 /\ InOrder(x, seen[c]) => InOrder(x, t)
                 /\ {t[i] : i \in DOMAIN t} = {seen[c][i] : i \in DOMAIN seen[c]} \cup {e}
      BY <1>1, <3>1, MoreSeen
    <3> HIDE DEF t
    <3>3. UpToDate(c)'
      BY <1>1, <3>1, <3>2 DEF UpToDate
    <3> QED
      BY <3>1, <3>2, <3>3 DEF SeenGuard, e
  <2>2. CASE pc[c] \notin Working
    BY <1>2, <2>2 DEF SeenGuard
  <2> QED
    BY <2>1, <2>2
<1> QED
  BY <1>2, <1>3 DEF S

\* A step that changes what the policy says: every running call sees it.
LEMMA ContentStep ==
    ASSUME IInv, policy' \in Metas \cup {Gone}, policy' # Gone => policy # Gone,
           rules' \in SUBSET Rule, IsFiniteSet(rules'), lastId' \in Nat,
           UNCHANGED <<versions, call>>, pc' \in [Calls -> Labels],
           \A c \in Calls : \/ pc'[c] = pc[c] \/ pc'[c] = "done"
                            \/ pc[c] = "restore" /\ pc'[c] = "snapshot",
           See(policy', rules')
    PROVE  IInv'
<1>1. seen' \in [Calls -> Seq(Contents \cup {Gone})]
      /\ \A c \in Calls : SeenGuard(c, policy', rules')
  BY SeeStep
<1>2. Types' /\ VersionsDense'
  BY <1>1 DEF IInv, Types, VersionsDense
<1>3. ASSUME NEW c \in Calls PROVE CallGuard(c)'
  <2>1. CallGuard(c) /\ call'[c] = call[c] /\ versions' = versions /\ SeenGuard(c, policy', rules')
    BY <1>1 DEF IInv
  <2>2. CASE pc'[c] = "done"
    BY <2>1, <2>2 DEF CallGuard, Working
  <2>3. CASE pc'[c] = pc[c]
    <3>1. CASE pc[c] \in Working
      BY <2>1, <2>3, <3>1 DEF CallGuard, SeenGuard, Working
    <3>2. CASE pc[c] \notin Working
      BY <2>1, <2>3, <3>2 DEF CallGuard, Working
    <3> QED
      BY <3>1, <3>2
  <2>4. CASE pc[c] = "restore" /\ pc'[c] = "snapshot"
    BY <2>1, <2>4 DEF CallGuard, SeenGuard, Working
  <2> QED
    BY <2>2, <2>3, <2>4
<1> QED
  BY <1>2, <1>3 DEF IInv

LEMMA WriteStep ==
    ASSUME Values, IInv, NEW c \in Calls,
           WriteUpdate(c) \/ WriteCreate(c) \/ WriteEdit(c) \/ WriteRemove(c)
    PROVE  IInv'
<1>1. policy \in Metas \cup {Gone} /\ rules \in SUBSET Rule /\ IsFiniteSet(rules) /\ lastId \in Nat
      /\ pc \in [Calls -> Labels] /\ call[c] \in Call /\ pc[c] = "write" /\ "done" \in Labels
  BY DEF IInv, Types, Labels, WriteUpdate, WriteCreate, WriteEdit, WriteRemove
<1>2. ASSUME NEW p \in Metas \cup {Gone}, NEW rs \in SUBSET Rule, IsFiniteSet(rs), Write(c, p, rs),
             lastId' \in Nat, p # Gone => policy # Gone
      PROVE  IInv'
  <2>1. policy' = p /\ rules' = rs /\ pc' = [pc EXCEPT ![c] = "done"] /\ See(policy', rules')
        /\ UNCHANGED <<versions, call>>
    BY <1>2 DEF Write
  <2>2. pc' \in [Calls -> Labels] /\ \A d \in Calls : pc'[d] = pc[d] \/ pc'[d] = "done"
    BY <1>1, <2>1
  <2> QED
    BY <1>2, <2>1, <2>2, ContentStep
<1>3. CASE WriteUpdate(c)
  <2>1. call[c].meta \in Metas /\ Write(c, call[c].meta, rules) /\ lastId' \in Nat /\ policy # Gone
    BY <1>1, <1>3 DEF WriteUpdate, IInv, CallGuard
  <2> QED
    BY <1>1, <1>2, <2>1
<1>4. CASE WriteCreate(c)
  <2> DEFINE r == [id |-> lastId + 1, text |-> call[c].text, pack |-> FALSE]
  <2>1. Write(c, policy, rules \cup {r}) /\ lastId' = lastId + 1 /\ policy # Gone
    BY <1>4 DEF WriteCreate
  <2>2. call[c].text \in Texts
    BY <1>4 DEF WriteCreate, IInv, CallGuard
  <2>3. r \in Rule
    BY <1>1, <2>2 DEF Rule
  <2>4. IsFiniteSet(rules \cup {r})
    BY <1>1, FS_AddElement
  <2> HIDE DEF r
  <2> QED
    BY <1>1, <1>2, <2>1, <2>3, <2>4
<1>5. CASE WriteEdit(c)
  <2>1. PICK r \in rules :
          Write(c, policy, (rules \ {r}) \cup {[r EXCEPT !.text = call[c].text]})
    BY <1>5 DEF WriteEdit, Target
  <2> DEFINE q == [r EXCEPT !.text = call[c].text]
  <2>2. call[c].text \in Texts /\ lastId' = lastId
    BY <1>5 DEF WriteEdit, IInv, CallGuard
  <2>3. q \in Rule
    BY <1>1, <2>2 DEF Rule
  <2>4. Write(c, policy, (rules \ {r}) \cup {q})
    BY <2>1
  <2>5. IsFiniteSet((rules \ {r}) \cup {q})
    BY <1>1, FS_RemoveElement, FS_AddElement
  <2> HIDE DEF q
  <2> QED
    BY <1>1, <1>2, <2>2, <2>3, <2>4, <2>5
<1>6. CASE WriteRemove(c)
  <2>1. PICK r \in rules : Write(c, policy, rules \ {r})
    BY <1>6 DEF WriteRemove, Target
  <2>2. IsFiniteSet(rules \ {r}) /\ lastId' = lastId
    BY <1>1, <1>6, FS_RemoveElement DEF WriteRemove
  <2> QED
    BY <1>1, <1>2, <2>1, <2>2
<1> QED
  BY <1>3, <1>4, <1>5, <1>6

\* The rules of a version get new ids that are numbers, and stay finitely many.
LEMMA RenewedType ==
    ASSUME NEW old \in SUBSET Rule, IsFiniteSet(old), lastId \in Nat
    PROVE  Renewed(old) \in SUBSET Rule /\ IsFiniteSet(Renewed(old))
<1> DEFINE f(r) == [r EXCEPT !.id = lastId + Cardinality({q \in old : q.id <= r.id})]
<1>1. ASSUME NEW r \in old PROVE f(r) \in Rule
  <2>1. IsFiniteSet({q \in old : q.id <= r.id})
    BY FS_Subset
  <2>2. lastId + Cardinality({q \in old : q.id <= r.id}) \in Nat
    BY <2>1, FS_CardinalityType
  <2> QED
    BY <2>2 DEF Rule
<1>2. Renewed(old) = {f(r) : r \in old}
  BY DEF Renewed
<1>3. IsFiniteSet({f(r) : r \in old})
  <2> DEFINE S == {f(r) : r \in old}
             g == [r \in old |-> f(r)]
  <2> HIDE DEF f
  <2>1. g \in Surjection(old, S)
    BY DEF Surjection
  <2> QED
    BY <2>1, FS_Surjection
<1> QED
  BY <1>1, <1>2, <1>3

LEMMA RestoreStep ==
    ASSUME Values, IInv, NEW c \in Calls, RestoreTx(c)
    PROVE  IInv'
<1>1. pc[c] = "restore" /\ UNCHANGED <<versions, call>> /\ pc \in [Calls -> Labels] /\ lastId \in Nat
  BY DEF RestoreTx, IInv, Types
<1>2. call[c].content \in Contents
  BY <1>1 DEF IInv, CallGuard
<1>3. CASE pc' = [pc EXCEPT ![c] = "failed"] /\ UNCHANGED <<policy, rules, lastId, seen>>
  BY <1>1, <1>3, FailsStep
<1>4. CASE policy # Gone /\ pc' = [pc EXCEPT ![c] = "snapshot"]
  <2> DEFINE old == call[c].content.rules
  <2>1. old \in SUBSET Rule /\ IsFiniteSet(old) /\ call[c].content.meta \in Metas
    BY <1>2 DEF Contents
  <2>2. policy' = call[c].content.meta /\ rules' = Renewed(old)
        /\ lastId' = lastId + Cardinality(old) /\ See(policy', rules')
    BY <1>4 DEF RestoreTx
  <2>3. lastId' \in Nat
    BY <1>1, <2>1, <2>2, FS_CardinalityType
  <2>4. rules' \in SUBSET Rule /\ IsFiniteSet(rules')
    BY <1>1, <2>1, <2>2, RenewedType
  <2>5. pc' \in [Calls -> Labels]
        /\ \A d \in Calls : pc'[d] = pc[d] \/ (pc[d] = "restore" /\ pc'[d] = "snapshot")
    BY <1>1, <1>4 DEF Labels, Working
  <2> QED
    BY <1>1, <1>4, <2>1, <2>2, <2>3, <2>4, <2>5, ContentStep
<1> QED
  BY <1>3, <1>4 DEF RestoreTx

LEMMA RemoveStep ==
    ASSUME Values, IInv, removePack \/ removePolicy
    PROVE  IInv'
<1>1. Types
  BY DEF IInv
<1>2. CASE removePack
  <2>1. rules' = {r \in rules : ~r.pack} /\ See(policy', rules')
        /\ UNCHANGED <<policy, lastId, versions, pc, call>>
    BY <1>2 DEF removePack
  <2>2. rules' \in SUBSET Rule /\ IsFiniteSet(rules')
    BY <1>1, <2>1, FS_Subset DEF Types
  <2> QED
    BY <1>1, <2>1, <2>2, ContentStep DEF Types
<1>3. CASE removePolicy
  <2>1. policy' = Gone /\ rules' = {} /\ versions' = {} /\ See(policy', rules')
        /\ UNCHANGED <<lastId, pc, call>>
    BY <1>3 DEF removePolicy
  <2>2. IsFiniteSet({}) /\ Cardinality({}) = 0
    BY FS_EmptySet
  <2>3. seen' \in [Calls -> Seq(Contents \cup {Gone})]
        /\ \A c \in Calls : SeenGuard(c, policy', rules')
    BY <2>1, <2>2, SeeStep
  <2>4. Types' /\ VersionsDense'
    BY <1>1, <2>1, <2>2, <2>3 DEF Types, VersionsDense
  <2>5. ASSUME NEW c \in Calls PROVE CallGuard(c)'
    <3>1. CallGuard(c) /\ call'[c] = call[c] /\ pc'[c] = pc[c] /\ policy' = Gone
          /\ SeenGuard(c, policy', rules')
      BY <2>1, <2>3 DEF IInv
    <3> QED
      BY <3>1 DEF CallGuard, SeenGuard, Working
  <2> QED
    BY <2>4, <2>5 DEF IInv
<1> QED
  BY <1>2, <1>3

LEMMA NextIInv == ASSUME Values, IInv, [Next]_vars PROVE IInv'
<1>1. CASE UNCHANGED vars
  <2>1. Types' /\ VersionsDense'
    BY <1>1 DEF vars, IInv, Types, VersionsDense
  <2>2. \A c \in Calls : CallGuard(c)'
    BY <1>1 DEF vars, IInv, CallGuard, UpToDate, Now
  <2> QED
    BY <2>1, <2>2 DEF IInv
<1>2. ASSUME NEW c \in Calls, WriteFails(c) PROVE IInv'
  BY <1>2, FailsStep DEF WriteFails
<1> QED
  BY <1>1, <1>2, LookupStep, ReadColumnsStep, ReadRulesStep, NumberStep, InsertStep, RestoreStep,
     WriteStep, RemoveStep
     DEF Next

-----------------------------------------------------------------------------
(* The theorems.                                                           *)

\* The conjuncts of IInv hold whatever calls overlap.
THEOREM VersionsInvariance == ASSUME Values PROVE Spec => []IInv
<1>1. Init => IInv
  BY InitIInv
<1>2. IInv /\ [Next]_vars => IInv'
  BY NextIInv
<1> QED
  BY <1>1, <1>2, PTL DEF Spec

\* createVersion numbers the versions of a policy 1, 2, 3, ...
THEOREM VersionsAreDense == ASSUME Values PROVE Spec => []VersionsDense
<1>1. IInv => VersionsDense
  BY DEF IInv
<1> QED
  BY <1>1, VersionsInvariance, PTL

\* A call that is about to write has saved columns the policy had at one moment of the call, with
\* rules it had at that moment or a later one.
THEOREM SnapshotsInCall == ASSUME Values PROVE Spec => []SnapshotInCall
<1>1. Values /\ IInv => SnapshotInCall
  BY DEF IInv, CallGuard, SnapshotInCall, Values
<1> QED
  BY <1>1, VersionsInvariance, PTL

\* What a change overwrites can be restored from a version, if nothing else changed
\* the policy while the call ran.
THEOREM ChangesReversible == ASSUME Values PROVE Spec => SerialChangesReversible
<1>1. IInv /\ [Next]_vars =>
        [\A c \in Calls :
            /\ pc[c] = "write" /\ pc'[c] = "done" /\ policy' # Gone
            /\ \A d \in Calls \ {c} : pc[d] \notin Working
            /\ \A i \in DOMAIN seen[c] : seen[c][i] = Now
            => Now \in {v.content : v \in versions'}]_vars
  <2> SUFFICES ASSUME IInv, [Next]_vars, NEW c \in Calls,
                      pc[c] = "write", pc'[c] = "done", policy' # Gone,
                      \A i \in DOMAIN seen[c] : seen[c][i] = Now
               PROVE  Now \in {v.content : v \in versions'}
    OBVIOUS
  <2>1. pc \in [Calls -> Labels]
    BY DEF IInv, Types
  <2>2. policy # Gone /\ versions' = versions
    <3>1. ASSUME NEW d \in Calls,
                 \/ WriteUpdate(d) \/ WriteCreate(d) \/ WriteEdit(d) \/ WriteRemove(d)
          PROVE  versions' = versions /\ (policy' = policy \/ policy # Gone)
      BY <3>1 DEF WriteUpdate, WriteCreate, WriteEdit, WriteRemove, Write
    <3>2. ASSUME NEW d \in Calls, NEW at, at # "done", pc' = [pc EXCEPT ![d] = at] PROVE FALSE
      BY <2>1, <3>2
    <3>3. ASSUME NEW d \in Calls,
                 \/ \E m \in Metas : update(d, m)
                 \/ \E t \in Texts : create(d, t) \/ edit(d, t)
                 \/ removeRule(d) \/ restoreVersion(d) \/ saveVersion(d)
          PROVE  FALSE
      <4>1. PICK kind, l : Begin(d, kind, l)
        BY <3>3 DEF update, create, edit, removeRule, restoreVersion, saveVersion
      <4>2. FirstStep(kind) # "done"
        BY DEF FirstStep
      <4> QED
        BY <3>2, <4>1, <4>2 DEF Begin
    <3>4. ASSUME NEW d \in Calls, ReadColumns(d) \/ ReadRules(d) \/ Number(d) \/ RestoreTx(d) \/ WriteFails(d)
          PROVE  FALSE
      BY <3>2, <3>4 DEF ReadColumns, ReadRules, Number, RestoreTx, WriteFails
    <3>5. ASSUME NEW d \in Calls, InsertVersion(d) PROVE FALSE
      <4>1. d # c
        BY <3>5 DEF InsertVersion
      <4> QED
        BY <2>1, <3>5, <4>1 DEF InsertVersion
    <3>6. CASE removePack \/ removePolicy \/ UNCHANGED vars
      BY <3>6 DEF removePack, removePolicy, vars
    <3> QED
      BY <3>1, <3>3, <3>4, <3>5, <3>6 DEF Next
  <2>3. InOrder(call[c].saved, seen[c]) /\ \E v \in versions : v.content = call[c].saved
    BY <2>2 DEF IInv, CallGuard
  <2>4. call[c].saved = Now
    <3>1. call[c].saved = [meta |-> Now.meta, rules |-> Now.rules]
      BY <2>3 DEF InOrder
    <3> QED
      BY <2>2, <3>1 DEF Now, Saying
  <2> QED
    BY <2>2, <2>3, <2>4
<1> QED
  BY <1>1, VersionsInvariance, PTL DEF Spec, SerialChangesReversible

-----------------------------------------------------------------------------
(* Every step is one of VersionHistory or leaves its variables alone.      *)

\* The versions as VersionHistory sees them.
Entries(vs) == {[nr |-> v.nr, content |-> v.content] : v \in vs}

\* The moments a call has seen, in whatever order.
Moments(s) == {s[i] : i \in DOMAIN s}

LEMMA EntryCardinality == \A S : History!Cardinality(S) = Cardinality(S)
BY DEF Cardinality, History!Cardinality

LEMMA SaidGone == ASSUME Values, IInv PROVE Now = Gone <=> policy = Gone
BY NowContent DEF IInv, Now, Saying, Values

\* Numbers are not repeated, so there are as many entries as versions.
LEMMA EntryCount == ASSUME IInv PROVE Cardinality(Entries(versions)) = Cardinality(versions)
<1> DEFINE H == Entries(versions)
           N == Cardinality(versions)
           f == [v \in versions |-> [nr |-> v.nr, content |-> v.content]]
           g == [e \in H |-> e.nr]
<1>1. IsFiniteSet(versions) /\ N \in Nat /\ {v.nr : v \in versions} = 1 .. N
  BY FS_CardinalityType DEF IInv, Types, VersionsDense
<1>2. f \in Surjection(versions, H)
  BY DEF Surjection, Entries
<1>3. IsFiniteSet(H) /\ Cardinality(H) <= N
  BY <1>1, <1>2, FS_Surjection
<1>4. (\A e \in H : e.nr \in 1 .. N) /\ \A k \in 1 .. N : \E e \in H : e.nr = k
  <2>1. \A v \in versions : v.nr \in 1 .. N /\ [nr |-> v.nr, content |-> v.content] \in H
    BY <1>1 DEF Entries
  <2>2. \A k \in 1 .. N : \E v \in versions : v.nr = k
    BY <1>1
  <2>3. \A e \in H : \E v \in versions : e = [nr |-> v.nr, content |-> v.content]
    BY DEF Entries
  <2> HIDE DEF H
  <2>4. \A v \in versions : [nr |-> v.nr, content |-> v.content].nr = v.nr
    OBVIOUS
  <2>5. \A e \in H : e.nr \in 1 .. N
    BY <2>1, <2>3, <2>4
  <2>6. \A k \in 1 .. N : \E e \in H : e.nr = k
    BY <2>1, <2>2, <2>4
  <2> QED
    BY <2>5, <2>6
<1> HIDE DEF H
<1>5. g \in Surjection(H, 1 .. N)
  BY <1>1, <1>4 DEF Surjection
<1>6. Cardinality(1 .. N) <= Cardinality(H)
  BY <1>3, <1>5, FS_Surjection
<1>7. Cardinality(1 .. N) = N
  <2>1. Cardinality(1 .. N) = IF 1 > N THEN 0 ELSE N - 1 + 1
    BY <1>1, FS_Interval
  <2> QED
    BY <1>1, <2>1
<1> QED
  BY <1>1, <1>3, <1>6, <1>7, FS_CardinalityType DEF H

\* A step that saves and deletes nothing: a call sees what the policy says before or after it.
LEMMA WorkStep ==
    ASSUME Values, IInv, IInv', UNCHANGED versions, policy' = Gone <=> policy = Gone,
           \A c \in Calls : pc'[c] \in Working =>
               \/ pc[c] \in Working /\ Moments(seen'[c]) \subseteq Moments(seen[c]) \cup {Now, Now'}
               \/ Moments(seen'[c]) \subseteq {Now, Now'}
    PROVE  History!Work
<1>1. Now' = Gone <=> Now = Gone
  <2>1. Now = Gone <=> policy = Gone
    BY SaidGone
  <2>2. Now' = Gone <=> policy' = Gone
    BY NowContent DEF IInv, Now, Saying, Values, Types, Contents
  <2> QED
    BY <2>1, <2>2
<1>2. Recent' \subseteq Recent \cup {Now, Now'}
  BY DEF Recent, Moments
<1>3. Entries(versions)' = Entries(versions)
  BY DEF Entries
<1> QED
  BY <1>1, <1>2, <1>3 DEF History!Work, Entries

LEMMA SaveStep ==
    ASSUME Values, IInv, NEW c \in Calls, InsertVersion(c), Insertable(call[c].nr)
    PROVE  History!Save
<1> DEFINE n == call[c].nr
           x == call[c].content
           new == [nr |-> n, content |-> x, from |-> call[c].version]
<1>1. /\ pc[c] = "insert" /\ UNCHANGED <<policy, rules, seen>> /\ policy # Gone
      /\ versions' = versions \cup {new}
      /\ \E at \in {"done", "write"} : pc' = [pc EXCEPT ![c] = at]
  BY DEF InsertVersion, Insertable
<1>2. x \in Contents /\ InOrder(x, seen[c]) /\ n \in 1 .. Cardinality(versions) + 1
  BY <1>1 DEF IInv, CallGuard
<1>3. n = Cardinality(versions) + 1
  <2>1. n \notin 1 .. Cardinality(versions) /\ Cardinality(versions) \in Nat
    BY FS_CardinalityType DEF InsertVersion, Insertable, IInv, Types, VersionsDense
  <2> QED
    BY <1>2, <2>1
<1>4. Entries(versions)' = Entries(versions) \cup {[nr |-> n, content |-> x]}
  <2>1. new.nr = n /\ new.content = x
    OBVIOUS
  <2>2. \A vs : Entries(vs \cup {new}) = Entries(vs) \cup {[nr |-> new.nr, content |-> new.content]}
    BY Zenon DEF Entries
  <2>3. Entries(versions)' = Entries(versions \cup {new})
    BY <1>1, Zenon DEF Entries
  <2> QED
    BY <2>1, <2>2, <2>3, Zenon
<1>5. \E y, z \in Recent \ {Gone} : x = [meta |-> y.meta, rules |-> z.rules]
  <2>1. PICK i, j \in DOMAIN seen[c] :
          seen[c][i] # Gone /\ seen[c][j] # Gone /\ x = [meta |-> seen[c][i].meta, rules |-> seen[c][j].rules]
    BY <1>2 DEF InOrder
  <2>2. seen[c][i] \in Recent /\ seen[c][j] \in Recent
    BY <1>1 DEF Recent, Working
  <2> QED
    BY <2>1, <2>2
<1>6. Recent' \subseteq Recent
  <2>1. pc \in [Calls -> Labels] /\ pc[c] \in Working
    BY <1>1 DEF IInv, Types, Working
  <2>2. \A d \in Calls : pc'[d] \in Working => pc[d] \in Working
    BY <1>1, <2>1
  <2> QED
    BY <1>1, <2>2 DEF Recent
<1>7. Now' = Now /\ Now # Gone
  BY <1>1, SaidGone DEF Now
<1>8. n = History!Cardinality(Entries(versions)) + 1
  BY <1>3, EntryCount, EntryCardinality
<1> HIDE DEF n, x
<1> QED
  BY <1>4, <1>5, <1>6, <1>7, <1>8 DEF History!Save, Entries

LEMMA InitHistory == ASSUME Values, Init PROVE History!Init
<1>1. policy # Gone /\ versions = {} /\ \A c \in Calls : pc[c] \notin Working
  BY DEF Init, Values, Working
<1>2. Now # Gone
  BY <1>1, InitIInv, SaidGone
<1>3. Recent = {} /\ Entries(versions) = {}
  BY <1>1 DEF Recent, Entries
<1> QED
  BY <1>2, <1>3 DEF History!Init, Entries

LEMMA BeginWorks ==
    ASSUME Values, IInv, IInv', NEW c \in Calls, NEW kind, NEW l, Begin(c, kind, l)
    PROVE  History!Work
<1>1. /\ UNCHANGED <<policy, rules, versions>> /\ Now' = Now
      /\ pc' = [pc EXCEPT ![c] = FirstStep(kind)] /\ seen' = [seen EXCEPT ![c] = <<Now>>]
  BY DEF Begin, Now
<1>2. pc \in [Calls -> Labels] /\ DOMAIN seen = Calls
  BY DEF IInv, Types
<1>3. Moments(seen'[c]) = {Now} /\ \A d \in Calls \ {c} : pc'[d] = pc[d] /\ seen'[d] = seen[d]
  BY <1>1, <1>2 DEF Moments
<1> QED
  BY <1>1, <1>3, WorkStep

\* A call takes a step of its own, or stops.
LEMMA CallWorks ==
    ASSUME Values, IInv, IInv', NEW c \in Calls, UNCHANGED <<policy, rules, versions, seen>>,
           pc[c] \in Working, NEW at, pc' = [pc EXCEPT ![c] = at]
    PROVE  History!Work
<1>1. pc \in [Calls -> Labels]
  BY DEF IInv, Types
<1>2. \A d \in Calls : pc'[d] \in Working => pc[d] \in Working
  BY <1>1
<1> QED
  BY <1>2, WorkStep

\* What the policy says changes, and every call at work sees it.
LEMMA ChangeWorks ==
    ASSUME Values, IInv, IInv', UNCHANGED versions, policy' = Gone <=> policy = Gone,
           See(policy', rules'), \A c \in Calls : pc'[c] \in Working => pc[c] \in Working
    PROVE  History!Work
<1>1. Now' = Saying(policy', rules')
  BY DEF Now
<1>2. \A c \in Calls : pc[c] \in Working => Moments(seen'[c]) = Moments(seen[c]) \cup {Now'}
  <2>1. policy' \in Metas \cup {Gone} /\ rules' \in SUBSET Rule /\ IsFiniteSet(rules')
    BY DEF IInv, Types
  <2> QED
    BY <1>1, <2>1, SeeStep DEF SeenGuard, Moments
<1> QED
  BY <1>2, WorkStep

LEMMA NextHistory ==
    ASSUME Values, IInv, [Next]_vars
    PROVE  [History!Next]_History!record
<1>1. IInv'
  BY NextIInv
<1>2. CASE UNCHANGED vars
  BY <1>2 DEF vars, History!record, Now, Recent, Entries
<1>3. ASSUME NEW c \in Calls,
             \/ \E m \in Metas : update(c, m)
             \/ \E t \in Texts : create(c, t) \/ edit(c, t)
             \/ removeRule(c) \/ restoreVersion(c) \/ saveVersion(c)
      PROVE  History!Next
  <2>1. PICK kind, l : Begin(c, kind, l)
    BY <1>3 DEF update, create, edit, removeRule, restoreVersion, saveVersion
  <2> QED
    BY <1>1, <2>1, BeginWorks DEF History!Next
<1>4. ASSUME NEW c \in Calls, ReadColumns(c) \/ ReadRules(c) \/ Number(c) \/ WriteFails(c)
      PROVE  History!Next
  <2>1. UNCHANGED <<policy, rules, versions, seen>> /\ pc[c] \in Working
    BY <1>4 DEF ReadColumns, ReadRules, Number, WriteFails, Working
  <2>2. PICK at : pc' = [pc EXCEPT ![c] = at]
    BY <1>4 DEF ReadColumns, ReadRules, Number, WriteFails
  <2> QED
    BY <1>1, <2>1, <2>2, CallWorks DEF History!Next
<1>5. ASSUME NEW c \in Calls, InsertVersion(c) PROVE History!Next
  <2>1. CASE Insertable(call[c].nr)
    BY <1>5, <2>1, SaveStep DEF History!Next
  <2>2. CASE ~Insertable(call[c].nr)
    <3>1. /\ UNCHANGED <<policy, rules, versions, seen>> /\ pc[c] \in Working
          /\ pc' = [pc EXCEPT ![c] = AfterConflict]
      BY <1>5, <2>2 DEF InsertVersion, Working
    <3> QED
      BY <1>1, <3>1, CallWorks DEF History!Next
  <2> QED
    BY <2>1, <2>2
<1>6. ASSUME NEW c \in Calls, WriteUpdate(c) \/ WriteCreate(c) \/ WriteEdit(c) \/ WriteRemove(c)
      PROVE  History!Next
  <2>1. PICK p, rs : Write(c, p, rs) /\ (p = policy \/ (policy # Gone /\ p \in Metas))
    <3>1. CASE WriteUpdate(c)
      <4>1. Write(c, call[c].meta, rules) /\ policy # Gone /\ call[c].meta \in Metas
        BY <3>1 DEF WriteUpdate, IInv, CallGuard
      <4> QED
        BY <4>1, Zenon
    <3>2. CASE WriteCreate(c)
      <4>1. Write(c, policy, rules \cup {[id |-> lastId + 1, text |-> call[c].text, pack |-> FALSE]})
        BY <3>2, Zenon DEF WriteCreate
      <4> QED
        BY <4>1, Zenon
    <3>3. CASE WriteEdit(c)
      <4>1. \E r \in Target(c) :
              Write(c, policy, (rules \ {r}) \cup {[r EXCEPT !.text = call[c].text]})
        BY <3>3, Zenon DEF WriteEdit
      <4> QED
        BY <4>1, Zenon
    <3>4. CASE WriteRemove(c)
      <4>1. \E r \in Target(c) : Write(c, policy, rules \ {r})
        BY <3>4, Zenon DEF WriteRemove
      <4> QED
        BY <4>1, Zenon
    <3> QED
      BY <1>6, <3>1, <3>2, <3>3, <3>4, Zenon
  <2>2. /\ UNCHANGED versions /\ See(policy', rules') /\ pc' = [pc EXCEPT ![c] = "done"]
        /\ policy' = p
    BY <2>1, Zenon DEF Write
  <2>3. pc \in [Calls -> Labels]
    BY DEF IInv, Types
  <2>4. \A d \in Calls : pc'[d] \in Working => pc[d] \in Working
    BY <2>2, <2>3 DEF Working
  <2>5. policy' = Gone <=> policy = Gone
    BY <2>2, <2>1 DEF Values
  <2> QED
    BY <1>1, <2>2, <2>4, <2>5, ChangeWorks DEF History!Next
<1>7. ASSUME NEW c \in Calls, RestoreTx(c) PROVE History!Next
  <2>1. UNCHANGED versions /\ pc[c] = "restore" /\ pc \in [Calls -> Labels]
    BY <1>7 DEF RestoreTx, IInv, Types
  <2>2. CASE pc' = [pc EXCEPT ![c] = "failed"] /\ UNCHANGED <<policy, rules, seen>>
    BY <1>1, <2>1, <2>2, CallWorks DEF History!Next, Working
  <2>3. CASE /\ policy # Gone /\ policy' = call[c].content.meta /\ See(policy', rules')
             /\ pc' = [pc EXCEPT ![c] = "snapshot"]
    <3>1. policy' \in Metas
      BY <2>1, <2>3 DEF IInv, CallGuard, Contents
    <3>2. \A d \in Calls : pc'[d] \in Working => pc[d] \in Working
      BY <2>1, <2>3 DEF Working
    <3> QED
      BY <1>1, <2>1, <2>3, <3>1, <3>2, ChangeWorks DEF History!Next, Values
  <2> QED
    BY <1>7, <2>2, <2>3 DEF RestoreTx
<1>8. CASE removePack
  <2>1. UNCHANGED <<policy, versions, pc>> /\ See(policy', rules')
    BY <1>8 DEF removePack
  <2> QED
    BY <1>1, <2>1, ChangeWorks DEF History!Next
<1>9. CASE removePolicy
  <2>1. /\ policy # Gone /\ policy' = Gone /\ versions' = {} /\ pc' = pc
        /\ See(Gone, {})
    BY <1>9 DEF removePolicy
  <2>2. Now # Gone /\ Now' = Gone /\ Saying(Gone, {}) = Gone
    BY <2>1, SaidGone DEF Now, Saying
  <2>3. \A c \in Calls : pc[c] \in Working => Moments(seen'[c]) = Moments(seen[c]) \cup {Gone}
    <3>1. rules' \in SUBSET Rule /\ IsFiniteSet(rules') /\ See(policy', rules') /\ Saying(policy', rules') = Gone
      BY <1>1, <1>9, <2>1, <2>2 DEF IInv, Types, removePolicy
    <3> QED
      BY <2>1, <3>1, SeeStep DEF SeenGuard, Moments
  <2>4. Recent' \subseteq Recent \cup {Gone}
    BY <2>1, <2>3 DEF Recent, Moments
  <2>5. Entries(versions)' = {}
    BY <2>1 DEF Entries
  <2> QED
    BY <2>2, <2>4, <2>5 DEF History!Remove, History!Next, Entries
<1> QED
  BY <1>2, <1>3, <1>4, <1>5, <1>6, <1>7, <1>8, <1>9 DEF Next

\* The versions of a policy are the history VersionHistory describes: numbered without a gap,
\* never changed, each with columns and rules the policy had while the call that saved it ran.
THEOREM HistoryIsKept == ASSUME Values PROVE Spec => HistoryKept
<1>1. Init => History!Init
  BY InitHistory
<1>2. IInv /\ [Next]_vars => [History!Next]_History!record
  BY NextHistory
<1> QED
  BY <1>1, <1>2, VersionsInvariance, PTL DEF Spec, HistoryKept, History!Spec
=============================================================================
