--------------------------- MODULE PolicyVersions ----------------------------
(***************************************************************************)
(* One compliance policy with its rules and saved versions, changed by     *)
(* concurrent API calls.  Every call is a chain of statements with no      *)
(* transaction around them: it looks up what it changes, saves a version   *)
(* (createVersion: read the columns, read the rules, number, insert) and   *)
(* writes.  Only restoring runs two of its steps in a transaction, and     *)
(* saves its version afterwards.                                           *)
(***************************************************************************)
EXTENDS Integers, FiniteSets, Sequences

CONSTANTS
    Calls,      \* API calls
    Texts,      \* what a rule can say
    Metas,      \* what the columns of a policy can say
    None, Gone, \* no value; a deleted policy
    MaxRules,   \* bounds of the model: rules ever created,
    MaxVersions \* versions saved

VARIABLES
    policy,     \* the columns of the policy, or Gone
    rules,      \* its rules
    lastId,     \* ids given to rules
    versions,   \* PolicyVersion
    pc,         \* statement each call is at, or how it ended
    call,       \* its locals
    seen        \* what the policy said, step by step, while each call ran (history)

vars == <<policy, rules, lastId, versions, pc, call, seen>>

Working == {"snapshot", "include", "number", "insert", "write", "restore"}

\* What the policy says, and what a version keeps of it: isActive is no part.
Saying(p, rs) == IF p = Gone THEN Gone ELSE [meta |-> p, rules |-> rs]
Now == Saying(policy, rules)

Idle == [kind |-> "manual", rule |-> None, text |-> None, meta |-> None,
         content |-> None, nr |-> 0, saved |-> None, version |-> None]

\* clonePack: a policy with one rule of a pack.
Init ==
    /\ policy \in Metas
    /\ \E t \in Texts : rules = {[id |-> 1, text |-> t, pack |-> TRUE]}
    /\ lastId = 1 /\ versions = {}
    /\ pc = [c \in Calls |-> "idle"]
    /\ call = [c \in Calls |-> Idle]
    /\ seen = [c \in Calls |-> <<>>]

\* Every running call sees what the policy says after a step.
See(p, rs) == seen' = [c \in Calls |-> IF pc[c] \in Working
                                       THEN Append(seen[c], Saying(p, rs)) ELSE seen[c]]

----------------------------------------------------------------------------
(* The lookups at the start of a call.                                     *)

\* Mutant: removing a rule saves no version first.
FirstStep_NoSnapshot(kind) ==
    IF kind = "restore" THEN "restore" ELSE IF kind = "remove" THEN "write" ELSE "snapshot"
\* A restore writes first and saves its version later.
FirstStep(kind) == IF kind = "restore" THEN "restore" ELSE "snapshot"

Begin(c, kind, locals) ==
    /\ pc[c] = "idle" /\ policy # Gone
    /\ pc' = [pc EXCEPT ![c] = FirstStep(kind)]
    /\ call' = [call EXCEPT ![c] = locals]
    /\ seen' = [seen EXCEPT ![c] = <<Now>>]
    /\ UNCHANGED <<policy, rules, lastId, versions>>

\* policyService.update, complianceService.create, update and remove,
\* policyVersionService.restoreVersion and createVersion.
update(c, m) == Begin(c, "update", [Idle EXCEPT !.kind = "update", !.meta = m])
create(c, t) == Begin(c, "create", [Idle EXCEPT !.kind = "create", !.text = t])
edit(c, t) == \E r \in rules :
    Begin(c, "edit", [Idle EXCEPT !.kind = "edit", !.rule = r.id, !.text = t])
removeRule(c) == \E r \in rules :
    Begin(c, "remove", [Idle EXCEPT !.kind = "remove", !.rule = r.id])
restoreVersion(c) == \E v \in versions :
    Begin(c, "restore", [Idle EXCEPT !.kind = "restore", !.content = v.content, !.version = v.nr])
saveVersion(c) == Begin(c, "manual", Idle)

----------------------------------------------------------------------------
(* createVersion.                                                          *)

\* One findFirst with the rules included, but two SELECTs outside a transaction: the policy may
\* change in between, and the rules of a policy deleted meanwhile are none.
ReadColumns(c) ==
    /\ pc[c] = "snapshot"
    /\ \/ /\ policy # Gone
          /\ call' = [call EXCEPT ![c].content = [meta |-> policy, rules |-> {}]]
          /\ pc' = [pc EXCEPT ![c] = "include"]
       \/ policy = Gone /\ pc' = [pc EXCEPT ![c] = "failed"] /\ UNCHANGED call
    /\ UNCHANGED <<policy, rules, lastId, versions, seen>>

ReadRules(c) ==
    /\ pc[c] = "include"
    /\ call' = [call EXCEPT ![c].content.rules = rules]
    /\ pc' = [pc EXCEPT ![c] = "number"]
    /\ UNCHANGED <<policy, rules, lastId, versions, seen>>

Latest == IF versions = {} THEN 0 ELSE CHOOSE n \in {v.nr : v \in versions} :
                                          \A v \in versions : v.nr <= n

Number(c) ==
    /\ pc[c] = "number" /\ Latest < MaxVersions
    /\ call' = [call EXCEPT ![c].nr = Latest + 1]
    /\ pc' = [pc EXCEPT ![c] = "insert"]
    /\ UNCHANGED <<policy, rules, lastId, versions, seen>>

\* Mutant: no unique index on the number.
Insertable_NoIndex(nr) == policy # Gone
\* The unique index, and the reference to the policy.
Insertable(nr) == policy # Gone /\ nr \notin {v.nr : v \in versions}

\* Mutant: a version that cannot be saved does not stop the change.
AfterConflict_GoesOn == "write"
AfterConflict == "failed"

InsertVersion(c) ==
    /\ pc[c] = "insert"
    /\ \/ /\ Insertable(call[c].nr)
          /\ versions' = versions \cup
                {[nr |-> call[c].nr, content |-> call[c].content, from |-> call[c].version]}
          /\ call' = [call EXCEPT ![c].saved = call[c].content]
          /\ pc' = [pc EXCEPT ![c] = IF call[c].kind \in {"manual", "restore"}
                                     THEN "done" ELSE "write"]
       \/ /\ ~Insertable(call[c].nr)
          /\ pc' = [pc EXCEPT ![c] = AfterConflict]
          /\ UNCHANGED <<versions, call>>
    /\ UNCHANGED <<policy, rules, lastId, seen>>

----------------------------------------------------------------------------
(* The writes.  A row that has gone meanwhile makes the statement fail.    *)

Write(c, p, rs) ==
    /\ policy' = p /\ rules' = rs
    /\ pc' = [pc EXCEPT ![c] = "done"]
    /\ See(p, rs)
    /\ UNCHANGED <<versions, call>>

WriteUpdate(c) ==
    /\ pc[c] = "write" /\ call[c].kind = "update" /\ policy # Gone
    /\ Write(c, call[c].meta, rules) /\ UNCHANGED lastId

WriteCreate(c) ==
    /\ pc[c] = "write" /\ call[c].kind = "create" /\ policy # Gone
    /\ lastId < MaxRules /\ lastId' = lastId + 1
    /\ Write(c, policy, rules \cup {[id |-> lastId + 1, text |-> call[c].text, pack |-> FALSE]})

\* The rule of the call, while it exists.
Target(c) == {r \in rules : r.id = call[c].rule}

WriteEdit(c) ==
    /\ pc[c] = "write" /\ call[c].kind = "edit"
    /\ \E r \in Target(c) :
        Write(c, policy, (rules \ {r}) \cup {[r EXCEPT !.text = call[c].text]})
    /\ UNCHANGED lastId

WriteRemove(c) ==
    /\ pc[c] = "write" /\ call[c].kind = "remove"
    /\ \E r \in Target(c) : ~r.pack /\ Write(c, policy, rules \ {r})
    /\ UNCHANGED lastId

\* The row is gone, or the rule belongs to a pack and removing it is refused.
WriteFails(c) ==
    /\ pc[c] = "write"
    /\ \/ call[c].kind \in {"update", "create"} /\ policy = Gone
       \/ call[c].kind \in {"edit", "remove"} /\ Target(c) = {}
       \/ call[c].kind = "remove" /\ \E r \in Target(c) : r.pack
    /\ pc' = [pc EXCEPT ![c] = "failed"]
    /\ UNCHANGED <<policy, rules, lastId, versions, call, seen>>

\* The rules of a version under new ids.
Renewed(old) ==
    {[r EXCEPT !.id = lastId + Cardinality({q \in old : q.id <= r.id})] : r \in old}

\* The transaction of restoreVersion: columns, and new rows for the rules.
RestoreTx(c) ==
    /\ pc[c] = "restore"
    /\ \/ /\ policy # Gone
          /\ lastId' = lastId + Cardinality(call[c].content.rules)
          /\ lastId' <= MaxRules
          /\ policy' = call[c].content.meta
          /\ rules' = Renewed(call[c].content.rules)
          /\ See(policy', rules')
          /\ pc' = [pc EXCEPT ![c] = "snapshot"]
       \/ /\ policy = Gone /\ pc' = [pc EXCEPT ![c] = "failed"]
          /\ UNCHANGED <<policy, rules, lastId, seen>>
    /\ UNCHANGED <<versions, call>>

\* complianceService.removePack deletes the pack's rules, also inside policies.
removePack ==
    /\ \E r \in rules : r.pack
    /\ rules' = {r \in rules : ~r.pack}
    /\ See(policy, rules')
    /\ UNCHANGED <<policy, lastId, versions, pc, call>>

\* policyService.remove: rules and versions go with the policy.
removePolicy ==
    /\ policy # Gone
    /\ policy' = Gone /\ rules' = {} /\ versions' = {}
    /\ See(Gone, {})
    /\ UNCHANGED <<lastId, pc, call>>

Next ==
    \/ \E c \in Calls :
        \/ \E m \in Metas : update(c, m)
        \/ \E t \in Texts : create(c, t) \/ edit(c, t)
        \/ removeRule(c) \/ restoreVersion(c) \/ saveVersion(c)
        \/ ReadColumns(c) \/ ReadRules(c) \/ Number(c) \/ InsertVersion(c) \/ RestoreTx(c)
        \/ WriteUpdate(c) \/ WriteCreate(c) \/ WriteEdit(c) \/ WriteRemove(c) \/ WriteFails(c)
    \/ removePack
    \/ removePolicy

Spec == Init /\ [][Next]_vars

----------------------------------------------------------------------------
\* What the policy said while the calls now at work ran.
Recent == UNION {{seen[c][i] : i \in DOMAIN seen[c]} : c \in {d \in Calls : pc[d] \in Working}}

\* The versions keep the promise of VersionHistory, although every call numbers its own from
\* a read of its own and inserts what it read still earlier: the numbers have no gap, an entry is
\* never changed, and its columns and its rules are ones the policy had while that call ran.
History == INSTANCE VersionHistory WITH
    said <- Now, recent <- Recent,
    history <- {[nr |-> v.nr, content |-> v.content] : v \in versions}
HistoryKept == History!Spec

\* Columns the policy had at one of the moments s, and rules it had then or later.
InOrder(x, s) == \E i, j \in DOMAIN s :
    i <= j /\ s[i] # Gone /\ s[j] # Gone /\ x = [meta |-> s[i].meta, rules |-> s[j].rules]

\* A call that is about to write has saved a version of that very call: its columns are those of
\* one moment of the call, its rules those of the same moment or a later one.  They may be those
\* of two moments, for the two SELECTs of createVersion share no transaction.
SnapshotInCall ==
    \A c \in Calls : pc[c] = "write" => call[c].saved # None /\ InOrder(call[c].saved, seen[c])

\* Calls that do not overlap keep their promise: what the policy said before an
\* update or a change of a rule can be restored from a version.
SerialChangesReversible ==
    [][\A c \in Calls :
        /\ pc[c] = "write" /\ pc'[c] = "done" /\ policy' # Gone
        /\ \A d \in Calls \ {c} : pc[d] \notin Working
        /\ \A i \in DOMAIN seen[c] : seen[c][i] = Now
        => Now \in {v.content : v \in versions'}]_vars
=============================================================================
