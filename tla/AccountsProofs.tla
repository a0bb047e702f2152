--------------------------- MODULE AccountsProofs ---------------------------
(***************************************************************************)
(* Theorems about Accounts, for any sets of requests at a time (a finite   *)
(* one), organizations, keys, providers and addresses.                     *)
(***************************************************************************)
EXTENDS Accounts, FiniteSetTheorems, TLAPS

Organization ==
    [email : Emails \cup {None}, link : Identities \cup {None}, password : BOOLEAN,
     plan : {"free", "pro"}, webhook : BOOLEAN]

Labels == {"idle", "create", "byEmail", "attach", "key", "plan", "count", "agent",
           "webhook", "password", "erase"}
Local == [at : Labels, org : Orgs \cup {None}, email : Emails \cup {None},
          identity : Identities \cup {None}, limit : Nat]

AccountType ==
    /\ org \in [Orgs -> Organization \cup {None}] /\ used \in SUBSET Orgs
    /\ agents \in [Orgs -> Nat] /\ paid \in SUBSET Orgs
    /\ keys \in [Keys -> [org : Orgs, revoked : BOOLEAN] \cup {None}]
    /\ h \in [Handlers -> Local]
    /\ given \in SUBSET (Identities \X Orgs) /\ requests \in Nat

\* What a request knows whose local state is l.
Known(l) ==
    /\ l.at \in Labels \ {"idle", "create", "byEmail"} => l.org \in used
    /\ l.at \in {"byEmail", "attach"} => l.identity \in Identities
    /\ l.at = "attach" /\ org[l.org] # None => org[l.org].email = EmailOf(l.identity)
    /\ l.at = "create" /\ l.identity # None => l.email = EmailOf(l.identity)
    /\ l.at = "count" /\ l.org \notin paid => l.limit = Limit
RequestGuard == \A x \in Handlers : Known(h[x])

\* Ids are used once, addresses belong to one row, a link has the row's address,
\* and a row that never had a paid plan has none.
RowGuard ==
    /\ \A o \in Orgs : org[o] # None =>
        /\ o \in used
        /\ org[o].link # None => org[o].email = EmailOf(org[o].link)
        /\ o \notin paid => org[o].plan = "free"
    /\ \A o, p \in Orgs : org[o] # None /\ org[p] # None /\ org[o].email = org[p].email => o = p

\* A token of an identity was given for a row with its address.
GivenGuard ==
    \A i \in Identities, o \in Orgs : <<i, o>> \in given =>
        o \in used /\ (org[o] # None => org[o].email = EmailOf(i))

\* Requests that passed the limit and are about to insert.
Pending(o) == {x \in Handlers : h[x].at = "agent" /\ h[x].org = o}
AgentGuard ==
    \A o \in Orgs \ paid :
        agents[o] + Cardinality(Pending(o)) <= Limit + Cardinality(Handlers) - 1

IInv == AccountType /\ RequestGuard /\ RowGuard /\ GivenGuard /\ AgentGuard

-----------------------------------------------------------------------------
LEMMA InitIInv ==
    ASSUME IsFiniteSet(Handlers), Limit \in Nat \ {0}, AccountInit
    PROVE  IInv
<1>1. AccountType
  BY DEF AccountInit, AccountType, Idle, Local, Labels
<1>2. RequestGuard /\ RowGuard /\ GivenGuard
  BY DEF AccountInit, RequestGuard, Known, RowGuard, GivenGuard, Idle, Labels
<1>3. AgentGuard
  <2>1. \A o \in Orgs : Pending(o) = {}
    BY DEF AccountInit, Pending, Idle
  <2>2. Cardinality({}) = 0 /\ Cardinality(Handlers) \in Nat
    BY FS_EmptySet, FS_CardinalityType
  <2> QED
    BY <2>1, <2>2 DEF AccountInit, AgentGuard
<1> QED
  BY <1>1, <1>2, <1>3 DEF IInv

\* The facts the actions use of the types.
LEMMA TypeFacts ==
    ASSUME AccountType, NEW x \in Handlers
    PROVE  /\ h[x] \in Local /\ h[x].at \in Labels /\ h[x].org \in Orgs \cup {None}
           /\ h[x].email \in Emails \cup {None} /\ h[x].identity \in Identities \cup {None}
           /\ h[x].limit \in Nat
           /\ \A o \in Orgs : org[o] # None => org[o] \in Organization
           /\ \A i \in Identities : EmailOf(i) \in Emails
<1>1. \A i \in Identities : EmailOf(i) \in Emails
  BY DEF Identities, EmailOf
<1>2. h[x] \in Local
  BY DEF AccountType
<1> QED
  BY <1>1, <1>2 DEF AccountType, Local

LEMMA IdleLocal == Idle \in Local /\ Idle.at = "idle"
BY DEF Idle, Local, Labels

-----------------------------------------------------------------------------
(* How a step keeps each part of the invariant.                            *)

\* What a request knows stays true while rows keep their addresses.
LEMMA KnownKept ==
    ASSUME used \subseteq used', paid \subseteq paid',
           \A o \in used : org'[o] # None => org[o] # None /\ org'[o].email = org[o].email,
           NEW l, Known(l)
    PROVE  Known(l)'
BY DEF Known, Labels

\* One request moves, the others are where they were.
LEMMA RequestStep ==
    ASSUME IInv, NEW x \in Handlers, NEW l \in Local, Known(l)', h' = [h EXCEPT ![x] = l],
           used \subseteq used', paid \subseteq paid',
           \A o \in used : org'[o] # None => org[o] # None /\ org'[o].email = org[o].email
    PROVE  RequestGuard'
<1> SUFFICES ASSUME NEW y \in Handlers PROVE Known(h[y])'
  BY DEF RequestGuard
<1>1. CASE y = x
  <2>1. h'[y] = l
    BY <1>1 DEF IInv, AccountType
  <2> QED
    BY <2>1 DEF Known
<1>2. CASE y # x
  <2>1. h'[y] = h[y] /\ Known(h[y])
    BY <1>2 DEF IInv, AccountType, RequestGuard
  <2> QED
    BY <2>1, KnownKept DEF Known
<1> QED
  BY <1>1, <1>2

LEMMA AgentStep ==
    ASSUME IInv, IsFiniteSet(Handlers), Limit \in Nat, agents' \in [Orgs -> Nat], paid \subseteq paid',
           \A o \in Orgs : agents'[o] <= agents[o],
           \A o \in Orgs : Pending(o)' \subseteq Pending(o)
    PROVE  AgentGuard'
<1> SUFFICES ASSUME NEW o \in Orgs \ paid'
             PROVE  agents'[o] + Cardinality(Pending(o)') <= Limit + Cardinality(Handlers) - 1
  BY DEF AgentGuard
<1>1. IsFiniteSet(Pending(o))
  BY FS_Subset DEF Pending
<1>2. IsFiniteSet(Pending(o)') /\ Cardinality(Pending(o)') <= Cardinality(Pending(o))
  BY <1>1, FS_Subset
<1>3. Cardinality(Pending(o)) \in Nat /\ Cardinality(Pending(o)') \in Nat
      /\ Cardinality(Handlers) \in Nat
  BY <1>1, <1>2, FS_CardinalityType
<1>4. agents[o] + Cardinality(Pending(o)) <= Limit + Cardinality(Handlers) - 1
  BY DEF IInv, AgentGuard
<1>5. agents[o] \in Nat /\ agents'[o] \in Nat /\ agents'[o] <= agents[o]
  BY DEF IInv, AccountType
<1> QED
  BY <1>2, <1>3, <1>4, <1>5

\* A request that does not go on to insert an agent leaves the others pending.
LEMMA PendingShrinks ==
    ASSUME AccountType, NEW x \in Handlers, NEW l \in Local, l.at # "agent",
           h' = [h EXCEPT ![x] = l], NEW o
    PROVE  Pending(o)' \subseteq Pending(o)
BY DEF Pending, AccountType

\* A step that only moves one request.
LEMMA LocalStep ==
    ASSUME IInv, IsFiniteSet(Handlers), Limit \in Nat, NEW x \in Handlers, NEW l \in Local,
           l.at # "agent", Known(l), h' = [h EXCEPT ![x] = l], requests' \in Nat,
           UNCHANGED <<org, used, agents, paid, keys, given>>
    PROVE  IInv'
<1>1. AccountType'
  BY DEF IInv, AccountType
<1>2. RequestGuard'
  <2>1. Known(l)'
    BY DEF Known
  <2> QED
    BY <2>1, RequestStep
<1>3. RowGuard' /\ GivenGuard'
  BY DEF IInv, RowGuard, GivenGuard
<1>4. AgentGuard'
  <2>1. \A o \in Orgs : Pending(o)' \subseteq Pending(o)
    BY PendingShrinks DEF IInv
  <2>2. \A o \in Orgs : agents'[o] <= agents[o]
    BY DEF IInv, AccountType
  <2> QED
    BY <2>1, <2>2, AgentStep DEF IInv, AccountType
<1> QED
  BY <1>1, <1>2, <1>3, <1>4 DEF IInv

\* A request that ends knows nothing.
LEMMA IdleKnown == Known(Idle)
BY DEF Known, Idle, Labels

LEMMA FailStep ==
    ASSUME IInv, IsFiniteSet(Handlers), Limit \in Nat, NEW x \in Handlers, Fail(x)
    PROVE  IInv'
<1>1. h' = [h EXCEPT ![x] = Idle] /\ requests' \in Nat
      /\ UNCHANGED <<org, used, agents, paid, keys, given>>
  BY DEF Fail, Finish, Goto, IInv, AccountType
<1> QED
  BY <1>1, IdleLocal, IdleKnown, LocalStep

\* The first statements of the requests of a signed-in organization.
LEMMA RequestIs ==
    ASSUME IInv, IsFiniteSet(Handlers), Limit \in Nat, NEW x \in Handlers, NEW o \in used,
           NEW at \in {"key", "plan", "webhook", "password", "erase"}, Request(x, o, at),
           UNCHANGED <<org, used, agents, paid, keys, given>>
    PROVE  IInv'
<1> DEFINE l == [Idle EXCEPT !.at = at, !.org = o]
<1>1. o \in Orgs /\ at \in Labels
  BY DEF IInv, AccountType, Labels
<1>2. l \in Local /\ l.at = at /\ l.org = o
  BY <1>1 DEF Idle, Local
<1>3. h' = [h EXCEPT ![x] = l] /\ requests' \in Nat
  BY DEF Request, Start, Goto, IInv, AccountType
<1> HIDE DEF l
<1>4. Known(l)
  BY <1>2 DEF Known
<1> QED
  BY <1>2, <1>3, <1>4, LocalStep

LEMMA RegisterStep ==
    ASSUME IInv, IsFiniteSet(Handlers), Limit \in Nat, NEW x \in Handlers, NEW e \in Emails,
           None \notin Identities, Register(x, e)
    PROVE  IInv'
<1> DEFINE l == [Idle EXCEPT !.at = "create", !.email = e]
<1>1. l \in Local /\ l.at = "create" /\ l.identity = None
  BY DEF Idle, Local, Labels
<1>2. h' = [h EXCEPT ![x] = l] /\ requests' \in Nat
      /\ UNCHANGED <<org, used, agents, paid, keys, given>>
  BY DEF Register, Start, Goto, IInv, AccountType
<1> HIDE DEF l
<1>3. Known(l)
  BY <1>1 DEF Known
<1> QED
  BY <1>1, <1>2, <1>3, LocalStep

-----------------------------------------------------------------------------
(* Statements that write.                                                  *)

\* A request that ends with a write: what is left to show is about the rows.
LEMMA EndStep ==
    ASSUME IInv, IsFiniteSet(Handlers), Limit \in Nat, NEW x \in Handlers,
           h' = [h EXCEPT ![x] = Idle],
           org' \in [Orgs -> Organization \cup {None}], used' \in SUBSET Orgs, used \subseteq used',
           \A o \in used : org'[o] # None => org[o] # None /\ org'[o].email = org[o].email,
           agents' \in [Orgs -> Nat], \A o \in Orgs : agents'[o] <= agents[o], paid' = paid,
           keys' \in [Keys -> [org : Orgs, revoked : BOOLEAN] \cup {None}],
           given' \in SUBSET (Identities \X Orgs), requests' = requests,
           RowGuard', GivenGuard'
    PROVE  IInv'
<1>1. AccountType'
  BY IdleLocal DEF IInv, AccountType
<1>2. RequestGuard'
  <2>1. Known(Idle)'
    BY DEF Known, Idle, Labels
  <2> QED
    BY <2>1, IdleLocal, RequestStep
<1>3. AgentGuard'
  <2>1. \A o \in Orgs : Pending(o)' \subseteq Pending(o)
    BY IdleLocal, PendingShrinks DEF IInv
  <2> QED
    BY <2>1, AgentStep
<1> QED
  BY <1>1, <1>2, <1>3 DEF IInv

LEMMA CreateStep ==
    ASSUME IInv, IsFiniteSet(Handlers), Limit \in Nat, None \notin Identities,
           NEW x \in Handlers, CreateRow(x)
    PROVE  IInv'
<1> DEFINE e == h[x].email
           i == h[x].identity
           new == [email |-> e, link |-> i, password |-> i = None, plan |-> "free",
                   webhook |-> FALSE]
<1>1. PICK o \in Orgs \ used :
        /\ org' = [org EXCEPT ![o] = new]
        /\ used' = used \cup {o}
        /\ given' = IF i = None THEN given ELSE given \cup {<<i, o>>}
  BY DEF CreateRow
<1>2. e \in Emails \cup {None} /\ i \in Identities \cup {None}
  BY TypeFacts DEF IInv
<1>3. new \in Organization /\ new.email = e /\ new.link = i /\ new.plan = "free"
  BY <1>2 DEF Organization
<1>4. i # None => e = EmailOf(i)
  BY DEF CreateRow, IInv, RequestGuard, Known
<1>5. \A p \in Orgs : org[p] # None => org[p].email # e
  BY DEF CreateRow, Free, ByEmail, Rows
<1>6. org \in [Orgs -> Organization \cup {None}] /\ used \in SUBSET Orgs
      /\ given \in SUBSET (Identities \X Orgs)
  BY DEF IInv, AccountType
<1>7. UNCHANGED <<agents, paid, keys, requests>> /\ h' = [h EXCEPT ![x] = Idle]
  BY DEF CreateRow, Finish, Goto
<1> HIDE DEF e, i, new
<1>8. org'[o] = new /\ \A p \in Orgs : p # o => org'[p] = org[p]
  BY <1>1, <1>6
<1>9. RowGuard'
  <2>1. ASSUME NEW p \in Orgs, org'[p] # None
        PROVE  /\ p \in used'
               /\ org'[p].link # None => org'[p].email = EmailOf(org'[p].link)
               /\ p \notin paid' => org'[p].plan = "free"
    <3>1. CASE p = o
      BY <1>1, <1>3, <1>4, <1>8, <3>1
    <3>2. CASE p # o
      BY <1>1, <1>7, <1>8, <2>1, <3>2 DEF IInv, RowGuard
    <3> QED
      BY <3>1, <3>2
  <2>2. ASSUME NEW p \in Orgs, NEW q \in Orgs, org'[p] # None, org'[q] # None,
               org'[p].email = org'[q].email
        PROVE  p = q
    BY <1>3, <1>5, <1>8, <2>2 DEF IInv, RowGuard
  <2> QED
    BY <2>1, <2>2 DEF RowGuard
<1>10. GivenGuard'
  <2> SUFFICES ASSUME NEW j \in Identities, NEW p \in Orgs, <<j, p>> \in given'
               PROVE  p \in used' /\ (org'[p] # None => org'[p].email = EmailOf(j))
    BY DEF GivenGuard
  <2>1. CASE <<j, p>> \in given
    BY <1>1, <1>8, <2>1 DEF IInv, GivenGuard
  <2>2. CASE <<j, p>> \notin given
    <3>1. i # None /\ j = i /\ p = o
      BY <1>1, <2>2
    <3> QED
      BY <1>1, <1>3, <1>4, <1>8, <3>1
  <2> QED
    BY <2>1, <2>2
<1>11. org' \in [Orgs -> Organization \cup {None}] /\ used' \in SUBSET Orgs
  BY <1>1, <1>3, <1>6
<1>12. given' \in SUBSET (Identities \X Orgs)
  BY <1>1, <1>2, <1>6
<1>13. \A p \in used : org'[p] # None => org[p] # None /\ org'[p].email = org[p].email
  BY <1>6, <1>8
<1>14. agents' \in [Orgs -> Nat] /\ (\A p \in Orgs : agents'[p] <= agents[p])
       /\ keys' \in [Keys -> [org : Orgs, revoked : BOOLEAN] \cup {None}]
  BY <1>7 DEF IInv, AccountType
<1> QED
  BY <1>1, <1>7, <1>9, <1>10, <1>11, <1>12, <1>13, <1>14, EndStep

\* Rows that keep their address and their plan, and whose link has their address.
LEMMA RowsKept ==
    ASSUME RowGuard, GivenGuard, used' = used, paid' = paid,
           \A o \in Orgs : org'[o] # None =>
               /\ org[o] # None /\ org'[o].email = org[o].email /\ org'[o].plan = org[o].plan
               /\ org'[o].link # None => org'[o].email = EmailOf(org'[o].link)
    PROVE  /\ RowGuard'
           /\ \A i \in Identities, o \in Orgs : <<i, o>> \in given =>
                o \in used' /\ (org'[o] # None => org'[o].email = EmailOf(i))
BY DEF RowGuard, GivenGuard

\* A request that ends by replacing a row, by one with the same address and plan or by
\* none.
LEMMA ReplaceStep ==
    ASSUME IInv, IsFiniteSet(Handlers), Limit \in Nat, NEW x \in Handlers,
           NEW o \in Orgs, org[o] # None, NEW new \in Organization \cup {None},
           new # None => /\ new.email = org[o].email /\ new.plan = org[o].plan
                         /\ new.link # None => new.email = EmailOf(new.link),
           org' = [org EXCEPT ![o] = new], h' = [h EXCEPT ![x] = Idle],
           agents' \in [Orgs -> Nat], \A p \in Orgs : agents'[p] <= agents[p],
           keys' \in [Keys -> [org : Orgs, revoked : BOOLEAN] \cup {None}],
           UNCHANGED <<used, paid, requests>>,
           given' \in SUBSET (Identities \X Orgs),
           \A i \in Identities, p \in Orgs : <<i, p>> \in given' =>
               \/ <<i, p>> \in given
               \/ p = o /\ org[o].email = EmailOf(i)
    PROVE  IInv'
<1>1. org \in [Orgs -> Organization \cup {None}]
  BY DEF IInv, AccountType
<1>2. org'[o] = new /\ \A p \in Orgs : p # o => org'[p] = org[p]
  BY <1>1
<1>3. \A p \in Orgs : org'[p] # None =>
        /\ org[p] # None /\ org'[p].email = org[p].email /\ org'[p].plan = org[p].plan
        /\ org'[p].link # None => org'[p].email = EmailOf(org'[p].link)
  BY <1>2 DEF IInv, RowGuard
<1>4. RowGuard'
  BY <1>3, RowsKept DEF IInv
<1>5. \A i \in Identities, p \in Orgs : <<i, p>> \in given =>
        p \in used' /\ (org'[p] # None => org'[p].email = EmailOf(i))
  BY <1>3, RowsKept DEF IInv
<1>6. o \in used
  BY DEF IInv, RowGuard
<1>7. GivenGuard'
  BY <1>3, <1>5, <1>6 DEF GivenGuard
<1>8. org' \in [Orgs -> Organization \cup {None}] /\ used' \in SUBSET Orgs
      /\ \A p \in used : org'[p] # None => org[p] # None /\ org'[p].email = org[p].email
  BY <1>1, <1>3 DEF IInv, AccountType
<1> QED
  BY <1>4, <1>7, <1>8, EndStep

LEMMA AttachStep ==
    ASSUME IInv, IsFiniteSet(Handlers), Limit \in Nat, NEW x \in Handlers, Attach(x)
    PROVE  IInv'
<1> DEFINE o == h[x].org
           i == h[x].identity
           new == [org[o] EXCEPT !.link = i]
<1>1. h[x].at = "attach" /\ org[o] # None /\ org' = [org EXCEPT ![o].link = i]
      /\ given' = given \cup {<<i, o>>} /\ h' = [h EXCEPT ![x] = Idle]
      /\ UNCHANGED <<used, agents, paid, keys, requests>>
  BY DEF Attach, Finish, Goto
<1>2. o \in used /\ i \in Identities /\ org[o].email = EmailOf(i)
  BY <1>1 DEF IInv, RequestGuard, Known, Labels
<1>3. o \in Orgs
  BY <1>2 DEF IInv, AccountType
<1>4. org[o] \in Organization
  BY <1>1, <1>3 DEF IInv, AccountType
<1>5. org' = [org EXCEPT ![o] = new]
  BY <1>1
<1>6. new \in Organization /\ new.email = org[o].email /\ new.plan = org[o].plan /\ new.link = i
  BY <1>2, <1>4 DEF Organization
<1> HIDE DEF o, i, new
<1>7. agents' \in [Orgs -> Nat] /\ (\A p \in Orgs : agents'[p] <= agents[p])
      /\ keys' \in [Keys -> [org : Orgs, revoked : BOOLEAN] \cup {None}]
  BY <1>1 DEF IInv, AccountType
<1>8. given' \in SUBSET (Identities \X Orgs)
  BY <1>1, <1>2, <1>3 DEF IInv, AccountType
<1>9. \A j \in Identities, p \in Orgs : <<j, p>> \in given' =>
        <<j, p>> \in given \/ (p = o /\ org[o].email = EmailOf(j))
  BY <1>1, <1>2
<1>10. new.link # None => new.email = EmailOf(new.link)
  BY <1>2, <1>6
<1>11. UNCHANGED <<used, paid, requests>> /\ h' = [h EXCEPT ![x] = Idle] /\ org[o] # None
  BY <1>1
<1> QED
  BY <1>3, <1>5, <1>6, <1>7, <1>8, <1>9, <1>10, <1>11, ReplaceStep

\* Requests that find their row and change its password or its webhook.
LEMMA SaveStep ==
    ASSUME IInv, IsFiniteSet(Handlers), Limit \in Nat, NEW x \in Handlers,
           SavePassword(x) \/ SaveProfile(x)
    PROVE  IInv'
<1> DEFINE o == h[x].org
<1>1. PICK new : /\ org' = [org EXCEPT ![o] = new]
                 /\ \/ new = [org[o] EXCEPT !.password = TRUE]
                    \/ new = [org[o] EXCEPT !.webhook = TRUE]
  BY DEF SavePassword, SaveProfile
<1>2. h[x].at \in {"password", "webhook"} /\ org[o] # None /\ h' = [h EXCEPT ![x] = Idle]
      /\ UNCHANGED <<used, agents, paid, keys, given, requests>>
  BY DEF SavePassword, SaveProfile, Finish, Goto
<1>3. o \in Orgs
  BY <1>2 DEF IInv, RequestGuard, Known, Labels, AccountType
<1>4. org[o] \in Organization
  BY <1>2, <1>3 DEF IInv, AccountType
<1>5. new \in Organization /\ new.email = org[o].email /\ new.plan = org[o].plan
      /\ new.link = org[o].link
  BY <1>1, <1>4 DEF Organization
<1>6. org[o].link # None => org[o].email = EmailOf(org[o].link)
  BY <1>2, <1>3 DEF IInv, RowGuard
<1> HIDE DEF o
<1>7. agents' \in [Orgs -> Nat] /\ (\A p \in Orgs : agents'[p] <= agents[p])
      /\ keys' \in [Keys -> [org : Orgs, revoked : BOOLEAN] \cup {None}]
      /\ given' \in SUBSET (Identities \X Orgs)
  BY <1>2 DEF IInv, AccountType
<1> QED
  BY <1>1, <1>2, <1>3, <1>5, <1>6, <1>7, ReplaceStep

LEMMA EraseStep ==
    ASSUME IInv, IsFiniteSet(Handlers), Limit \in Nat, NEW x \in Handlers, Erase(x)
    PROVE  IInv'
<1> DEFINE o == h[x].org
<1>1. h[x].at = "erase" /\ org[o] # None /\ org' = [org EXCEPT ![o] = None]
      /\ agents' = [agents EXCEPT ![o] = 0] /\ h' = [h EXCEPT ![x] = Idle]
      /\ UNCHANGED <<used, paid, given, requests>>
  BY DEF Erase, Finish, Goto
<1>2. o \in Orgs
  BY <1>1 DEF IInv, RequestGuard, Known, Labels, AccountType
<1>3. keys' \in [Keys -> [org : Orgs, revoked : BOOLEAN] \cup {None}]
  BY DEF Erase, IInv, AccountType
<1> HIDE DEF o
<1>4. agents \in [Orgs -> Nat] /\ given' \in SUBSET (Identities \X Orgs)
  BY <1>1 DEF IInv, AccountType
<1>5. agents' \in [Orgs -> Nat] /\ \A p \in Orgs : agents'[p] <= agents[p]
  <2>1. agents' = [agents EXCEPT ![o] = 0]
    BY <1>1
  <2> QED
    BY <1>2, <1>4, <2>1
<1>6. PICK new \in Organization \cup {None} : new = None /\ org' = [org EXCEPT ![o] = new]
  BY <1>1
<1>7. UNCHANGED <<used, paid, requests>> /\ h' = [h EXCEPT ![x] = Idle] /\ org[o] # None
  BY <1>1
<1>8. given' = given /\ ~(new # None)
  BY <1>1, <1>6
<1> QED
  BY <1>2, <1>3, <1>4, <1>5, <1>6, <1>7, <1>8, ReplaceStep

LEMMA SignInStep ==
    ASSUME IInv, IsFiniteSet(Handlers), Limit \in Nat, None \notin Identities,
           NEW x \in Handlers, NEW i \in Identities, SignIn(x, i)
    PROVE  IInv'
<1>1. UNCHANGED <<org, used, agents, paid, keys>> /\ requests' \in Nat
  BY DEF SignIn, Start, IInv, AccountType
<1>2. CASE ByLink(i) # {}
  <2>1. PICK o \in ByLink(i) : given' = given \cup {<<i, o>>} /\ h' = h
    BY <1>2 DEF SignIn
  <2>2. o \in Orgs /\ org[o] # None /\ org[o].link = i
    BY <2>1 DEF ByLink, Rows
  <2>3. o \in used /\ org[o].email = EmailOf(i)
    BY <2>2 DEF IInv, RowGuard
  <2>4. AccountType'
    BY <1>1, <2>1, <2>2 DEF IInv, AccountType
  <2>5. GivenGuard'
    <3> SUFFICES ASSUME NEW j \in Identities, NEW p \in Orgs, <<j, p>> \in given'
                 PROVE  p \in used' /\ (org'[p] # None => org'[p].email = EmailOf(j))
      BY DEF GivenGuard
    <3>1. CASE <<j, p>> \in given
      BY <1>1, <3>1 DEF IInv, GivenGuard
    <3>2. CASE j = i /\ p = o
      BY <1>1, <2>3, <3>2
    <3> QED
      BY <2>1, <3>1, <3>2
  <2>6. RequestGuard' /\ RowGuard' /\ AgentGuard'
    BY <1>1, <2>1 DEF IInv, RequestGuard, Known, RowGuard, AgentGuard, Pending
  <2> QED
    BY <2>4, <2>5, <2>6 DEF IInv
<1>3. CASE ByLink(i) = {}
  <2> DEFINE l == [Idle EXCEPT !.at = "byEmail", !.identity = i]
  <2>1. h' = [h EXCEPT ![x] = l] /\ given' = given
    BY <1>3 DEF SignIn, Start, Goto
  <2>2. l \in Local /\ l.at = "byEmail" /\ l.identity = i
    BY DEF Idle, Local, Labels
  <2> HIDE DEF l
  <2>3. Known(l)
    BY <2>2 DEF Known
  <2> QED
    BY <1>1, <2>1, <2>2, <2>3, LocalStep
<1> QED
  BY <1>2, <1>3

\* The row found has the address of the identity, and so would a new one.
LEMMA FindStep ==
    ASSUME IInv, IsFiniteSet(Handlers), Limit \in Nat, NEW x \in Handlers, FindByEmail(x)
    PROVE  IInv'
<1> DEFINE i == h[x].identity
<1>1. UNCHANGED <<org, used, agents, paid, keys, given, requests>> /\ h[x].at = "byEmail"
      /\ requests' \in Nat
  BY DEF FindByEmail, IInv, AccountType
<1>2. h[x] \in Local /\ i \in Identities /\ EmailOf(i) \in Emails
  BY <1>1, TypeFacts DEF IInv, RequestGuard, Known
<1>3. ASSUME NEW o \in ByEmail(EmailOf(i)), h' = [h EXCEPT ![x] = [h[x] EXCEPT !.at = "attach", !.org = o]]
      PROVE  IInv'
  <2> DEFINE l == [h[x] EXCEPT !.at = "attach", !.org = o]
  <2>1. o \in Orgs /\ org[o] # None /\ org[o].email = EmailOf(i) /\ o \in used
    BY DEF ByEmail, Rows, IInv, RowGuard
  <2>2. l \in Local /\ l.at = "attach" /\ l.org = o /\ l.identity = i
    BY <1>2, <2>1 DEF Local, Labels
  <2>3. Known(l)
    BY <1>2, <2>1, <2>2 DEF Known
  <2> QED
    BY <1>1, <1>3, <2>2, <2>3, LocalStep
<1>4. ASSUME h' = [h EXCEPT ![x] = [h[x] EXCEPT !.at = "create", !.email = EmailOf(i)]]
      PROVE  IInv'
  <2> DEFINE l == [h[x] EXCEPT !.at = "create", !.email = EmailOf(i)]
  <2>1. l \in Local /\ l.at = "create" /\ l.email = EmailOf(i) /\ l.identity = i
    BY <1>2 DEF Local, Labels
  <2>2. Known(l)
    BY <1>2, <2>1 DEF Known
  <2> QED
    BY <1>1, <1>4, <2>1, <2>2, LocalStep
<1> QED
  BY <1>3, <1>4 DEF FindByEmail, Goto

\* A key of an organization is inserted.
LEMMA InsertKeyStep ==
    ASSUME IInv, IsFiniteSet(Handlers), Limit \in Nat, NEW x \in Handlers, InsertKey(x)
    PROVE  IInv'
<1>1. UNCHANGED <<org, used, agents, paid, given, requests>> /\ h' = [h EXCEPT ![x] = Idle]
      /\ h[x].at = "key"
  BY DEF InsertKey, Finish, Goto
<1>2. h[x].org \in Orgs
  BY <1>1 DEF IInv, RequestGuard, Known, Labels, AccountType
<1>3. keys' \in [Keys -> [org : Orgs, revoked : BOOLEAN] \cup {None}]
  BY <1>2 DEF InsertKey, IInv, AccountType
<1>4. RowGuard' /\ GivenGuard'
  BY <1>1 DEF IInv, RowGuard, GivenGuard
<1>5. org' \in [Orgs -> Organization \cup {None}] /\ used' \in SUBSET Orgs
      /\ given' \in SUBSET (Identities \X Orgs)
      /\ agents' \in [Orgs -> Nat] /\ \A p \in Orgs : agents'[p] <= agents[p]
  BY <1>1 DEF IInv, AccountType
<1>6. \A p \in used : org'[p] # None => org[p] # None /\ org'[p].email = org[p].email
  BY <1>1
<1> QED
  BY <1>1, <1>3, <1>4, <1>5, <1>6, EndStep

LEMMA ReadPlanStep ==
    ASSUME IInv, IsFiniteSet(Handlers), Limit \in Nat, NEW x \in Handlers, ReadPlan(x)
    PROVE  IInv'
<1> DEFINE o == h[x].org
           limit == IF org[o] = None \/ org[o].plan = "free" THEN Limit ELSE Unlimited
           l == [h[x] EXCEPT !.at = "count", !.limit = limit]
<1>1. UNCHANGED <<org, used, agents, paid, keys, given, requests>> /\ h[x].at = "plan"
      /\ h' = [h EXCEPT ![x] = l] /\ requests' \in Nat
  BY DEF ReadPlan, Goto, IInv, AccountType
<1>2. h[x] \in Local /\ o \in used /\ o \in Orgs
  BY <1>1 DEF IInv, RequestGuard, Known, Labels, AccountType
<1>3. o \notin paid => limit = Limit
  BY <1>2 DEF IInv, RowGuard
<1>4. limit \in Nat
  BY DEF Unlimited
<1> HIDE DEF limit
<1>5. l \in Local /\ l.at = "count" /\ l.org = o /\ l.limit = limit
  BY <1>2, <1>4 DEF Local, Labels
<1>6. Known(l)
  BY <1>2, <1>3, <1>5 DEF Known
<1> QED
  BY <1>1, <1>5, <1>6, LocalStep

\* The request that passes the limit joins the pending ones; all the requests there
\* are fit above a count below the limit.
LEMMA CountStep ==
    ASSUME IInv, IsFiniteSet(Handlers), Limit \in Nat, NEW x \in Handlers, CountAgents(x)
    PROVE  IInv'
<1> DEFINE o == h[x].org
           l == [h[x] EXCEPT !.at = "agent"]
<1>1. UNCHANGED <<org, used, agents, paid, keys, given, requests>> /\ h[x].at = "count"
      /\ requests' \in Nat
  BY DEF CountAgents, IInv, AccountType
<1>2. CASE ~Room(agents[o], h[x].limit)
  <2>1. h' = [h EXCEPT ![x] = Idle]
    BY <1>2 DEF CountAgents, Finish, Goto
  <2> QED
    BY <1>1, <2>1, IdleLocal, IdleKnown, LocalStep
<1>3. CASE Room(agents[o], h[x].limit)
  <2>1. h' = [h EXCEPT ![x] = l]
    BY <1>3 DEF CountAgents, Goto
  <2>2. h[x] \in Local /\ o \in used /\ o \in Orgs /\ (o \notin paid => h[x].limit = Limit)
    BY <1>1 DEF IInv, RequestGuard, Known, Labels, AccountType
  <2>3. l \in Local /\ l.at = "agent" /\ l.org = o
    BY <2>2 DEF Local, Labels
  <2>4. AccountType'
    BY <1>1, <2>1, <2>3 DEF IInv, AccountType
  <2>5. RequestGuard'
    <3>1. PICK m \in Local : m.at = "agent" /\ m.org \in used /\ h' = [h EXCEPT ![x] = m]
      BY <2>1, <2>2, <2>3
    <3>2. Known(m)'
      BY <1>1, <3>1 DEF Known
    <3> QED
      BY <1>1, <3>1, <3>2, RequestStep
  <2>6. RowGuard' /\ GivenGuard'
    BY <1>1 DEF IInv, RowGuard, GivenGuard
  <2>7. AgentGuard'
    <3> SUFFICES ASSUME NEW p \in Orgs \ paid
                 PROVE  agents[p] + Cardinality(Pending(p)') <= Limit + Cardinality(Handlers) - 1
      BY <1>1 DEF AgentGuard
    <3>1. CASE p = o
      <4>1. agents[p] < Limit /\ agents[p] \in Nat
        BY <1>3, <2>2, <3>1 DEF Room, IInv, AccountType
      <4>2. Pending(p)' \subseteq Handlers
        BY DEF Pending
      <4>3. IsFiniteSet(Pending(p)') /\ Cardinality(Pending(p)') <= Cardinality(Handlers)
        BY <4>2, FS_Subset
      <4>4. Cardinality(Pending(p)') \in Nat /\ Cardinality(Handlers) \in Nat
        BY <4>3, FS_CardinalityType
      <4> QED
        BY <4>1, <4>3, <4>4
    <3>2. CASE p # o
      <4>1. Pending(p)' = Pending(p)
        BY <1>1, <2>1, <2>3, <3>2 DEF Pending, IInv, AccountType
      <4> QED
        BY <4>1 DEF IInv, AgentGuard
    <3> QED
      BY <3>1, <3>2
  <2> QED
    BY <2>4, <2>5, <2>6, <2>7 DEF IInv
<1> QED
  BY <1>2, <1>3

\* The insert turns a pending request into an agent.
LEMMA InsertAgentStep ==
    ASSUME IInv, IsFiniteSet(Handlers), Limit \in Nat, NEW x \in Handlers, InsertAgent(x)
    PROVE  IInv'
<1> DEFINE o == h[x].org
<1>1. UNCHANGED <<org, used, paid, keys, given, requests>> /\ h[x].at = "agent"
      /\ agents' = [agents EXCEPT ![o] = @ + 1] /\ h' = [h EXCEPT ![x] = Idle]
  BY DEF InsertAgent, Finish, Goto
<1>2. o \in Orgs /\ agents \in [Orgs -> Nat] /\ h \in [Handlers -> Local]
  BY <1>1 DEF IInv, RequestGuard, Known, Labels, AccountType
<1>3. AccountType'
  BY <1>1, <1>2, IdleLocal DEF IInv, AccountType
<1>4. RequestGuard'
  <2>1. Known(Idle)'
    BY DEF Known, Idle, Labels
  <2> QED
    BY <1>1, <2>1, IdleLocal, RequestStep
<1>5. RowGuard' /\ GivenGuard'
  BY <1>1 DEF IInv, RowGuard, GivenGuard
<1>6. AgentGuard'
  <2> SUFFICES ASSUME NEW p \in Orgs \ paid
               PROVE  agents'[p] + Cardinality(Pending(p)') <= Limit + Cardinality(Handlers) - 1
    BY <1>1 DEF AgentGuard
  <2>1. agents[p] + Cardinality(Pending(p)) <= Limit + Cardinality(Handlers) - 1
    BY DEF IInv, AgentGuard
  <2>2. IsFiniteSet(Pending(p))
    BY FS_Subset DEF Pending
  <2>3. CASE p = o
    <3>1. agents'[p] = agents[p] + 1
      BY <1>1, <1>2, <2>3
    <3>2. x \in Pending(p) /\ Pending(p)' = Pending(p) \ {x}
      BY <1>1, <1>2, <2>3, IdleLocal DEF Pending
    <3>3. Cardinality(Pending(p) \ {x}) = Cardinality(Pending(p)) - 1
      BY <2>2, <3>2, FS_RemoveElement
    <3>4. Cardinality(Pending(p)) \in Nat /\ Cardinality(Handlers) \in Nat /\ agents[p] \in Nat
      BY <1>2, <2>2, FS_CardinalityType
    <3> HIDE DEF o
    <3> QED
      BY <2>1, <3>1, <3>2, <3>3, <3>4
  <2>4. CASE p # o
    <3>1. agents'[p] = agents[p] /\ Pending(p)' = Pending(p)
      BY <1>1, <1>2, <2>4, IdleLocal DEF Pending
    <3> QED
      BY <2>1, <3>1
  <2> QED
    BY <2>3, <2>4
<1> QED
  BY <1>3, <1>4, <1>5, <1>6 DEF IInv

\* What happens outside the requests: a key is revoked, an agent removed.
LEMMA QuietStep ==
    ASSUME IInv, IsFiniteSet(Handlers), Limit \in Nat, NEW o \in used,
           RevokeApiKey(o) \/ RemoveAgent(o)
    PROVE  IInv'
<1>1. UNCHANGED <<org, used, paid, h, given, requests>>
  BY DEF RevokeApiKey, RemoveAgent
<1>2. agents' \in [Orgs -> Nat] /\ \A p \in Orgs : agents'[p] <= agents[p]
  <2>1. agents \in [Orgs -> Nat]
    BY DEF IInv, AccountType
  <2> QED
    BY <2>1 DEF RevokeApiKey, RemoveAgent
<1>3. keys' \in [Keys -> [org : Orgs, revoked : BOOLEAN] \cup {None}]
  <2>1. CASE RevokeApiKey(o)
    <3>1. PICK k \in Keys : keys[k] # None /\ keys' = [keys EXCEPT ![k].revoked = TRUE]
      BY <2>1 DEF RevokeApiKey
    <3>2. keys[k] \in [org : Orgs, revoked : BOOLEAN]
      BY <3>1 DEF IInv, AccountType
    <3>3. [keys[k] EXCEPT !.revoked = TRUE] \in [org : Orgs, revoked : BOOLEAN]
      BY <3>2
    <3> QED
      BY <3>1, <3>3 DEF IInv, AccountType
  <2>2. CASE RemoveAgent(o)
    BY <2>2 DEF RemoveAgent, IInv, AccountType
  <2> QED
    BY <2>1, <2>2
<1>4. AccountType'
  BY <1>1, <1>2, <1>3 DEF IInv, AccountType
<1>5. RequestGuard' /\ RowGuard' /\ GivenGuard'
  BY <1>1 DEF IInv, RequestGuard, Known, RowGuard, GivenGuard
<1>6. AgentGuard'
  BY <1>1, <1>2, AgentStep DEF Pending
<1> QED
  BY <1>4, <1>5, <1>6 DEF IInv

LEMMA ApplyPlanStep ==
    ASSUME IInv, IsFiniteSet(Handlers), Limit \in Nat, NEW o \in used, ApplyPlan(o)
    PROVE  IInv'
<1>1. UNCHANGED <<used, agents, keys, h, given, requests>> /\ o \in Orgs /\ org[o] # None
  BY DEF ApplyPlan, Rows
<1>2. PICK plan \in {"free", "pro"} :
        /\ org' = [org EXCEPT ![o].plan = plan]
        /\ paid' = IF plan = "free" THEN paid ELSE paid \cup {o}
  BY DEF ApplyPlan
<1> DEFINE new == [org[o] EXCEPT !.plan = plan]
<1>3. org[o] \in Organization /\ org \in [Orgs -> Organization \cup {None}]
  BY <1>1 DEF IInv, AccountType
<1>4. new \in Organization /\ new.email = org[o].email /\ new.link = org[o].link /\ new.plan = plan
  BY <1>3 DEF Organization
<1>5. org' = [org EXCEPT ![o] = new]
  BY <1>2
<1> HIDE DEF new
<1>6. org'[o] = new /\ \A p \in Orgs : p # o => org'[p] = org[p]
  BY <1>1, <1>3, <1>5
<1>7. \A p \in Orgs : org'[p] # None =>
        org[p] # None /\ org'[p].email = org[p].email /\ org'[p].link = org[p].link
  BY <1>1, <1>4, <1>6
<1>8. paid \subseteq paid' /\ paid' \in SUBSET Orgs
  BY <1>1, <1>2 DEF IInv, AccountType
<1>9. AccountType'
  BY <1>1, <1>3, <1>4, <1>5, <1>8 DEF IInv, AccountType
<1>10. RequestGuard'
  <2>1. \A p \in used : org'[p] # None => org[p] # None /\ org'[p].email = org[p].email
    BY <1>7 DEF IInv, AccountType
  <2> SUFFICES ASSUME NEW x \in Handlers PROVE Known(h[x])'
    BY DEF RequestGuard
  <2>2. Known(h[x]) /\ h'[x] = h[x]
    BY <1>1 DEF IInv, RequestGuard
  <2> QED
    BY <1>1, <1>8, <2>1, <2>2, KnownKept DEF Known
<1>11. RowGuard'
  <2>1. \A p \in Orgs : org'[p] # None /\ p \notin paid' => org'[p].plan = "free"
    BY <1>2, <1>4, <1>6, <1>8 DEF IInv, RowGuard
  <2> QED
    BY <1>1, <1>7, <2>1 DEF IInv, RowGuard
<1>12. GivenGuard'
  BY <1>1, <1>7 DEF IInv, GivenGuard
<1>13. AgentGuard'
  <2>1. agents' \in [Orgs -> Nat] /\ \A p \in Orgs : agents'[p] <= agents[p]
    BY <1>1 DEF IInv, AccountType
  <2> QED
    BY <1>1, <1>8, <2>1, AgentStep DEF Pending
<1> QED
  BY <1>9, <1>10, <1>11, <1>12, <1>13 DEF IInv

LEMMA NextIInv ==
    ASSUME IInv, IsFiniteSet(Handlers), Limit \in Nat, None \notin Identities,
           [AccountNext]_accountVars
    PROVE  IInv'
<1>1. ASSUME NEW x \in Handlers, NEW o \in used,
             \/ CreateApiKey(x, o) \/ CreateAgent(x, o) \/ UpdateProfile(x, o)
             \/ SetPassword(x, o) \/ DeleteOrganization(x, o)
      PROVE  IInv'
  BY <1>1, RequestIs DEF CreateApiKey, CreateAgent, UpdateProfile, SetPassword, DeleteOrganization
<1>2. CASE UNCHANGED accountVars
  BY <1>2 DEF accountVars, IInv, AccountType, RequestGuard, Known, RowGuard, GivenGuard,
     AgentGuard, Pending
<1> QED
  BY <1>1, <1>2, RegisterStep, SignInStep, CreateStep, FindStep, AttachStep, FailStep,
     InsertKeyStep, ReadPlanStep, CountStep, InsertAgentStep, SaveStep, EraseStep, QuietStep,
     ApplyPlanStep DEF AccountNext

-----------------------------------------------------------------------------
(* The theorems.                                                           *)

\* The conjuncts of IInv hold whatever requests overlap.
THEOREM AccountInvariance ==
    ASSUME IsFiniteSet(Handlers), Limit \in Nat \ {0}, None \notin Identities
    PROVE  AccountSpec => []IInv
<1>1. AccountInit => IInv
  BY InitIInv
<1>2. IInv /\ [AccountNext]_accountVars => IInv'
  BY NextIInv
<1> QED
  BY <1>1, <1>2, PTL DEF AccountSpec

\* Concurrent agentService.create calls pass the limit of a free plan by at most the
\* other requests there can be at a time.
THEOREM AgentsAreBounded ==
    ASSUME IsFiniteSet(Handlers), Limit \in Nat \ {0}, None \notin Identities
    PROVE  AccountSpec => []AgentsBounded
<1>1. IInv => AgentsBounded
  <2> SUFFICES ASSUME IInv, NEW o \in Orgs \ paid
               PROVE  agents[o] <= Limit + Cardinality(Handlers) - 1
    BY DEF AgentsBounded
  <2>1. Cardinality(Pending(o)) \in Nat /\ Cardinality(Handlers) \in Nat /\ agents[o] \in Nat
    <3>1. IsFiniteSet(Pending(o))
      BY FS_Subset DEF Pending
    <3> QED
      BY <3>1, FS_CardinalityType DEF IInv, AccountType
  <2> QED
    BY <2>1 DEF IInv, AgentGuard
<1> QED
  BY <1>1, AccountInvariance, PTL

\* loginWithProvider goes on finding the one account with the address of an identity,
\* whatever is registered, linked or deleted meanwhile.
THEOREM SignInsReturn ==
    ASSUME IsFiniteSet(Handlers), Limit \in Nat \ {0}, None \notin Identities
    PROVE  AccountSpec => []SignInReturns
<1>1. IInv => SignInReturns
  <2> SUFFICES ASSUME IInv, NEW i \in Identities, NEW o \in Rows, <<i, o>> \in given
               PROVE  org[o].email = EmailOf(i) /\ Resolved(i) = {o}
    BY DEF SignInReturns
  <2>1. o \in Orgs /\ org[o] # None
    BY DEF Rows
  <2>2. org[o].email = EmailOf(i)
    BY <2>1 DEF IInv, GivenGuard
  <2>3. ByEmail(EmailOf(i)) = {o}
    BY <2>1, <2>2 DEF IInv, RowGuard, ByEmail, Rows
  <2>4. ByLink(i) \subseteq ByEmail(EmailOf(i))
    BY DEF IInv, RowGuard, ByLink, ByEmail, Rows
  <2> QED
    BY <2>2, <2>3, <2>4 DEF Resolved
<1> QED
  BY <1>1, AccountInvariance, PTL


=============================================================================
