------------------------------ MODULE Accounts -------------------------------
(***************************************************************************)
(* Organizations and what requests do to them: registration, sign-in       *)
(* through a provider, passwords, API keys, agents, the webhook setting    *)
(* and deletion.  Every handler looks something up, then writes, without a *)
(* transaction; only the unique indexes and foreign keys of the tables     *)
(* hold between the two.                                                   *)
(***************************************************************************)
EXTENDS Integers, FiniteSets

CONSTANTS
    Handlers,   \* requests handled at a time
    Orgs,       \* ids of organizations
    Keys,       \* API keys
    Providers, Emails,
    None,       \* no organization, no row
    Limit,      \* agents of a free plan
    MaxRequests \* bound of the model

VARIABLES
    org,        \* rows of Organization; a deleted one is None again
    used,       \* ids given out
    agents,     \* number of agents by organization
    paid,       \* organizations that have had a paid plan (history)
    keys,       \* ApiKey: its organization, and whether it is revoked
    h,          \* request of each handler
    given,      \* tokens given to provider identities (history)
    requests

accountVars == <<org, used, agents, paid, keys, h, given, requests>>

\* A person's account at a provider, with its one verified e-mail address.
Identities == Providers \X Emails
EmailOf(i) == i[2]

Idle == [at |-> "idle", org |-> None, email |-> None, identity |-> None, limit |-> 0]

AccountInit ==
    /\ org = [o \in Orgs |-> None] /\ used = {}
    /\ agents = [o \in Orgs |-> 0] /\ paid = {}
    /\ keys = [k \in Keys |-> None]
    /\ h = [x \in Handlers |-> Idle]
    /\ given = {} /\ requests = 0

Rows == {o \in Orgs : org[o] # None}

\* findUnique by e-mail and by provider and providerId.
ByEmail(e) == {o \in Rows : org[o].email = e}
ByLink(i) == {o \in Rows : org[o].link = i}

\* Mutant: the columns have no unique index.
Free_NoIndex(e, i) == TRUE
\* The indexes an INSERT into Organization meets.
Free(e, i) == ByEmail(e) = {} /\ (i # None => ByLink(i) = {})

Goto(x, local) == h' = [h EXCEPT ![x] = local]
Finish(x) == Goto(x, Idle)
Start(x, local) ==
    /\ h[x] = Idle /\ requests < MaxRequests /\ requests' = requests + 1
    /\ Goto(x, local)

-----------------------------------------------------------------------------
\* register: the address is free when it is looked up; bcrypt follows.
Register(x, e) ==
    /\ ByEmail(e) = {}
    /\ Start(x, [Idle EXCEPT !.at = "create", !.email = e])
    /\ UNCHANGED <<org, used, agents, paid, keys, given>>

\* The new row, of register or of loginWithProvider; the welcome e-mail is sent beside
\* the answer.
CreateRow(x) ==
    /\ h[x].at = "create" /\ Free(h[x].email, h[x].identity)
    /\ \E o \in Orgs \ used :
        /\ org' = [org EXCEPT ![o] = [email |-> h[x].email, link |-> h[x].identity,
                                      password |-> h[x].identity = None,
                                      plan |-> "free", webhook |-> FALSE]]
        /\ used' = used \cup {o}
        /\ given' = IF h[x].identity = None THEN given ELSE given \cup {<<h[x].identity, o>>}
    /\ Finish(x)
    /\ UNCHANGED <<agents, paid, keys, requests>>

\* loginWithProvider, once the state is verified and the profile fetched.
SignIn(x, i) ==
    /\ IF ByLink(i) # {}
       THEN /\ \E o \in ByLink(i) : given' = given \cup {<<i, o>>}
            /\ h[x] = Idle /\ requests < MaxRequests /\ requests' = requests + 1
            /\ UNCHANGED h
       ELSE Start(x, [Idle EXCEPT !.at = "byEmail", !.identity = i]) /\ UNCHANGED given
    /\ UNCHANGED <<org, used, agents, paid, keys>>

FindByEmail(x) ==
    /\ h[x].at = "byEmail"
    /\ LET i == h[x].identity IN
       \/ \E o \in ByEmail(EmailOf(i)) : Goto(x, [h[x] EXCEPT !.at = "attach", !.org = o])
       \/ ByEmail(EmailOf(i)) = {} /\ Goto(x, [h[x] EXCEPT !.at = "create", !.email = EmailOf(i)])
    /\ UNCHANGED <<org, used, agents, paid, keys, given, requests>>

\* The link takes the place of an earlier one, of the other provider.
Attach(x) ==
    /\ h[x].at = "attach"
    /\ LET o == h[x].org
           i == h[x].identity
       IN /\ org[o] # None /\ ByLink(i) \subseteq {o}
          /\ org' = [org EXCEPT ![o].link = i]
          /\ given' = given \cup {<<i, o>>}
    /\ Finish(x)
    /\ UNCHANGED <<used, agents, paid, keys, requests>>

\* A statement that finds its row gone or an index taken: P2025, P2002, P2003.
Fail(x) ==
    /\ \/ h[x].at = "create" /\ ~Free(h[x].email, h[x].identity)
       \/ h[x].at = "attach" /\ ~(org[h[x].org] # None /\ ByLink(h[x].identity) \subseteq {h[x].org})
       \/ h[x].at \in {"key", "agent", "webhook", "password", "erase"} /\ org[h[x].org] = None
    /\ Finish(x)
    /\ UNCHANGED <<org, used, agents, paid, keys, given, requests>>

-----------------------------------------------------------------------------
\* authenticate: a token outlives its organization, which is looked up again.
Authenticated(o) == o \in Rows
\* authenticateApiKey: by a key that is there and not revoked.
KeyOf(o) == \E k \in Keys : keys[k] # None /\ keys[k].org = o /\ ~keys[k].revoked

\* The next statement of a request that an organization has authenticated.
Request(x, o, at) == Start(x, [Idle EXCEPT !.at = at, !.org = o])

CreateApiKey(x, o) ==
    /\ Authenticated(o) /\ Request(x, o, "key")
    /\ UNCHANGED <<org, used, agents, paid, keys, given>>

InsertKey(x) ==
    /\ h[x].at = "key" /\ org[h[x].org] # None
    /\ \E k \in Keys : keys[k] = None
                       /\ keys' = [keys EXCEPT ![k] = [org |-> h[x].org, revoked |-> FALSE]]
    /\ Finish(x)
    /\ UNCHANGED <<org, used, agents, paid, given, requests>>

RevokeApiKey(o) ==
    /\ \E k \in Keys :
        /\ keys[k] # None /\ keys[k].org = o /\ Authenticated(o) /\ ~keys[k].revoked
        /\ keys' = [keys EXCEPT ![k].revoked = TRUE]
    /\ UNCHANGED <<org, used, agents, paid, h, given, requests>>

\* agentService.create, by token or key: the plan, the count and the INSERT are three
\* statements.
CreateAgent(x, o) ==
    /\ Authenticated(o) \/ KeyOf(o)
    /\ Request(x, o, "plan")
    /\ UNCHANGED <<org, used, agents, paid, keys, given>>

Unlimited == 1000
ReadPlan(x) ==
    /\ h[x].at = "plan"
    /\ LET free == org[h[x].org] = None \/ org[h[x].org].plan = "free" IN
       Goto(x, [h[x] EXCEPT !.at = "count", !.limit = IF free THEN Limit ELSE Unlimited])
    /\ UNCHANGED <<org, used, agents, paid, keys, given, requests>>

\* Mutant: one agent more than the plan has.
Room_OneMore(count, limit) == count <= limit
Room(count, limit) == count < limit

CountAgents(x) ==
    /\ h[x].at = "count"
    /\ IF Room(agents[h[x].org], h[x].limit)
       THEN Goto(x, [h[x] EXCEPT !.at = "agent"]) ELSE Finish(x)
    /\ UNCHANGED <<org, used, agents, paid, keys, given, requests>>

InsertAgent(x) ==
    /\ h[x].at = "agent" /\ org[h[x].org] # None
    /\ agents' = [agents EXCEPT ![h[x].org] = @ + 1]
    /\ Finish(x)
    /\ UNCHANGED <<org, used, paid, keys, given, requests>>

RemoveAgent(o) ==
    /\ Authenticated(o) /\ agents[o] > 0
    /\ agents' = [agents EXCEPT ![o] = @ - 1]
    /\ UNCHANGED <<org, used, paid, keys, h, given, requests>>

\* updateProfile reads the plan before it switches webhooks on.
UpdateProfile(x, o) ==
    /\ Authenticated(o) /\ org[o].plan # "free"
    /\ Request(x, o, "webhook")
    /\ UNCHANGED <<org, used, agents, paid, keys, given>>

SaveProfile(x) ==
    /\ h[x].at = "webhook" /\ org[h[x].org] # None
    /\ org' = [org EXCEPT ![h[x].org].webhook = TRUE]
    /\ Finish(x)
    /\ UNCHANGED <<used, agents, paid, keys, given, requests>>

\* setPassword: the current one is asked for only if the row read has one.
SetPassword(x, o) ==
    /\ Authenticated(o) /\ Request(x, o, "password")
    /\ UNCHANGED <<org, used, agents, paid, keys, given>>

SavePassword(x) ==
    /\ h[x].at = "password" /\ org[h[x].org] # None
    /\ org' = [org EXCEPT ![h[x].org].password = TRUE]
    /\ Finish(x)
    /\ UNCHANGED <<used, agents, paid, keys, given, requests>>

\* deleteOrganization takes a password; Stripe and the e-mail rows are cleaned up
\* before the row goes, with all that refers to it.
DeleteOrganization(x, o) ==
    /\ Authenticated(o) /\ org[o].password
    /\ Request(x, o, "erase")
    /\ UNCHANGED <<org, used, agents, paid, keys, given>>

Erase(x) ==
    /\ h[x].at = "erase" /\ org[h[x].org] # None
    /\ org' = [org EXCEPT ![h[x].org] = None]
    /\ agents' = [agents EXCEPT ![h[x].org] = 0]
    /\ keys' = [k \in Keys |-> IF keys[k] # None /\ keys[k].org = h[x].org THEN None ELSE keys[k]]
    /\ Finish(x)
    /\ UNCHANGED <<used, paid, given, requests>>

\* A Stripe event sets the plan.
ApplyPlan(o) ==
    /\ o \in Rows
    /\ \E plan \in {"free", "pro"} \ {org[o].plan} :
        /\ org' = [org EXCEPT ![o].plan = plan]
        /\ paid' = IF plan = "free" THEN paid ELSE paid \cup {o}
    /\ UNCHANGED <<used, agents, keys, h, given, requests>>

AccountNext ==
    \/ \E x \in Handlers :
        \/ \E e \in Emails : Register(x, e)
        \/ \E i \in Identities : SignIn(x, i)
        \/ CreateRow(x) \/ FindByEmail(x) \/ Attach(x) \/ Fail(x)
        \/ InsertKey(x) \/ ReadPlan(x) \/ CountAgents(x) \/ InsertAgent(x)
        \/ SaveProfile(x) \/ SavePassword(x) \/ Erase(x)
        \/ \E o \in used :
            \/ CreateApiKey(x, o) \/ CreateAgent(x, o) \/ UpdateProfile(x, o)
            \/ SetPassword(x, o) \/ DeleteOrganization(x, o)
    \/ \E o \in used : RevokeApiKey(o) \/ RemoveAgent(o) \/ ApplyPlan(o)

AccountSpec == AccountInit /\ [][AccountNext]_accountVars

-----------------------------------------------------------------------------
\* The account loginWithProvider would find for an identity.
Resolved(i) == IF ByLink(i) # {} THEN ByLink(i) ELSE ByEmail(EmailOf(i))

\* Signing in through a provider goes on leading to the one account with the address of
\* that identity, whoever registers, links the other provider or deletes meanwhile: two
\* first sign-ins at once may make one of them fail, never two accounts.
SignInReturns ==
    \A i \in Identities, o \in Rows :
        <<i, o>> \in given => org[o].email = EmailOf(i) /\ Resolved(i) = {o}

\* The limit of agents is checked before the INSERT: requests that overlap may pass it
\* together, by no more than the other requests there can be at a time.
AgentsBounded ==
    \A o \in Orgs \ paid :
        agents[o] <= Limit + Cardinality(Handlers) - 1
=============================================================================
