---------------------------- MODULE EmailDelivery ----------------------------
(***************************************************************************)
(* emailService.send with the EmailDelivery table and the webhooks of the  *)
(* mail provider (Resend).  The calls of send that belong to one Stripe    *)
(* event carry its dedupe key; Stripe repeats events, also while an        *)
(* earlier delivery is still being handled, and a process can die between  *)
(* any two statements.                                                     *)
(***************************************************************************)
EXTENDS Integers, FiniteSets

CONSTANTS
    Sends,          \* calls of emailService.send
    Keyed,          \* those of them for one billing event: they share a dedupe key
    EventTypes,     \* event types the provider reports
    MaxAttempts     \* RETRY_DELAYS_MS.length

VARIABLES
    configured, \* RESEND_API_KEY is set
    pc,         \* statement each send is at, or how it ended
    call,       \* its locals: attempts made, whether deliveryId is set, last answer
    rows,       \* EmailDelivery, by the send that inserted the row
    accepted,   \* messages the provider accepted
    erased      \* the organization was deleted

vars == <<configured, pc, call, rows, accepted, erased>>

Working == {"record", "attempt", "update"}
Ended == {"duplicate", "skipped", "sent", "gave up", "error", "lost"}
Answers == {"none", "ok", "transient", "permanent"}
SenderStatuses == {"pending", "skipped", "sent", "retrying", "failed", "dead-lettered"}
ProviderStatuses == {"sent", "delivered", "bounced", "complained", "suppressed", "failed", "pending"}

NoRow == [status |-> "none", msg |-> 0, by |-> "none"]
Stored(s) == rows[s] # NoRow

Init ==
    /\ configured \in BOOLEAN
    /\ pc = [s \in Sends |-> "idle"]
    /\ call = [s \in Sends |-> [attempt |-> 0, recorded |-> FALSE, answer |-> "none"]]
    /\ rows = [s \in Sends |-> NoRow]
    /\ accepted = {} /\ erased = FALSE

----------------------------------------------------------------------------
(* send                                                                    *)

isDuplicate(s) == s \in Keyed /\ \E t \in Keyed : Stored(t)

\* The lookup of the dedupe key; an error of it ends the call.
Check(s) ==
    /\ pc[s] = "idle"
    /\ \/ isDuplicate(s) /\ pc' = [pc EXCEPT ![s] = "duplicate"]
       \/ ~isDuplicate(s) /\ pc' = [pc EXCEPT ![s] = "record"]
       \/ s \in Keyed /\ pc' = [pc EXCEPT ![s] = "error"]
    /\ UNCHANGED <<configured, call, rows, accepted, erased>>

\* Mutant: the column has no unique index.
KeyTaken_NoIndex(s) == FALSE
\* The unique index on dedupeKey.
KeyTaken(s) == s \in Keyed /\ \E t \in Keyed : Stored(t)

\* recordDelivery: when the row cannot be inserted the call goes on without one.
Record(s) ==
    /\ pc[s] = "record"
    /\ pc' = [pc EXCEPT ![s] = IF configured THEN "attempt" ELSE "skipped"]
    /\ \/ /\ ~KeyTaken(s)
          /\ rows' = [rows EXCEPT ![s] = [status |-> IF configured THEN "pending" ELSE "skipped",
                                          msg |-> 0, by |-> "sender"]]
          /\ call' = [call EXCEPT ![s].recorded = TRUE]
       \/ UNCHANGED <<rows, call>>
    /\ UNCHANGED <<configured, accepted, erased>>

\* client.emails.send: an answer, or an error which for a transient one (a
\* timeout, say) leaves open whether the message was accepted.
Attempt(s) ==
    /\ pc[s] = "attempt"
    /\ pc' = [pc EXCEPT ![s] = "update"]
    /\ LET n == call[s].attempt + 1
       IN  \E answer \in Answers \ {"none"} :
             /\ call' = [call EXCEPT ![s].attempt = n, ![s].answer = answer]
             /\ \/ answer # "permanent" /\ accepted' = accepted \cup {[of |-> s, nr |-> n]}
                \/ answer # "ok" /\ UNCHANGED accepted
    /\ UNCHANGED <<configured, rows, erased>>

willRetry(c) == c.answer = "transient" /\ c.attempt < MaxAttempts

StatusAfter(c) ==
    CASE c.answer = "ok" -> "sent"
      [] willRetry(c) -> "retrying"
      [] c.answer = "transient" /\ ~willRetry(c) -> "dead-lettered"
      [] c.answer = "permanent" -> "failed"

\* Mutant: an error of the status update is not caught and ends the call.
AfterUpdate_Throws(c, written) ==
    IF ~written /\ c.recorded THEN "error"
    ELSE IF willRetry(c) THEN "attempt" ELSE IF c.answer = "ok" THEN "sent" ELSE "gave up"
\* Mutant: the call waits until the status is written.
AfterUpdate_Waits(c, written) ==
    IF ~written THEN "update"
    ELSE IF willRetry(c) THEN "attempt" ELSE IF c.answer = "ok" THEN "sent" ELSE "gave up"
\* Where the call goes on, whether or not the status was written.
AfterUpdate(c, written) ==
    IF willRetry(c) THEN "attempt" ELSE IF c.answer = "ok" THEN "sent" ELSE "gave up"

\* updateStatusById; the provider's id of the message comes with `sent`.
UpdateStatus(s) ==
    /\ pc[s] = "update"
    /\ \/ /\ call[s].recorded /\ Stored(s)
          /\ rows' = [rows EXCEPT ![s] =
                [status |-> StatusAfter(call[s]), by |-> "sender",
                 msg |-> IF call[s].answer = "ok" THEN call[s].attempt ELSE @.msg]]
          /\ pc' = [pc EXCEPT ![s] = AfterUpdate(call[s], TRUE)]
       \/ UNCHANGED rows /\ pc' = [pc EXCEPT ![s] = AfterUpdate(call[s], FALSE)]
    /\ UNCHANGED <<configured, call, accepted, erased>>

----------------------------------------------------------------------------
(* Around it.                                                              *)

\* mapResendEventToStatus; an event without a status is only acknowledged.
EventStatus ==
    [sent |-> "sent", delivered |-> "delivered", bounced |-> "bounced",
     complained |-> "complained", suppressed |-> "suppressed", failed |-> "failed",
     delivery_delayed |-> "pending"]

\* Mutant: the row is found by its recipient, not by the id it stores.
OfMessage_Recipient(s, m) == m.of = s /\ Stored(s)
OfMessage(s, m) == m.of = s /\ Stored(s) /\ rows[s].msg = m.nr

\* An event about an accepted message, perhaps repeated, late or out of order;
\* without a row for its message it is acknowledged and dropped.  The id of a
\* row never changes, so the lookup and the update are one step.
ResendWebhook(m, type) ==
    /\ m \in accepted
    /\ \E s \in Sends :
        /\ OfMessage(s, m)
        /\ rows' = [rows EXCEPT ![s].status = EventStatus[type], ![s].by = "provider"]
    /\ UNCHANGED <<configured, pc, call, accepted, erased>>

\* deleteOrganization clears the table of the organization's e-mails.
deleteOrganization ==
    /\ ~erased /\ erased' = TRUE
    /\ rows' = [s \in Sends |-> NoRow]
    /\ UNCHANGED <<configured, pc, call, accepted>>

\* The process dies and is started again.
Crash ==
    /\ \E s \in Sends : pc[s] \in Working
    /\ pc' = [s \in Sends |-> IF pc[s] \in Working THEN "lost" ELSE pc[s]]
    /\ UNCHANGED <<configured, call, rows, accepted, erased>>

Step(s) == Check(s) \/ Record(s) \/ Attempt(s) \/ UpdateStatus(s)

Next ==
    \/ \E s \in Sends : Step(s)
    \/ \E m \in accepted, type \in EventTypes : ResendWebhook(m, type)
    \/ deleteOrganization
    \/ Crash

Spec == Init /\ [][Next]_vars

\* A call that runs goes on: its statements and its timers are answered.
Fairness == \A s \in Sends : WF_vars(pc[s] \in Working /\ Step(s))
FairSpec == Spec /\ Fairness

----------------------------------------------------------------------------
TypeOK ==
    /\ configured \in BOOLEAN /\ erased \in BOOLEAN
    /\ pc \in [Sends -> {"idle"} \cup Working \cup Ended]
    /\ call \in [Sends -> [attempt : 0 .. MaxAttempts, recorded : BOOLEAN, answer : Answers]]
    /\ rows \in [Sends -> [status : {"none"} \cup SenderStatuses \cup ProviderStatuses,
                           msg : 0 .. MaxAttempts, by : {"none", "sender", "provider"}]]
    /\ accepted \subseteq [of : Sends, nr : 1 .. MaxAttempts]

\* What the sender and the provider have written to rows is about messages that
\* exist: `sent` and every status of the provider belong to an accepted message,
\* `failed` and `dead-lettered` by the sender to a call that gave up.
StatusHonest ==
    \A s \in Sends : Stored(s) =>
        /\ rows[s].by = "provider" \/ rows[s].status = "sent" =>
              [of |-> s, nr |-> rows[s].msg] \in accepted
        /\ rows[s].by = "sender" /\ rows[s].status \in {"failed", "dead-lettered"} =>
              pc[s] = "gave up" /\ rows[s].msg = 0
        /\ rows[s].by = "sender" /\ rows[s].status = "dead-lettered" =>
              call[s].attempt = MaxAttempts

\* What the provider reported is never overwritten by the sender, although both
\* write the same column without a condition.
ProviderHasLastWord ==
    [][\A s \in Sends : rows[s].by = "provider" => rows'[s].by # "sender"]_vars

\* Nobody relies on an e-mail nobody sends: once a repeated event was dismissed
\* as a duplicate, some call for it is at work, was lost in a crash, found no
\* provider, or used up what the provider allows.
DuplicateBacked ==
    (\E s \in Keyed : pc[s] = "duplicate") =>
        \E t \in Keyed : pc[t] \in Working \cup {"sent", "gave up", "lost", "skipped"}

\* A repeated event sends a second e-mail only in a call without a row: with the
\* account in place, of two calls that reached the provider one is unrecorded.
SecondMailUnrecorded ==
    \A s, t \in Keyed :
        s # t /\ ~erased /\ call[s].attempt > 0 /\ call[t].attempt > 0 =>
            ~call[s].recorded \/ ~call[t].recorded

\* Every call ends: three attempts, whatever fails on the way.
SendEnds == \A s \in Sends : pc[s] \in Working ~> pc[s] \in Ended
=============================================================================
