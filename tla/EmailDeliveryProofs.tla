------------------------ MODULE EmailDeliveryProofs -------------------------
(***************************************************************************)
(* Theorems about EmailDelivery, for any number of calls of send, of them  *)
(* any set for one billing event, any event types and any number of        *)
(* attempts.                                                               *)
(***************************************************************************)
EXTENDS EmailDelivery, TLAPS

Call == [attempt : 0 .. MaxAttempts, recorded : BOOLEAN, answer : Answers]
Row == [status : {"none"} \cup SenderStatuses \cup ProviderStatuses,
        msg : 0 .. MaxAttempts, by : {"none", "sender", "provider"}]
Labels == {"idle"} \cup Working \cup Ended
Message(s, n) == [of |-> s, nr |-> n]

Types ==
    /\ configured \in BOOLEAN /\ erased \in BOOLEAN
    /\ pc \in [Sends -> Labels] /\ call \in [Sends -> Call] /\ rows \in [Sends -> Row]
    /\ accepted \in SUBSET [of : Sends, nr : 1 .. MaxAttempts]

\* What each call of send has done when it is at a label.
CallGuard(s) ==
    /\ pc[s] \in {"idle", "record", "duplicate"} => call[s].attempt = 0 /\ ~call[s].recorded
    /\ pc[s] = "attempt" => call[s].attempt < MaxAttempts
    /\ pc[s] = "update" => call[s].attempt > 0 /\ call[s].answer # "none"
    /\ pc[s] = "update" /\ call[s].answer = "ok" => Message(s, call[s].attempt) \in accepted
    /\ call[s].recorded => pc[s] \in Working \cup {"sent", "gave up", "lost", "skipped"}

\* Who wrote what to a row, and that the row of a call at work has no message yet.
RowGuard(s) ==
    /\ Stored(s) => call[s].recorded /\ rows[s].by # "none"
    /\ call[s].recorded /\ ~erased => Stored(s)
    /\ rows[s].msg # 0 => Message(s, rows[s].msg) \in accepted /\ pc[s] = "sent"
    /\ rows[s].by = "provider" => rows[s].msg # 0
    /\ rows[s].by = "sender" /\ rows[s].status = "sent" => rows[s].msg # 0
    /\ rows[s].by = "sender" /\ rows[s].status \in {"failed", "dead-lettered"} =>
         pc[s] = "gave up" /\ rows[s].msg = 0
    /\ rows[s].by = "sender" /\ rows[s].status = "dead-lettered" =>
         call[s].attempt = MaxAttempts

\* The unique index: two calls with one key have not both inserted a row.
KeyGuard ==
    \A s, t \in Keyed : s # t /\ ~erased => ~call[s].recorded \/ ~call[t].recorded

IInv ==
    /\ Types /\ KeyGuard /\ DuplicateBacked
    /\ \A s \in Sends : CallGuard(s) /\ RowGuard(s)

-----------------------------------------------------------------------------
LEMMA InitIInv == ASSUME MaxAttempts \in Nat \ {0}, Keyed \subseteq Sends, Init PROVE IInv
<1>1. Types
  <2>1. NoRow \in Row /\ [attempt |-> 0, recorded |-> FALSE, answer |-> "none"] \in Call
    BY DEF NoRow, Row, Call, Answers
  <2> QED
    BY <2>1 DEF Init, Types, Labels
<1>2. KeyGuard /\ DuplicateBacked
  BY DEF Init, KeyGuard, DuplicateBacked
<1>3. \A s \in Sends : CallGuard(s) /\ RowGuard(s)
  BY DEF Init, CallGuard, RowGuard, NoRow, Stored, Working
<1> QED
  BY <1>1, <1>2, <1>3 DEF IInv

\* What a step of one call has to show.
LEMMA CallStep ==
    ASSUME MaxAttempts \in Nat \ {0}, Keyed \subseteq Sends, IInv, NEW s \in Sends,
           \A t \in Sends \ {s} : pc'[t] = pc[t] /\ call'[t] = call[t] /\ rows'[t] = rows[t],
           Types', accepted \subseteq accepted', erased' = erased,
           CallGuard(s)', RowGuard(s)'
    PROVE  \A t \in Sends : CallGuard(t)' /\ RowGuard(t)'
<1> SUFFICES ASSUME NEW t \in Sends \ {s} PROVE CallGuard(t)' /\ RowGuard(t)'
  OBVIOUS
<1>1. pc'[t] = pc[t] /\ call'[t] = call[t] /\ rows'[t] = rows[t] /\ CallGuard(t) /\ RowGuard(t)
  BY DEF IInv
<1> QED
  BY <1>1 DEF CallGuard, RowGuard, Stored, NoRow, Message

LEMMA CheckStep ==
    ASSUME MaxAttempts \in Nat \ {0}, Keyed \subseteq Sends, IInv, NEW s \in Sends, Check(s)
    PROVE  IInv'
<1>1. PICK l \in {"duplicate", "record", "error"} :
        pc' = [pc EXCEPT ![s] = l] /\ (l = "duplicate" => isDuplicate(s))
  BY DEF Check
<1>2. UNCHANGED <<configured, call, rows, accepted, erased>> /\ pc[s] = "idle"
  BY DEF Check
<1>3. Types'
  BY <1>1, <1>2 DEF IInv, Types, Labels, Working, Ended
<1>4. pc'[s] = l /\ \A t \in Sends \ {s} : pc'[t] = pc[t]
  BY <1>1 DEF IInv, Types
<1>5. CallGuard(s)' /\ RowGuard(s)'
  BY <1>1, <1>2, <1>4 DEF IInv, CallGuard, RowGuard, Stored, NoRow, Message, Working
<1>6. \A t \in Sends : CallGuard(t)' /\ RowGuard(t)'
  BY <1>2, <1>3, <1>4, <1>5, CallStep
<1>7. KeyGuard'
  BY <1>2 DEF IInv, KeyGuard
<1>8. DuplicateBacked'
  <2>1. CASE l = "duplicate"
    <3>1. PICK t \in Keyed : Stored(t)
      BY <1>1, <2>1 DEF isDuplicate
    <3>2. pc[t] \in Working \cup {"sent", "gave up", "lost", "skipped"}
      BY <3>1 DEF IInv, CallGuard, RowGuard
    <3>3. t # s
      BY <1>2, <3>2 DEF Working
    <3> QED
      BY <1>4, <3>1, <3>2, <3>3 DEF DuplicateBacked
  <2>2. CASE l # "duplicate"
    BY <1>2, <1>4, <2>2 DEF IInv, DuplicateBacked, Working
  <2> QED
    BY <2>1, <2>2
<1> QED
  BY <1>3, <1>6, <1>7, <1>8 DEF IInv

\* A label at which a billing event counts as handled is left for such a label only.
Backed == Working \cup {"sent", "gave up", "lost", "skipped"}

LEMMA BackedKept ==
    ASSUME DuplicateBacked, NEW s \in Sends, Keyed \subseteq Sends,
           \A t \in Sends \ {s} : pc'[t] = pc[t],
           pc'[s] # "duplicate", pc[s] \in Backed => pc'[s] \in Backed
    PROVE  DuplicateBacked'
<1> SUFFICES ASSUME NEW d \in Keyed, pc'[d] = "duplicate"
             PROVE  \E t \in Keyed : pc'[t] \in Backed
  BY DEF DuplicateBacked, Backed
<1>1. pc[d] = "duplicate"
  OBVIOUS
<1>2. PICK t \in Keyed : pc[t] \in Backed
  BY <1>1 DEF DuplicateBacked, Backed
<1>3. pc'[t] \in Backed
  BY <1>2
<1> QED
  BY <1>3

LEMMA RecordStep ==
    ASSUME MaxAttempts \in Nat \ {0}, Keyed \subseteq Sends, IInv, NEW s \in Sends, Record(s)
    PROVE  IInv'
<1> DEFINE l == IF configured THEN "attempt" ELSE "skipped"
           row == [status |-> IF configured THEN "pending" ELSE "skipped", msg |-> 0, by |-> "sender"]
<1>1. pc[s] = "record" /\ pc' = [pc EXCEPT ![s] = l] /\ UNCHANGED <<configured, accepted, erased>>
  BY DEF Record
<1>2. pc \in [Sends -> Labels] /\ call \in [Sends -> Call] /\ rows \in [Sends -> Row]
  BY DEF IInv, Types
<1>3. l \in {"attempt", "skipped"} /\ row \in Row /\ row.msg = 0 /\ row.by = "sender"
      /\ row.status \in {"pending", "skipped"} /\ row # NoRow
  BY DEF Row, NoRow, SenderStatuses
<1> HIDE DEF l, row
<1>4. pc'[s] = l /\ \A t \in Sends \ {s} : pc'[t] = pc[t]
  BY <1>1, <1>2
<1>5. ~call[s].recorded /\ call[s].attempt = 0 /\ rows[s] = NoRow
  BY <1>1 DEF IInv, CallGuard, RowGuard, Stored
<1>6. DuplicateBacked'
  BY <1>1, <1>3, <1>4, BackedKept DEF IInv, Backed, Working
<1>7. pc' \in [Sends -> Labels]
  BY <1>1, <1>2, <1>3 DEF Labels, Working, Ended
<1>8. pc'[s] \notin {"idle", "record", "duplicate", "update"}
      /\ pc'[s] \in Working \cup {"sent", "gave up", "lost", "skipped"}
  BY <1>3, <1>4 DEF Working
<1>9. 0 < MaxAttempts
  OBVIOUS
<1>10. CASE rows' = [rows EXCEPT ![s] = row] /\ call' = [call EXCEPT ![s].recorded = TRUE]
           /\ ~KeyTaken(s)
  <2>1. rows'[s] = row /\ \A t \in Sends \ {s} : rows'[t] = rows[t] /\ call'[t] = call[t]
    BY <1>2, <1>10
  <2>2. call'[s].recorded /\ call'[s].attempt = 0 /\ call'[s] \in Call
    BY <1>2, <1>5, <1>10 DEF Call
  <2>3. Types'
    BY <1>1, <1>2, <1>3, <1>7, <1>10, <2>2 DEF IInv, Types, Call
  <2>4. CallGuard(s)' /\ RowGuard(s)'
    <3>1. CallGuard(s)'
      BY <1>8, <1>9, <2>2 DEF CallGuard
    <3>2. RowGuard(s)'
      BY <1>3, <2>1, <2>2 DEF RowGuard, Stored, NoRow
    <3> QED
      BY <3>1, <3>2
  <2>5. KeyGuard'
    <3> SUFFICES ASSUME NEW a \in Keyed, NEW b \in Keyed, a # b, ~erased
                 PROVE  ~call'[a].recorded \/ ~call'[b].recorded
      BY <1>1 DEF KeyGuard
    <3>1. \A t \in Keyed : s \in Keyed => ~call[t].recorded
      BY <1>10 DEF KeyTaken, IInv, RowGuard
    <3> QED
      BY <2>1, <3>1 DEF IInv, KeyGuard
  <2> QED
    BY <1>1, <1>4, <1>6, <2>1, <2>3, <2>4, <2>5, CallStep DEF IInv
<1>11. CASE UNCHANGED <<rows, call>>
  <2>1. Types' /\ KeyGuard'
    BY <1>1, <1>7, <1>11 DEF IInv, Types, KeyGuard
  <2>2. CallGuard(s)'
    BY <1>5, <1>8, <1>9, <1>11 DEF CallGuard
  <2>3. RowGuard(s)'
    BY <1>1, <1>5, <1>11 DEF RowGuard, Stored, NoRow, IInv
  <2> QED
    BY <1>1, <1>4, <1>6, <1>11, <2>1, <2>2, <2>3, CallStep DEF IInv
<1> QED
  BY <1>10, <1>11 DEF Record, row

LEMMA AttemptStep ==
    ASSUME MaxAttempts \in Nat \ {0}, Keyed \subseteq Sends, IInv, NEW s \in Sends, Attempt(s)
    PROVE  IInv'
<1> DEFINE n == call[s].attempt + 1
<1>1. PICK answer \in Answers \ {"none"} :
        /\ call' = [call EXCEPT ![s].attempt = n, ![s].answer = answer]
        /\ \/ answer # "permanent" /\ accepted' = accepted \cup {Message(s, n)}
           \/ answer # "ok" /\ UNCHANGED accepted
  BY DEF Attempt, Message
<1>2. pc[s] = "attempt" /\ pc' = [pc EXCEPT ![s] = "update"] /\ UNCHANGED <<configured, rows, erased>>
  BY DEF Attempt
<1>3. pc \in [Sends -> Labels] /\ call \in [Sends -> Call] /\ rows \in [Sends -> Row]
      /\ accepted \in SUBSET [of : Sends, nr : 1 .. MaxAttempts]
  BY DEF IInv, Types
<1>4. call[s].attempt < MaxAttempts /\ call[s].attempt \in 0 .. MaxAttempts
  BY <1>2, <1>3 DEF IInv, CallGuard, Call
<1>5. n \in 1 .. MaxAttempts
  BY <1>4
<1> HIDE DEF n
<1>6. /\ call'[s] \in Call /\ call'[s].attempt = n /\ call'[s].answer = answer
      /\ call'[s].recorded = call[s].recorded /\ \A t \in Sends \ {s} : call'[t] = call[t]
  <2>1. n \in 0 .. MaxAttempts /\ call[s] \in Call
    BY <1>3, <1>5
  <2>2. call'[s] = [call[s] EXCEPT !.attempt = n, !.answer = answer]
    BY <1>1, <1>3
  <2>3. \A t \in Sends \ {s} : call'[t] = call[t]
    BY <1>1, <1>3
  <2> QED
    BY <2>1, <2>2, <2>3 DEF Call
<1>7. pc'[s] = "update" /\ \A t \in Sends \ {s} : pc'[t] = pc[t]
  BY <1>2, <1>3
<1>8. Types'
  <2>1. accepted' \in SUBSET [of : Sends, nr : 1 .. MaxAttempts]
    BY <1>1, <1>3, <1>5 DEF Message
  <2>2. call' \in [Sends -> Call]
    BY <1>1, <1>3, <1>6
  <2> QED
    BY <1>2, <1>3, <2>1, <2>2 DEF IInv, Types, Labels, Working
<1>9. CallGuard(s)' /\ RowGuard(s)'
  <2>1. RowGuard(s) /\ CallGuard(s) /\ rows[s].msg = 0
    BY <1>2 DEF IInv, RowGuard
  <2>2. CallGuard(s)'
    <3>1. pc'[s] \notin {"idle", "record", "duplicate", "attempt"} /\ pc'[s] \in Working
      BY <1>7 DEF Working
    <3>2. call'[s].attempt > 0 /\ call'[s].answer # "none"
      BY <1>1, <1>5, <1>6
    <3>3. call'[s].answer = "ok" => Message(s, call'[s].attempt) \in accepted'
      BY <1>1, <1>6
    <3> QED
      BY <3>1, <3>2, <3>3 DEF CallGuard, Message
  <2>3. RowGuard(s)'
    BY <1>2, <1>6, <1>7, <2>1 DEF RowGuard, Stored, NoRow
  <2> QED
    BY <2>2, <2>3
<1>10. DuplicateBacked'
  BY <1>7, BackedKept DEF IInv, Backed, Working
<1>11. KeyGuard'
  BY <1>2, <1>6 DEF IInv, KeyGuard
<1>12. accepted \subseteq accepted'
  BY <1>1
<1> QED
  BY <1>2, <1>6, <1>7, <1>8, <1>9, <1>10, <1>11, <1>12, CallStep DEF IInv

\* Where a call goes on after an attempt, and the status it would write.
LEMMA AfterAttempt ==
    ASSUME MaxAttempts \in Nat \ {0}, NEW c \in Call, c.answer # "none"
    PROVE  /\ c.answer = "ok" => StatusAfter(c) = "sent" /\ \A w : AfterUpdate(c, w) = "sent"
           /\ willRetry(c) => /\ StatusAfter(c) = "retrying" /\ c.attempt < MaxAttempts
                              /\ c.answer # "ok" /\ \A w : AfterUpdate(c, w) = "attempt"
           /\ c.answer # "ok" /\ ~willRetry(c) =>
                /\ StatusAfter(c) \in {"failed", "dead-lettered"}
                /\ StatusAfter(c) = "dead-lettered" => c.attempt = MaxAttempts
                /\ \A w : AfterUpdate(c, w) = "gave up"
<1>1. c.answer \in {"ok", "transient", "permanent"} /\ c.attempt \in 0 .. MaxAttempts
  BY DEF Call, Answers
<1>2. CASE c.answer = "ok"
  BY <1>2 DEF StatusAfter, AfterUpdate, willRetry
<1>3. CASE c.answer = "permanent"
  BY <1>3 DEF StatusAfter, AfterUpdate, willRetry
<1>4. CASE c.answer = "transient" /\ c.attempt < MaxAttempts
  BY <1>4 DEF StatusAfter, AfterUpdate, willRetry
<1>5. CASE c.answer = "transient" /\ ~(c.attempt < MaxAttempts)
  <2>1. StatusAfter(c) = "dead-lettered" /\ \A w : AfterUpdate(c, w) = "gave up"
    BY <1>5 DEF StatusAfter, AfterUpdate, willRetry
  <2>2. c.attempt = MaxAttempts
    BY <1>1, <1>5
  <2> QED
    BY <1>5, <2>1, <2>2 DEF willRetry
<1> QED
  BY <1>1, <1>2, <1>3, <1>4, <1>5

LEMMA UpdateStep ==
    ASSUME MaxAttempts \in Nat \ {0}, Keyed \subseteq Sends, IInv, NEW s \in Sends, UpdateStatus(s)
    PROVE  IInv'
<1> DEFINE c == call[s]
           l == AfterUpdate(c, TRUE)
           row == [status |-> StatusAfter(c), by |-> "sender",
                   msg |-> IF c.answer = "ok" THEN c.attempt ELSE rows[s].msg]
<1>1. pc[s] = "update" /\ UNCHANGED <<configured, call, accepted, erased>>
  BY DEF UpdateStatus
<1>2. pc' = [pc EXCEPT ![s] = l]
  BY DEF UpdateStatus, AfterUpdate
<1>3. pc \in [Sends -> Labels] /\ c \in Call /\ rows \in [Sends -> Row] /\ rows[s] \in Row
  BY DEF IInv, Types
<1>4. c.answer # "none" /\ c.attempt > 0 /\ c.attempt \in 0 .. MaxAttempts
      /\ (c.answer = "ok" => Message(s, c.attempt) \in accepted)
  BY <1>1, <1>3 DEF IInv, CallGuard, Call
<1>5. rows[s].msg = 0 /\ rows[s].by # "provider"
  BY <1>1 DEF IInv, RowGuard
<1>6. /\ c.answer = "ok" => StatusAfter(c) = "sent" /\ l = "sent"
      /\ c.answer # "ok" => \/ StatusAfter(c) = "retrying" /\ l = "attempt" /\ c.attempt < MaxAttempts
                            \/ /\ StatusAfter(c) \in {"failed", "dead-lettered"} /\ l = "gave up"
                               /\ StatusAfter(c) = "dead-lettered" => c.attempt = MaxAttempts
  BY <1>3, <1>4, AfterAttempt
<1>7. row \in Row /\ row.status = StatusAfter(c) /\ row.by = "sender" /\ row # NoRow
      /\ row.msg = IF c.answer = "ok" THEN c.attempt ELSE 0
  <2>1. StatusAfter(c) \in {"sent", "retrying", "failed", "dead-lettered"}
    BY <1>6
  <2>2. (IF c.answer = "ok" THEN c.attempt ELSE rows[s].msg) \in 0 .. MaxAttempts
    BY <1>4, <1>5
  <2> HIDE DEF c
  <2> QED
    BY <1>5, <2>1, <2>2 DEF Row, NoRow, SenderStatuses
<1>8. pc'[s] = l /\ \A t \in Sends \ {s} : pc'[t] = pc[t]
  BY <1>2, <1>3
<1>9. l \in {"sent", "attempt", "gave up"}
  BY <1>6
<1>10. pc' \in [Sends -> Labels]
  BY <1>2, <1>3, <1>9 DEF Labels, Working, Ended
<1>11. DuplicateBacked'
  BY <1>8, <1>9, BackedKept DEF IInv, Backed, Working
<1>12. KeyGuard'
  BY <1>1 DEF IInv, KeyGuard
<1>13. CallGuard(s)'
  <2>1. pc'[s] \notin {"idle", "record", "duplicate", "update"}
        /\ pc'[s] \in Working \cup {"sent", "gave up", "lost", "skipped"}
    BY <1>8, <1>9 DEF Working
  <2>2. call'[s] = c /\ (pc'[s] = "attempt" => c.attempt < MaxAttempts)
    BY <1>1, <1>6, <1>8
  <2> HIDE DEF c, l
  <2> QED
    BY <2>1, <2>2 DEF CallGuard, c
<1>14. CASE call[s].recorded /\ Stored(s) /\ rows' = [rows EXCEPT ![s] = row]
  <2>1. rows'[s] = row /\ \A t \in Sends \ {s} : rows'[t] = rows[t]
    BY <1>3, <1>14
  <2>2. Types'
    BY <1>1, <1>3, <1>7, <1>10, <1>14 DEF IInv, Types
  <2>3. RowGuard(s)'
    <3>1. CASE c.answer = "ok"
      <4>1. rows'[s].msg = c.attempt /\ rows'[s].status = "sent" /\ rows'[s].by = "sender"
            /\ pc'[s] = "sent" /\ call'[s] = c
        BY <1>1, <1>6, <1>7, <1>8, <2>1, <3>1
      <4>2. Stored(s)' /\ c.recorded /\ Message(s, c.attempt) \in accepted'
        BY <1>1, <1>4, <1>7, <1>14, <2>1, <3>1 DEF Stored, NoRow
      <4> HIDE DEF c, row, l
      <4> QED
        BY <1>4, <4>1, <4>2 DEF RowGuard, Message
    <3>2. CASE c.answer # "ok"
      <4>1. rows'[s].msg = 0 /\ rows'[s].status = StatusAfter(c) /\ rows'[s].by = "sender"
            /\ call'[s] = c /\ pc'[s] = l
        BY <1>1, <1>7, <1>8, <2>1, <3>2
      <4>2. Stored(s)' /\ c.recorded
        BY <1>7, <1>14, <2>1 DEF Stored, NoRow
      <4> HIDE DEF c, row, l
      <4> QED
        BY <1>6, <3>2, <4>1, <4>2 DEF RowGuard
    <3> QED
      BY <3>1, <3>2
  <2> HIDE DEF c, row, l
  <2> QED
    BY <1>1, <1>8, <1>11, <1>12, <1>13, <2>1, <2>2, <2>3, CallStep DEF IInv
<1>15. CASE UNCHANGED rows
  <2>1. Types'
    BY <1>1, <1>10, <1>15 DEF IInv, Types
  <2>2. RowGuard(s)'
    <3>1. ~(rows[s].by = "sender" /\ rows[s].status \in {"failed", "dead-lettered"})
      BY <1>1 DEF IInv, RowGuard
    <3>2. RowGuard(s)
      BY DEF IInv
    <3> HIDE DEF c, row, l
    <3> QED
      BY <1>1, <1>5, <1>15, <3>1, <3>2 DEF RowGuard, Stored, NoRow
  <2> HIDE DEF c, row, l
  <2> QED
    BY <1>1, <1>8, <1>11, <1>12, <1>13, <1>15, <2>1, <2>2, CallStep DEF IInv
<1> QED
  BY <1>14, <1>15 DEF UpdateStatus

-----------------------------------------------------------------------------
(* Around it.                                                              *)

LEMMA WebhookStep ==
    ASSUME MaxAttempts \in Nat \ {0}, IInv, NEW m \in accepted, NEW type \in DOMAIN EventStatus,
           ResendWebhook(m, type)
    PROVE  IInv'
<1>1. UNCHANGED <<configured, pc, call, accepted, erased>>
  BY DEF ResendWebhook
<1>2. PICK s \in Sends :
        /\ OfMessage(s, m)
        /\ rows' = [rows EXCEPT ![s].status = EventStatus[type], ![s].by = "provider"]
  BY DEF ResendWebhook
<1>3. EventStatus[type] \in ProviderStatuses
  BY DEF EventStatus, ProviderStatuses
<1>4. rows \in [Sends -> Row] /\ m.nr \in 1 .. MaxAttempts
  BY DEF IInv, Types
<1>5. Stored(s) /\ rows[s].msg = m.nr /\ rows[s] \in Row
  BY <1>2, <1>4 DEF OfMessage
<1>6. /\ rows'[s] \in Row /\ rows'[s].by = "provider" /\ rows'[s].msg = m.nr /\ rows'[s] # NoRow
      /\ \A t \in Sends \ {s} : rows'[t] = rows[t]
  <2>1. rows'[s] = [rows[s] EXCEPT !.status = EventStatus[type], !.by = "provider"]
    BY <1>2, <1>4
  <2>2. \A t \in Sends \ {s} : rows'[t] = rows[t]
    BY <1>2, <1>4
  <2>3. EventStatus[type] \in {"none"} \cup SenderStatuses \cup ProviderStatuses
    BY <1>3
  <2> DEFINE st == EventStatus[type]
  <2> HIDE DEF st
  <2>4. [rows[s] EXCEPT !.status = st, !.by = "provider"] \in Row
    BY <1>5, <2>3 DEF Row, st
  <2>5. LET r == [rows[s] EXCEPT !.status = st, !.by = "provider"]
        IN  r.by = "provider" /\ r.msg = rows[s].msg /\ r # NoRow
    BY <1>5 DEF Row, NoRow
  <2> QED
    BY <1>5, <2>1, <2>2, <2>4, <2>5 DEF st
<1>7. Types'
  BY <1>1, <1>2, <1>4, <1>6 DEF IInv, Types
<1>8. ASSUME NEW t \in Sends PROVE CallGuard(t)' /\ RowGuard(t)'
  <2>1. CallGuard(t)'
    BY <1>1 DEF IInv, CallGuard, Message
  <2>2. CASE t = s
    <3>1. RowGuard(s)
      BY DEF IInv
    <3>2. call[s].recorded /\ Message(s, m.nr) \in accepted /\ pc[s] = "sent" /\ m.nr # 0
      <4>1. m.nr # 0
        BY <1>4
      <4> QED
        BY <1>5, <3>1, <4>1 DEF RowGuard
    <3>3. RowGuard(s)'
      BY <1>1, <1>6, <3>2 DEF RowGuard, Stored, NoRow, Message
    <3> QED
      BY <2>1, <2>2, <3>3
  <2>3. CASE t # s
    <3>1. RowGuard(t) /\ rows'[t] = rows[t]
      BY <1>6, <2>3 DEF IInv
    <3>2. RowGuard(t)'
      BY <1>1, <3>1 DEF RowGuard, Stored, NoRow, Message
    <3> QED
      BY <2>1, <3>2
  <2> QED
    BY <2>2, <2>3
<1>9. KeyGuard' /\ DuplicateBacked'
  BY <1>1 DEF IInv, KeyGuard, DuplicateBacked
<1> QED
  BY <1>7, <1>8, <1>9 DEF IInv

LEMMA DeleteStep ==
    ASSUME MaxAttempts \in Nat \ {0}, IInv, deleteOrganization
    PROVE  IInv'
<1>1. UNCHANGED <<configured, pc, call, accepted>> /\ erased' = TRUE
      /\ rows' = [s \in Sends |-> NoRow]
  BY DEF deleteOrganization
<1>2. NoRow \in Row /\ NoRow.msg = 0 /\ NoRow.by = "none"
  BY DEF NoRow, Row
<1>3. Types'
  BY <1>1, <1>2 DEF IInv, Types
<1>4. ASSUME NEW s \in Sends PROVE CallGuard(s)' /\ RowGuard(s)'
  <2>1. CallGuard(s)'
    BY <1>1 DEF IInv, CallGuard, Message
  <2>2. rows'[s] = NoRow
    BY <1>1
  <2>3. RowGuard(s)'
    BY <1>1, <2>2 DEF RowGuard, Stored, NoRow
  <2> QED
    BY <2>1, <2>3
<1>5. KeyGuard' /\ DuplicateBacked'
  BY <1>1 DEF IInv, KeyGuard, DuplicateBacked
<1> QED
  BY <1>3, <1>4, <1>5 DEF IInv

LEMMA CrashStep ==
    ASSUME MaxAttempts \in Nat \ {0}, Keyed \subseteq Sends, IInv, Crash
    PROVE  IInv'
<1>1. UNCHANGED <<configured, call, rows, accepted, erased>>
      /\ pc' = [s \in Sends |-> IF pc[s] \in Working THEN "lost" ELSE pc[s]]
  BY DEF Crash
<1>2. Types'
  BY <1>1 DEF IInv, Types, Labels, Ended
<1>3. ASSUME NEW s \in Sends PROVE CallGuard(s)' /\ RowGuard(s)'
  <2>1. CallGuard(s) /\ RowGuard(s)
    BY DEF IInv
  <2>2. CASE pc[s] \in Working
    <3>1. pc'[s] = "lost" /\ pc[s] # "sent" /\ pc[s] # "gave up"
      BY <1>1, <2>2 DEF Working
    <3> QED
      BY <1>1, <2>1, <3>1 DEF CallGuard, RowGuard, Stored, NoRow, Message, Working
  <2>3. CASE pc[s] \notin Working
    <3>1. pc'[s] = pc[s]
      BY <1>1, <2>3
    <3> QED
      BY <1>1, <2>1, <3>1 DEF CallGuard, RowGuard, Stored, NoRow, Message
  <2> QED
    BY <2>2, <2>3
<1>4. KeyGuard'
  BY <1>1 DEF IInv, KeyGuard
<1>5. DuplicateBacked'
  <2> SUFFICES ASSUME NEW d \in Keyed, pc'[d] = "duplicate"
               PROVE  \E t \in Keyed : pc'[t] \in Backed
    BY DEF DuplicateBacked, Backed
  <2>1. pc[d] = "duplicate"
    BY <1>1
  <2>2. PICK t \in Keyed : pc[t] \in Backed
    BY <2>1 DEF IInv, DuplicateBacked, Backed
  <2>3. pc'[t] \in Backed
    BY <1>1, <2>2 DEF Backed
  <2> QED
    BY <2>3
<1> QED
  BY <1>2, <1>3, <1>4, <1>5 DEF IInv

LEMMA NextIInv ==
    ASSUME MaxAttempts \in Nat \ {0}, Keyed \subseteq Sends, EventTypes \subseteq DOMAIN EventStatus,
           IInv, [Next]_vars
    PROVE  IInv'
<1>1. CASE UNCHANGED vars
  <2>1. Types' /\ KeyGuard' /\ DuplicateBacked'
    BY <1>1 DEF vars, IInv, Types, KeyGuard, DuplicateBacked
  <2>2. \A s \in Sends : CallGuard(s)' /\ RowGuard(s)'
    BY <1>1 DEF vars, IInv, CallGuard, RowGuard, Stored, NoRow, Message
  <2> QED
    BY <2>1, <2>2 DEF IInv
<1>2. ASSUME NEW m \in accepted, NEW type \in EventTypes, ResendWebhook(m, type) PROVE IInv'
  BY <1>2, WebhookStep
<1> QED
  BY <1>1, <1>2, CheckStep, RecordStep, AttemptStep, UpdateStep, DeleteStep, CrashStep
     DEF Next, Step

-----------------------------------------------------------------------------
(* The theorems.                                                           *)

\* The conjuncts of IInv hold whatever overlaps, is lost or is repeated.
THEOREM DeliveryInvariance ==
    ASSUME MaxAttempts \in Nat \ {0}, Keyed \subseteq Sends, EventTypes \subseteq DOMAIN EventStatus
    PROVE  Spec => []IInv
<1>1. Init => IInv
  BY InitIInv
<1>2. IInv /\ [Next]_vars => IInv'
  BY NextIInv
<1> QED
  BY <1>1, <1>2, PTL DEF Spec

\* What send and the webhook of the provider wrote to a row is about messages that exist.
THEOREM StatusesAreHonest ==
    ASSUME MaxAttempts \in Nat \ {0}, Keyed \subseteq Sends, EventTypes \subseteq DOMAIN EventStatus
    PROVE  Spec => []StatusHonest
<1>1. IInv => StatusHonest
  <2> SUFFICES ASSUME IInv, NEW s \in Sends, Stored(s)
               PROVE  /\ rows[s].by = "provider" \/ rows[s].status = "sent" =>
                            Message(s, rows[s].msg) \in accepted
                      /\ rows[s].by = "sender" /\ rows[s].status \in {"failed", "dead-lettered"} =>
                            pc[s] = "gave up" /\ rows[s].msg = 0
                      /\ rows[s].by = "sender" /\ rows[s].status = "dead-lettered" =>
                            call[s].attempt = MaxAttempts
    BY DEF StatusHonest, Message
  <2>1. rows[s].by \in {"sender", "provider"} /\ RowGuard(s)
    BY DEF IInv, Types, Row, RowGuard
  <2> QED
    BY <2>1 DEF RowGuard
<1> QED
  BY <1>1, DeliveryInvariance, PTL

\* A repeated event that isDuplicate dismisses has another call to rely on.
THEOREM DuplicatesAreBacked ==
    ASSUME MaxAttempts \in Nat \ {0}, Keyed \subseteq Sends, EventTypes \subseteq DOMAIN EventStatus
    PROVE  Spec => []DuplicateBacked
<1>1. IInv => DuplicateBacked
  BY DEF IInv
<1> QED
  BY <1>1, DeliveryInvariance, PTL

\* Of two calls for one event that reached the provider one has no row.
THEOREM SecondMailsUnrecorded ==
    ASSUME MaxAttempts \in Nat \ {0}, Keyed \subseteq Sends, EventTypes \subseteq DOMAIN EventStatus
    PROVE  Spec => []SecondMailUnrecorded
<1>1. IInv => SecondMailUnrecorded
  BY DEF IInv, KeyGuard, SecondMailUnrecorded
<1> QED
  BY <1>1, DeliveryInvariance, PTL

\* updateStatusById never overwrites what the webhook wrote.
THEOREM ProviderWins ==
    ASSUME MaxAttempts \in Nat \ {0}, Keyed \subseteq Sends, EventTypes \subseteq DOMAIN EventStatus
    PROVE  Spec => ProviderHasLastWord
<1>1. IInv /\ [Next]_vars =>
        [\A s \in Sends : rows[s].by = "provider" => rows'[s].by # "sender"]_vars
  <2> SUFFICES ASSUME IInv, [Next]_vars, NEW s \in Sends, rows[s].by = "provider"
               PROVE  rows'[s].by # "sender"
    OBVIOUS
  <2>1. pc[s] = "sent" /\ rows \in [Sends -> Row]
    BY DEF IInv, RowGuard, Types
  <2>2. ASSUME NEW t \in Sends, Step(t) PROVE rows'[s] = rows[s]
    <3>1. CASE Check(t) \/ Attempt(t)
      BY <3>1 DEF Check, Attempt
    <3>2. CASE Record(t)
      <4>1. t # s
        BY <2>1, <3>2 DEF Record
      <4> QED
        BY <2>1, <3>2, <4>1 DEF Record
    <3>3. CASE UpdateStatus(t)
      <4>1. t # s
        BY <2>1, <3>3 DEF UpdateStatus
      <4> QED
        BY <2>1, <3>3, <4>1 DEF UpdateStatus
    <3> QED
      BY <2>2, <3>1, <3>2, <3>3 DEF Step
  <2>3. ASSUME NEW m \in accepted, NEW type \in EventTypes, ResendWebhook(m, type)
        PROVE  rows'[s].by # "sender"
    <3>1. PICK t \in Sends :
            rows' = [rows EXCEPT ![t].status = EventStatus[type], ![t].by = "provider"]
      BY <2>3 DEF ResendWebhook
    <3>2. CASE t = s
      <4>1. rows'[s] = [rows[s] EXCEPT !.status = EventStatus[type], !.by = "provider"]
        BY <2>1, <3>1, <3>2
      <4> QED
        BY <2>1, <4>1 DEF Row
    <3>3. CASE t # s
      BY <2>1, <3>1, <3>3
    <3> QED
      BY <3>2, <3>3
  <2>4. CASE deleteOrganization
    BY <2>4 DEF deleteOrganization, NoRow
  <2>5. CASE Crash \/ UNCHANGED vars
    BY <2>5 DEF Crash, vars
  <2> QED
    BY <2>2, <2>3, <2>4, <2>5 DEF Next
<1> QED
  BY <1>1, DeliveryInvariance, PTL DEF Spec, ProviderHasLastWord


=============================================================================
