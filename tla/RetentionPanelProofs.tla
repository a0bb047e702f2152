------------------------ MODULE RetentionPanelProofs -------------------------
(***************************************************************************)
(* Theorems about RetentionPanel, for every set of bases and choices, any  *)
(* expiry, and any number of navigations.                                  *)
(***************************************************************************)
EXTENDS RetentionPanel, TLAPS

PanelType ==
    [loaded : BOOLEAN, busy : BOOLEAN, days : Choices, ack : BOOLEAN, reloadable : BOOLEAN]
RequestType ==
    [kind : {"load", "preview", "save"}, days : Choices, of : Bases, current : BOOLEAN,
     outcome : Outcomes, review : Previews \cup {None}, at : 0 .. MaxTime]

\* While a preference is being loaded none is on display.
LoadGuard == \A r \in flight : r.kind = "load" => ~panel.loaded

\* A preview that was not invalidated asks for the choice on display.
PreviewGuard ==
    \A r \in flight : r.kind = "preview" /\ r.current /\ r.of = base =>
        panel.loaded /\ r.days = panel.days

\* What DisplayCertain says holds while a request is out as well.
CertainGuard == panel.loaded => source = base /\ base \notin uncertain

\* A save goes to a base whose preference is known.
SaveGuard == \A r \in flight : r.kind = "save" => r.of \notin uncertain

\* Every timer was started by a click that counts.
TimerGuard == reload <= switches

IInv ==
    /\ TypeOK /\ OneRequest /\ LoadGuard /\ PreviewGuard /\ SaveGuard /\ CertainGuard
    /\ SavedAsReviewed /\ ReviewUsable /\ TimerGuard

-----------------------------------------------------------------------------
(* Types.                                                                  *)

\* The fields of the panel may be assigned values of their types.
LEMMA PanelUpdate ==
    ASSUME NEW p \in PanelType
    PROVE  /\ Cleared(p) \in PanelType /\ Unloaded(p) \in PanelType
           /\ \A b \in BOOLEAN : [p EXCEPT !.busy = b] \in PanelType
           /\ [p EXCEPT !.busy = TRUE, !.loaded = FALSE] \in PanelType
           /\ [p EXCEPT !.loaded = FALSE, !.reloadable = TRUE] \in PanelType
           /\ [p EXCEPT !.reloadable = TRUE] \in PanelType
           /\ \A b \in BOOLEAN : [p EXCEPT !.ack = b] \in PanelType
           /\ \A d \in Choices : [p EXCEPT !.days = d] \in PanelType /\ Applied(p, d) \in PanelType
BY DEF PanelType, Cleared, Unloaded, Applied

\* Requests keep their types when they are invalidated or answered.
LEMMA OutdatedType ==
    ASSUME NEW S \in SUBSET RequestType
    PROVE  Outdated(S) \in SUBSET RequestType
BY DEF Outdated, RequestType

LEMMA RequestIsTyped ==
    ASSUME TypeOK, NEW kind \in {"load", "preview", "save"}, NEW days \in Choices
    PROVE  Request(kind, days) \in RequestType
<1>1. 0 \in 0 .. MaxTime /\ "none" \in Outcomes
  BY PanelAssumption DEF Outcomes
<1> QED
  BY <1>1 DEF Request, RequestType, TypeOK

LEMMA StartLoadType ==
    ASSUME TypeOK, NEW S \in SUBSET RequestType, StartLoad(S)
    PROVE  panel' \in PanelType /\ preview' \in Previews \cup {None} /\ flight' \in SUBSET RequestType
<1>1. panel \in PanelType
  BY DEF TypeOK, PanelType
<1>2. panel.days \in Choices
  BY <1>1 DEF PanelType
<1> QED
  BY <1>1, <1>2, PanelUpdate, OutdatedType, RequestIsTyped DEF StartLoad

LEMMA FinallyType ==
    ASSUME TypeOK, NEW r \in flight, NEW p \in PanelType, NEW v \in Previews \cup {None},
           Finally(r, p, v)
    PROVE  panel' \in PanelType /\ preview' \in Previews \cup {None} /\ flight' \in SUBSET RequestType
<1>1. flight \ {r} \in SUBSET RequestType
  BY DEF TypeOK, RequestType
<1>2. p.days \in Choices
  BY DEF PanelType
<1>3. CASE r.of # base /\ section
  <2>1. panel' = Cleared([p EXCEPT !.busy = TRUE, !.loaded = FALSE]) /\ preview' = None
    BY <1>3 DEF Finally
  <2>2. flight' = Outdated(flight \ {r}) \cup {Request("load", p.days)}
    BY <1>3 DEF Finally
  <2> QED
    BY <1>1, <1>2, <2>1, <2>2, PanelUpdate, OutdatedType, RequestIsTyped
<1>4. CASE ~(r.of # base /\ section)
  BY <1>1, <1>4, PanelUpdate DEF Finally
<1> QED
  BY <1>3, <1>4

LEMMA TypeInit == Init => TypeOK
<1> SUFFICES ASSUME Init PROVE TypeOK
  OBVIOUS
<1>1. 0 \in 0 .. MaxTime /\ 0 \in 0 .. MaxSwitch
  BY PanelAssumption
<1>2. pref \in [Bases -> Choices] /\ base \in Bases
  BY DEF Init
<1>3. panel \in [loaded : BOOLEAN, busy : BOOLEAN, days : Choices,
                 ack : BOOLEAN, reloadable : BOOLEAN]
  BY <1>2 DEF Init
<1> QED
  BY <1>1, <1>2, <1>3 DEF Init, TypeOK

\* TypeOK in the terms of the lemmas.
LEMMA TypeSplit ==
    TypeOK <=> /\ now \in 0 .. MaxTime /\ base \in Bases /\ section \in BOOLEAN
               /\ panel \in PanelType /\ preview \in Previews \cup {None}
               /\ flight \in SUBSET RequestType /\ orphans \in SUBSET [of : Bases, days : Choices]
               /\ pref \in [Bases -> Choices] /\ source \in Bases /\ uncertain \in SUBSET Bases
               /\ switches \in 0 .. MaxSwitch /\ reload \in 0 .. MaxSwitch
BY DEF TypeOK, PanelType, RequestType

LEMMA ProcessType ==
    ASSUME TypeOK, NEW r \in flight, Process(r)
    PROVE  flight' \in SUBSET RequestType /\ pref' \in [Bases -> Choices]
<1>1. flight \in SUBSET RequestType /\ r \in RequestType /\ pref \in [Bases -> Choices]
  BY TypeSplit
<1>2. r.days \in Choices /\ r.of \in Bases /\ pref[r.of] \in Choices
  BY <1>1 DEF RequestType
<1>3. PICK o \in Outcomes \ {"none"} :
        flight' = (flight \ {r}) \cup {[r EXCEPT !.outcome = o,
                      !.days = IF r.kind = "load" THEN pref[r.of] ELSE r.days]}
  BY DEF Process
<1>4. [r EXCEPT !.outcome = o, !.days = IF r.kind = "load" THEN pref[r.of] ELSE r.days]
        \in RequestType
  BY <1>1, <1>2 DEF RequestType
<1>5. pref' = [pref EXCEPT ![r.of] = r.days] \/ pref' = pref
  BY DEF Process
<1> QED
  BY <1>1, <1>2, <1>3, <1>4, <1>5

LEMMA AnswerType ==
    ASSUME TypeOK, NEW r \in flight, Answer(r)
    PROVE  /\ panel' \in PanelType /\ preview' \in Previews \cup {None}
           /\ flight' \in SUBSET RequestType
           /\ source' \in Bases /\ uncertain' \in SUBSET Bases
<1>1. r \in RequestType /\ panel \in PanelType /\ preview \in Previews \cup {None}
      /\ source \in Bases /\ uncertain \in SUBSET Bases /\ now \in 0 .. MaxTime
  BY TypeSplit
<1>2. r.days \in Choices /\ r.of \in Bases
  BY <1>1 DEF RequestType
<1>3. source' \in Bases /\ uncertain' \in SUBSET Bases
  BY <1>1, <1>2 DEF Answer, AnswerLoad, AnswerPreview, AnswerSave, shown
<1>4. \E p \in PanelType, v \in Previews \cup {None} : Finally(r, p, v)
  <2>1. CASE AnswerLoad(r)
    BY <1>1, <1>2, <2>1, PanelUpdate DEF AnswerLoad
  <2>2. CASE AnswerPreview(r)
    <3>1. [days |-> r.days, at |-> now, of |-> r.of] \in Previews
      BY <1>1, <1>2 DEF Previews
    <3> QED
      BY <1>1, <2>2, <3>1 DEF AnswerPreview
  <2>3. CASE AnswerSave(r)
    <3>1. Applied(panel, r.days) \in PanelType
      BY <1>1, <1>2, PanelUpdate
    <3>2. Cleared(Applied(panel, r.days)) \in PanelType
      BY <3>1, PanelUpdate
    <3>3. [panel EXCEPT !.ack = FALSE] \in PanelType
      BY <1>1, PanelUpdate
    <3>4. [panel EXCEPT !.loaded = FALSE, !.reloadable = TRUE] \in PanelType
      BY <1>1, PanelUpdate
    <3>5. Cleared([panel EXCEPT !.loaded = FALSE, !.reloadable = TRUE]) \in PanelType
      BY <3>4, PanelUpdate
    <3> QED
      BY <1>1, <2>3, <3>2, <3>3, <3>5 DEF AnswerSave
  <2> QED
    BY <2>1, <2>2, <2>3 DEF Answer
<1> QED
  BY <1>3, <1>4, FinallyType

LEMMA TypeStep == ASSUME IInv, [Next]_vars PROVE TypeOK'
<1> USE DEF server, shown, page
<1>1. /\ now \in 0 .. MaxTime /\ base \in Bases /\ section \in BOOLEAN
      /\ panel \in PanelType /\ preview \in Previews \cup {None}
      /\ flight \in SUBSET RequestType /\ orphans \in SUBSET [of : Bases, days : Choices]
      /\ pref \in [Bases -> Choices] /\ source \in Bases /\ uncertain \in SUBSET Bases
      /\ switches \in 0 .. MaxSwitch /\ reload \in 0 .. MaxSwitch /\ TypeOK
  BY TypeSplit DEF IInv
<1>2. panel.days \in Choices /\ Outdated(flight) \in SUBSET RequestType
      /\ MaxTime \in Nat /\ MaxSwitch \in Nat /\ reload <= switches
  BY <1>1, OutdatedType, PanelAssumption DEF PanelType, IInv, TimerGuard
<1>3. CASE LoadRetention
  BY <1>1, <1>3, StartLoadType, TypeSplit DEF LoadRetention, TypeOK, PanelType, RequestType
<1>4. CASE PreviewRetention
  <2>1. Request("preview", panel.days) \in RequestType
    BY <1>1, <1>2, RequestIsTyped
  <2>2. [panel EXCEPT !.busy = TRUE] \in PanelType
    BY <1>1, PanelUpdate
  <2>3. panel' \in PanelType /\ flight' \in SUBSET RequestType /\ preview' = None
    BY <1>2, <1>4, <2>1, <2>2, PanelUpdate DEF PreviewRetention
  <2> QED
    BY <1>1, <1>4, <2>3 DEF PreviewRetention, TypeOK, PanelType, RequestType
<1>5. CASE Save
  <2>1. Request("save", panel.days) \in RequestType
    BY <1>1, <1>2, RequestIsTyped
  <2>2. panel' \in PanelType /\ flight' \in SUBSET RequestType /\ preview' \in Previews \cup {None}
    BY <1>1, <1>2, <1>5, <2>1, PanelUpdate DEF Save
  <2> QED
    BY <1>1, <1>5, <2>2 DEF Save, TypeOK, PanelType, RequestType
<1>6. ASSUME NEW d \in Choices, ChangeDays(d) PROVE TypeOK'
  <2>1. [panel EXCEPT !.days = d] \in PanelType
    BY <1>1, PanelUpdate
  <2>2. panel' \in PanelType /\ flight' \in SUBSET RequestType /\ preview' = None
    BY <1>2, <1>6, <2>1, PanelUpdate DEF ChangeDays
  <2> QED
    BY <1>1, <1>6, <2>2 DEF ChangeDays, TypeOK, PanelType, RequestType
<1>7. CASE Acknowledge
  <2>1. panel' \in PanelType
    BY <1>1, <1>7, PanelUpdate DEF Acknowledge
  <2> QED
    BY <1>1, <1>7, <2>1 DEF Acknowledge, TypeOK, PanelType
<1>8. ASSUME NEW r \in flight, Process(r) PROVE TypeOK'
  <2>1. flight' \in SUBSET RequestType /\ pref' \in [Bases -> Choices]
    BY <1>1, <1>8, ProcessType
  <2> QED
    BY <1>1, <1>8, <2>1 DEF Process, TypeOK, RequestType
<1>9. ASSUME NEW r \in flight, Answer(r) PROVE TypeOK'
  <2>1. /\ panel' \in PanelType /\ preview' \in Previews \cup {None}
        /\ flight' \in SUBSET RequestType
        /\ source' \in Bases /\ uncertain' \in SUBSET Bases
    BY <1>1, <1>9, AnswerType
  <2> QED
    BY <1>1, <1>9, <2>1 DEF Answer, TypeOK, RequestType, PanelType
<1>10. ASSUME NEW r \in flight, Abort(r) PROVE TypeOK'
  <2>1. r \in RequestType /\ r.of \in Bases /\ r.days \in Choices
    BY <1>1 DEF RequestType
  <2>2. [r EXCEPT !.outcome = "failed"] \in RequestType
    BY <2>1 DEF RequestType, Outcomes
  <2>3. flight' \in SUBSET RequestType /\ orphans' \in SUBSET [of : Bases, days : Choices]
    BY <1>1, <1>10, <2>1, <2>2 DEF Abort
  <2> QED
    BY <1>1, <1>10, <2>3 DEF Abort, TypeOK, RequestType
<1>11. ASSUME NEW o \in orphans, ProcessOrphan(o) PROVE TypeOK'
  <2>1. o.of \in Bases /\ o.days \in Choices
    BY <1>1
  <2>2. pref' \in [Bases -> Choices]
    BY <1>1, <1>11, <2>1 DEF ProcessOrphan
  <2> QED
    BY <1>1, <1>11, <2>2 DEF ProcessOrphan, TypeOK
<1>12. CASE Tick
  BY <1>1, <1>2, <1>12 DEF Tick, TypeOK
<1>13. CASE ExpirePreview
  <2>1. panel' \in PanelType /\ flight' \in SUBSET RequestType
    BY <1>1, <1>2, <1>13, PanelUpdate DEF ExpirePreview
  <2> QED
    BY <1>1, <1>13, <2>1 DEF ExpirePreview, TypeOK, PanelType, RequestType
<1>14. CASE ShowSection
  <2>1. panel' \in PanelType /\ flight' \in SUBSET RequestType /\ preview' \in Previews \cup {None}
    BY <1>1, <1>2, <1>14, PanelUpdate, StartLoadType DEF ShowSection
  <2>2. switches' \in 0 .. MaxSwitch /\ section' \in BOOLEAN
    BY <1>1, <1>2, <1>14 DEF ShowSection
  <2> QED
    BY <1>1, <1>14, <2>1, <2>2 DEF ShowSection, TypeOK, PanelType, RequestType
<1>15. ASSUME NEW b \in Bases, SaveApiBase(b) PROVE TypeOK'
  <2>1. panel' \in PanelType /\ flight' \in SUBSET RequestType
    BY <1>1, <1>2, <1>15, PanelUpdate DEF SaveApiBase
  <2>2. switches' \in 0 .. MaxSwitch /\ reload' \in 0 .. MaxSwitch
    BY <1>1, <1>2, <1>15 DEF SaveApiBase
  <2> QED
    BY <1>1, <1>15, <2>1, <2>2 DEF SaveApiBase, TypeOK, PanelType, RequestType
<1>16. CASE LoadDashboard
  <2>1. panel' \in PanelType /\ flight' \in SUBSET RequestType /\ preview' \in Previews \cup {None}
    BY <1>1, <1>2, <1>16, StartLoadType DEF LoadDashboard
  <2>2. reload' \in 0 .. MaxSwitch
    BY <1>1, <1>2, <1>16 DEF LoadDashboard
  <2> QED
    BY <1>1, <1>16, <2>1, <2>2 DEF LoadDashboard, TypeOK, PanelType, RequestType
<1>17. CASE UNCHANGED vars
  BY <1>1, <1>17 DEF vars, TypeOK
<1> QED
  BY <1>3, <1>4, <1>5, <1>6, <1>7, <1>8, <1>9, <1>10, <1>11, <1>12, <1>13, <1>14, <1>15,
     <1>16, <1>17 DEF Next

-----------------------------------------------------------------------------
(* The guards.                                                             *)

Guards ==
    /\ OneRequest /\ LoadGuard /\ PreviewGuard /\ SaveGuard /\ CertainGuard
    /\ SavedAsReviewed /\ ReviewUsable /\ TimerGuard

\* Invalidating makes no request appear or vanish and leaves it not current.
LEMMA OutdatedKeeps ==
    ASSUME NEW S \in SUBSET RequestType
    PROVE  /\ Outdated(S) = {} <=> S = {}
           /\ (\A r, q \in S : r = q) => \A r, q \in Outdated(S) : r = q
           /\ \A r \in Outdated(S) :
                /\ ~r.current
                /\ \E q \in S : /\ r.kind = q.kind /\ r.days = q.days /\ r.of = q.of
                               /\ r.review = q.review /\ r.at = q.at
<1>1. \A q \in S : LET r == [q EXCEPT !.current = FALSE]
                    IN  /\ ~r.current /\ r.kind = q.kind /\ r.days = q.days /\ r.of = q.of
                        /\ r.review = q.review /\ r.at = q.at
  BY DEF RequestType
<1> QED
  BY <1>1 DEF Outdated

LEMMA RequestFields ==
    ASSUME NEW kind \in {"load", "preview", "save"}, NEW days
    PROVE  LET r == Request(kind, days)
           IN  /\ r.kind = kind /\ r.days = days /\ r.of = base /\ r.current
               /\ kind = "save" => r.review = preview /\ r.at = now
BY DEF Request

\* A panel that is not busy waits for nothing.
LEMMA Idle ==
    ASSUME IInv, ~panel.busy
    PROVE  flight = {} /\ Outdated(flight) = {}
BY DEF IInv, OneRequest, Outdated

\* What the functions of the panel leave in its fields.
LEMMA PanelFields ==
    ASSUME NEW p \in PanelType
    PROVE  /\ Cleared(p).loaded = p.loaded /\ Cleared(p).busy = p.busy /\ Cleared(p).days = p.days
           /\ ~Unloaded(p).loaded /\ Unloaded(p).busy = p.busy /\ Unloaded(p).days = p.days
           /\ \A b \in BOOLEAN : LET q == [p EXCEPT !.busy = b]
                               IN  q.busy = b /\ q.loaded = p.loaded /\ q.days = p.days
           /\ LET q == [p EXCEPT !.busy = TRUE, !.loaded = FALSE]
              IN  q.busy /\ ~q.loaded /\ q.days = p.days
           /\ LET q == [p EXCEPT !.loaded = FALSE, !.reloadable = TRUE]
              IN  q.busy = p.busy /\ ~q.loaded /\ q.days = p.days
           /\ LET q == [p EXCEPT !.reloadable = TRUE]
              IN  q.busy = p.busy /\ q.loaded = p.loaded /\ q.days = p.days
           /\ \A b \in BOOLEAN : LET q == [p EXCEPT !.ack = b]
                               IN  q.busy = p.busy /\ q.loaded = p.loaded /\ q.days = p.days
           /\ \A d \in Choices : LET q == [p EXCEPT !.days = d]
                               IN  q.busy = p.busy /\ q.loaded = p.loaded /\ q.days = d
           /\ \A d \in Choices : LET q == Applied(p, d)
                               IN  q.busy = p.busy /\ q.loaded /\ q.days = d
BY DEF PanelType, Cleared, Unloaded, Applied

LEMMA InitIInv == Init => IInv
<1> SUFFICES ASSUME Init PROVE IInv
  OBVIOUS
<1>1. TypeOK
  BY TypeInit
<1>2. flight = {} /\ preview = None /\ ~panel.loaded /\ ~panel.busy /\ reload = 0 /\ switches = 0
  BY DEF Init
<1> QED
  BY <1>1, <1>2 DEF IInv, OneRequest, LoadGuard, PreviewGuard, SaveGuard, CertainGuard,
     SavedAsReviewed, ReviewUsable, TimerGuard

\* A load that starts with no request out is the only request, and hides the
\* preference.
LEMMA StartLoadGuards ==
    ASSUME IInv, ~panel.busy, StartLoad(flight), reload' <= switches'
    PROVE  Guards'
<1>1. flight' = {Request("load", panel.days)}
  BY Idle DEF StartLoad
<1>2. panel \in PanelType
  BY TypeSplit DEF IInv
<1>3. panel'.busy /\ ~panel'.loaded /\ preview' = None
  BY <1>2 DEF StartLoad, Cleared, PanelType
<1>4. \A r \in flight' : r.kind = "load"
  BY <1>1, RequestFields
<1> QED
  BY <1>1, <1>3, <1>4 DEF Guards, OneRequest, LoadGuard, PreviewGuard, SaveGuard, CertainGuard,
     SavedAsReviewed, ReviewUsable, TimerGuard

\* Dropping the review leaves the other guards as they are.
LEMMA InvalidateGuards ==
    ASSUME IInv, flight' = Outdated(flight), preview' = None,
           panel'.busy = panel.busy, panel'.loaded => panel.loaded /\ base' = base,
           UNCHANGED <<source, uncertain>>, reload' <= switches'
    PROVE  Guards'
<1>1. flight \in SUBSET RequestType
  BY TypeSplit DEF IInv
<1>2. OneRequest'
  BY <1>1, OutdatedKeeps DEF IInv, OneRequest
<1>3. LoadGuard' /\ PreviewGuard' /\ SaveGuard' /\ SavedAsReviewed'
  BY <1>1, OutdatedKeeps DEF IInv, LoadGuard, PreviewGuard, SaveGuard, SavedAsReviewed
<1> QED
  BY <1>2, <1>3 DEF IInv, Guards, CertainGuard, ReviewUsable, TimerGuard

\* The finally block is safe for a panel and a review that agree with each other
\* and with what is known of the base in use.
LEMMA FinallyGuards ==
    ASSUME IInv, NEW r \in flight, NEW p \in PanelType, NEW v, Finally(r, p, v),
           UNCHANGED <<base, reload, switches>>,
           p.loaded => source' = base /\ base \notin uncertain',
           v # None => p.loaded /\ v.of = base /\ v.days = p.days
    PROVE  Guards'
<1>1. flight \ {r} = {} /\ Outdated(flight \ {r}) = {}
  BY DEF IInv, OneRequest, Outdated
<1>2. CASE r.of # base /\ section
  <2>1. preview' = None /\ panel'.busy /\ ~panel'.loaded
    BY <1>2 DEF Finally, Cleared, PanelType
  <2>2. flight' = {Request("load", p.days)}
    BY <1>1, <1>2 DEF Finally
  <2>3. \A q \in flight' : q.kind = "load"
    BY <2>2, RequestFields
  <2> QED
    BY <2>1, <2>2, <2>3 DEF IInv, Guards, OneRequest, LoadGuard, PreviewGuard, SaveGuard,
       CertainGuard, SavedAsReviewed, ReviewUsable, TimerGuard
<1>3. CASE ~(r.of # base /\ section)
  <2>1. preview' = v /\ panel' = [p EXCEPT !.busy = FALSE] /\ flight' = {}
    BY <1>1, <1>3 DEF Finally
  <2>2. ~panel'.busy /\ panel'.loaded = p.loaded /\ panel'.days = p.days
    BY <2>1 DEF PanelType
  <2> QED
    BY <2>1, <2>2 DEF IInv, Guards, OneRequest, LoadGuard, PreviewGuard, SaveGuard,
       CertainGuard, SavedAsReviewed, ReviewUsable, TimerGuard
<1> QED
  BY <1>2, <1>3

LEMMA AnswerGuards ==
    ASSUME IInv, NEW r \in flight, Answer(r)
    PROVE  Guards'
<1>1. panel \in PanelType /\ r \in RequestType /\ r.days \in Choices
  BY TypeSplit DEF IInv, RequestType
<1>2. UNCHANGED <<base, reload, switches>>
  BY DEF Answer, page
<1>3. /\ panel.loaded => source = base /\ base \notin uncertain
      /\ preview # None => panel.loaded /\ preview.of = base /\ preview.days = panel.days
  BY DEF IInv, CertainGuard, ReviewUsable
<1>4. CASE AnswerLoad(r)
  <2>1. ~panel.loaded /\ preview = None
    BY <1>4 DEF IInv, LoadGuard, ReviewUsable, AnswerLoad
  <2>2. CASE r.outcome = "ok" /\ Here(r)
    <3>1. Applied(panel, r.days) \in PanelType
      BY <1>1, PanelUpdate
    <3>2. Finally(r, Applied(panel, r.days), preview) /\ source' = base /\ base \notin uncertain'
      BY <1>4, <2>2 DEF AnswerLoad, Here
    <3> QED
      BY <1>2, <2>1, <3>1, <3>2, FinallyGuards
  <2>3. CASE r.outcome # "ok" /\ Here(r)
    <3>1. [panel EXCEPT !.reloadable = TRUE] \in PanelType
          /\ ~[panel EXCEPT !.reloadable = TRUE].loaded
      BY <1>1, <2>1 DEF PanelType
    <3>2. Finally(r, [panel EXCEPT !.reloadable = TRUE], preview)
      BY <1>4, <2>3 DEF AnswerLoad
    <3> QED
      BY <1>2, <2>1, <3>1, <3>2, FinallyGuards
  <2>4. CASE ~Here(r)
    BY <1>1, <1>2, <1>4, <2>1, <2>4, FinallyGuards DEF AnswerLoad
  <2> QED
    BY <2>2, <2>3, <2>4
<1>5. CASE AnswerPreview(r)
  <2>1. UNCHANGED <<source, uncertain>>
    BY <1>5 DEF AnswerPreview, shown
  <2>2. CASE r.outcome = "ok" /\ Fresh(r)
    <3> DEFINE v == [days |-> r.days, at |-> now, of |-> r.of]
    <3>1. Finally(r, panel, v)
      BY <1>5, <2>2 DEF AnswerPreview
    <3>2. panel.loaded /\ v.of = base /\ v.days = panel.days
      BY <1>5, <2>2 DEF IInv, PreviewGuard, AnswerPreview, Fresh, Here
    <3> QED
      BY <1>1, <1>2, <1>3, <2>1, <3>1, <3>2, FinallyGuards
  <2>3. CASE ~(r.outcome = "ok" /\ Fresh(r))
    BY <1>1, <1>2, <1>3, <1>5, <2>1, <2>3, FinallyGuards DEF AnswerPreview
  <2> QED
    BY <2>2, <2>3
<1>6. CASE AnswerSave(r)
  <2>1. r.kind = "save" /\ r.of \notin uncertain
    BY <1>6 DEF AnswerSave, IInv, SaveGuard
  <2>2. CASE Here(r) /\ r.outcome = "ok"
    <3>1. Cleared(Applied(panel, r.days)) \in PanelType
      <4>1. Applied(panel, r.days) \in PanelType
        BY <1>1, PanelUpdate
      <4> QED
        BY <4>1, PanelUpdate
    <3>2. Finally(r, Cleared(Applied(panel, r.days)), None) /\ source' = base
          /\ base \notin uncertain'
      BY <1>6, <2>1, <2>2 DEF AnswerSave, Here, Definite
    <3> QED
      BY <1>2, <3>1, <3>2, FinallyGuards
  <2>3. CASE Here(r) /\ Definite(r)
    <3> DEFINE p == [panel EXCEPT !.ack = FALSE]
    <3>1. p \in PanelType /\ p.loaded = panel.loaded /\ p.days = panel.days
      BY <1>1 DEF PanelType
    <3>2. Finally(r, p, preview) /\ UNCHANGED <<source, uncertain>>
      BY <1>6, <2>3 DEF AnswerSave, Definite
    <3> HIDE DEF p
    <3> QED
      BY <1>2, <1>3, <3>1, <3>2, FinallyGuards
  <2>4. CASE Here(r) /\ r.outcome # "ok" /\ ~Definite(r)
    <3> DEFINE p == Cleared([panel EXCEPT !.loaded = FALSE, !.reloadable = TRUE])
    <3>1. p \in PanelType /\ ~p.loaded
      BY <1>1 DEF PanelType, Cleared
    <3>2. Finally(r, p, None)
      BY <1>6, <2>4 DEF AnswerSave
    <3> HIDE DEF p
    <3> QED
      BY <1>2, <3>1, <3>2, FinallyGuards
  <2>5. CASE ~Here(r)
    <3>1. Finally(r, panel, preview) /\ source' = source /\ uncertain' = uncertain \cup {r.of}
      BY <1>6, <2>5 DEF AnswerSave
    <3> QED
      BY <1>1, <1>2, <1>3, <2>5, <3>1, FinallyGuards DEF Here
  <2> QED
    BY <2>2, <2>3, <2>4, <2>5
<1> QED
  BY <1>4, <1>5, <1>6 DEF Answer

\* A server's answer or an abort changes the one request in its outcome, and in
\* the preference a load returns.
LEMMA WaitGuards ==
    ASSUME IInv, NEW r \in flight, NEW q, flight' = (flight \ {r}) \cup {q},
           q.kind = r.kind, q.of = r.of, q.current = r.current, q.review = r.review, q.at = r.at,
           r.kind # "load" => q.days = r.days,
           UNCHANGED <<base, panel, preview, source, uncertain, reload, switches>>
    PROVE  Guards'
<1>1. flight = {r} /\ flight' = {q}
  BY DEF IInv, OneRequest
<1>2. OneRequest' /\ LoadGuard' /\ PreviewGuard'
  BY <1>1 DEF IInv, OneRequest, LoadGuard, PreviewGuard
<1>3. SaveGuard' /\ SavedAsReviewed'
  BY <1>1 DEF IInv, SaveGuard, SavedAsReviewed
<1> QED
  BY <1>2, <1>3 DEF IInv, Guards, CertainGuard, ReviewUsable, TimerGuard

\* A step that touches neither the page's state nor its requests.
LEMMA QuietGuards ==
    ASSUME IInv,
           UNCHANGED <<base, panel, preview, flight, source, uncertain>>, reload' <= switches'
    PROVE  Guards'
BY DEF IInv, Guards, OneRequest, LoadGuard, PreviewGuard, SaveGuard, CertainGuard,
   SavedAsReviewed, ReviewUsable, TimerGuard

LEMMA SaveGuards == ASSUME IInv, Save PROVE Guards'
<1>1. panel \in PanelType /\ ~panel.busy /\ panel.loaded
  BY TypeSplit DEF IInv, Save
<1>2. UNCHANGED <<base, reload, switches, source, uncertain>> /\ reload <= switches
  BY DEF Save, page, shown, IInv, TimerGuard
<1>3. CASE Reviewed /\ panel.ack
  <2> DEFINE s == Request("save", panel.days)
  <2>1. panel' = [panel EXCEPT !.busy = TRUE] /\ flight' = {s} /\ preview' = preview
    BY <1>1, <1>3, Idle DEF Save
  <2>2. panel'.busy /\ panel'.loaded = panel.loaded /\ panel'.days = panel.days
    BY <1>1, <2>1 DEF PanelType
  <2>3. s.kind = "save" /\ s.days = panel.days /\ s.of = base /\ s.review = preview /\ s.at = now
    BY RequestFields
  <2>4. preview # None /\ preview.days = panel.days /\ preview.of = base
        /\ now - preview.at < Expiry
    BY <1>3 DEF IInv, ReviewUsable, Reviewed
  <2> HIDE DEF s
  <2>5. OneRequest' /\ LoadGuard' /\ PreviewGuard' /\ SavedAsReviewed'
    BY <2>1, <2>2, <2>3, <2>4 DEF OneRequest, LoadGuard, PreviewGuard, SavedAsReviewed
  <2>6. SaveGuard' /\ CertainGuard' /\ ReviewUsable' /\ TimerGuard'
    BY <1>1, <1>2, <2>1, <2>2, <2>3 DEF IInv, SaveGuard, CertainGuard, ReviewUsable, TimerGuard
  <2> QED
    BY <2>5, <2>6 DEF Guards
<1>4. CASE ~(Reviewed /\ panel.ack)
  <2>1. preview' = None /\ panel' = Cleared(panel) /\ flight' = Outdated(flight)
    BY <1>4 DEF Save
  <2>2. panel'.busy = panel.busy /\ (panel'.loaded => panel.loaded)
    BY <1>1, <2>1, PanelFields
  <2> QED
    BY <1>2, <2>1, <2>2, InvalidateGuards
<1> QED
  BY <1>3, <1>4

\* A preview is asked for with nothing else under way.
LEMMA PreviewGuards == ASSUME IInv, PreviewRetention PROVE Guards'
<1> DEFINE s == Request("preview", panel.days)
<1>1. panel \in PanelType /\ ~panel.busy /\ panel.loaded
  BY TypeSplit DEF IInv, PreviewRetention
<1>2. [panel EXCEPT !.busy = TRUE] \in PanelType
  BY <1>1, PanelUpdate
<1>3. panel'.busy /\ panel'.loaded = panel.loaded /\ panel'.days = panel.days
  BY <1>1 DEF PanelType, PreviewRetention, Cleared
<1>4. flight' = {s} /\ preview' = None
  BY <1>1, Idle DEF PreviewRetention
<1>5. s.kind = "preview" /\ s.days = panel.days
  BY RequestFields
<1>6. UNCHANGED <<base, reload, switches, source, uncertain>>
  BY DEF PreviewRetention, page, shown
<1> HIDE DEF s
<1>7. OneRequest' /\ LoadGuard' /\ PreviewGuard' /\ SavedAsReviewed'
  BY <1>1, <1>3, <1>4, <1>5 DEF OneRequest, LoadGuard, PreviewGuard, SavedAsReviewed
<1>8. SaveGuard' /\ CertainGuard' /\ ReviewUsable' /\ TimerGuard'
  BY <1>3, <1>4, <1>5, <1>6 DEF IInv, SaveGuard, CertainGuard, ReviewUsable, TimerGuard
<1> QED
  BY <1>7, <1>8 DEF Guards

LEMMA GuardsStep == ASSUME IInv, [Next]_vars PROVE Guards'
<1>1. panel \in PanelType /\ flight \in SUBSET RequestType /\ reload <= switches
      /\ reload \in Nat /\ switches \in Nat
  BY TypeSplit, PanelAssumption DEF IInv, TimerGuard
<1>2. Cleared(panel).busy = panel.busy /\ Cleared(panel).loaded = panel.loaded
  BY <1>1, PanelFields
<1>3. CASE LoadRetention
  BY <1>1, <1>3, StartLoadGuards DEF LoadRetention, page
<1>4. CASE PreviewRetention
  BY <1>4, PreviewGuards
<1>5. CASE Save
  BY <1>5, SaveGuards
<1>6. ASSUME NEW d \in Choices, ChangeDays(d) PROVE Guards'
  <2>1. panel'.busy = panel.busy /\ panel'.loaded = panel.loaded
    BY <1>1, <1>6 DEF PanelType, ChangeDays, Cleared
  <2> QED
    BY <1>1, <1>6, <2>1, InvalidateGuards DEF ChangeDays, page, shown
<1>7. CASE Acknowledge
  <2>1. panel'.busy = panel.busy /\ panel'.loaded = panel.loaded /\ panel'.days = panel.days
    BY <1>1, <1>7 DEF PanelType, Acknowledge
  <2>2. UNCHANGED <<base, preview, flight, source, uncertain, reload, switches>>
    BY <1>7 DEF Acknowledge, page, shown
  <2> QED
    BY <2>1, <2>2 DEF IInv, Guards, OneRequest, LoadGuard, PreviewGuard, SaveGuard,
       CertainGuard, SavedAsReviewed, ReviewUsable, TimerGuard
<1>8. ASSUME NEW r \in flight, Process(r) PROVE Guards'
  <2>1. PICK o \in Outcomes \ {"none"} :
          flight' = (flight \ {r}) \cup {[r EXCEPT !.outcome = o,
                        !.days = IF r.kind = "load" THEN pref[r.of] ELSE r.days]}
    BY <1>8 DEF Process
  <2> DEFINE q == [r EXCEPT !.outcome = o,
                            !.days = IF r.kind = "load" THEN pref[r.of] ELSE r.days]
  <2>2. q.kind = r.kind /\ q.of = r.of /\ q.current = r.current /\ q.review = r.review
        /\ q.at = r.at /\ (r.kind # "load" => q.days = r.days)
    BY <1>1 DEF RequestType
  <2>3. flight' = (flight \ {r}) \cup {q}
    BY <2>1
  <2> HIDE DEF q
  <2> QED
    BY <1>8, <2>2, <2>3, WaitGuards DEF Process, page, shown
<1>9. ASSUME NEW r \in flight, Answer(r) PROVE Guards'
  BY <1>9, AnswerGuards
<1>10. ASSUME NEW r \in flight, Abort(r) PROVE Guards'
  <2> DEFINE q == [r EXCEPT !.outcome = "failed"]
  <2>1. q.kind = r.kind /\ q.of = r.of /\ q.current = r.current /\ q.review = r.review
        /\ q.at = r.at /\ q.days = r.days
    BY <1>1 DEF RequestType
  <2>2. flight' = (flight \ {r}) \cup {q}
    BY <1>10 DEF Abort
  <2> HIDE DEF q
  <2> QED
    BY <1>10, <2>1, <2>2, WaitGuards DEF Abort, page, shown
<1>11. ASSUME NEW o \in orphans, ProcessOrphan(o) PROVE Guards'
  BY <1>1, <1>11, QuietGuards DEF ProcessOrphan, page, shown
<1>12. CASE Tick
  BY <1>1, <1>12, QuietGuards DEF Tick, shown
<1>13. CASE ExpirePreview
  BY <1>1, <1>2, <1>13, InvalidateGuards DEF ExpirePreview, page, shown
<1>14. CASE ShowSection
  <2>1. reload' <= switches' /\ UNCHANGED <<base, source, uncertain>>
    BY <1>1, <1>14 DEF ShowSection, shown
  <2>2. CASE section
    BY <1>2, <1>14, <2>1, <2>2, InvalidateGuards DEF ShowSection
  <2>3. CASE ~section /\ ~panel.busy
    BY <1>14, <2>1, <2>3, StartLoadGuards DEF ShowSection
  <2>4. CASE ~section /\ panel.busy
    BY <1>14, <2>1, <2>4, QuietGuards DEF ShowSection
  <2> QED
    BY <2>2, <2>3, <2>4
<1>15. ASSUME NEW b \in Bases, SaveApiBase(b) PROVE Guards'
  <2>1. panel'.busy = panel.busy /\ ~panel'.loaded
    BY <1>1, <1>15 DEF PanelType, SaveApiBase, Cleared, Unloaded
  <2>2. reload' <= switches'
    BY <1>1, <1>15 DEF SaveApiBase
  <2> QED
    BY <1>15, <2>1, <2>2, InvalidateGuards DEF SaveApiBase, shown
<1>16. CASE LoadDashboard
  <2>1. reload' <= switches' /\ UNCHANGED <<base, source, uncertain>>
    BY <1>1, <1>16 DEF LoadDashboard, shown
  <2>2. CASE section /\ ~panel.busy
    BY <1>16, <2>1, <2>2, StartLoadGuards DEF LoadDashboard
  <2>3. CASE ~(section /\ ~panel.busy)
    BY <1>16, <2>1, <2>3, QuietGuards DEF LoadDashboard
  <2> QED
    BY <2>2, <2>3
<1>17. CASE UNCHANGED vars
  BY <1>1, <1>17, QuietGuards DEF vars
<1> QED
  BY <1>3, <1>4, <1>5, <1>6, <1>7, <1>8, <1>9, <1>10, <1>11, <1>12, <1>13, <1>14, <1>15,
     <1>16, <1>17 DEF Next

-----------------------------------------------------------------------------
(* The theorems.                                                           *)

\* The conjuncts of IInv hold in every reachable state of the panel.
THEOREM PanelInvariance == Spec => []IInv
<1>1. IInv /\ [Next]_vars => IInv'
  <2> SUFFICES ASSUME IInv, [Next]_vars PROVE IInv'
    OBVIOUS
  <2>1. TypeOK' /\ Guards'
    BY TypeStep, GuardsStep
  <2> QED
    BY <2>1 DEF IInv, Guards
<1> QED
  BY <1>1, InitIInv, PTL DEF Spec

\* Every variable of the panel has its type.
THEOREM PanelTypeCorrect == Spec => []TypeOK
<1>1. IInv => TypeOK
  BY DEF IInv
<1> QED
  BY <1>1, PanelInvariance, PTL

\* A save on its way was reviewed: the submit handler of the retention form
\* (dashboard.js) sends the choice whose impact at this very base was on display
\* less than Expiry before.
THEOREM SavesAreReviewed == Spec => []SavedAsReviewed
<1>1. IInv => SavedAsReviewed
  BY DEF IInv
<1> QED
  BY <1>1, PanelInvariance, PTL

\* A review that previewRetention (dashboard.js) leaves on display belongs to the loaded
\* preference, the selected choice and the base in use.
THEOREM ReviewsAreUsable == Spec => []ReviewUsable
<1>1. IInv => ReviewUsable
  BY DEF IInv
<1> QED
  BY <1>1, PanelInvariance, PTL

\* The preference that loadRetention and the submit handler put on display came
\* from the base in use, and no save to it is left with an unknown outcome.
THEOREM DisplaysAreCertain == Spec => []DisplayCertain
<1>1. IInv => DisplayCertain
  BY DEF IInv, CertainGuard, DisplayCertain
<1> QED
  BY <1>1, PanelInvariance, PTL

=============================================================================
