--------------------------- MODULE RetentionPanel ---------------------------
(***************************************************************************)
(* The retention settings of the web console (src/website/dashboard.js): a *)
(* preference is loaded, its impact is previewed, acknowledged and saved,  *)
(* while requests are slow or lost, previews expire, the user leaves the   *)
(* section and the API base changes under a request.  The counter          *)
(* retention.revision is only ever compared for equality, so a request     *)
(* carries `current`: nothing was invalidated since it was sent.           *)
(***************************************************************************)
EXTENDS Integers, FiniteSets

CONSTANTS
    Bases,      \* API bases the console can be pointed at
    Choices,    \* retention preferences
    None,       \* no preview, no timer
    Expiry,     \* how long a preview counts (5 minutes)
    MaxTime,    \* bounds of the model: clock,
    MaxSwitch   \* saves of the API base and navigations

ASSUME PanelAssumption ==
    /\ Bases # {} /\ Choices # {} /\ None \notin Choices
    /\ Expiry \in Nat \ {0} /\ {MaxTime, MaxSwitch} \subseteq Nat

VARIABLES
    now,        \* clock of the browser
    base,       \* API
    section,    \* currentSection is "settings"
    panel,      \* the retention object and the form
    preview,    \* retention.preview, with the base it came from (history)
    flight,     \* requests the page waits for
    orphans,    \* saves the page gave up on and a server may still process
    pref,       \* the preference stored at every base
    source,     \* base of the preference on display (history)
    uncertain,  \* bases with a save of unknown outcome (history)
    reload,     \* loadDashboard timers not fired yet
    switches

vars == <<now, base, section, panel, preview, flight, orphans, pref, source,
          uncertain, reload, switches>>

server == <<orphans, pref>>
shown == <<source, uncertain>>
page == <<now, base, section, reload, switches>>

Previews == [days : Choices, at : 0 .. MaxTime, of : Bases]
Outcomes == {"none", "ok", "refused", "failed"}

Init ==
    /\ now = 0 /\ section = FALSE /\ reload = 0 /\ switches = 0
    /\ base \in Bases
    /\ \E d \in Choices : pref = [b \in Bases |-> d]
    /\ panel = [loaded |-> FALSE, busy |-> FALSE, days |-> pref[base],
                ack |-> FALSE, reloadable |-> FALSE]
    /\ preview = None /\ flight = {} /\ orphans = {}
    /\ source = base /\ uncertain = {}

----------------------------------------------------------------------------

\* The panel p without its review; the password goes with the acknowledgement.
Cleared(p) == [p EXCEPT !.ack = FALSE]

\* Requests under way after invalidateRetentionPreview.
Outdated(requests) == {[r EXCEPT !.current = FALSE] : r \in requests}

\* A request of the page; review and at are history.
Request(kind, days) ==
    [kind |-> kind, days |-> days, of |-> base, current |-> TRUE,
     outcome |-> "none", review |-> IF kind = "save" THEN preview ELSE None,
     at |-> IF kind = "save" THEN now ELSE 0]

\* What loadRetention does before its request, to the panel and the requests r.
StartLoad(r) ==
    /\ preview' = None
    /\ panel' = Cleared([panel EXCEPT !.busy = TRUE, !.loaded = FALSE])
    /\ flight' = Outdated(r) \cup {Request("load", panel.days)}

\* loadRetention, from the reload button or a visit of the section.
LoadRetention ==
    /\ ~panel.busy /\ section /\ panel.reloadable
    /\ StartLoad(flight)
    /\ UNCHANGED <<server, shown, page>>

\* previewRetention up to its request.
PreviewRetention ==
    /\ section /\ panel.loaded /\ ~panel.busy
    /\ preview' = None
    /\ panel' = Cleared([panel EXCEPT !.busy = TRUE])
    /\ flight' = Outdated(flight) \cup {Request("preview", panel.days)}
    /\ UNCHANGED <<server, shown, page>>

\* Mutant: only the choice is compared, the expiry is left to the timer.
Reviewed_NoExpiry == preview # None /\ preview.days = panel.days
Reviewed ==
    preview # None /\ preview.days = panel.days /\ now - preview.at < Expiry

\* The form is submitted: a save is sent, or the stale review is dropped.
Save ==
    /\ section /\ panel.loaded /\ ~panel.busy
    /\ \/ /\ Reviewed /\ panel.ack
          /\ panel' = [panel EXCEPT !.busy = TRUE]
          /\ flight' = flight \cup {Request("save", panel.days)}
          /\ UNCHANGED <<preview, shown>>
       \/ /\ ~Reviewed /\ preview # None
          /\ preview' = None
          /\ panel' = Cleared(panel)
          /\ flight' = Outdated(flight)
          /\ UNCHANGED shown
    /\ UNCHANGED <<server, page>>

\* Another choice; acknowledging.
ChangeDays(d) ==
    /\ section /\ panel.loaded /\ ~panel.busy /\ d # panel.days
    /\ panel' = Cleared([panel EXCEPT !.days = d])
    /\ preview' = None
    /\ flight' = Outdated(flight)
    /\ UNCHANGED <<server, shown, page>>

Acknowledge ==
    /\ section /\ panel.loaded /\ ~panel.busy /\ preview # None /\ ~panel.ack
    /\ panel' = [panel EXCEPT !.ack = TRUE]
    /\ UNCHANGED <<preview, flight, server, shown, page>>

----------------------------------------------------------------------------
(* The servers.                                                            *)

Process(r) ==
    /\ r \in flight /\ r.outcome = "none"
    /\ \E o \in Outcomes \ {"none"} :
        /\ flight' = (flight \ {r}) \cup {[r EXCEPT !.outcome = o,
             !.days = IF r.kind = "load" THEN pref[r.of] ELSE r.days]}
        /\ \/ pref' = [pref EXCEPT ![r.of] = r.days] /\ r.kind = "save" /\ o \in {"ok", "failed"}
           \/ UNCHANGED pref /\ (r.kind = "save" => o # "ok")
    /\ UNCHANGED <<panel, preview, orphans, shown, page>>

ProcessOrphan(o) ==
    /\ o \in orphans
    /\ orphans' = orphans \ {o}
    /\ pref' = [pref EXCEPT ![o.of] = o.days]
    /\ UNCHANGED <<panel, preview, flight, shown, page>>

----------------------------------------------------------------------------
(* Answers.  With another API base nothing of the answer is applied, and   *)
(* the finally block loads the preference again.                           *)

Here(r) == r.of = base

\* The finally block, with the panel and the review that catch or try leave.
Finally(r, p, v) ==
    \/ /\ r.of # base /\ section
       /\ preview' = None
       /\ panel' = Cleared([p EXCEPT !.busy = TRUE, !.loaded = FALSE])
       /\ flight' = Outdated(flight \ {r}) \cup {Request("load", p.days)}
    \/ /\ r.of = base \/ ~section
       /\ preview' = v
       /\ panel' = [p EXCEPT !.busy = FALSE]
       /\ flight' = flight \ {r}

\* applyRetentionPreference
Applied(p, days) == [p EXCEPT !.days = days, !.loaded = TRUE, !.reloadable = FALSE]

AnswerLoad(r) ==
    /\ r.kind = "load"
    /\ \/ /\ r.outcome = "ok" /\ Here(r)
          /\ Finally(r, Applied(panel, r.days), preview)
          /\ source' = r.of /\ uncertain' = uncertain \ {r.of}
       \/ /\ r.outcome # "ok" /\ Here(r)
          /\ Finally(r, [panel EXCEPT !.reloadable = TRUE], preview)
          /\ UNCHANGED shown
       \/ ~Here(r) /\ Finally(r, panel, preview) /\ UNCHANGED shown

\* Mutant: the answer to a preview that was invalidated is shown.
Fresh_Late(r) == Here(r)
Fresh(r) == Here(r) /\ r.current

AnswerPreview(r) ==
    /\ r.kind = "preview"
    /\ \/ /\ r.outcome = "ok" /\ Fresh(r)
          /\ Finally(r, panel, [days |-> r.days, at |-> now, of |-> r.of])
       \/ (r.outcome # "ok" \/ ~Fresh(r)) /\ Finally(r, panel, preview)
    /\ UNCHANGED shown

\* Mutant: an error without a status counts as a refusal.
Definite_Any(r) == r.outcome # "ok"
\* The server refused for sure: neither 401 nor 5xx nor no status at all.
Definite(r) == r.outcome = "refused"

AnswerSave(r) ==
    /\ r.kind = "save"
    /\ \/ /\ Here(r) /\ r.outcome = "ok"
          /\ Finally(r, Cleared(Applied(panel, r.days)), None)
          /\ source' = r.of /\ UNCHANGED uncertain
       \/ /\ Here(r) /\ Definite(r)
          /\ Finally(r, [panel EXCEPT !.ack = FALSE], preview)
          /\ uncertain' = IF r.outcome = "refused" THEN uncertain ELSE uncertain \cup {r.of}
          /\ UNCHANGED source
       \/ /\ Here(r) /\ r.outcome # "ok" /\ ~Definite(r)
          /\ Finally(r, Cleared([panel EXCEPT !.loaded = FALSE, !.reloadable = TRUE]), None)
          /\ uncertain' = uncertain \cup {r.of} /\ UNCHANGED source
       \/ /\ ~Here(r) /\ Finally(r, panel, preview)
          /\ uncertain' = uncertain \cup {r.of} /\ UNCHANGED source

Answer(r) ==
    /\ r \in flight /\ r.outcome # "none"
    /\ AnswerLoad(r) \/ AnswerPreview(r) \/ AnswerSave(r)
    /\ UNCHANGED <<server, page>>

\* Mutant: the timer only ends requests that were answered.
Waiting_Answered(r) == r.outcome \in {"ok", "refused"}
Waiting(r) == r.outcome # "failed"

\* retentionRequest aborts after 15 seconds, or the connection fails: the page
\* gets an error without a status, whatever the server did or will do.
Abort(r) ==
    /\ r \in flight /\ Waiting(r)
    /\ flight' = (flight \ {r}) \cup {[r EXCEPT !.outcome = "failed"]}
    /\ orphans' = IF r.kind = "save" /\ r.outcome = "none"
                  THEN orphans \cup {[of |-> r.of, days |-> r.days]} ELSE orphans
    /\ UNCHANGED <<panel, preview, pref, shown, page>>

----------------------------------------------------------------------------
(* Time, navigation, API base.                                             *)

\* The clock; the timer of a preview fires at its end or later, or not at all
\* while the tab is asleep.
Tick ==
    /\ now < MaxTime /\ now' = now + 1
    /\ UNCHANGED <<base, section, panel, preview, flight, server, shown, reload, switches>>

ExpirePreview ==
    /\ preview # None /\ now - preview.at >= Expiry
    /\ preview' = None
    /\ panel' = Cleared(panel)
    /\ flight' = Outdated(flight)
    /\ UNCHANGED <<server, shown, page>>

\* showSection: leaving drops the review, a visit loads unless busy.
ShowSection ==
    /\ switches < MaxSwitch /\ switches' = switches + 1
    /\ section' = ~section
    /\ \/ /\ section
          /\ preview' = None /\ panel' = Cleared(panel) /\ flight' = Outdated(flight)
       \/ ~section /\ ~panel.busy /\ StartLoad(flight)
       \/ ~section /\ panel.busy /\ UNCHANGED <<panel, preview, flight>>
    /\ UNCHANGED <<now, base, reload, server, shown>>

Unloaded(p) == [p EXCEPT !.loaded = FALSE]

\* btn-save-api-base; the dashboard is loaded again 800 ms later.
SaveApiBase(b) ==
    /\ section /\ switches < MaxSwitch /\ switches' = switches + 1
    /\ base' = b
    /\ preview' = None /\ panel' = Cleared(Unloaded(panel)) /\ flight' = Outdated(flight)
    /\ reload' = reload + 1
    /\ UNCHANGED <<now, section, server, shown>>

LoadDashboard ==
    /\ reload > 0 /\ reload' = reload - 1
    /\ \/ section /\ ~panel.busy /\ StartLoad(flight)
       \/ ~(section /\ ~panel.busy) /\ UNCHANGED <<panel, preview, flight>>
    /\ UNCHANGED <<now, base, section, switches, server, shown>>

Next ==
    \/ LoadRetention \/ PreviewRetention \/ Save \/ Acknowledge
    \/ \E d \in Choices : ChangeDays(d)
    \/ \E r \in flight : Process(r) \/ Answer(r) \/ Abort(r)
    \/ \E o \in orphans : ProcessOrphan(o)
    \/ Tick \/ ExpirePreview \/ ShowSection \/ LoadDashboard
    \/ \E b \in Bases : SaveApiBase(b)

\* An abort or an answer ends the wait for a request: the 15-second timer and
\* the promise callbacks run.  Servers, users and timers of previews may not.
Settle == \E r \in flight : Answer(r) \/ Abort(r)
Spec == Init /\ [][Next]_vars
FairSpec == Spec /\ WF_vars(Settle)

----------------------------------------------------------------------------
TypeOK ==
    /\ now \in 0 .. MaxTime /\ base \in Bases /\ section \in BOOLEAN
    /\ panel \in [loaded : BOOLEAN, busy : BOOLEAN, days : Choices,
                  ack : BOOLEAN, reloadable : BOOLEAN]
    /\ preview \in Previews \cup {None}
    /\ flight \subseteq [kind : {"load", "preview", "save"}, days : Choices, of : Bases,
                         current : BOOLEAN, outcome : Outcomes,
                         review : Previews \cup {None}, at : 0 .. MaxTime]
    /\ orphans \subseteq [of : Bases, days : Choices]
    /\ pref \in [Bases -> Choices] /\ source \in Bases /\ uncertain \subseteq Bases
    /\ switches \in 0 .. MaxSwitch /\ reload \in 0 .. MaxSwitch

\* A save on its way was reviewed: the impact of this very choice at this very
\* base was on display less than five minutes before the form was submitted.
SavedAsReviewed ==
    \A r \in flight : r.kind = "save" =>
        /\ r.review # None
        /\ r.review.days = r.days /\ r.review.of = r.of
        /\ r.at - r.review.at < Expiry

\* A review on display belongs to a loaded preference, the selected choice and
\* the API base in use, whatever was invalidated while it was fetched.
ReviewUsable ==
    preview # None =>
        panel.loaded /\ preview.of = base /\ preview.days = panel.days

\* The preference on display came from the base in use, and no save to that
\* base is left with an outcome nobody has looked up since.
DisplayCertain ==
    panel.loaded =>
        /\ source = base
        /\ ~panel.busy => base \notin uncertain

\* The controls come back: the page never waits for one request for ever.
PanelSettles == panel.busy ~> ~panel.busy

\* A request is outstanding exactly while the panel is busy.
OneRequest ==
    /\ panel.busy <=> flight # {}
    /\ \A r, q \in flight : r = q
=============================================================================
