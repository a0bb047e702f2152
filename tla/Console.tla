------------------------------- MODULE Console --------------------------------
(***************************************************************************)
(* The lists of the dashboard: how each is loaded, what a change confirmed *)
(* by the server reloads, the pages of the audit logs, and the chain of    *)
(* requests behind the overview with its error overlay.  Loads of one list *)
(* may overlap; nothing cancels the earlier one.                           *)
(***************************************************************************)
EXTENDS Integers, Sequences

CONSTANTS
    Sections,   \* lists loaded when their section is first shown, with or without "logs"
    Pages,      \* pages of audit logs
    MaxLoads,   \* loads in flight: bound of the model
    MaxClicks   \* bound of the model

\* The lists loaded at the end of the overview.
Below == <<"rules", "packs">>
Lists == {"keys", "rules", "packs"} \cup Sections

VARIABLES
    version,    \* the server's version of each list
    change,     \* the change of each list that the page waits for
    confirmed,  \* the version of the last change the page was told of (history)
    loads,      \* loads in flight, in the order they began
    shown,      \* what each list displays: rows of a version and page, or no rows
    loaded,     \* sectionLoaded
    filter,     \* whether the agents of the logs' filter were loaded
    logs,       \* logsPage, logsTotalPages and the page the controls name
    overlay,    \* the error over the page
    signedIn,
    overlapped, \* lists whose loads overlapped since they last had none (history)
    clicks

consoleVars == <<version, change, confirmed, loads, shown, loaded, filter, logs, overlay,
                 signedIn, overlapped, clicks>>

Has(flying, l) == \E i \in DOMAIN flying : flying[i].list = l
InFlight(l) == Has(loads, l)
Without(i) == [j \in 1 .. Len(loads) - 1 |-> loads[IF j < i THEN j ELSE j + 1]]
Blank == [rows |-> FALSE, seen |-> 0, page |-> 0]

\* A load of a list as it is issued.  The first of the logs asks for the agents before it
\* builds its query; the overview asks for the account first.
FirstStage(l) ==
    CASE l = "keys" -> "me"
      [] l = "logs" /\ ~filter -> "filter"
      [] OTHER -> "sent"

New(l, p) == [list |-> l, at |-> FirstStage(l), seen |-> 0, page |-> p]

Starts(ls, l) == \E i \in DOMAIN ls : ls[i] = l

\* Loads of the lists ls begin after those in flight; all but the overview blank their list
\* at once, and the overview clears the error.
Begin(flying, ls, p, display) ==
    /\ Len(flying) + Len(ls) <= MaxLoads
    /\ loads' = [j \in 1 .. Len(flying) + Len(ls) |->
                    IF j <= Len(flying) THEN flying[j] ELSE New(ls[j - Len(flying)], p)]
    /\ shown' = [l \in Lists |-> IF Starts(ls, l) /\ l # "keys" THEN Blank ELSE display[l]]
    /\ overlay' = IF Starts(ls, "keys") THEN "none" ELSE overlay
    /\ overlapped' = {l \in Lists : IF Starts(ls, l) THEN Has(flying, l) ELSE l \in overlapped}

ConsoleInit ==
    /\ version = [l \in Lists |-> 0] /\ confirmed = version
    /\ change = [l \in Lists |-> "none"]
    /\ loaded = {} /\ filter = FALSE
    /\ logs = [page |-> 1, total |-> 1, label |-> 1]
    /\ loads = <<[list |-> "keys", at |-> "me", seen |-> 0, page |-> 1]>>
    /\ shown = [l \in Lists |-> Blank]
    /\ overlay = "none" /\ signedIn = TRUE
    /\ overlapped = {} /\ clicks = 0

-----------------------------------------------------------------------------
(* The server.                                                             *)

\* A list is read.
Read(i) ==
    /\ loads[i].at = "sent"
    /\ loads' = [loads EXCEPT ![i].at = "read", ![i].seen = version[loads[i].list]]
    /\ UNCHANGED <<version, change, confirmed, shown, loaded, filter, logs, overlay, signedIn,
                   overlapped, clicks>>

\* A change is made.
Apply(l) ==
    /\ change[l] = "sent"
    /\ change' = [change EXCEPT ![l] = "applied"]
    /\ version' = [version EXCEPT ![l] = @ + 1]
    /\ UNCHANGED <<confirmed, loads, shown, loaded, filter, logs, overlay, signedIn,
                   overlapped, clicks>>

-----------------------------------------------------------------------------
(* What the user does.                                                     *)

Click == signedIn /\ overlay = "none" /\ clicks < MaxClicks /\ clicks' = clicks + 1

\* The first visit of a section loads it.
showSection(s) ==
    /\ Click /\ s \notin loaded
    /\ loaded' = loaded \cup {s}
    /\ Begin(loads, <<s>>, logs.page, shown)
    /\ UNCHANGED <<version, change, confirmed, filter, logs, signedIn>>

\* Previous, next, and the filter, which goes back to the first page.
TurnPage ==
    /\ Click /\ "logs" \in loaded
    /\ \E p \in ({logs.page - 1, logs.page + 1} \cap 1..logs.total) \cup {1} :
        logs' = [logs EXCEPT !.page = p] /\ Begin(loads, <<"logs">>, p, shown)
    /\ UNCHANGED <<version, change, confirmed, loaded, filter, signedIn>>

\* The switch for resolved alerts.
ShowResolved ==
    /\ Click /\ "alerts" \in loaded
    /\ Begin(loads, <<"alerts">>, logs.page, shown)
    /\ UNCHANGED <<version, change, confirmed, loaded, filter, logs, signedIn>>

\* A change of a list is sent,
SendChange(l) ==
    /\ Click /\ change[l] = "none"
    /\ change' = [change EXCEPT ![l] = "sent"]
    /\ UNCHANGED <<version, confirmed, loads, shown, loaded, filter, logs, overlay, signedIn,
                   overlapped>>

\* from a dialog that is opened above the list,
Create(l) ==
    /\ l \notin {"logs", "alerts", "packs"}
    /\ l \in Sections => l \in loaded
    /\ SendChange(l)

\* or with a button of one of its rows: revoke, install, remove, delete, resolve.  The
\* logs have none.
PressRow(l) == shown[l].rows /\ l # "logs" /\ SendChange(l)

\* Log out, or the account was deleted.
Leave ==
    /\ Click
    /\ signedIn' = FALSE /\ loads' = <<>>
    /\ UNCHANGED <<version, change, confirmed, shown, loaded, filter, logs, overlay, overlapped>>

\* Retry, where it is offered, or the browser's connection coming back.
Reconnect ==
    /\ signedIn /\ overlay # "none"
    /\ Begin(loads, <<"keys">>, logs.page, shown)
    /\ UNCHANGED <<version, change, confirmed, loaded, filter, logs, signedIn, clicks>>

-----------------------------------------------------------------------------
(* Answers.                                                                *)

\* Mutant: a section is only marked as not loaded, for the next visit.
AfterChange_NextVisit(l) == IF l \in Sections THEN <<>> ELSE <<l>>
AfterChange(l) == <<l>>

\* The page is told that its change was made: the list is loaded again, the keys through
\* the whole overview.  A change of the agents also marks their section as not loaded.
Confirm(l) ==
    /\ signedIn /\ change[l] = "applied"
    /\ change' = [change EXCEPT ![l] = "none"]
    /\ confirmed' = [confirmed EXCEPT ![l] = version[l]]
    /\ loaded' = IF l = "agents" THEN loaded \ {l} ELSE loaded
    /\ Begin(loads, AfterChange(l), logs.page, shown)
    /\ UNCHANGED <<version, filter, logs, signedIn, clicks>>

\* The change is refused, or its answer is lost: a message and no reload.
Refused(l) ==
    /\ signedIn /\ change[l] # "none"
    /\ change' = [change EXCEPT ![l] = "none"]
    /\ UNCHANGED <<version, confirmed, loads, shown, loaded, filter, logs, overlay, signedIn,
                   overlapped, clicks>>

\* The agents of the filter, which are optional; the query is built after them.
FilterAnswer(i) ==
    /\ signedIn /\ loads[i].at = "filter"
    /\ filter' \in {filter, TRUE}
    /\ loads' = [loads EXCEPT ![i].at = "sent", ![i].page = logs.page]
    /\ UNCHANGED <<version, change, confirmed, shown, loaded, logs, overlay, signedIn,
                   overlapped, clicks>>

\* The account, and then the subscription and the counts, whose errors are caught.
MeAnswer(i) ==
    /\ signedIn /\ loads[i].at = "me"
    /\ loads' = [loads EXCEPT ![i].at = "sent"]
    /\ UNCHANGED <<version, change, confirmed, shown, loaded, filter, logs, overlay, signedIn,
                   overlapped, clicks>>

\* An error of the account ends the overview.  An expired session leaves the page; the
\* overlay offers Retry unless the error is a rate limit.
MeError(i) ==
    /\ signedIn /\ loads[i].at = "me"
    /\ \/ signedIn' = FALSE /\ loads' = <<>> /\ UNCHANGED overlay
       \/ signedIn' = signedIn /\ loads' = Without(i) /\ overlay' \in {"retry", "wait"}
    /\ UNCHANGED <<version, change, confirmed, shown, loaded, filter, logs, overlapped, clicks>>

\* The load i is over: its list displays what it read, or that it could not be loaded, and
\* the loads of the lists ls begin.
Blanked(i) == [shown EXCEPT ![loads[i].list] = Blank]
Displayed(i) ==
    [shown EXCEPT ![loads[i].list] = [rows |-> TRUE, seen |-> loads[i].seen, page |-> loads[i].page]]

Ends(i, ls, display) ==
    /\ Begin(Without(i), ls, logs.page, display)
    /\ UNCHANGED <<version, change, confirmed, loaded, filter, signedIn, clicks>>

Answered(i, ls) == \/ loads[i].at = "read" /\ Ends(i, ls, Displayed(i))
                   \/ loads[i].at \in {"sent", "read"} /\ Ends(i, ls, Blanked(i))

\* The keys, the last request of the overview, which goes on to the lists below it.
KeysAnswer(i) ==
    /\ signedIn /\ loads[i].list = "keys"
    /\ Answered(i, Below) /\ UNCHANGED logs

\* The logs of a page; the controls name the current one.
LogsAnswer(i) ==
    /\ signedIn /\ loads[i].list = "logs"
    /\ \/ /\ loads[i].at = "read" /\ Ends(i, <<>>, Displayed(i))
          /\ logs' = [logs EXCEPT !.label = logs.page, !.total = Pages]
       \/ loads[i].at \in {"sent", "read"} /\ Ends(i, <<>>, Blanked(i)) /\ UNCHANGED logs

\* The alerts, reports, policies or agents.
SectionAnswer(i) ==
    /\ signedIn /\ loads[i].list \in Sections \ {"logs"}
    /\ Answered(i, <<>>) /\ UNCHANGED logs

RulesAnswer(i) ==
    /\ signedIn /\ loads[i].list = "rules"
    /\ Answered(i, <<>>) /\ UNCHANGED logs

\* The packs: those that are installed were read, their rules are asked for next.
PacksAnswer(i) ==
    /\ signedIn /\ loads[i].list = "packs"
    /\ \/ /\ loads[i].at = "read" /\ loads' = [loads EXCEPT ![i].at = "rules"]
          /\ UNCHANGED <<version, change, confirmed, shown, loaded, filter, overlay, signedIn,
                         overlapped, clicks>>
       \/ loads[i].at \in {"sent", "read"} /\ Ends(i, <<>>, Blanked(i))
    /\ UNCHANGED logs

\* The rules of the packs, which are optional.
PackRulesAnswer(i) ==
    /\ signedIn /\ loads[i].at = "rules"
    /\ Ends(i, <<>>, Displayed(i)) /\ UNCHANGED logs

ConsoleNext ==
    \/ \E i \in DOMAIN loads :
        \/ Read(i) \/ FilterAnswer(i) \/ MeAnswer(i) \/ MeError(i)
        \/ KeysAnswer(i) \/ LogsAnswer(i) \/ SectionAnswer(i)
        \/ RulesAnswer(i) \/ PacksAnswer(i) \/ PackRulesAnswer(i)
    \/ \E l \in Lists : Apply(l) \/ Create(l) \/ PressRow(l) \/ Confirm(l) \/ Refused(l)
    \/ \E s \in Sections : showSection(s)
    \/ TurnPage \/ ShowResolved \/ Leave \/ Reconnect

ConsoleSpec == ConsoleInit /\ [][ConsoleNext]_consoleVars

-----------------------------------------------------------------------------
\* A list that displays rows, with nothing in flight for it and no error over the page,
\* shows every change the page was told of, and the page its controls name, unless two of
\* its loads overlapped.
ListsTruthful ==
    \A l \in Lists \ overlapped :
        /\ signedIn /\ overlay = "none" /\ shown[l].rows /\ change[l] = "none"
        /\ ~InFlight(l)
        => /\ shown[l].seen >= confirmed[l]
           /\ l = "logs" => shown[l].page = logs.label
=============================================================================
