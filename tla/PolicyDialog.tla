---------------------------- MODULE PolicyDialog -----------------------------
(***************************************************************************)
(* The policy dialogs of the dashboard.  openPolicyDetail fills the detail *)
(* dialog through four requests, one after the other, and wires its        *)
(* buttons last; nothing stops a call when the dialog is closed or opened  *)
(* for another policy.  A dialog covers the list behind it.                *)
(***************************************************************************)
EXTENDS Integers, FiniteSets

CONSTANTS
    Policies,
    Calls,      \* calls of openPolicyDetail that can be in flight
    None,       \* no policy
    MaxClicks   \* bound of the model

VARIABLES
    stored,     \* policies the server has
    call,       \* each call: the answer it waits for and its policy
    detail,     \* the detail dialog: whose title, agents, versions and buttons
    editor,     \* the edit dialog: its target and the policy its fields came from
    saving,     \* the PATCH or POST of the editor in flight
    confirm,    \* the confirmation on display
    sent,       \* confirmed and unconfirmed requests of the detail dialog in flight
    overlapped, \* whether calls have overlapped since the dialog last was quiet (history)
    clicks

dialogVars == <<stored, call, detail, editor, saving, confirm, sent, overlapped, clicks>>

Idle == [at |-> "done", id |-> None]
InFlight == {c \in Calls : call[c] # Idle}

DialogInit ==
    /\ stored = Policies
    /\ call = [c \in Calls |-> Idle]
    /\ detail = [open |-> FALSE, title |-> None, agents |-> None, versions |-> None,
                 buttons |-> None]
    /\ editor = [open |-> FALSE, target |-> None, fields |-> None]
    /\ saving = Idle /\ confirm = Idle /\ sent = Idle
    /\ overlapped = FALSE /\ clicks = 0

Click == clicks < MaxClicks /\ clicks' = clicks + 1

\* What openPolicyDetail does before its first await: the buttons keep their policy.
openPolicyDetail(p) ==
    /\ \E c \in Calls : call[c] = Idle /\ call' = [call EXCEPT ![c] = [at |-> "policy", id |-> p]]
    /\ detail' = [detail EXCEPT !.open = TRUE, !.title = None, !.agents = None,
                                !.versions = None]
    /\ overlapped' = (InFlight # {})

\* Manage in the list.
Manage(p) ==
    /\ ~detail.open /\ ~editor.open /\ confirm = Idle
    /\ Click /\ openPolicyDetail(p)
    /\ UNCHANGED <<stored, editor, saving, confirm, sent>>

Close ==
    /\ detail.open /\ confirm = Idle
    /\ detail' = [detail EXCEPT !.open = FALSE]
    /\ UNCHANGED <<stored, call, editor, saving, confirm, sent, overlapped, clicks>>

-----------------------------------------------------------------------------
(* The answers of a call.                                                  *)

\* The policy: an error ends the call with the title `Error`.
PolicyAnswer(c) ==
    /\ call[c].at = "policy"
    /\ \/ /\ call[c].id \in stored
          /\ detail' = [detail EXCEPT !.title = call[c].id]
          /\ call' = [call EXCEPT ![c].at = "analytics"]
       \/ detail' = [detail EXCEPT !.title = None] /\ call' = [call EXCEPT ![c] = Idle]
    /\ UNCHANGED <<stored, editor, saving, confirm, sent, overlapped, clicks>>

\* Analytics are optional; the agents come from the first answer.
AnalyticsAnswer(c) ==
    /\ call[c].at = "analytics"
    /\ detail' = [detail EXCEPT !.agents = call[c].id]
    /\ call' = [call EXCEPT ![c].at = "agents"]
    /\ UNCHANGED <<stored, editor, saving, confirm, sent, overlapped, clicks>>

AgentsAnswer(c) ==
    /\ call[c].at = "agents"
    /\ call' = [call EXCEPT ![c].at = "versions"]
    /\ UNCHANGED <<stored, detail, editor, saving, confirm, sent, overlapped, clicks>>

\* Mutant: the buttons are wired inside the try block of the versions.
Wired_AfterVersions(d, p, listed) == IF listed THEN p ELSE d.buttons
Wired(d, p, listed) == p

\* The versions, which may fail to load, and the buttons.
VersionsAnswer(c) ==
    /\ call[c].at = "versions"
    /\ \E listed \in BOOLEAN :
        detail' = [detail EXCEPT !.versions = IF listed THEN call[c].id ELSE None,
                                 !.buttons = Wired(detail, call[c].id, listed)]
    /\ call' = [call EXCEPT ![c] = Idle]
    /\ UNCHANGED <<stored, editor, saving, confirm, sent, overlapped, clicks>>

-----------------------------------------------------------------------------
(* The buttons of the dialog.                                              *)

Pressable == detail.open /\ confirm = Idle

\* Edit: the dialog gives way to the editor, filled from the policy as it was loaded.
Edit ==
    /\ Pressable /\ detail.buttons # None /\ Click
    /\ detail' = [detail EXCEPT !.open = FALSE]
    /\ editor' = [open |-> TRUE, target |-> detail.buttons, fields |-> detail.buttons]
    /\ UNCHANGED <<stored, call, saving, confirm, sent, overlapped>>

\* Delete, and Restore in the list of versions, ask first.
Ask ==
    /\ Pressable /\ Click
    /\ \/ detail.buttons # None /\ confirm' = [at |-> "delete", id |-> detail.buttons]
       \/ detail.versions # None /\ confirm' = [at |-> "restore", id |-> detail.versions]
    /\ UNCHANGED <<stored, call, detail, editor, saving, sent, overlapped>>

Cancel ==
    /\ confirm # Idle
    /\ confirm' = Idle
    /\ UNCHANGED <<stored, call, detail, editor, saving, sent, overlapped, clicks>>

\* The confirmation stays until the answer, unless Escape closes it.
Confirm ==
    /\ confirm # Idle /\ sent = Idle
    /\ sent' = confirm
    /\ UNCHANGED <<stored, call, detail, editor, saving, confirm, overlapped, clicks>>

\* Assign, Save version, and Remove in the list of agents.
Change ==
    /\ Pressable /\ sent = Idle /\ Click
    /\ \E p \in {detail.buttons, detail.agents} \ {None} : sent' = [at |-> "change", id |-> p]
    /\ UNCHANGED <<stored, call, detail, editor, saving, confirm, overlapped>>

\* Deleted or restored: the confirmation and whatever detail dialog is open are closed.
Confirmed ==
    /\ sent.at \in {"delete", "restore"} /\ sent.id \in stored
    /\ stored' = IF sent.at = "delete" THEN stored \ {sent.id} ELSE stored
    /\ detail' = [detail EXCEPT !.open = FALSE]
    /\ confirm' = IF confirm = sent THEN Idle ELSE confirm
    /\ sent' = Idle
    /\ UNCHANGED <<call, editor, saving, overlapped, clicks>>

\* Assigned, unassigned, or a version saved: the dialog opens anew, closed or not.
Changed ==
    /\ sent.at = "change" /\ sent.id \in stored
    /\ openPolicyDetail(sent.id)
    /\ sent' = Idle
    /\ UNCHANGED <<stored, editor, saving, confirm, clicks>>

\* An error is shown; a confirmation stays for another try.
Failed ==
    /\ sent # Idle
    /\ sent' = Idle
    /\ UNCHANGED <<stored, call, detail, editor, saving, confirm, overlapped, clicks>>

-----------------------------------------------------------------------------
(* The editor.                                                             *)

NewPolicy ==
    /\ ~detail.open /\ ~editor.open /\ confirm = Idle /\ Click
    /\ editor' = [open |-> TRUE, target |-> None, fields |-> None]
    /\ UNCHANGED <<stored, call, detail, saving, confirm, sent, overlapped>>

closePolicyModal == editor' = [editor EXCEPT !.open = FALSE, !.target = None]

CloseEditor ==
    /\ editor.open /\ closePolicyModal
    /\ UNCHANGED <<stored, call, detail, saving, confirm, sent, overlapped, clicks>>

\* The button is disabled until the answer, the dialog is not.
Save ==
    /\ editor.open /\ saving = Idle
    /\ saving' = [at |-> "save", id |-> editor.target]
    /\ UNCHANGED <<stored, call, detail, editor, confirm, sent, overlapped, clicks>>

\* Saved: the editor that is open now is closed.  An error leaves it.
Saved ==
    /\ saving # Idle /\ saving' = Idle
    /\ closePolicyModal \/ UNCHANGED editor
    /\ UNCHANGED <<stored, call, detail, confirm, sent, overlapped, clicks>>

DialogNext ==
    \/ \E p \in Policies : Manage(p)
    \/ \E c \in Calls : PolicyAnswer(c) \/ AnalyticsAnswer(c) \/ AgentsAnswer(c)
                        \/ VersionsAnswer(c)
    \/ Close \/ Edit \/ Ask \/ Cancel \/ Confirm \/ Change
    \/ Confirmed \/ Changed \/ Failed
    \/ NewPolicy \/ CloseEditor \/ Save \/ Saved

DialogSpec == DialogInit /\ [][DialogNext]_dialogVars

-----------------------------------------------------------------------------
\* A dialog whose calls did not overlap and have ended shows one policy: its title, its
\* agents, its versions if they could be loaded, and what its buttons would change.
SettledDialogAgrees ==
    detail.open /\ InFlight = {} /\ ~overlapped /\ detail.title # None =>
        /\ detail.agents = detail.title /\ detail.buttons = detail.title
        /\ detail.versions \in {None, detail.title}

\* The buttons are wired "for this policy" (dashboard.js:1076), the one the title names.
ButtonsOfShownPolicy ==
    detail.open /\ detail.title # None => detail.buttons \in {None, detail.title}
=============================================================================
