------------------------------ MODULE MCProgress ------------------------------
(* The dashboard for TLC (RetentionPanel, PolicyDialog, Console) beside       *)
(* EmailDelivery, the other component with a loop that has to come to an end. *)
(* They share no variable, so one run explores them side by side: the initial *)
(* state says which one runs and the others rest in one initial state.        *)
EXTENDS RetentionPanel

CONSTANTS
    Sends, Keyed, EventTypes, MaxAttempts,
    Policies, Calls, DialogClicks,
    Sections, Pages, MaxLoads, MaxClicks

VARIABLES
    which,
    configured, pc, call, rows, accepted, erased,
    policies, calls, detail, editor, saving, confirm, sent, crossed, pressed,
    version, change, confirmed, loads, displayed, loaded, filter, logs, overlay, signedIn,
    overlapped, clicks

\* With its proofs, whose theorems MCProgressProofs restates for this composition.
Email == INSTANCE EmailDeliveryProofs
Dialog == INSTANCE PolicyDialog WITH
    stored <- policies, call <- calls, overlapped <- crossed, clicks <- pressed,
    MaxClicks <- DialogClicks
Lists == INSTANCE Console WITH shown <- displayed

emailVars == <<configured, pc, call, rows, accepted, erased>>
dialogVars == <<policies, calls, detail, editor, saving, confirm, sent, crossed, pressed>>
listVars == <<version, change, confirmed, loads, displayed, loaded, filter, logs, overlay,
              signedIn, overlapped, clicks>>
allVars == <<which, vars, emailVars, dialogVars, listVars>>

Pin(part, initial) == which # part => initial

MCInit ==
    /\ which \in {"panel", "email", "dialog", "lists"}
    /\ Init /\ Email!Init /\ Dialog!DialogInit /\ Lists!ConsoleInit
    /\ Pin("email", configured)
    /\ Pin("panel", base = CHOOSE b \in Bases : TRUE)
    /\ Pin("panel", \A b \in Bases : pref[b] = CHOOSE d \in Choices : TRUE)

MCNext ==
    \/ which = "panel" /\ Next /\ UNCHANGED <<which, emailVars, dialogVars, listVars>>
    \/ which = "email" /\ Email!Next /\ UNCHANGED <<which, vars, dialogVars, listVars>>
    \/ /\ which = "dialog" /\ Dialog!DialogNext
       /\ UNCHANGED <<which, vars, emailVars, listVars>>
    \/ /\ which = "lists" /\ Lists!ConsoleNext
       /\ UNCHANGED <<which, vars, emailVars, dialogVars>>

PanelRuns == which = "panel" /\ Settle /\ UNCHANGED <<which, emailVars, dialogVars, listVars>>
SendRuns(s) ==
    /\ which = "email" /\ pc[s] \in Email!Working /\ Email!Step(s)
    /\ UNCHANGED <<which, vars, dialogVars, listVars>>

MCSpec ==
    /\ MCInit /\ [][MCNext]_allVars
    /\ WF_allVars(PanelRuns)
    /\ \A s \in Sends : WF_allVars(SendRuns(s))

\* The status of a row is one its send or the provider reported; see EmailDelivery.
StatusHonest == Email!StatusHonest

\* A duplicate stands on a row that was sent or is being sent; see EmailDelivery.
DuplicateBacked == Email!DuplicateBacked

\* A second mail for one key leaves no second row; see EmailDelivery.
SecondMailUnrecorded == Email!SecondMailUnrecorded

\* The provider's report is not overwritten by the sender; see EmailDelivery.
ProviderHasLastWord == Email!ProviderHasLastWord

\* Every send ends; see EmailDelivery.
SendEnds == Email!SendEnds

\* A policy's dialog that has settled shows and changes one policy; see PolicyDialog.
SettledDialogAgrees == Dialog!SettledDialogAgrees

\* A quiet list shows what the page was told of; see Console.
ListsTruthful == Lists!ListsTruthful
=============================================================================
