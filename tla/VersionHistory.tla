---------------------------- MODULE VersionHistory ----------------------------
(***************************************************************************)
(* What the versions of a policy promise, with no calls, statements or     *)
(* rows: a policy says something until it is deleted, and its history      *)
(* grows number by number.  A new entry has columns and rules the policy   *)
(* had while a call that is still at work was running, though not always   *)
(* at one moment; it keeps its number and content, and goes with the       *)
(* policy for good.                                                        *)
(***************************************************************************)
EXTENDS Naturals, FiniteSets

CONSTANT Gone

VARIABLES
    said,     \* what the policy says, or Gone
    recent,   \* what it said since the calls now at work began
    history   \* the saved versions

record == <<said, recent, history>>

Init == said # Gone /\ recent = {} /\ history = {}

\* Calls come and go, and what the policy says changes.
Work ==
    /\ said' = Gone <=> said = Gone
    /\ recent' \subseteq recent \cup {said, said'}
    /\ UNCHANGED history

Save ==
    /\ said # Gone
    /\ \E x, y \in recent \ {Gone} :
        history' = history \cup {[nr |-> Cardinality(history) + 1,
                                  content |-> [meta |-> x.meta, rules |-> y.rules]]}
    /\ recent' \subseteq recent
    /\ UNCHANGED said

Remove ==
    /\ said # Gone /\ said' = Gone
    /\ recent' \subseteq recent \cup {Gone}
    /\ history' = {}

Next == Work \/ Save \/ Remove

Spec == Init /\ [][Next]_record
=============================================================================
