------------------------------ MODULE RateLimit ------------------------------
(***************************************************************************)
(* PrismaRateLimitStore under the limiter for logins: fixed windows, one   *)
(* row for each, and a hit that is taken back when the request turns out   *)
(* successful (skipSuccessfulRequests of express-rate-limit, a library).   *)
(***************************************************************************)
EXTENDS Integers, FiniteSets

CONSTANTS
    Requests,
    Max,            \* requests a window lets through
    NotHit,          \* of a window without a hit
    MaxWindow       \* bound of the model: last window

VARIABLES
    window,         \* the window the clock is in
    count,          \* the row of each window, or NotHit
    request,        \* state of each request, and the window of its hit
    opened,         \* hits the database failed to count, by window (history)
    carried         \* hits taken back from a later window, by window (history)

vars == <<window, count, request, opened, carried>>

Windows == 0 .. MaxWindow

Init ==
    /\ window = 0
    /\ count = [w \in Windows |-> NotHit]
    /\ request = [r \in Requests |-> [state |-> "idle", at |-> 0]]
    /\ opened = [w \in Windows |-> 0] /\ carried = [w \in Windows |-> 0]

Refused(hits) == hits > Max

\* increment; without a database the request passes as the first of its window.
Hit(r) ==
    /\ request[r].state = "idle"
    /\ \/ LET hits == IF count[window] = NotHit THEN 1 ELSE count[window] + 1
          IN  /\ count' = [count EXCEPT ![window] = hits]
              /\ request' = [request EXCEPT ![r] =
                    [state |-> IF Refused(hits) THEN "refused" ELSE "running", at |-> window]]
              /\ UNCHANGED opened
       \/ /\ request' = [request EXCEPT ![r] = [state |-> "running", at |-> window]]
          /\ opened' = [opened EXCEPT ![window] = @ + 1]
          /\ UNCHANGED count
    /\ UNCHANGED <<window, carried>>

\* Mutant: every response takes its hit back.
TakenBack_Any(state) == TRUE
TakenBack(state) == state = "succeeded"

\* The response; decrement works on the window of this moment, and an error or a
\* missing row is ignored.
Respond(r) ==
    /\ request[r].state = "running"
    /\ \E state \in {"succeeded", "failed"} :
        /\ request' = [request EXCEPT ![r].state = state]
        /\ \/ /\ TakenBack(state) /\ count[window] # NotHit
              /\ count' = [count EXCEPT ![window] = @ - 1]
              /\ carried' = IF request[r].at < window
                            THEN [carried EXCEPT ![window] = @ + 1] ELSE carried
           \/ UNCHANGED <<count, carried>>
    /\ UNCHANGED <<window, opened>>

NextWindow ==
    /\ window < MaxWindow /\ window' = window + 1
    /\ UNCHANGED <<count, request, opened, carried>>

Next == (\E r \in Requests : Hit(r) \/ Respond(r)) \/ NextWindow

Spec == Init /\ [][Next]_vars

----------------------------------------------------------------------------
Pending(w) ==
    Cardinality({r \in Requests : request[r].at = w /\ request[r].state \in {"running", "failed"}})

\* Of the requests of one window no more than the limit fail or still run, but
\* for those the database did not count and for the hits of earlier requests that
\* were taken back from this window.
FailuresBounded == \A w \in Windows : Pending(w) <= Max + opened[w] + carried[w]
=============================================================================
