------------------------------ MODULE Tracing --------------------------------
(***************************************************************************)
(* How the SDK integrations link the logs of an agent run: a trace id made *)
(* by the client, and the id of an earlier log as the parent of the next.  *)
(* The Python integrations wait for every answer; the TypeScript handler   *)
(* sends the first log of a trace and goes on.  A request can be stored    *)
(* and its answer lost; the Python client then sends it again.             *)
(***************************************************************************)
EXTENDS Integers, Sequences, FiniteSets

CONSTANTS
    Kinds,      \* of "crewai", "autogpt", "openai", "langchain", "typescript"
    MaxTraces, MaxLogs, MaxFlight   \* bounds of the model

VARIABLES
    kind,       \* the integration
    trace,      \* _trace_id: its number, 0 before the first and after a reset
    root,       \* _root_span_id
    span,       \* _current_span_id; ids are numbers, 0 is none
    traces,     \* ids made so far
    flight,     \* requests under way
    logs,       \* AuditLog, in the order of their ids
    rootOf      \* the root each trace was told, or 0 (history)

vars == <<kind, trace, root, span, traces, flight, logs, rootOf>>

Handler == <<trace, root, span, traces>>
Traces == 1 .. MaxTraces
Ids == DOMAIN logs
Waits == kind # "typescript"

Init ==
    /\ kind \in Kinds
    /\ trace = 0 /\ root = 0 /\ span = 0 /\ traces = 0
    /\ flight = {} /\ logs = <<>>
    /\ rootOf = [t \in Traces |-> 0]

----------------------------------------------------------------------------
(* Sending.                                                                *)

\* A request: role says what its answer is used for; linked is history.
Request(t, p, role) ==
    [trace |-> t, parent |-> p, role |-> role, stored |-> 0,
     linked |-> t # 0 /\ role # "root" /\ rootOf[t] # 0]

Ready(n) ==
    /\ IF Waits THEN flight = {} ELSE Cardinality(flight) + n <= MaxFlight
    /\ Len(logs) + Cardinality({r \in flight : r.stored = 0}) + n <= MaxLogs

\* The span a new trace begins with, until its first log is answered.
\* AgentAuditAutoGPT makes an object for each trace, the others keep theirs.
SpanAtStart == IF kind = "autogpt" THEN 0 ELSE span

Send(requests) == flight' = flight \cup requests /\ UNCHANGED <<kind, logs, rootOf>>

\* on_crew_start and start_trace at every run; _start_trace only at the first.
StartTrace ==
    /\ Waits /\ Ready(1) /\ traces < MaxTraces
    /\ kind \in {"openai", "langchain"} => trace = 0
    /\ traces' = traces + 1 /\ trace' = traces'
    /\ span' = SpanAtStart /\ root' = IF kind = "autogpt" THEN 0 ELSE root
    /\ Send({Request(trace', 0, "root")})

\* A step.  The CrewAI callbacks do not ask whether a crew was started, the others
\* begin a trace first.
Stepping == Ready(1) /\ (kind # "crewai" => trace # 0) /\ UNCHANGED Handler

\* An event whose log becomes the current span: a start, an agent's action.
Event == Waits /\ Stepping /\ Send({Request(trace, span, "event")})

\* The end of a step, which goes through the guardrail or is only logged.
EndOfStep ==
    /\ Waits /\ Stepping
    /\ \E role \in {"guarded", "logged"} : Send({Request(trace, span, role)})

\* startTrace of the TypeScript handler makes the id and does not wait for the log.
startTrace ==
    /\ trace = 0 /\ traces < MaxTraces
    /\ traces' = traces + 1 /\ trace' = traces'
    /\ UNCHANGED <<root, span>>

\* A start handler, or handleAgentAction, with the first event of its trace or a later one.
handleFirstStart ==
    /\ ~Waits /\ Ready(2) /\ startTrace
    /\ Send({Request(trace', 0, "root"), Request(trace', span, "event")})

handleStart == ~Waits /\ Stepping /\ Send({Request(trace, span, "event")})

\* log and guardrail of the TypeScript client: one POST.
log(role) == Send({Request(trace, span, role)})
guardrail == log("guarded")

\* An end handler with the option guard; an error handler, or without the option.
handleEnd == ~Waits /\ Stepping /\ guardrail
handleError == ~Waits /\ Stepping /\ log("logged")

\* Mutant: the end of a run is logged without a parent.
FinishParent_None == 0
FinishParent == root

\* on_crew_end and finish hang the end below the root.
Finish ==
    /\ kind \in {"crewai", "autogpt"} /\ Stepping
    /\ Send({Request(trace, FinishParent, "finish")})

----------------------------------------------------------------------------
(* The server and the network.                                             *)

Store(r) ==
    /\ r \in flight /\ r.stored = 0
    /\ logs' = Append(logs, [trace |-> r.trace, parent |-> r.parent, linked |-> r.linked])
    /\ flight' = (flight \ {r}) \cup {[r EXCEPT !.stored = Len(logs')]}
    /\ UNCHANGED <<kind, rootOf>> /\ UNCHANGED Handler

\* _make_retry: after a 502, 503 or 504 the Python client posts again, although
\* the log may be stored already; axios does not.
Retry(r) ==
    /\ Waits /\ r \in flight /\ r.stored # 0 /\ Len(logs) < MaxLogs
    /\ flight' = (flight \ {r}) \cup {[r EXCEPT !.stored = 0]}
    /\ UNCHANGED <<kind, logs, rootOf>> /\ UNCHANGED Handler

----------------------------------------------------------------------------
(* Answers.                                                                *)

SpanOfRoot(id) == id

AnswerRoot(r) ==
    /\ r.role = "root"
    /\ root' = r.stored /\ span' = SpanOfRoot(r.stored)
    /\ rootOf' = [rootOf EXCEPT ![r.trace] = r.stored]
    /\ UNCHANGED trace

updateSpan(id) == span' = id

\* What a step's end leaves as current span: CrewAI moves it also for a blocked
\* output, OpenAI and AutoGPT for one that was let through, LangChain never.
AfterEnd(r, allowed) ==
    IF kind = "crewai" \/ (kind \in {"openai", "autogpt"} /\ allowed) THEN r.stored ELSE span

AnswerStep(r) ==
    /\ \/ r.role = "event" /\ updateSpan(r.stored)
       \/ r.role = "guarded" /\ \E allowed \in BOOLEAN : span' = AfterEnd(r, allowed)
       \/ r.role = "logged" /\ span' = AfterEnd(r, TRUE)
    /\ UNCHANGED <<trace, root, rootOf>>

Reset == trace' = 0 /\ root' = 0 /\ span' = 0

\* _reset_trace of CrewAI runs in a finally block: blocked, failed or not.  An
\* AutoGPT trace object stays as it is, and finish may be called on it again.
AfterFinish ==
    /\ IF kind = "crewai" THEN Reset ELSE UNCHANGED <<trace, root, span>>
    /\ UNCHANGED rootOf

Answer(r) ==
    /\ r \in flight /\ r.stored # 0
    /\ flight' = flight \ {r}
    /\ AnswerRoot(r) \/ AnswerStep(r) \/ (r.role = "finish" /\ AfterFinish)
    /\ UNCHANGED <<kind, traces, logs>>

\* An error, of which the server may know nothing: the callback raises.  Without its
\* first log there is no AutoGPT trace object; the others keep the trace id.
Fail(r) ==
    /\ r \in flight
    /\ flight' = flight \ {r}
    /\ IF r.role = "finish" THEN AfterFinish
       ELSE /\ IF r.role = "root" /\ kind = "autogpt" THEN Reset
               ELSE UNCHANGED <<trace, root, span>>
            /\ UNCHANGED rootOf
    /\ UNCHANGED <<kind, traces, logs>>

\* Nobody handles the rejection of startTrace's log: the process may end by it, and what
\* was under way is not answered.
Unhandled(r) ==
    /\ ~Waits /\ r \in flight /\ r.role = "root"
    /\ flight' = {} /\ Reset
    /\ UNCHANGED <<kind, traces, logs, rootOf>>

Next ==
    \/ StartTrace \/ Event \/ EndOfStep \/ Finish
    \/ handleFirstStart \/ handleStart \/ handleEnd \/ handleError
    \/ \E r \in flight : Store(r) \/ Retry(r) \/ Answer(r) \/ Fail(r) \/ Unhandled(r)

Spec == Init /\ [][Next]_vars

----------------------------------------------------------------------------
\* getChain: a log and everything below it, by parentSpanId.  The queue is empty when the
\* children of every log in it are in it: the smallest set of this kind is what it visited.
Closed(S) == \A i \in Ids : logs[i].parent \in S => i \in S
getChain(id) == {i \in Ids : \A S \in SUBSET Ids : id \in S /\ Closed(S) => i \in S}

\* GET /audit-logs/:id/chain on the root of a run reconstructs it: once the root's
\* id was told, every log the Python integrations send for that trace hangs below
\* it, with requests failing, repeated, and runs aborted without their end.
ChainComplete ==
    Waits => \A i \in Ids : logs[i].linked => i \in getChain(rootOf[logs[i].trace])
=============================================================================
