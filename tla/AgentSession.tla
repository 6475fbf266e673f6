----------------------------- MODULE AgentSession -----------------------------
(***************************************************************************)
(* The Agent Framework: POST /agent/run and run_agent_session, which reads *)
(* the events of a LangGraph ReAct graph.  The graph runs in a task of its *)
(* own and does not wait for its events to be read: a queue lies between.  *)
(* What is read of the orchestrator lies between two events, without an    *)
(* await that waits.  Model and graph are external: a turn of the model    *)
(* calls tools or none, or fails; tools run side by side, between turns.   *)
(* Texts, tool arguments, results, latencies and metrics are left out.     *)
(***************************************************************************)
EXTENDS Integers, Sequences, FiniteSets, SequencesExt

CONSTANTS
    Sessions,
    Tools,       \* the tools of the catalog
    NoTool,      \* a name a model makes up
    MaxSteps,    \* MAX_AGENT_STEPS
    MaxCalls,    \* bound: tool calls of one turn
    MaxCrashes   \* bound: how often the process dies

ASSUME AgentAssumption ==
    /\ MaxSteps \in Nat \ {0} /\ MaxCalls \in Nat /\ MaxCrashes \in Nat
    /\ NoTool \notin Tools

VARIABLES
    handler,   \* the request: new, running, replied, its background task run, lost
    graph,     \* its graph: where it is, the node it is at, the calls of the turn
    queue,     \* events of the graph that are not read yet
    session,   \* step_count and tools_called of run_agent_session
    reply,     \* status and finish_reason
    audit,     \* the audit lines written to stdout
    store,     \* the step records of SessionStore, of the sessions it knows
    crashes

vars == <<handler, graph, queue, session, reply, audit, store, crashes>>

\* A turn of the model and the tools it calls take a node each.
Turn(s) == (graph[s].node + 1) \div 2
\* Mutant: the steps of the agent are taken for those of the graph.
RecursionLimitOfSteps == MaxSteps

RecursionLimit == MaxSteps * 2 + 1

ToolCall == [tool : Tools \cup {NoTool}, at : {"called", "running", "over"}]
Graph == [at : {"none", "model", "tools", "over"}, node : 0..(RecursionLimit + 1), calls : Seq(ToolCall)]
NoGraph == [at |-> "none", node |-> 0, calls |-> << >>]

\* on_chat_model_end, on_tool_start, on_tool_end, the end of the stream, and
\* an exception: one _classify_router_error knows, or another.
Event == [kind : {"model_end", "tool_start", "tool_end", "end", "router_error", "other_error"},
          tool : Tools \cup {NoTool}, turn : Nat]
ToolEvent(kind, tool, s) == [kind |-> kind, tool |-> tool, turn |-> Turn(s)]
PlainEvent(kind, s) == ToolEvent(kind, NoTool, s)

Line == [type : {"agent_session_start", "agent_tool_call", "agent_session_complete", "response_sent"},
         outcome : {"pass", "error", "max_steps_reached"}, steps : Nat, tools : Seq(Tools)]
AuditLine(type, outcome, steps, tools) ==
    [type |-> type, outcome |-> outcome, steps |-> steps, tools |-> tools]

StepRecord == [step : Nat, tool : Tools, turn : Nat]
NoReply == [status |-> 0, finish |-> "none"]
NewSession == [steps |-> 0, tools |-> << >>]

Emit(s, line) == audit' = [audit EXCEPT ![s] = Append(@, line)]

(***************************************************************************)
(* POST /agent/run                                                         *)
(***************************************************************************)
Refuse(s) ==
    /\ handler[s] = "new"
    /\ handler' = [handler EXCEPT ![s] = "done"]
    /\ reply' = [reply EXCEPT ![s] = [status |-> 400, finish |-> "none"]]
    /\ UNCHANGED <<graph, queue, session, audit, store, crashes>>

\* init_session, the start event, and the graph begins.
RunSession(s) ==
    /\ handler[s] = "new"
    /\ handler' = [handler EXCEPT ![s] = "running"]
    /\ store' = [store EXCEPT ![s] = << >>]
    /\ Emit(s, AuditLine("agent_session_start", "pass", 0, << >>))
    /\ graph' = [graph EXCEPT ![s] = [NoGraph EXCEPT !.at = "model", !.node = 1]]
    /\ UNCHANGED <<queue, session, reply, crashes>>

(***************************************************************************)
(* The graph                                                               *)
(***************************************************************************)
Put(s, events) == queue' = [queue EXCEPT ![s] = @ \o events]

GraphOnly == UNCHANGED <<handler, session, reply, audit, store, crashes>>

\* A turn without calls ends the graph; so does one whose calls would not
\* leave the graph the node to hear of their results.
ModelAnswers(s) ==
    /\ graph[s].at = "model"
    /\ \E tools \in BoundedSeq(Tools \cup {NoTool}, MaxCalls) :
          LET calls == [i \in DOMAIN tools |-> [tool |-> tools[i], at |-> "called"]]
              goesOn == calls # << >> /\ RecursionLimit - graph[s].node >= 2
          IN  IF goesOn
              THEN /\ graph' = [graph EXCEPT ![s] = [at |-> "tools", node |-> @.node + 1, calls |-> calls]]
                   /\ Put(s, <<PlainEvent("model_end", s)>>)
              ELSE /\ graph' = [graph EXCEPT ![s] = [at |-> "over", node |-> @.node, calls |-> calls]]
                   /\ Put(s, <<PlainEvent("model_end", s), PlainEvent("end", s)>>)
    /\ GraphOnly

\* The call of the router fails, after the repetitions of the client library
\* and their timeouts at the latest.
ModelFails(s) ==
    /\ graph[s].at = "model"
    /\ \E kind \in {"router_error", "other_error"} : Put(s, <<PlainEvent(kind, s)>>)
    /\ graph' = [graph EXCEPT ![s].at = "over"]
    /\ GraphOnly

\* A call of a name that is no tool is answered without running anything.
ToolStarts(s, i) ==
    /\ graph[s].at = "tools" /\ graph[s].calls[i].at = "called"
    /\ LET tool == graph[s].calls[i].tool
       IN  IF tool \in Tools
           THEN /\ graph' = [graph EXCEPT ![s].calls[i].at = "running"]
                /\ Put(s, <<ToolEvent("tool_start", tool, s)>>)
           ELSE graph' = [graph EXCEPT ![s].calls[i].at = "over"] /\ UNCHANGED queue
    /\ GraphOnly

ToolEnds(s, i) ==
    /\ graph[s].at = "tools" /\ graph[s].calls[i].at = "running"
    /\ graph' = [graph EXCEPT ![s].calls[i].at = "over"]
    /\ Put(s, <<ToolEvent("tool_end", graph[s].calls[i].tool, s)>>)
    /\ GraphOnly

\* A tool that raises, for instance on arguments it does not take: the model
\* is told, and there is no on_tool_end.
ToolRaises(s, i) ==
    /\ graph[s].at = "tools" /\ graph[s].calls[i].at = "running"
    /\ graph' = [graph EXCEPT ![s].calls[i].at = "over"]
    /\ UNCHANGED queue
    /\ GraphOnly

NextTurn(s) ==
    /\ graph[s].at = "tools"
    /\ \A i \in DOMAIN graph[s].calls : graph[s].calls[i].at = "over"
    /\ graph' = [graph EXCEPT ![s] = [at |-> "model", node |-> @.node + 1, calls |-> << >>]]
    /\ UNCHANGED queue
    /\ GraphOnly

\* The stream is closed some time after the loop was left: the task of the
\* graph is cancelled, wherever it is.
Cancelled(s) ==
    /\ handler[s] \in {"replied", "done"} /\ graph[s].at \in {"model", "tools"}
    /\ graph' = [graph EXCEPT ![s].at = "over"]
    /\ queue' = [queue EXCEPT ![s] = << >>]
    /\ GraphOnly

(***************************************************************************)
(* The loop over the events                                                *)
(***************************************************************************)
\* Mutant: a call is counted when its result arrives.
ToolStartedUncounted(s, tool) ==
    /\ Emit(s, AuditLine("agent_tool_call", "pass", 0, <<tool>>))
    /\ UNCHANGED <<handler, session, reply, store>>

\* on_tool_start: tools_called, and the audit event.
ToolStarted(s, tool) ==
    /\ session' = [session EXCEPT ![s].tools = Append(@, tool)]
    /\ Emit(s, AuditLine("agent_tool_call", "pass", 0, <<tool>>))
    /\ UNCHANGED <<handler, reply, store>>

\* Mutant: a record is numbered by the calls made so far.
ToolEndedByCall(s, event) ==
    /\ store' = [store EXCEPT ![s] =
                    Append(@, [step |-> Len(session[s].tools), tool |-> event.tool, turn |-> event.turn])]
    /\ UNCHANGED <<handler, session, reply, audit>>

\* on_tool_end: append_step with the step_count of now.
ToolEnded(s, event) ==
    /\ store' = [store EXCEPT ![s] =
                    Append(@, [step |-> session[s].steps, tool |-> event.tool, turn |-> event.turn])]
    /\ UNCHANGED <<handler, session, reply, audit>>

Replied(s, status, finish) ==
    /\ handler' = [handler EXCEPT ![s] = IF status = 500 THEN "done" ELSE "replied"]
    /\ reply' = [reply EXCEPT ![s] = [status |-> status, finish |-> finish]]

\* The output IMF and the completion event.
Complete(s, steps, status, finish, outcome) ==
    /\ Replied(s, status, finish)
    /\ Emit(s, AuditLine("agent_session_complete", outcome, steps, session[s].tools))
    /\ session' = [session EXCEPT ![s].steps = steps]
    /\ UNCHANGED store

\* Mutant: the loop is left a step late.
ModelEndedLate(s) ==
    LET steps == session[s].steps + 1
    IN  IF steps > MaxSteps
        THEN Complete(s, steps, 200, "length", "max_steps_reached")
        ELSE session' = [session EXCEPT ![s].steps = steps] /\ UNCHANGED <<handler, reply, audit, store>>

\* on_chat_model_end: a step more; the last one of the budget ends the loop.
ModelEnded(s) ==
    LET steps == session[s].steps + 1
    IN  IF steps >= MaxSteps
        THEN Complete(s, steps, 200, "length", "max_steps_reached")
        ELSE session' = [session EXCEPT ![s].steps = steps] /\ UNCHANGED <<handler, reply, audit, store>>

\* Mutant: an exception that has no name is passed over.
RaisedIgnored(s) == UNCHANGED <<handler, session, reply, audit, store>>

\* An exception goes on to the endpoint: 500, and no completion event.
Raised(s) == Replied(s, 500, "none") /\ UNCHANGED <<session, audit, store>>

Read(s) ==
    /\ handler[s] = "running" /\ queue[s] # << >>
    /\ LET event == Head(queue[s])
       IN  CASE event.kind = "model_end" -> ModelEnded(s)
             [] event.kind = "tool_start" -> ToolStarted(s, event.tool)
             [] event.kind = "tool_end" -> ToolEnded(s, event)
             [] event.kind = "end" -> Complete(s, session[s].steps, 200, "stop", "pass")
             [] event.kind = "router_error" -> Complete(s, session[s].steps, 502, "none", "error")
             [] event.kind = "other_error" -> Raised(s)
    /\ queue' = [queue EXCEPT ![s] = Tail(@)]
    /\ UNCHANGED <<graph, crashes>>

\* The background task of the endpoint, after the reply.
ResponseSent(s) ==
    /\ handler[s] = "replied"
    /\ handler' = [handler EXCEPT ![s] = "done"]
    /\ Emit(s, AuditLine("response_sent", IF reply[s].status = 200 THEN "pass" ELSE "error", 0, << >>))
    /\ UNCHANGED <<graph, queue, session, reply, store, crashes>>

(***************************************************************************)
(* The system                                                              *)
(***************************************************************************)
\* The pod restarts: what is in memory is lost, what was written is not.
Crash ==
    /\ crashes < MaxCrashes
    /\ crashes' = crashes + 1
    /\ handler' = [s \in Sessions |-> CASE handler[s] = "running" -> "lost"
                                        [] handler[s] = "replied" -> "done"
                                        [] OTHER -> handler[s]]
    /\ graph' = [s \in Sessions |-> IF graph[s].at = "none" THEN NoGraph ELSE [graph[s] EXCEPT !.at = "over"]]
    /\ queue' = [s \in Sessions |-> << >>]
    /\ store' = [s \in Sessions |-> << >>]
    /\ UNCHANGED <<session, reply, audit>>

Init ==
    /\ handler = [s \in Sessions |-> "new"]
    /\ graph = [s \in Sessions |-> NoGraph]
    /\ queue = [s \in Sessions |-> << >>]
    /\ session = [s \in Sessions |-> NewSession]
    /\ reply = [s \in Sessions |-> NoReply]
    /\ audit = [s \in Sessions |-> << >>]
    /\ store = [s \in Sessions |-> << >>]
    /\ crashes = 0

GraphSteps(s) ==
    \/ ModelAnswers(s) \/ ModelFails(s) \/ NextTurn(s)
    \/ \E i \in DOMAIN graph[s].calls : ToolStarts(s, i) \/ ToolEnds(s, i) \/ ToolRaises(s, i)

Next ==
    \/ \E s \in Sessions : \/ Refuse(s) \/ RunSession(s)
                           \/ GraphSteps(s) \/ Cancelled(s)
                           \/ Read(s) \/ ResponseSent(s)
    \/ Crash

\* The event loop runs what is ready; a call of the router ends with the last
\* of its timeouts, and the tools compute without waiting for anybody.
Fairness ==
    \A s \in Sessions : /\ WF_vars(GraphSteps(s)) /\ WF_vars(Cancelled(s))
                        /\ WF_vars(Read(s)) /\ WF_vars(ResponseSent(s))

Spec == Init /\ [][Next]_vars /\ Fairness

(***************************************************************************)
(* Properties                                                              *)
(***************************************************************************)
TypeOK ==
    /\ handler \in [Sessions -> {"new", "running", "replied", "done", "lost"}]
    /\ graph \in [Sessions -> Graph]
    /\ queue \in [Sessions -> Seq(Event)]
    /\ session \in [Sessions -> [steps : 0..MaxSteps, tools : Seq(Tools)]]
    /\ reply \in [Sessions -> [status : {0, 200, 400, 500, 502}, finish : {"none", "stop", "length"}]]
    /\ audit \in [Sessions -> Seq(Line)]
    /\ store \in [Sessions -> Seq(StepRecord)]
    /\ crashes \in 0..MaxCrashes

\* The audit lines that tell of tool calls, by position, those that name the
\* tool, and its step records.
CallLines(lines) == {i \in DOMAIN lines : lines[i].type = "agent_tool_call"}
CallLinesOf(lines, tool) == {i \in CallLines(lines) : lines[i].tools[1] = tool}
RecordsOf(steps, tool) == {i \in DOMAIN steps : steps[i].tool = tool}

\* The audit lines of a session that was answered 200 or 502 are its start,
\* its tool calls and its completion, which counts the model's turns and
\* names the tools of just these lines, in order, whatever ran ahead of the
\* loop, raised or was cut off.
TrailTellsSession ==
    \A s \in Sessions : reply[s].status \in {200, 502} =>
        \E end \in DOMAIN audit[s] :
            LET complete == audit[s][end]
            IN  /\ audit[s][1].type = "agent_session_start"
                /\ CallLines(audit[s]) = 2..(end - 1)
                /\ complete.type = "agent_session_complete"
                /\ complete.tools = [i \in 1..(end - 2) |-> audit[s][i + 1].tools[1]]
                /\ complete.steps <= Turn(s)
                /\ complete.outcome = "max_steps_reached" <=> complete.steps = MaxSteps /\ reply[s].status = 200

\* A step record bears the number of the model's turn that called the tool,
\* although it is written when the result is read, and every record has the
\* audit line of a call of its own.
RecordsNameTheirTurn ==
    \A s \in Sessions :
        /\ \A i \in DOMAIN store[s] : store[s][i].step = store[s][i].turn
        /\ \A tool \in Tools :
              Cardinality(RecordsOf(store[s], tool)) <= Cardinality(CallLinesOf(audit[s], tool))

\* "stop" is an answer: the session did not end because the graph had no
\* step left for the tools its model asked for.
StopIsAnAnswer ==
    \A s \in Sessions : reply[s].finish = "stop" => graph[s].calls = << >>

\* A session that runs is answered, and no graph goes on behind the answer.
SessionsSettle ==
    \A s \in Sessions :
        handler[s] = "running" ~> handler[s] \in {"done", "lost"} /\ graph[s].at = "over"
================================================================================
