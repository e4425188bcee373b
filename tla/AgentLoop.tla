----------------------------- MODULE AgentLoop -----------------------------
(***************************************************************************)
(* One agent run: the plan-act-observe loop of agent_loop.py, from POST    *)
(* /v1/agent/runs to its answer.  The model's turns are arbitrary, so that *)
(* whatever a prompt or a tool result makes it say is a behaviour here.    *)
(*                                                                         *)
(* Time passes in inference calls and tool executions, up to CallTime and  *)
(* ToolTime each; usage.total_tokens of a response is anything up to       *)
(* CallTokens (the backend counts the prompt too).  How a tool runs, and   *)
(* the slot the run holds, are in ToolJobs.                                *)
(***************************************************************************)
EXTENDS Integers, Sequences

CONSTANTS
  Names,       \* what the model may put into "tool"
  Tools,       \* the names in TOOLS
  Allowlist,   \* the allow-list of the caller's tenant
  MaxSteps,    \* AgentLoopBudgets.max_steps
  WallClock,   \* AgentLoopBudgets.wall_clock_seconds
  MaxTokens,   \* AgentLoopBudgets.max_tokens, per inference call
  CallTime,    \* the longest inference call, retries included
  ToolTime,    \* the longest tool execution
  CallTokens   \* the largest usage.total_tokens of one response

ASSUME ToolsAssumption == Tools \subseteq Names /\ Allowlist \subseteq Names
ASSUME BudgetsAssumption ==
  /\ MaxSteps \in Nat /\ MaxTokens \in Nat /\ WallClock \in Int
  /\ CallTime \in Nat /\ ToolTime \in Nat /\ CallTokens \in Nat

VARIABLES
  pc,        \* where run_agent_loop is
  steps,     \* the loop variable
  elapsed,   \* time.monotonic() - started
  total,     \* total_tokens
  action,    \* the parsed turn being handled
  messages,  \* the roles of the transcript
  audit,     \* audited tool calls: (step, tool, decision)
  spawned,   \* executions: (step, tool)
  feed,      \* published events of the run, in order
  outcome,   \* AgentRunOutcome: status and steps; "escaped" is an exception instead
  turns      \* history: the parsed turns, in order

vars == <<pc, steps, elapsed, total, action, messages, audit, spawned, feed, outcome, turns>>

MaxTotalTokens == MaxSteps * MaxTokens

\* A parsed turn.  "unparsed" has no JSON object with an action, "other" has an
\* unknown verb.
CallTool == [kind : {"call_tool"}, tool : Names, wellFormed : BOOLEAN]
Action == {[kind |-> k] : k \in {"unparsed", "other", "final"}} \cup CallTool
NoAction == [kind |-> "none"]

Events == {"agent_task_progress", "agent_task_completed", "agent_task_failed"}
Outcome == [status : {"running", "refused", "completed", "budget_exhausted", "failed", "escaped"},
            steps  : 0..MaxSteps]

TypeOK ==
  /\ pc \in {"request", "head", "infer", "act", "done"}
  /\ steps \in 0..MaxSteps
  /\ elapsed \in Nat
  /\ total \in Nat
  /\ action \in Action \cup {NoAction}
  /\ messages \in Seq({"system", "user", "assistant", "tool"})
  /\ audit \subseteq (1..MaxSteps) \X Names \X {"allowed", "denied"}
  /\ spawned \subseteq (1..MaxSteps) \X Names
  /\ feed \in Seq(Events)
  /\ outcome \in Outcome
  /\ turns \in Seq(Action)

----------------------------------------------------------------------------
\* _emit: publishing is best effort.
Emit(event) == feed' = feed \/ feed' = Append(feed, event)

\* _terminal, and the return to the handler.
Terminal(status, n) ==
  /\ pc' = "done"
  /\ outcome' = [status |-> status, steps |-> n]
  /\ Emit(IF status = "completed" THEN "agent_task_completed" ELSE "agent_task_failed")

\* An exception goes through run_agent_loop: the slot is released, _instrument
\* answers 500, and the feed hears nothing.
Escape ==
  /\ pc' = "done"
  /\ outcome' = [outcome EXCEPT !.status = "escaped"]
  /\ UNCHANGED <<steps, action, feed, turns>>

\* build_agent_run_response turns the request away: disabled, no inference
\* backend, bad body, or over the limit.
Refuse ==
  /\ pc = "request"
  /\ pc' = "done"
  /\ outcome' = [outcome EXCEPT !.status = "refused"]
  /\ UNCHANGED <<steps, elapsed, total, action, messages, audit, spawned, feed, turns>>

Start ==
  /\ pc = "request"
  /\ pc' = "head"
  /\ Emit("agent_task_progress")
  /\ messages' = <<"system", "user">>
  /\ UNCHANGED <<steps, elapsed, total, action, audit, spawned, outcome, turns>>

\* Mutant: no look at the clock.
OverBudgetTokensOnly == total > MaxTotalTokens

\* for steps in range(1, max_steps + 1), and the two budget checks.
OverBudget == elapsed > WallClock \/ total > MaxTotalTokens

StepsExhausted ==
  /\ pc = "head"
  /\ steps = MaxSteps
  /\ Terminal("budget_exhausted", steps)
  /\ UNCHANGED <<steps, elapsed, total, action, messages, audit, spawned, turns>>

\* Mutant: the step that was not taken is reported too.
BudgetExhaustedCountsStep ==
  /\ pc = "head"
  /\ steps < MaxSteps
  /\ OverBudget
  /\ steps' = steps + 1
  /\ Terminal("budget_exhausted", steps + 1)
  /\ UNCHANGED <<elapsed, total, action, messages, audit, spawned, turns>>

BudgetExhausted ==
  /\ pc = "head"
  /\ steps < MaxSteps
  /\ OverBudget
  /\ steps' = steps + 1
  /\ Terminal("budget_exhausted", steps)
  /\ UNCHANGED <<elapsed, total, action, messages, audit, spawned, turns>>

NextStep ==
  /\ pc = "head"
  /\ steps < MaxSteps
  /\ ~OverBudget
  /\ steps' = steps + 1
  /\ pc' = "infer"
  /\ UNCHANGED <<elapsed, total, action, messages, audit, spawned, feed, outcome, turns>>

\* chat_completions raises.
InferenceFails(d) ==
  /\ pc = "infer"
  /\ elapsed' = elapsed + d
  /\ Terminal("failed", steps - 1)
  /\ UNCHANGED <<steps, total, action, messages, audit, spawned, turns>>

\* It answers: _content, _tokens and _parse_action.
InferenceAnswers(d, n, a) ==
  /\ pc = "infer"
  /\ elapsed' = elapsed + d
  /\ total' = total + n
  /\ messages' = Append(messages, "assistant")
  /\ action' = a
  /\ turns' = Append(turns, a)
  /\ pc' = "act"
  /\ UNCHANGED <<steps, audit, spawned, feed, outcome>>

\* It answers what _tokens cannot count (int of an infinity) or _parse_action
\* cannot read (nested too deep for json.loads): nothing catches either.
InferenceEscapes(d, n) ==
  /\ pc = "infer"
  /\ elapsed' = elapsed + d
  /\ \/ UNCHANGED <<total, messages>>
     \/ total' = total + n /\ messages' = Append(messages, "assistant")
  /\ Escape
  /\ UNCHANGED <<audit, spawned>>

\* The loop goes on with one more message for the model.
Continue(role) ==
  /\ pc' = "head"
  /\ action' = NoAction
  /\ messages' = Append(messages, role)
  /\ UNCHANGED <<steps, total, feed, outcome, turns>>

Nudge ==
  /\ pc = "act"
  /\ action.kind \in {"unparsed", "other"}
  /\ Continue("user")
  /\ UNCHANGED <<elapsed, audit, spawned>>

Final ==
  /\ pc = "act"
  /\ action.kind = "final"
  /\ Terminal("completed", steps)
  /\ UNCHANGED <<steps, elapsed, total, action, messages, audit, spawned, turns>>

\* Mutant: the allow-list is not looked at.
DeniedUnknown(tool) == tool \notin Tools

\* call_tool: deny by default, on every call.
Denied(tool) == tool \notin Allowlist \/ tool \notin Tools

DenyTool ==
  /\ pc = "act"
  /\ action.kind = "call_tool"
  /\ Denied(action.tool)
  /\ audit' = audit \cup {<<steps, action.tool, "denied">>}
  /\ Continue("tool")
  /\ UNCHANGED <<elapsed, spawned>>

\* str of a final answer, or of the tool that is denied, raises before any record.
SayEscapes ==
  /\ pc = "act"
  /\ action.kind = "final" \/ (action.kind = "call_tool" /\ Denied(action.tool))
  /\ Escape
  /\ UNCHANGED <<elapsed, total, messages, audit, spawned>>

BadArguments ==
  /\ pc = "act"
  /\ action.kind = "call_tool"
  /\ ~Denied(action.tool)
  /\ ~action.wellFormed
  /\ Continue("tool")
  /\ UNCHANGED <<elapsed, audit, spawned>>

\* The call is allowed and has an object of arguments.
MayRun ==
  /\ pc = "act"
  /\ action.kind = "call_tool"
  /\ ~Denied(action.tool)
  /\ action.wellFormed

\* Without a job executor a Job tool is a tool_error: nothing is spawned.
Spawn == spawned' \in {spawned, spawned \cup {<<steps, action.tool>>}}
Allowed == audit \cup {<<steps, action.tool, "allowed">>}

\* execute, in a child process or by the dispatcher, then the audit.
RunTool(d) ==
  /\ MayRun
  /\ elapsed' = elapsed + d
  /\ Spawn
  /\ audit' = Allowed
  /\ Continue("tool")

\* execute, the audit or the dump of the result raises.
ToolEscapes(d) ==
  /\ MayRun
  /\ elapsed' = elapsed + d
  /\ Spawn
  /\ audit' \in {audit, Allowed}
  /\ Escape
  /\ UNCHANGED <<total, messages>>

----------------------------------------------------------------------------
Init ==
  /\ pc = "request"
  /\ steps = 0 /\ elapsed = 0 /\ total = 0
  /\ action = NoAction
  /\ messages = <<>> /\ feed = <<>> /\ turns = <<>>
  /\ audit = {} /\ spawned = {}
  /\ outcome = [status |-> "running", steps |-> 0]

LoopHead == StepsExhausted \/ BudgetExhausted \/ NextStep
Infer ==
  \E d \in 0..CallTime :
    \/ InferenceFails(d)
    \/ \E n \in 0..CallTokens :
         InferenceEscapes(d, n) \/ \E a \in Action : InferenceAnswers(d, n, a)
Act ==
  \/ Nudge \/ Final \/ DenyTool \/ BadArguments \/ SayEscapes
  \/ \E d \in 0..ToolTime : RunTool(d) \/ ToolEscapes(d)

Next == Refuse \/ Start \/ LoopHead \/ Infer \/ Act

Spec == Init /\ [][Next]_vars

----------------------------------------------------------------------------
\* Properties.

\* The budgets bound a run whatever the model says, but for what one step may
\* add after its check: an inference call and a tool execution.
BudgetsHold ==
  /\ elapsed <= WallClock + CallTime + ToolTime \/ elapsed = 0
  /\ total <= MaxTotalTokens + CallTokens
  /\ Len(turns) <= MaxSteps

\* No turn of the model gets a tool run that the tenant may not use, and every
\* denied call and every execution leaves its own record in the audit log, unless
\* it is the last and an exception ended the run.
Permitted == Allowlist \cap Tools
Handled(i) == i < Len(turns) \/ (pc # "act" /\ outcome.status # "escaped")
OnlyAllowedRun ==
  /\ \A e \in spawned :
       e[2] \in Permitted /\ (Handled(e[1]) => <<e[1], e[2], "allowed">> \in audit)
  /\ \A i \in DOMAIN turns :
       (turns[i].kind = "call_tool" /\ Handled(i)) =>
         /\ turns[i].tool \notin Permitted <=> <<i, turns[i].tool, "denied">> \in audit
         /\ turns[i].tool \in Permitted /\ turns[i].wellFormed <=>
              <<i, turns[i].tool, "allowed">> \in audit

\* The user's feed tells the run's story: no event before the start, at most
\* one terminal event, last, and the one that the outcome calls for; there is
\* none of a run that an exception ended.
FeedTellsOutcome ==
  \A i \in DOMAIN feed :
    /\ feed[i] = "agent_task_progress" => i = 1
    /\ feed[i] # "agent_task_progress" =>
         /\ i = Len(feed) /\ pc = "done" /\ outcome.status # "escaped"
         /\ feed[i] = "agent_task_completed" <=> outcome.status = "completed"

\* What the caller is told, unless it is a 500: "completed" if and only if the
\* model's last turn was "final", and as many steps as the model has answered.
OutcomeIsTrue ==
  pc = "done" /\ outcome.status \notin {"refused", "escaped"} =>
    /\ outcome.steps = Len(turns)
    /\ outcome.status = "completed" <=> turns # <<>> /\ turns[Len(turns)].kind = "final"

\* Every request for a turn shows the model a well-formed transcript: after the
\* system prompt and the task, each turn of its own followed by one reply.
TranscriptPaired ==
  pc = "infer" =>
    /\ Len(messages) = 2 * Len(turns) + 2
    /\ \A i \in DOMAIN messages :
         messages[i] = "assistant" <=> i > 2 /\ i % 2 = 1

\* A run tells its three readers one true story: the caller (the outcome), the
\* user (the feed) and the model (the transcript).
StoryIsTrue == OutcomeIsTrue /\ FeedTellsOutcome /\ TranscriptPaired
============================================================================
