-------------------------- MODULE AgentLoopProofs --------------------------
(***************************************************************************)
(* What an agent run guarantees for every model, tool set, allow-list and  *)
(* budget.                                                                 *)
(***************************************************************************)
EXTENDS AgentLoop, TLAPS

----------------------------------------------------------------------------
\* Helpers.

\* The cumulative token budget is a number.
LEMMA TokenBudgetType == MaxTotalTokens \in Nat
  BY BudgetsAssumption DEF MaxTotalTokens

\* A turn that calls a tool names one.
LEMMA CallsName ==
  ASSUME NEW a \in Action \cup {NoAction}, a.kind = "call_tool"
  PROVE  a \in Action /\ a.tool \in Names /\ a.wellFormed \in BOOLEAN
  BY DEF Action, NoAction, CallTool

\* Appending to a sequence.
LEMMA Appended ==
  ASSUME NEW S, NEW s \in Seq(S), NEW x \in S
  PROVE  /\ Append(s, x) \in Seq(S)
         /\ Len(Append(s, x)) = Len(s) + 1
         /\ Append(s, x)[Len(s) + 1] = x
         /\ \A i \in 1..Len(s) : Append(s, x)[i] = s[i]
  OBVIOUS

\* Publishing keeps the feed a sequence of events.
LEMMA Emitted ==
  ASSUME feed \in Seq(Events), NEW event \in Events, Emit(event)
  PROVE  feed' \in Seq(Events)
<1>1. feed' = feed \/ feed' = Append(feed, event)
  BY DEF Emit
<1> QED
  BY <1>1, Appended

----------------------------------------------------------------------------
\* Types, with the loop variable against the turns taken.

StepsInv ==
  /\ pc \in {"request", "head", "act"} => Len(turns) = steps
  /\ pc \in {"infer", "act"} => steps >= 1
  /\ pc = "infer" => Len(turns) = steps - 1
  /\ pc = "act" => action = turns[Len(turns)] /\ action \in Action

\* Every step of the loop keeps the types, and the loop variable in step with the turns.
LEMMA TypeStep ==
  ASSUME TypeOK, StepsInv, [Next]_vars
  PROVE  TypeOK' /\ StepsInv'
<1> USE BudgetsAssumption DEF TypeOK, StepsInv
<1>1. ASSUME NEW status \in {"completed", "budget_exhausted", "failed"}, NEW n \in 0..MaxSteps,
             Terminal(status, n)
      PROVE  pc' = "done" /\ feed' \in Seq(Events) /\ outcome' \in Outcome
  <2>1. PICK event \in Events : Emit(event)
    BY <1>1 DEF Terminal, Events
  <2> QED
    BY <1>1, <2>1, Emitted DEF Terminal, Outcome
<1>2. CASE UNCHANGED vars
  BY <1>2 DEF vars
<1>3. CASE Refuse
  BY <1>3 DEF Refuse, Outcome
<1>4. CASE Start
  <2>1. feed' \in Seq(Events)
    BY <1>4, Emitted DEF Start, Events
  <2> QED
    BY <1>4, <2>1 DEF Start
<1>5. CASE StepsExhausted
  <2>1. pc' = "done" /\ feed' \in Seq(Events) /\ outcome' \in Outcome
    BY <1>1, <1>5 DEF StepsExhausted
  <2> QED
    BY <1>5, <2>1 DEF StepsExhausted
<1>6. CASE BudgetExhausted
  <2>1. pc' = "done" /\ feed' \in Seq(Events) /\ outcome' \in Outcome
    BY <1>1, <1>6 DEF BudgetExhausted
  <2> QED
    BY <1>6, <2>1 DEF BudgetExhausted
<1>7. CASE NextStep
  BY <1>7 DEF NextStep
<1>8. ASSUME NEW d \in 0..CallTime, InferenceFails(d)
      PROVE  TypeOK' /\ StepsInv'
  <2>1. steps - 1 \in 0..MaxSteps
    BY <1>8 DEF InferenceFails
  <2>2. pc' = "done" /\ feed' \in Seq(Events) /\ outcome' \in Outcome
    BY <1>1, <1>8, <2>1 DEF InferenceFails
  <2> QED
    BY <1>8, <2>2 DEF InferenceFails
<1>9. ASSUME NEW d \in 0..CallTime, NEW n \in 0..CallTokens, NEW a \in Action,
             InferenceAnswers(d, n, a)
      PROVE  TypeOK' /\ StepsInv'
  <2>1. turns' = Append(turns, a) /\ messages' = Append(messages, "assistant")
    BY <1>9 DEF InferenceAnswers
  <2>2. turns' \in Seq(Action) /\ Len(turns') = Len(turns) + 1 /\ turns'[Len(turns')] = a
    BY <2>1, Appended
  <2>3. messages' \in Seq({"system", "user", "assistant", "tool"})
    BY <2>1
  <2> QED
    BY <1>9, <2>2, <2>3 DEF InferenceAnswers
<1>10. ASSUME NEW role \in {"user", "tool"}, Continue(role)
       PROVE  /\ pc' = "head" /\ action' = NoAction
              /\ messages' \in Seq({"system", "user", "assistant", "tool"})
              /\ UNCHANGED <<steps, total, feed, outcome, turns>>
  BY <1>10 DEF Continue
<1>11. CASE Nudge \/ BadArguments
  <2>1. pc = "act" /\ UNCHANGED <<elapsed, audit, spawned>> /\ (Continue("user") \/ Continue("tool"))
    BY <1>11 DEF Nudge, BadArguments
  <2> QED
    BY <1>10, <2>1
<1>12. CASE Final
  <2>1. pc' = "done" /\ feed' \in Seq(Events) /\ outcome' \in Outcome
    BY <1>1, <1>12 DEF Final
  <2> QED
    BY <1>12, <2>1 DEF Final
<1>13. CASE DenyTool
  <2>1. PICK n \in Names : n = action.tool /\ action.kind = "call_tool"
    BY <1>13, CallsName DEF DenyTool
  <2>2. /\ pc = "act" /\ Continue("tool") /\ UNCHANGED <<elapsed, spawned>>
        /\ audit' = audit \cup {<<steps, n, "denied">>}
    BY <1>13, <2>1 DEF DenyTool
  <2> QED
    BY <1>10, <2>2
<1>14. ASSUME NEW d \in 0..ToolTime, RunTool(d)
       PROVE  TypeOK' /\ StepsInv'
  <2>1. PICK n \in Names : n = action.tool /\ action.kind = "call_tool"
    BY <1>14, CallsName DEF RunTool, MayRun
  <2>2. /\ pc = "act" /\ Continue("tool") /\ elapsed' = elapsed + d
        /\ spawned' = spawned \/ spawned' = spawned \cup {<<steps, n>>}
        /\ audit' = audit \cup {<<steps, n, "allowed">>}
    BY <1>14, <2>1 DEF RunTool, MayRun, Spawn, Allowed
  <2> QED
    BY <1>10, <2>2
<1>15. ASSUME Escape PROVE pc' = "done" /\ outcome' \in Outcome /\ UNCHANGED <<steps, action, feed, turns>>
  <2>1. outcome' = [outcome EXCEPT !.status = "escaped"] /\ outcome \in Outcome
    BY <1>15 DEF Escape
  <2>2. "escaped" \in {"running", "refused", "completed", "budget_exhausted", "failed", "escaped"}
    OBVIOUS
  <2>3. outcome' \in Outcome
    BY <2>1, <2>2, Zenon DEF Outcome
  <2> QED
    BY <1>15, <2>3 DEF Escape
<1>16. ASSUME NEW d \in 0..CallTime, NEW n \in 0..CallTokens, InferenceEscapes(d, n)
       PROVE  TypeOK' /\ StepsInv'
  <2>1. /\ elapsed' = elapsed + d /\ total' \in Nat /\ UNCHANGED <<audit, spawned>>
        /\ messages' = messages \/ messages' = Append(messages, "assistant")
    BY <1>16 DEF InferenceEscapes
  <2>2. messages' \in Seq({"system", "user", "assistant", "tool"})
    <3>1. CASE messages' = messages
      BY <3>1
    <3>2. CASE messages' = Append(messages, "assistant")
      BY <3>2
    <3> QED
      BY <2>1, <3>1, <3>2
  <2> QED
    BY <1>15, <1>16, <2>1, <2>2 DEF InferenceEscapes
<1>17. CASE SayEscapes
  <2>1. UNCHANGED <<elapsed, total, messages, audit, spawned>>
    BY <1>17 DEF SayEscapes
  <2> QED
    BY <1>15, <1>17, <2>1 DEF SayEscapes
<1>18. ASSUME NEW d \in 0..ToolTime, ToolEscapes(d)
       PROVE  TypeOK' /\ StepsInv'
  <2>1. PICK n \in Names : n = action.tool /\ action.kind = "call_tool"
    BY <1>18, CallsName DEF ToolEscapes, MayRun
  <2>2. /\ pc = "act" /\ elapsed' = elapsed + d /\ UNCHANGED <<total, messages>>
        /\ spawned' = spawned \/ spawned' = spawned \cup {<<steps, n>>}
        /\ audit' = audit \/ audit' = audit \cup {<<steps, n, "allowed">>}
    BY <1>18, <2>1 DEF ToolEscapes, MayRun, Spawn, Allowed
  <2> QED
    BY <1>15, <1>18, <2>2 DEF ToolEscapes
<1> QED
  BY <1>2, <1>3, <1>4, <1>5, <1>6, <1>7, <1>8, <1>9, <1>11, <1>12, <1>13, <1>14, <1>16, <1>17, <1>18
     DEF Next, LoopHead, Infer, Act

\* Types hold, and the loop variable counts the model's turns.
THEOREM TypeCorrect == Spec => [](TypeOK /\ StepsInv)
<1>1. Init => TypeOK /\ StepsInv
  BY BudgetsAssumption DEF Init, TypeOK, StepsInv, Outcome
<1>2. TypeOK /\ StepsInv /\ [Next]_vars => (TypeOK /\ StepsInv)'
  BY TypeStep
<1> QED
  BY <1>1, <1>2, PTL DEF Spec

----------------------------------------------------------------------------
\* The budgets.  A step adds to what it has found within bounds at its head.

SpendInv ==
  /\ pc = "infer" => elapsed <= WallClock /\ total <= MaxTotalTokens
  /\ pc = "act" => elapsed <= WallClock + CallTime
  /\ elapsed <= WallClock + CallTime + ToolTime \/ elapsed = 0
  /\ total <= MaxTotalTokens + CallTokens
  /\ Len(turns) <= MaxSteps

\* Every step keeps the bound on tokens and time: only a turn that passed the head of the loop adds to them.
LEMMA SpendStep ==
  ASSUME TypeOK, StepsInv, TypeOK', StepsInv', SpendInv, [Next]_vars
  PROVE  SpendInv'
<1>0. /\ MaxTotalTokens \in Nat /\ elapsed \in Nat /\ total \in Nat /\ steps \in 0..MaxSteps
      /\ steps' \in 0..MaxSteps /\ Len(turns) \in Nat /\ Len(turns') \in Nat
  BY TokenBudgetType DEF TypeOK
<1> USE BudgetsAssumption, <1>0 DEF SpendInv
<1>1. CASE UNCHANGED <<elapsed, total, turns>> /\ pc' \notin {"infer", "act"}
  BY <1>1
<1>2. CASE UNCHANGED vars
  BY <1>2 DEF vars
<1>3. CASE Refuse \/ Start \/ StepsExhausted \/ BudgetExhausted \/ Nudge \/ Final \/ DenyTool \/ BadArguments
  <2>1. UNCHANGED <<elapsed, total, turns>> /\ pc' \in {"head", "done"}
    BY <1>3 DEF Refuse, Start, StepsExhausted, BudgetExhausted, Nudge, Final, DenyTool, BadArguments,
                Terminal, Continue
  <2> QED
    BY <1>1, <2>1
<1>4. CASE NextStep
  BY <1>4 DEF NextStep, OverBudget
<1>5. ASSUME NEW d \in 0..CallTime, InferenceFails(d)
      PROVE  SpendInv'
  <2>1. pc = "infer" /\ pc' = "done" /\ elapsed' = elapsed + d /\ UNCHANGED <<total, turns>>
    BY <1>5 DEF InferenceFails, Terminal
  <2> QED
    BY <2>1
<1>6. ASSUME NEW d \in 0..CallTime, NEW n \in 0..CallTokens, NEW a \in Action,
             InferenceAnswers(d, n, a)
      PROVE  SpendInv'
  <2>1. pc = "infer" /\ pc' = "act" /\ elapsed' = elapsed + d /\ total' = total + n
    BY <1>6 DEF InferenceAnswers
  <2>2. Len(turns') <= MaxSteps
    BY <2>1 DEF StepsInv
  <2> QED
    BY <2>1, <2>2
<1>7. ASSUME NEW d \in 0..ToolTime, RunTool(d)
      PROVE  SpendInv'
  <2>1. pc = "act" /\ pc' = "head" /\ elapsed' = elapsed + d /\ UNCHANGED <<total, turns>>
    BY <1>7 DEF RunTool, MayRun, Continue
  <2> QED
    BY <2>1
<1>8. ASSUME NEW d \in 0..CallTime, NEW n \in 0..CallTokens, InferenceEscapes(d, n)
      PROVE  SpendInv'
  <2>1. /\ pc = "infer" /\ pc' = "done" /\ elapsed' = elapsed + d /\ UNCHANGED turns
        /\ total' = total \/ total' = total + n
    BY <1>8 DEF InferenceEscapes, Escape
  <2> QED
    BY <2>1
<1>9. CASE SayEscapes
  <2>1. UNCHANGED <<elapsed, total, turns>> /\ pc' = "done"
    BY <1>9 DEF SayEscapes, Escape
  <2> QED
    BY <1>1, <2>1
<1>10. ASSUME NEW d \in 0..ToolTime, ToolEscapes(d)
       PROVE  SpendInv'
  <2>1. pc = "act" /\ pc' = "done" /\ elapsed' = elapsed + d /\ UNCHANGED <<total, turns>>
    BY <1>10 DEF ToolEscapes, MayRun, Escape
  <2> QED
    BY <2>1
<1> QED
  BY <1>2, <1>3, <1>4, <1>5, <1>6, <1>7, <1>8, <1>9, <1>10 DEF Next, LoopHead, Infer, Act

\* The bounds of SpendInv hold in every state.
LEMMA SpendInvariant == Spec => []SpendInv
<1>1. Init => SpendInv
  BY TokenBudgetType, BudgetsAssumption DEF Init, SpendInv
<1>2. TypeOK /\ StepsInv /\ TypeOK' /\ StepsInv' /\ SpendInv /\ [Next]_vars => SpendInv'
  BY SpendStep
<1> QED
  BY <1>1, <1>2, TypeCorrect, PTL DEF Spec

\* A runaway run stops: no model makes it outspend its budgets by more than a step.
THEOREM BudgetsBoundRuns == Spec => []BudgetsHold
<1>1. SpendInv => BudgetsHold
  BY DEF SpendInv, BudgetsHold
<1> QED
  BY <1>1, SpendInvariant, PTL

----------------------------------------------------------------------------
\* Authorization.

Escapes ==
  \/ \E d \in 0..CallTime, n \in 0..CallTokens : InferenceEscapes(d, n)
  \/ SayEscapes
  \/ \E d \in 0..ToolTime : ToolEscapes(d)

\* An exception ends the run, and the feed is as it was.
LEMMA EscapesEnd ==
  ASSUME TypeOK, Escapes
  PROVE  pc \in {"infer", "act"} /\ pc' = "done" /\ outcome'.status = "escaped" /\ feed' = feed
<1>1. pc \in {"infer", "act"} /\ Escape
  BY DEF Escapes, InferenceEscapes, SayEscapes, ToolEscapes, MayRun
<1> QED
  BY <1>1 DEF Escape, TypeOK, Outcome

\* Turn i is not about to be dealt with.
Passed(i) == i < Len(turns) \/ pc # "act"

\* No record is about a turn to come or the one being handled, and each turn
\* that has been handled has the record it should have.
RecordsInv ==
  /\ pc # "done" => outcome.status = "running"
  /\ \A i \in 1..MaxSteps, n \in Names, d \in {"allowed", "denied"} :
       <<i, n, d>> \in audit => i <= Len(turns) /\ Passed(i)
  /\ \A i \in 1..MaxSteps, n \in Names :
       <<i, n>> \in spawned =>
         /\ ~Denied(n) /\ i <= Len(turns) /\ Passed(i)
         /\ Handled(i) => <<i, n, "allowed">> \in audit
  /\ \A i \in 1..Len(turns) : turns[i].kind = "call_tool" /\ Handled(i) =>
       /\ Denied(turns[i].tool) <=> <<i, turns[i].tool, "denied">> \in audit
       /\ ~Denied(turns[i].tool) /\ turns[i].wellFormed <=> <<i, turns[i].tool, "allowed">> \in audit

\* Every step keeps the correspondence of turns, audit records and executions.
LEMMA RecordsStep ==
  ASSUME TypeOK, StepsInv, SpendInv, TypeOK', StepsInv', RecordsInv, [Next]_vars
  PROVE  RecordsInv'
<1>0. Len(turns) \in Nat /\ steps \in 0..MaxSteps /\ Len(turns) <= MaxSteps
  BY DEF TypeOK, SpendInv
<1>1. CASE UNCHANGED vars
  BY <1>1 DEF vars, RecordsInv, Handled, Passed
\* A step that records nothing makes no turn but the one being dealt with a handled one.
<1>2. ASSUME UNCHANGED <<turns, audit, spawned>>, pc # "act", pc' # "act",
             pc' # "done" => outcome'.status = "running"
      PROVE  RecordsInv'
  <2>1. pc # "done" => outcome.status = "running"
    BY DEF RecordsInv
  <2>2. pc # "done" => \A i \in 1..Len(turns) : Handled(i)
    BY <1>2, <2>1 DEF Handled
  <2>3. CASE pc # "done"
    BY <1>0, <1>2, <2>2, <2>3 DEF RecordsInv, Passed
  <2>4. CASE pc = "done"
    BY <1>1, <2>4 DEF Next, Refuse, Start, LoopHead, StepsExhausted, BudgetExhausted, NextStep, Infer,
       InferenceFails, InferenceAnswers, InferenceEscapes, Act, Nudge, Final, DenyTool, BadArguments,
       SayEscapes, RunTool, ToolEscapes, MayRun
  <2> QED
    BY <2>3, <2>4
<1>3. CASE Refuse \/ Start \/ StepsExhausted \/ BudgetExhausted \/ NextStep
  <2>1. /\ UNCHANGED <<turns, audit, spawned>> /\ pc \notin {"act", "done"} /\ pc' # "act"
        /\ pc' # "done" => outcome' = outcome
    BY <1>3 DEF Refuse, Start, StepsExhausted, BudgetExhausted, NextStep, Terminal
  <2> QED
    BY <1>2, <2>1 DEF RecordsInv
<1>4. ASSUME NEW d \in 0..CallTime,
             InferenceFails(d) \/ \E n \in 0..CallTokens : InferenceEscapes(d, n)
      PROVE  RecordsInv'
  <2>1. UNCHANGED <<turns, audit, spawned>> /\ pc # "act" /\ pc' = "done"
    BY <1>4 DEF InferenceFails, Terminal, InferenceEscapes, Escape
  <2> QED
    BY <1>2, <2>1
<1>5. ASSUME NEW d \in 0..CallTime, NEW n \in 0..CallTokens, NEW a \in Action,
             InferenceAnswers(d, n, a)
      PROVE  RecordsInv'
  <2>1. /\ pc = "infer" /\ pc' = "act" /\ turns' = Append(turns, a)
        /\ UNCHANGED <<audit, spawned, outcome>>
    BY <1>5 DEF InferenceAnswers
  <2>2. Len(turns') = Len(turns) + 1 /\ \A i \in 1..Len(turns) : turns'[i] = turns[i]
    BY <2>1, Appended DEF TypeOK
  <2>3. outcome.status = "running" /\ outcome'.status = "running"
    BY <2>1 DEF RecordsInv
  <2>4. \A i \in 1..Len(turns) : Handled(i) /\ Handled(i)' /\ Passed(i)'
    BY <1>0, <2>1, <2>2, <2>3 DEF Handled, Passed
  <2>5. \A i \in 1..Len(turns') : Handled(i)' => i \in 1..Len(turns)
    BY <1>0, <2>1, <2>2 DEF Handled
  <2> QED
    BY <1>0, <2>1, <2>2, <2>3, <2>4, <2>5 DEF RecordsInv
\* The turn being handled is the last one, and has no record yet.
<1>6. ASSUME pc = "act"
      PROVE  /\ steps = Len(turns) /\ steps \in 1..MaxSteps /\ action = turns[steps]
             /\ outcome.status = "running"
             /\ \A n \in Names, d \in {"allowed", "denied"} : <<steps, n, d>> \notin audit
             /\ \A n \in Names : <<steps, n>> \notin spawned
             /\ (pc' # "act" /\ turns' = turns) =>
                  /\ \A i \in 1..Len(turns) : Passed(i)'
                  /\ \A i \in 1..Len(turns) : i # steps => Handled(i) /\ Handled(i)'
  <2>1. steps = Len(turns) /\ steps \in 1..MaxSteps /\ action = turns[steps]
    BY <1>0, <1>6 DEF StepsInv
  <2>2. ~Passed(steps) /\ outcome.status = "running"
    BY <1>0, <1>6, <2>1 DEF Passed, RecordsInv
  <2>3. \A i \in 1..Len(turns) : i # steps => i < Len(turns)
    BY <1>0, <2>1
  <2>4. (pc' # "act" /\ turns' = turns) => \A i \in 1..Len(turns) : Passed(i)' /\ (i # steps => Handled(i) /\ Handled(i)')
    BY <2>3 DEF Passed, Handled
  <2> QED
    BY <2>1, <2>2, <2>4 DEF RecordsInv
<1>7. CASE Nudge \/ Final
  <2>1. /\ pc = "act" /\ pc' # "act" /\ UNCHANGED <<turns, audit, spawned>> /\ action.kind # "call_tool"
        /\ pc' # "done" => outcome' = outcome
        /\ outcome'.status # "escaped"
    BY <1>6, <1>7 DEF Nudge, Final, Continue, Terminal
  <2> QED
    BY <1>0, <1>6, <2>1 DEF RecordsInv
<1>8. CASE BadArguments
  <2>1. /\ pc = "act" /\ pc' = "head" /\ UNCHANGED <<turns, audit, spawned, outcome>>
        /\ action.kind = "call_tool" /\ ~Denied(action.tool) /\ ~action.wellFormed
    BY <1>8 DEF BadArguments, Continue
  <2>2. action.tool \in Names
    BY <2>1, CallsName DEF TypeOK
  <2> QED
    BY <1>0, <1>6, <2>1, <2>2 DEF RecordsInv
<1>9. CASE DenyTool
  <2>1. /\ pc = "act" /\ pc' = "head" /\ UNCHANGED <<turns, spawned, outcome>>
        /\ audit' = audit \cup {<<steps, action.tool, "denied">>}
        /\ action.kind = "call_tool" /\ Denied(action.tool)
    BY <1>9 DEF DenyTool, Continue
  <2>2. action.tool \in Names
    BY <2>1, CallsName DEF TypeOK
  <2> QED
    BY <1>0, <1>6, <2>1, <2>2 DEF RecordsInv
<1>10. ASSUME NEW d \in 0..ToolTime, RunTool(d)
       PROVE  RecordsInv'
  <2>1. /\ pc = "act" /\ pc' = "head" /\ UNCHANGED <<turns, outcome>>
        /\ audit' = audit \cup {<<steps, action.tool, "allowed">>}
        /\ spawned' = spawned \/ spawned' = spawned \cup {<<steps, action.tool>>}
        /\ action.kind = "call_tool" /\ ~Denied(action.tool) /\ action.wellFormed
    BY <1>10 DEF RunTool, MayRun, Spawn, Allowed, Continue
  <2>2. action.tool \in Names
    BY <2>1, CallsName DEF TypeOK
  <2> QED
    BY <1>0, <1>6, <2>1, <2>2 DEF RecordsInv
\* An exception ends the run with its last turn not handled.
<1>11. CASE SayEscapes \/ \E d \in 0..ToolTime : ToolEscapes(d)
  <2>1. pc = "act" /\ pc' = "done" /\ UNCHANGED turns
    BY <1>11 DEF SayEscapes, ToolEscapes, MayRun, Escape
  <2>2. outcome'.status = "escaped"
    BY <1>11, EscapesEnd DEF Escapes
  <2>3. \A i \in 1..Len(turns) : Handled(i)' => i # steps
    BY <1>0, <1>6, <2>1, <2>2 DEF Handled
  <2>4. \/ UNCHANGED <<audit, spawned>>
        \/ /\ action.kind = "call_tool" /\ ~Denied(action.tool)
           /\ spawned' = spawned \/ spawned' = spawned \cup {<<steps, action.tool>>}
           /\ audit' = audit \/ audit' = audit \cup {<<steps, action.tool, "allowed">>}
    BY <1>11 DEF SayEscapes, ToolEscapes, MayRun, Spawn, Allowed
  <2>5. \A i \in 1..MaxSteps, n \in Names :
           /\ \A d \in {"allowed", "denied"} : i # steps => (<<i, n, d>> \in audit' <=> <<i, n, d>> \in audit)
           /\ i # steps => (<<i, n>> \in spawned' <=> <<i, n>> \in spawned)
           /\ <<steps, n>> \in spawned' => ~Denied(n)
    BY <1>6, <2>1, <2>4
  <2>6. /\ \A i \in 1..Len(turns) : i <= Len(turns) /\ Passed(i)'
        /\ \A i \in 1..Len(turns) : i # steps => Handled(i)
        /\ steps \in 1..Len(turns) /\ 1..Len(turns) \subseteq 1..MaxSteps
    <3>1. pc' # "act" /\ turns' = turns
      BY <2>1
    <3>2. /\ steps = Len(turns) /\ steps \in 1..MaxSteps
          /\ \A i \in 1..Len(turns) : Passed(i)'
          /\ \A i \in 1..Len(turns) : i # steps => Handled(i)
      BY <1>6, <2>1, <3>1
    <3>3. 1..Len(turns) \subseteq 1..MaxSteps /\ \A i \in 1..Len(turns) : i <= Len(turns)
      BY <1>0, BudgetsAssumption
    <3>4. steps \in 1..Len(turns)
      BY ONLY <1>0, <3>2
    <3> QED
      BY <3>2, <3>3, <3>4
  <2>7. \A i \in 1..MaxSteps, n \in Names, d \in {"allowed", "denied"} :
           <<i, n, d>> \in audit' => i <= Len(turns') /\ Passed(i)'
    <3> SUFFICES ASSUME NEW i \in 1..MaxSteps, NEW n \in Names, NEW d \in {"allowed", "denied"}, <<i, n, d>> \in audit'
                 PROVE  i <= Len(turns) /\ Passed(i)'
      BY <2>1
    <3>1. CASE i = steps
      BY ONLY <3>1, <2>6
    <3>2. CASE i # steps
      <4>1. <<i, n, d>> \in audit
        BY ONLY <2>5, <3>2, <<i, n, d>> \in audit', i \in 1..MaxSteps, n \in Names, d \in {"allowed", "denied"}
      <4>2. i <= Len(turns)
        BY <4>1 DEF RecordsInv
      <4>3. i \in 1..Len(turns)
        BY ONLY <1>0, <4>2, i \in 1..MaxSteps
      <4> QED
        BY ONLY <2>6, <4>3
    <3> QED
      BY <3>1, <3>2
  <2>8. \A i \in 1..MaxSteps, n \in Names :
           <<i, n>> \in spawned' =>
             /\ ~Denied(n) /\ i <= Len(turns') /\ Passed(i)'
             /\ Handled(i)' => <<i, n, "allowed">> \in audit'
    <3> SUFFICES ASSUME NEW i \in 1..MaxSteps, NEW n \in Names, <<i, n>> \in spawned'
                 PROVE  /\ ~Denied(n) /\ i <= Len(turns) /\ Passed(i)'
                        /\ Handled(i)' => <<i, n, "allowed">> \in audit'
      BY <2>1
    <3>1. CASE i = steps
      <4>1. ~Denied(n)
        BY ONLY <2>5, <3>1, <<i, n>> \in spawned', i \in 1..MaxSteps, n \in Names
      <4>2. i \in 1..Len(turns)
        BY ONLY <2>6, <3>1
      <4> QED
        BY ONLY <2>3, <2>6, <3>1, <4>1, <4>2
    <3>2. CASE i # steps
      <4>0. <<i, n>> \in spawned
        BY ONLY <2>5, <3>2, <<i, n>> \in spawned', i \in 1..MaxSteps, n \in Names
      <4>1. ~Denied(n) /\ i <= Len(turns) /\ (Handled(i) => <<i, n, "allowed">> \in audit)
        BY <4>0 DEF RecordsInv
      <4>2. i \in 1..Len(turns)
        BY ONLY <1>0, <4>1, i \in 1..MaxSteps
      <4>3. <<i, n, "allowed">> \in audit
        BY ONLY <2>6, <3>2, <4>1, <4>2
      <4>4. <<i, n, "allowed">> \in audit'
        BY ONLY <2>5, <3>2, <4>3, i \in 1..MaxSteps, n \in Names
      <4> QED
        BY ONLY <2>6, <4>1, <4>2, <4>4
    <3> QED
      BY <3>1, <3>2
  <2>9. ASSUME NEW i \in 1..Len(turns'), turns'[i].kind = "call_tool", Handled(i)'
        PROVE  /\ Denied(turns[i].tool) <=> <<i, turns[i].tool, "denied">> \in audit'
               /\ ~Denied(turns[i].tool) /\ turns[i].wellFormed <=> <<i, turns[i].tool, "allowed">> \in audit'
    <3>0. i \in 1..Len(turns) /\ turns[i].kind = "call_tool"
      BY <2>1, <2>9
    <3>1. i \in 1..MaxSteps /\ i # steps /\ Handled(i)
      BY ONLY <2>3, <2>6, <2>9, <3>0
    <3>2. turns[i].tool \in Names
      BY <3>0, CallsName DEF TypeOK
    <3>3. /\ Denied(turns[i].tool) <=> <<i, turns[i].tool, "denied">> \in audit
          /\ ~Denied(turns[i].tool) /\ turns[i].wellFormed <=> <<i, turns[i].tool, "allowed">> \in audit
      BY <3>0, <3>1 DEF RecordsInv
    <3>4. \A d \in {"allowed", "denied"} : <<i, turns[i].tool, d>> \in audit' <=> <<i, turns[i].tool, d>> \in audit
      BY ONLY <2>5, <3>1, <3>2
    <3> QED
      BY ONLY <3>3, <3>4
  <2> QED
    BY <2>1, <2>7, <2>8, <2>9 DEF RecordsInv
<1> QED
  BY <1>1, <1>3, <1>4, <1>5, <1>7, <1>8, <1>9, <1>10, <1>11 DEF Next, LoopHead, Infer, Act

\* Nothing a model says gets a tool run that its tenant may not use.
THEOREM OnlyAllowedToolsRun == Spec => []OnlyAllowedRun
<1>1. Init => RecordsInv
  BY DEF Init, RecordsInv
<1>2. TypeOK /\ RecordsInv => OnlyAllowedRun
  <2> SUFFICES ASSUME TypeOK, RecordsInv PROVE OnlyAllowedRun
    OBVIOUS
  <2>1. ASSUME NEW e \in spawned
        PROVE  e[2] \in Permitted /\ (Handled(e[1]) => <<e[1], e[2], "allowed">> \in audit)
    <3>1. PICK i \in 1..MaxSteps, n \in Names : e = <<i, n>>
      BY <2>1 DEF TypeOK
    <3> QED
      BY <2>1, <3>1 DEF RecordsInv, Denied, Permitted
  <2>2. DOMAIN turns = 1..Len(turns)
    BY DEF TypeOK
  <2> QED
    BY <2>1, <2>2 DEF OnlyAllowedRun, RecordsInv, Denied, Permitted
<1>3. TypeOK /\ StepsInv /\ SpendInv /\ TypeOK' /\ StepsInv' /\ RecordsInv /\ [Next]_vars => RecordsInv'
  BY RecordsStep
<1> QED
  BY <1>1, <1>2, <1>3, SpendInvariant, TypeCorrect, PTL DEF Spec

----------------------------------------------------------------------------
\* The outcome.

SaidFinal == turns # <<>> /\ turns[Len(turns)].kind = "final"

\* Between steps the model has not finished; at the end the outcome says whether.
OutcomeInv ==
  /\ pc \in {"request", "head", "infer"} => ~SaidFinal
  /\ pc = "done" /\ outcome.status \notin {"refused", "escaped"} =>
       /\ outcome.steps = Len(turns)
       /\ outcome.status = "completed" <=> SaidFinal

\* Every step keeps the reported outcome true to the last turn.
LEMMA OutcomeStep ==
  ASSUME TypeOK, StepsInv, OutcomeInv, [Next]_vars
  PROVE  OutcomeInv'
<1>0. Len(turns) \in Nat /\ steps \in 0..MaxSteps
  BY DEF TypeOK
<1>1. CASE UNCHANGED vars
  BY <1>1 DEF vars, OutcomeInv, SaidFinal
<1>2. CASE Refuse
  BY <1>2 DEF Refuse, OutcomeInv, TypeOK, Outcome
<1>3. CASE Start \/ NextStep
  <2>1. pc \in {"request", "head"} /\ pc' \in {"head", "infer"} /\ UNCHANGED turns
    BY <1>3 DEF Start, NextStep
  <2> QED
    BY <2>1 DEF OutcomeInv, SaidFinal
<1>4. CASE StepsExhausted \/ BudgetExhausted
  <2>1. /\ pc = "head" /\ pc' = "done" /\ UNCHANGED turns
        /\ outcome' = [status |-> "budget_exhausted", steps |-> steps]
    BY <1>4 DEF StepsExhausted, BudgetExhausted, Terminal
  <2> QED
    BY <2>1 DEF OutcomeInv, SaidFinal, StepsInv
<1>5. ASSUME NEW d \in 0..CallTime, InferenceFails(d)
      PROVE  OutcomeInv'
  <2>1. /\ pc = "infer" /\ pc' = "done" /\ UNCHANGED turns
        /\ outcome' = [status |-> "failed", steps |-> steps - 1]
    BY <1>5 DEF InferenceFails, Terminal
  <2> QED
    BY <2>1 DEF OutcomeInv, SaidFinal, StepsInv
<1>6. ASSUME NEW d \in 0..CallTime, NEW n \in 0..CallTokens, NEW a \in Action,
             InferenceAnswers(d, n, a)
      PROVE  OutcomeInv'
  BY <1>6 DEF InferenceAnswers, OutcomeInv
<1>7. CASE Final
  <2>1. /\ pc = "act" /\ pc' = "done" /\ UNCHANGED turns /\ action.kind = "final"
        /\ outcome' = [status |-> "completed", steps |-> steps]
    BY <1>7 DEF Final, Terminal
  <2>2. Len(turns) = steps /\ steps >= 1 /\ action = turns[Len(turns)]
    BY <2>1 DEF StepsInv
  <2>3. turns # <<>>
    BY <1>0, <2>2
  <2> QED
    BY <2>1, <2>2, <2>3 DEF OutcomeInv, SaidFinal
<1>8. CASE Nudge \/ DenyTool \/ BadArguments \/ \E d \in 0..ToolTime : RunTool(d)
  <2>1. pc = "act" /\ pc' = "head" /\ UNCHANGED turns /\ action.kind # "final"
    BY <1>8 DEF Nudge, DenyTool, BadArguments, RunTool, MayRun, Continue
  <2>2. action = turns[Len(turns)]
    BY <2>1 DEF StepsInv
  <2> QED
    BY <2>1, <2>2 DEF OutcomeInv, SaidFinal
<1>9. CASE Escapes
  <2>1. pc' = "done" /\ outcome'.status = "escaped"
    BY <1>9, EscapesEnd
  <2> QED
    BY <2>1 DEF OutcomeInv
<1> QED
  BY <1>1, <1>2, <1>3, <1>4, <1>5, <1>6, <1>7, <1>8, <1>9 DEF Escapes, Next, LoopHead, Infer, Act

\* A caller who is not answered a 500 is told "completed" exactly when the model
\* said "final".
THEOREM OutcomesAreTrue == Spec => []OutcomeIsTrue
<1>1. Init => OutcomeInv
  BY DEF Init, OutcomeInv, SaidFinal
<1>2. TypeOK /\ StepsInv /\ OutcomeInv /\ [Next]_vars => OutcomeInv'
  BY OutcomeStep
<1>3. OutcomeInv => OutcomeIsTrue
  BY DEF OutcomeInv, OutcomeIsTrue, SaidFinal
<1> QED
  BY <1>1, <1>2, <1>3, TypeCorrect, PTL DEF Spec

----------------------------------------------------------------------------
\* The feed.

\* Before a run ends its feed has the progress event at most.
Quiet == Len(feed) <= 1 /\ \A i \in 1..Len(feed) : feed[i] = "agent_task_progress"

FeedInv ==
  /\ pc = "request" => feed = <<>>
  /\ pc # "done" => Quiet
  /\ pc = "done" => FeedTellsOutcome

\* The last event of a run tells its outcome, if it gets through.
LEMMA TerminalTells ==
  ASSUME TypeOK, Quiet, NEW status \in {"completed", "budget_exhausted", "failed"}, NEW n \in 0..MaxSteps,
         Terminal(status, n)
  PROVE  FeedInv'
<1>1. PICK event : /\ event = IF status = "completed" THEN "agent_task_completed" ELSE "agent_task_failed"
                   /\ feed' = feed \/ feed' = Append(feed, event)
  BY DEF Terminal, Emit
<1>2. pc' = "done" /\ outcome'.status = status
  BY DEF Terminal
<1>3. event \in Events /\ event # "agent_task_progress" /\ (event = "agent_task_completed" <=> status = "completed")
  BY <1>1 DEF Events
<1>4. feed \in Seq(Events) /\ Len(feed) \in Nat
  BY DEF TypeOK
<1>5. ASSUME NEW i \in DOMAIN feed'
      PROVE  /\ feed'[i] = "agent_task_progress" => i = 1
             /\ feed'[i] # "agent_task_progress" => i = Len(feed') /\ feed'[i] = event
  <2>1. CASE feed' = feed
    BY <2>1, <1>4, <1>5 DEF Quiet
  <2>2. CASE feed' = Append(feed, event)
    <3>1. /\ feed' \in Seq(Events) /\ Len(feed') = Len(feed) + 1
          /\ feed'[Len(feed) + 1] = event
          /\ \A k \in 1..Len(feed) : feed'[k] = feed[k]
      BY <2>2, <1>3, <1>4, Appended
    <3>2. i \in 1..(Len(feed) + 1)
      BY <3>1, <1>4, <1>5
    <3>3. CASE i = Len(feed) + 1
      BY <3>3, <3>1, <1>3
    <3>4. CASE i \in 1..Len(feed)
      BY <3>4, <3>1, <1>4 DEF Quiet
    <3> QED
      BY <3>2, <3>3, <3>4, <1>4
  <2> QED
    BY <1>1, <2>1, <2>2
<1>6. FeedTellsOutcome'
  BY <1>2, <1>3, <1>5 DEF FeedTellsOutcome
<1> QED
  BY <1>2, <1>6 DEF FeedInv

\* Every step keeps the feed true to the run.
LEMMA FeedStep ==
  ASSUME TypeOK, StepsInv, FeedInv, [Next]_vars
  PROVE  FeedInv'
<1>1. CASE UNCHANGED vars
  BY <1>1 DEF vars, FeedInv, Quiet, FeedTellsOutcome
<1>2. CASE Refuse
  <2>1. pc' = "done" /\ feed' = <<>>
    BY <1>2 DEF Refuse, FeedInv
  <2> QED
    BY <2>1 DEF FeedInv, FeedTellsOutcome
<1>3. CASE Start
  <2>1. pc' = "head" /\ feed = <<>> /\ (feed' = feed \/ feed' = Append(feed, "agent_task_progress"))
    BY <1>3 DEF Start, Emit, FeedInv
  <2>2. feed \in Seq(Events) /\ Len(feed) = 0 /\ "agent_task_progress" \in Events
    BY <2>1 DEF TypeOK, Events
  <2>3. CASE feed' = feed
    BY <2>1, <2>2, <2>3 DEF FeedInv, Quiet
  <2>4. CASE feed' = Append(feed, "agent_task_progress")
    <3>1. Len(feed') = 1 /\ feed'[1] = "agent_task_progress"
      BY <2>2, <2>4, Appended
    <3> QED
      BY <2>1, <3>1 DEF FeedInv, Quiet
  <2> QED
    BY <2>1, <2>3, <2>4
<1>4. CASE StepsExhausted \/ BudgetExhausted
  <2>1. Quiet /\ steps \in 0..MaxSteps /\ Terminal("budget_exhausted", steps)
    BY <1>4 DEF StepsExhausted, BudgetExhausted, FeedInv, TypeOK
  <2> QED
    BY <2>1, TerminalTells
<1>5. ASSUME NEW d \in 0..CallTime, InferenceFails(d)
      PROVE  FeedInv'
  <2>1. Quiet /\ Terminal("failed", steps - 1)
    BY <1>5 DEF InferenceFails, FeedInv
  <2>2. steps - 1 \in 0..MaxSteps
    BY <1>5, BudgetsAssumption DEF InferenceFails, TypeOK, StepsInv
  <2> QED
    BY <2>1, <2>2, TerminalTells
<1>6. CASE Final
  <2>1. Quiet /\ steps \in 0..MaxSteps /\ Terminal("completed", steps)
    BY <1>6 DEF Final, FeedInv, TypeOK
  <2> QED
    BY <2>1, TerminalTells
<1>7. CASE \/ NextStep \/ Nudge \/ DenyTool \/ BadArguments
           \/ \E d \in 0..CallTime, n \in 0..CallTokens, a \in Action : InferenceAnswers(d, n, a)
           \/ \E d \in 0..ToolTime : RunTool(d)
  <2>1. pc \notin {"request", "done"} /\ pc' \notin {"request", "done"} /\ UNCHANGED feed
    BY <1>7 DEF NextStep, Nudge, DenyTool, BadArguments, InferenceAnswers, RunTool, MayRun, Continue
  <2> QED
    BY <2>1 DEF FeedInv, Quiet
<1>8. CASE Escapes
  <2>1. pc # "done" /\ pc' = "done" /\ feed' = feed
    BY <1>8, EscapesEnd
  <2>2. Quiet /\ DOMAIN feed = 1..Len(feed) /\ Len(feed) \in Nat
    BY <2>1 DEF FeedInv, TypeOK
  <2>3. \A i \in DOMAIN feed : i = 1 /\ feed[i] = "agent_task_progress"
    BY <2>2 DEF Quiet
  <2> QED
    BY <2>1, <2>3 DEF FeedInv, FeedTellsOutcome
<1> QED
  BY <1>1, <1>2, <1>3, <1>4, <1>5, <1>6, <1>7, <1>8 DEF Escapes, Next, LoopHead, Infer, Act

----------------------------------------------------------------------------
\* The transcript.

\* The model's own turns are at the odd places after the task.
Alternating ==
  \A i \in 1..Len(messages) : messages[i] = "assistant" <=> i > 2 /\ i % 2 = 1

PairInv ==
  /\ pc = "request" => turns = <<>>
  /\ pc \in {"head", "infer"} => Len(messages) = 2 * Len(turns) + 2 /\ Alternating
  /\ pc = "act" => Len(messages) = 2 * Len(turns) + 1 /\ Alternating

\* A turn goes to an odd place, a reply to an even one.
LEMMA Parity ==
  ASSUME NEW k \in Nat
  PROVE  (2 * k + 2 + 1) % 2 = 1 /\ (2 * k + 1 + 1) % 2 = 0
  BY SMT

\* One more message, of the model exactly if its place is the model's.
LEMMA OneMoreMessage ==
  ASSUME TypeOK, Alternating, NEW role \in {"user", "assistant", "tool"},
         messages' = Append(messages, role),
         role = "assistant" <=> Len(messages) + 1 > 2 /\ (Len(messages) + 1) % 2 = 1
  PROVE  Alternating' /\ Len(messages') = Len(messages) + 1
<1>1. messages \in Seq({"system", "user", "assistant", "tool"}) /\ Len(messages) \in Nat
  BY DEF TypeOK
<1>2. /\ Len(messages') = Len(messages) + 1
      /\ messages'[Len(messages) + 1] = role
      /\ \A i \in 1..Len(messages) : messages'[i] = messages[i]
  BY <1>1, Appended
<1> QED
  BY <1>1, <1>2 DEF Alternating

\* Every step keeps turns and replies in pairs.
LEMMA PairStep ==
  ASSUME TypeOK, StepsInv, PairInv, [Next]_vars
  PROVE  PairInv'
<1>0. Len(turns) \in Nat /\ turns \in Seq(Action)
  BY DEF TypeOK
<1>1. CASE UNCHANGED vars
  BY <1>1 DEF vars, PairInv, Alternating
<1>2. CASE Refuse \/ StepsExhausted \/ BudgetExhausted \/ Final \/ Escapes
           \/ \E d \in 0..CallTime : InferenceFails(d)
  <2>1. pc' = "done"
    BY <1>2, EscapesEnd DEF Refuse, StepsExhausted, BudgetExhausted, Final, InferenceFails, Terminal
  <2> QED
    BY <2>1 DEF PairInv
<1>3. CASE Start
  <2>1. pc' = "head" /\ turns = <<>> /\ UNCHANGED turns /\ messages' = <<"system", "user">>
    BY <1>3 DEF Start, PairInv
  <2>2. Alternating'
    BY <2>1 DEF Alternating
  <2>3. Len(turns') = 0 /\ Len(messages') = 2
    BY <2>1
  <2> QED
    BY <2>1, <2>2, <2>3 DEF PairInv
<1>4. CASE NextStep
  BY <1>4 DEF NextStep, PairInv, Alternating
<1>5. ASSUME NEW d \in 0..CallTime, NEW n \in 0..CallTokens, NEW a \in Action,
             InferenceAnswers(d, n, a)
      PROVE  PairInv'
  <2>1. pc = "infer" /\ pc' = "act" /\ messages' = Append(messages, "assistant") /\ turns' = Append(turns, a)
    BY <1>5 DEF InferenceAnswers
  <2>2. Len(messages) = 2 * Len(turns) + 2 /\ Alternating
    BY <2>1 DEF PairInv
  <2>3. Len(messages) + 1 > 2 /\ (Len(messages) + 1) % 2 = 1
    BY <1>0, <2>2, Parity
  <2>4. Alternating' /\ Len(messages') = Len(messages) + 1
    BY <2>1, <2>2, <2>3, OneMoreMessage
  <2>5. Len(turns') = Len(turns) + 1
    BY <1>0, <2>1, Appended
  <2> QED
    BY <1>0, <2>1, <2>2, <2>4, <2>5 DEF PairInv
<1>6. CASE Nudge \/ DenyTool \/ BadArguments \/ \E d \in 0..ToolTime : RunTool(d)
  <2>1. PICK role \in {"user", "tool"} :
          pc = "act" /\ pc' = "head" /\ UNCHANGED turns /\ messages' = Append(messages, role)
    BY <1>6 DEF Nudge, DenyTool, BadArguments, RunTool, MayRun, Continue
  <2>2. Len(messages) = 2 * Len(turns) + 1 /\ Alternating
    BY <2>1 DEF PairInv
  <2>3. (Len(messages) + 1) % 2 = 0
    BY <1>0, <2>2, Parity
  <2>4. Alternating' /\ Len(messages') = Len(messages) + 1
    BY <2>1, <2>2, <2>3, OneMoreMessage
  <2> QED
    BY <1>0, <2>1, <2>2, <2>4 DEF PairInv
<1> QED
  BY <1>1, <1>2, <1>3, <1>4, <1>5, <1>6 DEF Escapes, Next, LoopHead, Infer, Act

\* Caller, user and model are told what happened: the outcome of the last turn,
\* events of that outcome, and every turn with its reply.
THEOREM StoriesAreTrue == Spec => []StoryIsTrue
<1>1. Init => FeedInv /\ PairInv
  BY DEF Init, FeedInv, PairInv, Quiet
<1>2. TypeOK /\ StepsInv /\ FeedInv /\ PairInv /\ [Next]_vars => (FeedInv /\ PairInv)'
  BY FeedStep, PairStep
<1>3. TypeOK /\ FeedInv => FeedTellsOutcome
  <2> SUFFICES ASSUME TypeOK, FeedInv, pc # "done" PROVE FeedTellsOutcome
    BY DEF FeedInv
  <2>1. DOMAIN feed = 1..Len(feed) /\ Len(feed) \in Nat
    BY DEF TypeOK
  <2> QED
    BY <2>1 DEF FeedInv, Quiet, FeedTellsOutcome
<1>4. TypeOK /\ PairInv => TranscriptPaired
  <2> SUFFICES ASSUME TypeOK, PairInv, pc = "infer" PROVE TranscriptPaired
    BY DEF TranscriptPaired
  <2>1. DOMAIN messages = 1..Len(messages)
    BY DEF TypeOK
  <2> QED
    BY <2>1 DEF PairInv, Alternating, TranscriptPaired
<1>5. OutcomeIsTrue /\ FeedTellsOutcome /\ TranscriptPaired => StoryIsTrue
  BY DEF StoryIsTrue
<1> QED
  BY <1>1, <1>2, <1>3, <1>4, <1>5, OutcomesAreTrue, TypeCorrect, PTL DEF Spec
=============================================================================
