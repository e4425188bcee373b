------------------------------ MODULE ToolJobs ------------------------------
(***************************************************************************)
(* Tool execution end to end: the control plane's handlers and executors   *)
(* (agent_tools.py, job_executor.py, and agent_loop.py as a caller), the   *)
(* tool-runner dispatcher (src/app/dispatcher) and the Kubernetes Jobs it  *)
(* creates, behind the shared RateLimiter.                                 *)
(*                                                                         *)
(* A handler thread that holds a slot makes one tool call ("invoke") or    *)
(* several in a row ("agent").  A call runs in a child process that the    *)
(* thread itself waits for or kills, or in a Job behind the dispatcher,    *)
(* one action per remote call.  A caller that gives up frees its slot; the *)
(* dispatcher's thread goes on without it.                                 *)
(*                                                                         *)
(* Kubernetes is external: a Job runs until it succeeds, fails or meets    *)
(* activeDeadlineSeconds (backoffLimit 0: one pod, no retry) and is        *)
(* removed ttlSecondsAfterFinished later.                                  *)
(***************************************************************************)
EXTENDS RateLimiter

CONSTANTS
  MaxRuns,      \* bound: tool calls in a behaviour
  FaultBudget   \* bound: failed remote calls, broken connections and crashes

ASSUME RunsAssumption == MaxRuns \in Nat \ {0} /\ FaultBudget \in Nat

VARIABLES
  enabled,    \* AGENT_TOOLS_ENABLED; changes with a restart of the process
  call,       \* thread -> the handler's kind and its current tool call
  disp,       \* run -> the dispatcher's thread for it and the class it returns
  job,        \* run -> its child process or Job
  audit,      \* audited executions: <<run, result class>>
  feed,       \* events of invoke calls: <<run, event>>
  faults,     \* faults so far
  abandoned,  \* history: runs whose caller went away before the answer
  faulted     \* history: runs with a failed Kubernetes call or a dead dispatcher

jobVars == <<enabled, call, disp, job, audit, feed, faults, abandoned, faulted>>
vars == <<limVars, jobVars>>

Runs == 1..MaxRuns
NoRun == 0
ResultClasses == {"success", "unknown_tool", "tool_error", "tool_timeout"}
Live == {"active", "finished"}   \* phases of a process or Job that still exists

Call == [kind    : {"invoke", "agent"},
         run     : Runs \cup {NoRun},
         outcome : ResultClasses \cup {"none", "pending"}]
NoCall == [kind |-> "invoke", run |-> NoRun, outcome |-> "none"]

\* pc "child": a subprocess, no dispatcher.  rc "raise": an exception that
\* run_tool_job does not catch (a read timeout is no K8sError) is under way.
Dispatch ==
  [pc : {"unused", "child", "create", "poll", "read", "delete", "reply", "closed"},
   rc : ResultClasses \cup {"raise"}]
Job ==
  [phase  : {"none", "gone"} \cup Live,
   result : {"none", "ok", "not_ok", "failed", "deadline"}]

TypeOK ==
  /\ LimTypeOK
  /\ enabled \in BOOLEAN
  /\ call \in [Threads -> Call]
  /\ disp \in [Runs -> Dispatch]
  /\ job \in [Runs -> Job]
  /\ audit \subseteq Runs \X ResultClasses
  /\ feed \subseteq Runs \X {"agent_task_completed", "agent_task_failed"}
  /\ faults \in 0..FaultBudget
  /\ abandoned \subseteq Runs
  /\ faulted \subseteq Runs

NoFault == UNCHANGED faults
Fault == faults < FaultBudget /\ faults' = faults + 1

Waiting(r) == {th \in Threads : call[th].run = r /\ call[th].outcome = "pending"}
Working == {"create", "poll", "read", "delete", "reply"}

----------------------------------------------------------------------------
\* The control plane.

\* Bound: run ids left for th, after one for each other call that must still get one.
Needing == {th \in Threads : thread[th].pc # "idle" /\ call[th] = NoCall}
RunLeft(th) ==
  Cardinality({r \in Runs : disp[r].pc = "unused"}) > Cardinality(Needing \ {th})

\* A request gets to the limiter only while tools are enabled; the checks of
\* the body and of the allow-list before that leave no trace here.
Arrive(th, t) ==
  /\ enabled
  /\ RunLeft(th)
  /\ ReadClock(th, t)
  /\ UNCHANGED jobVars

Admit(th) ==
  /\ AcquireSlot(th)
  /\ \/ permits = 0 /\ UNCHANGED call
     \/ /\ permits > 0
        /\ \E kind \in {"invoke", "agent"} :
             call' = [call EXCEPT ![th] = [kind |-> kind, run |-> NoRun, outcome |-> "none"]]
  /\ UNCHANGED <<enabled, disp, job, audit, feed, faults, abandoned, faulted>>

\* The next tool call of a running handler; run_id = uuid4() is fresh.
FreshRun(r) ==
  /\ disp[r].pc = "unused"
  /\ \A q \in Runs : disp[q].pc = "unused" => r <= q
CanCall(th) == thread[th].pc = "running" /\ call[th].outcome = "none"

Begin(th, r, pc) ==
  /\ CanCall(th)
  /\ RunLeft(th)
  /\ FreshRun(r)
  /\ disp' = [disp EXCEPT ![r].pc = pc]
  /\ call' = [call EXCEPT ![th].run = r, ![th].outcome = "pending"]
  /\ UNCHANGED <<limVars, enabled, audit, feed, faults, abandoned, faulted>>

\* SandboxExecutor.execute: Popen.
Spawn(th, r) ==
  /\ Begin(th, r, "child")
  /\ job' = [job EXCEPT ![r].phase = "active"]

\* communicate: the child exits, or is killed with its process group.
Collect(th) ==
  LET r == call[th].run IN
  /\ call[th].outcome = "pending"
  /\ disp[r].pc = "child"
  /\ \E rc \in ResultClasses :
       /\ call' = [call EXCEPT ![th].outcome = rc]
       /\ job' = [job EXCEPT ![r] =
                    [phase |-> "gone", result |-> IF rc = "success" THEN "ok" ELSE "failed"]]
  /\ disp' = [disp EXCEPT ![r].pc = "closed"]
  /\ UNCHANGED <<limVars, enabled, audit, feed, faults, abandoned, faulted>>

\* DispatcherJobExecutor.execute: POST /run reaches the dispatcher's handler.
PostRun(th, r) == Begin(th, r, "create") /\ UNCHANGED job

\* It does not (not configured, refused, unreachable): tool_error, no Job.
PostRefused(th, r) ==
  /\ CanCall(th)
  /\ RunLeft(th)
  /\ FreshRun(r)
  /\ disp' = [disp EXCEPT ![r].pc = "closed"]
  /\ call' = [call EXCEPT ![th].run = r, ![th].outcome = "tool_error"]
  /\ UNCHANGED <<limVars, enabled, job, audit, feed, faults, abandoned, faulted>>

\* Mutant: the time-out is audited, and the answer waited for all the same.
GiveUpKeepsWaiting(th) ==
  /\ call[th].outcome = "pending"
  /\ disp[call[th].run].pc \in Working
  /\ Fault
  /\ audit' = audit \cup {<<call[th].run, "tool_timeout">>}
  /\ abandoned' = abandoned \cup {call[th].run}
  /\ UNCHANGED <<limVars, enabled, call, disp, job, feed, faulted>>

\* The read of the answer times out or the connection breaks.
GiveUp(th) ==
  /\ call[th].outcome = "pending"
  /\ disp[call[th].run].pc \in Working
  /\ Fault
  /\ \E rc \in {"tool_timeout", "tool_error"} : call' = [call EXCEPT ![th].outcome = rc]
  /\ abandoned' = abandoned \cup {call[th].run}
  /\ UNCHANGED <<limVars, enabled, disp, job, audit, feed, faulted>>

\* Mutant: no time-out on the connection.
HangUpNever(th) == FALSE

\* The dispatcher's handler ended without an answer.
HangUp(th) ==
  /\ call[th].outcome = "pending"
  /\ disp[call[th].run].pc = "closed"
  /\ \E rc \in {"tool_timeout", "tool_error"} : call' = [call EXCEPT ![th].outcome = rc]
  /\ abandoned' = abandoned \cup {call[th].run}
  /\ UNCHANGED <<limVars, enabled, disp, job, audit, feed, faults, faulted>>

Audited(th) == audit' = audit \cup {<<call[th].run, call[th].outcome>>}

\* build_tool_invoke_response after execute: release, then audit and notify.  The
\* publish is best effort.
FinishInvoke(th) ==
  /\ call[th].kind = "invoke"
  /\ call[th].outcome \in ResultClasses
  /\ Release(th)
  /\ Audited(th)
  /\ LET event == IF call[th].outcome = "success" THEN "agent_task_completed"
                                                  ELSE "agent_task_failed"
     IN feed' \in {feed, feed \cup {<<call[th].run, event>>}}
  /\ call' = [call EXCEPT ![th] = NoCall]
  /\ UNCHANGED <<enabled, disp, job, faults, abandoned, faulted>>

\* run_agent_loop: the call is audited and the loop goes on.
Observe(th) ==
  /\ call[th].kind = "agent"
  /\ call[th].outcome \in ResultClasses
  /\ Audited(th)
  /\ call' = [call EXCEPT ![th].run = NoRun, ![th].outcome = "none"]
  /\ UNCHANGED <<limVars, enabled, disp, job, feed, faults, abandoned, faulted>>

\* Mutant: the run's slot is not released.
FinishAgentKeepsSlot(th) ==
  /\ call[th].kind = "agent"
  /\ CanCall(th)
  /\ thread' = [thread EXCEPT ![th] = IdleThread]
  /\ call' = [call EXCEPT ![th] = NoCall]
  /\ UNCHANGED <<clock, windows, permits, admitted, stale>>
  /\ UNCHANGED <<enabled, disp, job, audit, feed, faults, abandoned, faulted>>

\* The run ends, for whatever reason, and frees its slot.
FinishAgent(th) ==
  /\ call[th].kind = "agent"
  /\ CanCall(th)
  /\ Release(th)
  /\ call' = [call EXCEPT ![th] = NoCall]
  /\ UNCHANGED <<enabled, disp, job, audit, feed, faults, abandoned, faulted>>

\* The process dies or is redeployed, perhaps with the kill switch changed.
\* Child processes go with its container; the dispatcher notices nothing.
Restart ==
  /\ Fault
  /\ LimRestart
  /\ enabled' \in BOOLEAN
  /\ call' = [th \in Threads |-> NoCall]
  /\ abandoned' = abandoned \cup {r \in Runs : Waiting(r) # {}}
  /\ job' = [r \in Runs |-> IF disp[r].pc = "child" THEN [job[r] EXCEPT !.phase = "gone"]
                                                    ELSE job[r]]
  /\ disp' = [r \in Runs |-> IF disp[r].pc = "child" THEN [disp[r] EXCEPT !.pc = "closed"]
                                                     ELSE disp[r]]
  /\ UNCHANGED <<audit, feed, faulted>>

ControlPlane ==
  \/ \E th \in Threads, t \in Tenants : Arrive(th, t)
  \/ \E th \in Threads : CountCall(th) /\ UNCHANGED jobVars
  \/ \E th \in Threads :
       \/ Admit(th) \/ Collect(th) \/ GiveUp(th) \/ HangUp(th)
       \/ FinishInvoke(th) \/ Observe(th) \/ FinishAgent(th)
  \/ \E th \in Threads, r \in Runs : Spawn(th, r) \/ PostRun(th, r) \/ PostRefused(th, r)

----------------------------------------------------------------------------
\* The dispatcher: run_tool_job.

dispOnly == <<limVars, enabled, audit, feed, abandoned>>

\* A failed Kubernetes call of run r.
CallFails(r) == Fault /\ faulted' = faulted \cup {r}
CallWorks == NoFault /\ UNCHANGED faulted

\* A create that fails may have been applied; it is outside the try/finally.
CreateJob(r) ==
  /\ disp[r].pc = "create"
  /\ \/ /\ CallWorks
        /\ job' = [job EXCEPT ![r].phase = "active"]
        /\ disp' = [disp EXCEPT ![r].pc = "poll"]
     \/ /\ CallFails(r)
        /\ job' \in {job, [job EXCEPT ![r].phase = "active"]}
        /\ \E pc \in {"reply", "closed"} :
             disp' = [disp EXCEPT ![r] = [pc |-> pc, rc |-> "tool_error"]]
  /\ UNCHANGED <<dispOnly, call>>

\* One get_job.  A Job still active past overall_timeout is a tool_timeout;
\* before that the loop sleeps and polls again.
PolledClass(r) ==
  CASE job[r].phase \notin Live -> "tool_error"
    [] job[r].phase = "active" -> "tool_timeout"
    [] job[r].result = "deadline" -> "tool_timeout"
    [] OTHER -> "tool_error"
\* Mutant: a Job that fails or times out is answered for and left behind.
PollJobReturns(r) ==
  /\ disp[r].pc = "poll"
  /\ CallWorks
  /\ disp' = [disp EXCEPT ![r] =
       IF job[r].phase = "finished" /\ job[r].result \in {"ok", "not_ok"}
       THEN [@ EXCEPT !.pc = "read"]
       ELSE [pc |-> "reply", rc |-> PolledClass(r)]]
  /\ UNCHANGED <<dispOnly, call, job>>

PollJob(r) ==
  /\ disp[r].pc = "poll"
  /\ \/ /\ CallWorks
        /\ disp' = [disp EXCEPT ![r] =
             IF job[r].phase = "finished" /\ job[r].result \in {"ok", "not_ok"}
             THEN [@ EXCEPT !.pc = "read"]
             ELSE [pc |-> "delete", rc |-> PolledClass(r)]]
     \/ /\ CallFails(r)
        /\ \E rc \in {"tool_error", "raise"} :
             disp' = [disp EXCEPT ![r] = [pc |-> "delete", rc |-> rc]]
  /\ UNCHANGED <<dispOnly, call, job>>

\* _read_pod_result and _classify_log; a pod's log may be gone before its Job.
ReadLog(r) ==
  /\ disp[r].pc = "read"
  /\ \/ /\ CallWorks
        /\ \E rc \in IF job[r].phase = "finished" /\ job[r].result = "ok" THEN {"success", "tool_error"}
                     ELSE {"tool_error", "unknown_tool"} :
             disp' = [disp EXCEPT ![r] = [pc |-> "delete", rc |-> rc]]
     \/ /\ CallFails(r)
        /\ \E rc \in {"tool_error", "raise"} :
             disp' = [disp EXCEPT ![r] = [pc |-> "delete", rc |-> rc]]
  /\ UNCHANGED <<dispOnly, call, job>>

\* The finally block.  A K8sError is swallowed, a read timeout is not.
AfterDelete(r) == IF disp[r].rc = "raise" THEN "closed" ELSE "reply"
DeleteJob(r) ==
  /\ disp[r].pc = "delete"
  /\ \/ /\ CallWorks
        /\ job' = [job EXCEPT ![r].phase = "gone"]
        /\ disp' = [disp EXCEPT ![r].pc = AfterDelete(r)]
     \/ /\ CallFails(r)
        /\ job' \in {job, [job EXCEPT ![r].phase = "gone"]}
        /\ \E pc \in {AfterDelete(r), "closed"} : disp' = [disp EXCEPT ![r].pc = pc]
  /\ UNCHANGED <<dispOnly, call>>

\* The answer; a caller that has gone does not get it.
Reply(r) ==
  /\ disp[r].pc = "reply"
  /\ disp' = [disp EXCEPT ![r].pc = "closed"]
  /\ call' = [th \in Threads |-> IF th \in Waiting(r) THEN [call[th] EXCEPT !.outcome = disp[r].rc]
                                                      ELSE call[th]]
  /\ UNCHANGED <<dispOnly, job, faults, faulted>>

\* The dispatcher's pod dies: all its threads at once.
DispatcherDies ==
  /\ Fault
  /\ faulted' = faulted \cup {r \in Runs : disp[r].pc \in Working}
  /\ disp' = [r \in Runs |-> IF disp[r].pc \in Working THEN [disp[r] EXCEPT !.pc = "closed"]
                                                       ELSE disp[r]]
  /\ UNCHANGED <<dispOnly, call, job>>

Dispatcher(r) == CreateJob(r) \/ PollJob(r) \/ ReadLog(r) \/ DeleteJob(r) \/ Reply(r)

----------------------------------------------------------------------------
\* Kubernetes (external).

IsJob(r) == disp[r].pc # "child"

JobEnds(r) ==
  /\ IsJob(r)
  /\ job[r].phase = "active"
  /\ \E result \in {"ok", "not_ok", "failed", "deadline"} :
       job' = [job EXCEPT ![r] = [phase |-> "finished", result |-> result]]
  /\ UNCHANGED <<limVars, enabled, call, disp, audit, feed, faults, abandoned, faulted>>

\* Mutant: a manifest without ttlSecondsAfterFinished.
TtlReapNever(r) == FALSE

TtlReap(r) ==
  /\ IsJob(r)
  /\ job[r].phase = "finished"
  /\ job' = [job EXCEPT ![r].phase = "gone"]
  /\ UNCHANGED <<limVars, enabled, call, disp, audit, feed, faults, abandoned, faulted>>

----------------------------------------------------------------------------
Init ==
  /\ LimInit
  /\ enabled \in BOOLEAN
  /\ call = [th \in Threads |-> NoCall]
  /\ disp = [r \in Runs |-> [pc |-> "unused", rc |-> "tool_error"]]
  /\ job = [r \in Runs |-> [phase |-> "none", result |-> "none"]]
  /\ audit = {} /\ feed = {}
  /\ faults = 0
  /\ abandoned = {} /\ faulted = {}

Next ==
  \/ Tick /\ UNCHANGED jobVars
  \/ ControlPlane
  \/ Restart
  \/ \E r \in Runs : Dispatcher(r) \/ JobEnds(r) \/ TtlReap(r)
  \/ DispatcherDies

Spec == Init /\ [][Next]_vars

\* Threads of both servers are scheduled and every wait of theirs ends: child
\* processes and Jobs have deadlines.  Kubernetes' controllers enforce the
\* deadline and the TTL.  Nothing is assumed of faults, restarts or requests.
Proceed(th) ==
  \/ CountCall(th) /\ UNCHANGED jobVars
  \/ Admit(th) \/ Collect(th) \/ HangUp(th) \/ FinishInvoke(th) \/ Observe(th) \/ FinishAgent(th)
  \/ \E r \in Runs : PostRefused(th, r)
Fairness ==
  /\ \A th \in Threads : WF_vars(Proceed(th))
  /\ \A r \in Runs : WF_vars(Dispatcher(r)) /\ WF_vars(JobEnds(r)) /\ WF_vars(TtlReap(r))

FairSpec == Spec /\ Fairness

----------------------------------------------------------------------------
\* Properties.

Existing == {r \in Runs : job[r].phase \in Live}

\* The concurrency cap covers every child process and Job but those of calls
\* that something happened to: the caller timed out, lost its connection or was
\* restarted, a Kubernetes call of the run failed, or the dispatcher died.
AttendedWithinCap == Cardinality(Existing \ (abandoned \cup faulted)) <= Slots

\* A Job outlives the dispatcher's thread for it only if one of that run's
\* Kubernetes calls failed or the dispatcher died: every other exit deletes it.
ReapedUnlessFaulted ==
  \A r \in Existing : disp[r].pc \in {"reply", "closed"} => r \in faulted

\* An execution audited or announced as a success really finished well, and it
\* is announced to its user only as what it was audited as.
SuccessIsReal ==
  /\ \A e \in audit : e[2] = "success" => job[e[1]].result = "ok"
  /\ \A e \in feed : e[2] = "agent_task_completed" <=> <<e[1], "success">> \in audit

\* A run is audited at most once, with one class: a late answer of the
\* dispatcher never overtakes the outcome its caller has settled for.
OneVerdict == \A e, f \in audit : e[1] = f[1] => e = f

\* What the audit log and the feed say of a run is one verdict, and a true one,
\* whichever of caller, dispatcher and Job was the slowest or failed.
VerdictsAreTrue == SuccessIsReal /\ OneVerdict

\* Whatever fails, every child process and Job is gone in the end.
JobsEventuallyGone == \A r \in Runs : job[r].phase \in Live ~> job[r].phase = "gone"

\* Whatever fails, a handler that got a slot gives it back.
SlotsComeBack == \A th \in Threads : thread[th].pc = "running" ~> thread[th].pc # "running"
============================================================================
