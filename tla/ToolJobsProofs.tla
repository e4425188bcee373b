--------------------------- MODULE ToolJobsProofs ---------------------------
(***************************************************************************)
(* What tool execution guarantees for any number of request threads, tool  *)
(* calls and faults.                                                       *)
(***************************************************************************)
EXTENDS ToolJobs, RateLimiterProofs

----------------------------------------------------------------------------
\* Every step of this system is a step of the limiter or leaves it alone.

\* Every step of tool execution is a step of the limiter or leaves it alone.
LEMMA StepsOfTheLimiter ==
  ASSUME [Next]_vars
  PROVE  [LimNext]_limVars
<1>1. CASE UNCHANGED vars
  BY <1>1 DEF vars
<1>2. CASE UNCHANGED limVars
  BY <1>2
<1>3. CASE Tick /\ UNCHANGED jobVars
  BY <1>3 DEF LimNext
<1>4. CASE ControlPlane
  <2>1. ASSUME NEW th \in Threads, NEW t \in Tenants, Arrive(th, t)
        PROVE  LimNext
    BY <2>1 DEF Arrive, LimNext
  <2>2. ASSUME NEW th \in Threads, CountCall(th) \/ Admit(th) \/ FinishInvoke(th) \/ FinishAgent(th)
        PROVE  LimNext
    BY <2>2 DEF Admit, FinishInvoke, FinishAgent, LimNext
  <2>3. ASSUME NEW th \in Threads, Collect(th) \/ GiveUp(th) \/ HangUp(th) \/ Observe(th)
        PROVE  UNCHANGED limVars
    BY <2>3 DEF Collect, GiveUp, HangUp, Observe
  <2>4. ASSUME NEW th \in Threads, NEW r \in Runs,
               Spawn(th, r) \/ PostRun(th, r) \/ PostRefused(th, r)
        PROVE  UNCHANGED limVars
    BY <2>4 DEF Spawn, PostRun, PostRefused, Begin
  <2> QED
    BY <1>4, <2>1, <2>2, <2>3, <2>4 DEF ControlPlane
<1>5. CASE Restart
  BY <1>5 DEF Restart, LimNext
<1>6. ASSUME NEW r \in Runs, Dispatcher(r) \/ JobEnds(r) \/ TtlReap(r)
      PROVE  UNCHANGED limVars
  BY <1>6 DEF Dispatcher, CreateJob, PollJob, ReadLog, DeleteJob, Reply, dispOnly, JobEnds, TtlReap
<1>7. CASE DispatcherDies
  BY <1>7 DEF DispatcherDies, dispOnly
<1> QED
  BY <1>1, <1>2, <1>3, <1>4, <1>5, <1>6, <1>7 DEF Next

\* Tool execution uses the limiter as its specification says.
THEOREM RefinesLimiter == Spec => LimSpec
<1>1. Init => LimInit
  BY DEF Init
<1>2. [Next]_vars => [LimNext]_limVars
  BY StepsOfTheLimiter
<1> QED
  BY <1>1, <1>2, PTL DEF Spec, LimSpec

----------------------------------------------------------------------------
\* What updates of one field do.

\* Setting the outcome of one call changes nothing else about the calls.
LEMMA CallOutcome ==
  ASSUME call \in [Threads -> Call], NEW th \in Threads,
         NEW rc \in ResultClasses \cup {"none", "pending"},
         call' = [call EXCEPT ![th].outcome = rc]
  PROVE  /\ call' \in [Threads -> Call]
         /\ call'[th].run = call[th].run /\ call'[th].outcome = rc
         /\ \A x \in Threads \ {th} : call'[x] = call[x]
<1>1. call[th] \in Call
  OBVIOUS
<1>2. PICK c : c = [call[th] EXCEPT !.outcome = rc]
  OBVIOUS
<1>3. c \in Call /\ c.run = call[th].run /\ c.outcome = rc
  BY <1>1, <1>2 DEF Call
<1>4. call' = [call EXCEPT ![th] = c]
  BY <1>2
<1> QED
  BY <1>3, <1>4

\* Starting a run sets the run and outcome of one call only.
LEMMA CallBegin ==
  ASSUME call \in [Threads -> Call], NEW th \in Threads, NEW r \in Runs \cup {NoRun},
         NEW rc \in ResultClasses \cup {"none", "pending"},
         call' = [call EXCEPT ![th].run = r, ![th].outcome = rc]
  PROVE  /\ call' \in [Threads -> Call]
         /\ call'[th].run = r /\ call'[th].outcome = rc
         /\ \A x \in Threads \ {th} : call'[x] = call[x]
<1>1. call[th] \in Call
  OBVIOUS
<1>2. PICK c : c = [[call[th] EXCEPT !.run = r] EXCEPT !.outcome = rc]
  OBVIOUS
<1>3. c \in Call /\ c.run = r /\ c.outcome = rc
  BY <1>1, <1>2 DEF Call
<1>4. call' = [call EXCEPT ![th] = c]
  BY <1>2
<1> QED
  BY <1>3, <1>4

\* Moving one dispatch on changes nothing else about the dispatches.
LEMMA DispPc ==
  ASSUME disp \in [Runs -> Dispatch], NEW r \in Runs,
         NEW pc \in {"unused", "child", "create", "poll", "read", "delete", "reply", "closed"},
         disp' = [disp EXCEPT ![r].pc = pc]
  PROVE  /\ disp' \in [Runs -> Dispatch]
         /\ disp'[r].pc = pc /\ disp'[r].rc = disp[r].rc
         /\ \A q \in Runs \ {r} : disp'[q] = disp[q]
<1>1. disp[r] \in Dispatch
  OBVIOUS
<1>2. PICK d : d = [disp[r] EXCEPT !.pc = pc]
  OBVIOUS
<1>3. d \in Dispatch /\ d.pc = pc /\ d.rc = disp[r].rc
  BY <1>1, <1>2 DEF Dispatch
<1>4. disp' = [disp EXCEPT ![r] = d]
  BY <1>2
<1> QED
  BY <1>3, <1>4

\* Changing the phase of one Job changes nothing else about the Jobs.
LEMMA JobPhase ==
  ASSUME job \in [Runs -> Job], NEW r \in Runs, NEW phase \in {"none", "gone"} \cup Live,
         job' = [job EXCEPT ![r].phase = phase]
  PROVE  /\ job' \in [Runs -> Job]
         /\ job'[r].phase = phase /\ job'[r].result = job[r].result
         /\ \A q \in Runs \ {r} : job'[q] = job[q]
<1>1. job[r] \in Job
  OBVIOUS
<1>2. PICK j : j = [job[r] EXCEPT !.phase = phase]
  OBVIOUS
<1>3. j \in Job /\ j.phase = phase /\ j.result = job[r].result
  BY <1>1, <1>2 DEF Job
<1>4. job' = [job EXCEPT ![r] = j]
  BY <1>2
<1> QED
  BY <1>3, <1>4


----------------------------------------------------------------------------
\* The inductive invariant.

\* A tool call under way belongs to a running handler, and to one only.
CallInv ==
  /\ \A th \in Threads : call[th].outcome # "none" =>
       /\ thread[th].pc = "running"
       /\ call[th].run \in Runs
       /\ disp[call[th].run].pc # "unused"
       /\ call[th].outcome = "success" => job[call[th].run].result = "ok"
  /\ \A x, y \in Threads :
       call[x].outcome # "none" /\ call[y].outcome # "none" /\ call[x].run = call[y].run => x = y

Attended(r) == \E th \in Threads : call[th].run = r /\ call[th].outcome = "pending"

\* Where a run is, what exists of it, and whether its caller is there.
RunOK(r) ==
  /\ disp[r].pc \in {"unused", "create"} => job[r].phase = "none"
  /\ disp[r].pc = "child" => job[r].phase = "active"
  /\ disp[r].pc \in {"reply", "closed"} /\ r \notin faulted => job[r].phase \notin Live
  /\ disp[r].pc \in Working \cup {"child"} /\ r \notin abandoned /\ r \notin faulted => Attended(r)
  /\ job[r].phase \in {"none", "active"} => job[r].result = "none"
  /\ disp[r].rc = "success" => job[r].result = "ok"
  /\ disp[r].pc = "reply" => disp[r].rc # "raise"
RunInv == \A r \in Runs : RunOK(r)

\* An audited run is over for its caller; the feed says what the audit says.
AuditInv ==
  /\ \A r \in Runs, c \in ResultClasses : <<r, c>> \in audit =>
       /\ disp[r].pc # "unused"
       /\ \A th \in Threads : call[th].outcome # "none" => call[th].run # r
       /\ c = "success" => job[r].result = "ok"
       /\ \A d \in ResultClasses : <<r, d>> \in audit => c = d
  /\ \A r \in Runs :
       /\ <<r, "agent_task_completed">> \in feed => <<r, "success">> \in audit
       /\ <<r, "agent_task_failed">> \in feed =>
            \E c \in ResultClasses \ {"success"} : <<r, c>> \in audit

JobTypes ==
  /\ call \in [Threads -> Call]
  /\ disp \in [Runs -> Dispatch]
  /\ job \in [Runs -> Job]

IInv == CallInv /\ RunInv /\ AuditInv

\* Steps that touch threads outside their tool calls only.
LEMMA QuietStep ==
  ASSUME JobTypes, IInv, UNCHANGED <<call, disp, job, audit, feed, abandoned, faulted>>,
         \A x \in Threads : thread[x].pc = "running" => thread'[x].pc = "running"
  PROVE  JobTypes' /\ IInv'
<1>1. JobTypes'
  BY DEF JobTypes
<1>2. CallInv'
  BY DEF IInv, CallInv
<1>3. RunInv'
  BY DEF IInv, RunInv, RunOK, Attended
<1>4. AuditInv'
  BY DEF IInv, AuditInv
<1> QED
  BY <1>1, <1>2, <1>3, <1>4 DEF IInv

\* A call that arrives touches no run.
LEMMA ArriveKeeps ==
  ASSUME TypeOK, IInv, NEW th \in Threads, NEW t \in Tenants, Arrive(th, t)
  PROVE  JobTypes' /\ IInv'
<1>1. \A x \in Threads : thread[x].pc = "running" => thread'[x].pc = "running"
  BY DEF Arrive, ReadClock, TypeOK, LimTypeOK
<1> QED
  BY <1>1, QuietStep DEF Arrive, jobVars, TypeOK, JobTypes

\* The window check touches no run.
LEMMA CountKeeps ==
  ASSUME TypeOK, IInv, NEW th \in Threads, CountCall(th), UNCHANGED jobVars
  PROVE  JobTypes' /\ IInv'
<1>1. /\ thread[th].pc = "timed"
      /\ \/ thread' = [thread EXCEPT ![th] = IdleThread]
         \/ thread' = [thread EXCEPT ![th].pc = "counted"]
  BY DEF CountCall
<1>2. \A x \in Threads \ {th} : thread'[x] = thread[x]
  BY <1>1, MoveThread DEF TypeOK, LimTypeOK
<1>3. \A x \in Threads : thread[x].pc = "running" => thread'[x].pc = "running"
  BY <1>1, <1>2
<1> QED
  BY <1>3, QuietStep DEF jobVars, TypeOK, JobTypes

\* Steps that begin a tool call.
LEMMA BeginKeeps ==
  ASSUME IInv, NEW th \in Threads, NEW r \in Runs,
         thread[th].pc = "running", call[th].outcome = "none", disp[r].pc = "unused",
         UNCHANGED <<thread, audit, feed, abandoned, faulted>>,
         call'[th].run = r, call'[th].outcome \in {"pending", "tool_error"},
         \A x \in Threads \ {th} : call'[x] = call[x],
         disp'[r].pc \in {"child", "create", "closed"}, disp'[r].rc = disp[r].rc,
         \A q \in Runs \ {r} : disp'[q] = disp[q],
         call'[th].outcome = "pending" \/ disp'[r].pc = "closed",
         job'[r].result = job[r].result,
         job'[r].phase = (IF disp'[r].pc = "child" THEN "active" ELSE job[r].phase),
         \A q \in Runs \ {r} : job'[q] = job[q]
  PROVE  IInv'
<1>1. CallInv'
  BY DEF IInv, CallInv
<1>2. ASSUME NEW q \in Runs PROVE RunOK(q)'
  <2>1. CASE q = r
    <3>1. RunOK(r) /\ job[r].phase = "none" /\ job[r].result = "none"
      BY DEF IInv, RunInv, RunOK
    <3>2. disp'[r].pc \in Working \cup {"child"} => Attended(r)'
      BY DEF Attended, Working
    <3> QED
      BY <2>1, <3>1, <3>2 DEF RunOK, Live, Working
  <2>2. CASE q # r
    <3>1. RunOK(q) /\ (Attended(q) => Attended(q)')
      BY <2>2 DEF IInv, RunInv, Attended
    <3> QED
      BY <2>2, <3>1 DEF RunOK
  <2> QED
    BY <2>1, <2>2
<1>3. AuditInv'
  BY DEF IInv, AuditInv
<1> QED
  BY <1>1, <1>2, <1>3 DEF IInv, RunInv

\* Steps about one run under way: they may settle its caller's outcome.
LEMMA OneRunKeeps ==
  ASSUME IInv, NEW r \in Runs,
         disp[r].pc # "unused" \/ job[r].phase \in Live,
         UNCHANGED <<thread, audit, feed>>,
         \A x \in Threads :
           \/ call'[x] = call[x]
           \/ /\ call'[x].run = r /\ call[x].run = r /\ call[x].outcome = "pending"
              /\ call'[x].outcome \in ResultClasses
              /\ call'[x].outcome = "success" => job'[r].result = "ok",
         disp[r].pc # "unused" => disp'[r].pc # "unused",
         job[r].result = "ok" => job'[r].result = "ok",
         \A q \in Runs \ {r} : disp'[q] = disp[q] /\ job'[q] = job[q],
         \A q \in Runs \ {r} : (q \in faulted' <=> q \in faulted) /\ (q \in abandoned' <=> q \in abandoned),
         RunOK(r)'
  PROVE  IInv'
<1>0. disp[r].pc # "unused"
  BY DEF IInv, RunInv, RunOK, Live
<1>1. \A x \in Threads : /\ call'[x].run = call[x].run
                         /\ call'[x].outcome # "none" <=> call[x].outcome # "none"
  BY DEF ResultClasses
<1>2. CallInv'
  <2>1. ASSUME NEW x \in Threads, call'[x].outcome # "none"
        PROVE  /\ thread'[x].pc = "running"
               /\ call'[x].run \in Runs
               /\ disp'[call'[x].run].pc # "unused"
               /\ call'[x].outcome = "success" => job'[call'[x].run].result = "ok"
    BY <1>0, <1>1, <2>1 DEF IInv, CallInv
  <2>2. \A x, y \in Threads :
          call'[x].outcome # "none" /\ call'[y].outcome # "none" /\ call'[x].run = call'[y].run => x = y
    BY <1>1 DEF IInv, CallInv
  <2> QED
    BY <2>1, <2>2 DEF CallInv
<1>3. ASSUME NEW q \in Runs, q # r PROVE RunOK(q)'
  <2>1. RunOK(q) /\ (Attended(q) => Attended(q)')
    BY <1>3 DEF IInv, RunInv, Attended
  <2> QED
    BY <1>3, <2>1 DEF RunOK
<1>4. AuditInv'
  <2>1. \A q \in Runs : /\ disp[q].pc # "unused" => disp'[q].pc # "unused"
                        /\ job[q].result = "ok" => job'[q].result = "ok"
    OBVIOUS
  <2> QED
    BY <1>1, <2>1 DEF IInv, AuditInv
<1> QED
  BY <1>2, <1>3, <1>4 DEF IInv, RunInv

\* Steps that start or end a handler between tool calls.
LEMMA HandlerKeeps ==
  ASSUME IInv, NEW th \in Threads, call[th].outcome = "none", call'[th].outcome = "none",
         \A x \in Threads \ {th} : call'[x] = call[x] /\ thread'[x] = thread[x],
         UNCHANGED <<disp, job, audit, feed, abandoned, faulted>>
  PROVE  IInv'
<1>1. CallInv'
  BY DEF IInv, CallInv
<1>2. ASSUME NEW q \in Runs PROVE RunOK(q)'
  <2>1. RunOK(q) /\ (Attended(q) => Attended(q)')
    BY DEF IInv, RunInv, Attended
  <2> QED
    BY <2>1 DEF RunOK
<1>3. AuditInv'
  BY DEF IInv, AuditInv
<1> QED
  BY <1>1, <1>2, <1>3 DEF IInv, RunInv

\* Steps that audit a settled call and forget it.
LEMMA AuditKeeps ==
  ASSUME IInv, NEW th \in Threads, NEW r \in Runs, NEW c \in ResultClasses,
         call[th].run = r, call[th].outcome = c, call'[th].outcome = "none",
         \A x \in Threads \ {th} : call'[x] = call[x] /\ thread'[x] = thread[x],
         audit' = audit \cup {<<r, c>>},
         \/ feed' = feed
         \/ feed' = feed \cup {<<r, IF c = "success" THEN "agent_task_completed"
                                                    ELSE "agent_task_failed">>},
         UNCHANGED <<disp, job, abandoned, faulted>>
  PROVE  IInv'
<1>1. CallInv'
  BY DEF IInv, CallInv
<1>2. ASSUME NEW q \in Runs PROVE RunOK(q)'
  <2>1. RunOK(q) /\ (Attended(q) => Attended(q)')
    BY DEF IInv, RunInv, Attended, ResultClasses
  <2> QED
    BY <2>1 DEF RunOK
<1>3. \A d \in ResultClasses : <<r, d>> \notin audit
  BY DEF IInv, AuditInv, ResultClasses
<1>4. \A x \in Threads : call'[x].outcome # "none" => x # th /\ call'[x] = call[x] /\ call'[x].run # r
  BY DEF IInv, CallInv, ResultClasses
<1>5. AuditInv'
  <2>1. ASSUME NEW q \in Runs, NEW d \in ResultClasses, <<q, d>> \in audit'
        PROVE  /\ disp'[q].pc # "unused"
               /\ \A x \in Threads : call'[x].outcome # "none" => call'[x].run # q
               /\ d = "success" => job'[q].result = "ok"
               /\ \A e \in ResultClasses : <<q, e>> \in audit' => d = e
    <3>1. CASE <<q, d>> = <<r, c>>
      BY <3>1, <1>3, <1>4 DEF IInv, CallInv, ResultClasses
    <3>2. CASE <<q, d>> \in audit
      BY <3>2, <1>3, <1>4 DEF IInv, AuditInv
    <3> QED
      BY <2>1, <3>1, <3>2
  <2>2. ASSUME NEW q \in Runs
        PROVE  /\ <<q, "agent_task_completed">> \in feed' => <<q, "success">> \in audit'
               /\ <<q, "agent_task_failed">> \in feed' =>
                    \E d \in ResultClasses \ {"success"} : <<q, d>> \in audit'
    <3>1. CASE q = r
      BY <3>1, <1>3 DEF IInv, AuditInv
    <3>2. CASE q # r
      BY <3>2 DEF IInv, AuditInv
    <3> QED
      BY <3>1, <3>2
  <2> QED
    BY <2>1, <2>2 DEF AuditInv
<1> QED
  BY <1>1, <1>2, <1>5 DEF IInv, RunInv

----------------------------------------------------------------------------
\* The control plane's actions.

\* An admitted handler starts without a tool call; a refused one goes idle.
LEMMA AdmitKeeps ==
  ASSUME TypeOK, IInv, NEW th \in Threads, Admit(th)
  PROVE  JobTypes' /\ IInv'
<1>1. /\ thread[th].pc = "counted"
      /\ \/ thread' = [thread EXCEPT ![th] = IdleThread]
         \/ thread' = [thread EXCEPT ![th].pc = "running"]
      /\ \/ call' = call
         \/ \E kind \in {"invoke", "agent"} :
              call' = [call EXCEPT ![th] = [kind |-> kind, run |-> NoRun, outcome |-> "none"]]
      /\ UNCHANGED <<disp, job, audit, feed, abandoned, faulted>>
  BY DEF Admit, AcquireSlot
<1>2. \A x \in Threads \ {th} : thread'[x] = thread[x]
  BY <1>1, MoveThread DEF TypeOK, LimTypeOK
<1>3. call[th].outcome = "none"
  BY <1>1 DEF IInv, CallInv
<1>4. /\ call' \in [Threads -> Call]
      /\ call'[th].outcome = "none"
      /\ \A x \in Threads \ {th} : call'[x] = call[x]
  BY <1>1, <1>3 DEF TypeOK, Call
<1>5. IInv'
  BY <1>1, <1>2, <1>3, <1>4, HandlerKeeps
<1> QED
  BY <1>1, <1>4, <1>5 DEF TypeOK, JobTypes

\* Popen, POST /run and a POST that does not get there.
LEMMA CallStarts ==
  ASSUME TypeOK, IInv, NEW th \in Threads, NEW r \in Runs,
         Spawn(th, r) \/ PostRun(th, r) \/ PostRefused(th, r)
  PROVE  JobTypes' /\ IInv'
<1>1. /\ thread[th].pc = "running" /\ call[th].outcome = "none" /\ disp[r].pc = "unused"
      /\ UNCHANGED <<thread, audit, feed, abandoned, faulted>>
  BY DEF Spawn, PostRun, PostRefused, Begin, CanCall, FreshRun, limVars
<1>2. PICK pc \in {"child", "create", "closed"}, rc \in {"pending", "tool_error"} :
        /\ disp' = [disp EXCEPT ![r].pc = pc]
        /\ call' = [call EXCEPT ![th].run = r, ![th].outcome = rc]
        /\ rc = "pending" \/ pc = "closed"
        /\ pc = "child" => job' = [job EXCEPT ![r].phase = "active"]
        /\ pc # "child" => job' = job
  BY DEF Spawn, PostRun, PostRefused, Begin
<1>3. /\ disp' \in [Runs -> Dispatch]
      /\ disp'[r].pc = pc /\ disp'[r].rc = disp[r].rc
      /\ \A q \in Runs \ {r} : disp'[q] = disp[q]
  BY <1>2, DispPc DEF TypeOK
<1>4. /\ call' \in [Threads -> Call]
      /\ call'[th].run = r /\ call'[th].outcome = rc
      /\ \A x \in Threads \ {th} : call'[x] = call[x]
  <2>1. rc \in ResultClasses \cup {"none", "pending"} /\ r \in Runs \cup {NoRun}
    BY DEF ResultClasses
  <2> QED
    BY <1>2, <2>1, CallBegin DEF TypeOK
<1>5. /\ job' \in [Runs -> Job]
      /\ job'[r].result = job[r].result
      /\ job'[r].phase = (IF pc = "child" THEN "active" ELSE job[r].phase)
      /\ \A q \in Runs \ {r} : job'[q] = job[q]
  <2>1. CASE pc = "child"
    BY <2>1, <1>2, JobPhase DEF TypeOK, Live
  <2>2. CASE pc # "child"
    BY <2>2, <1>2 DEF TypeOK
  <2> QED
    BY <2>1, <2>2
<1>6. IInv'
  BY <1>1, <1>2, <1>3, <1>4, <1>5, BeginKeeps
<1> QED
  BY <1>3, <1>4, <1>5, <1>6 DEF JobTypes

\* The caller of a child process, or a caller that stops waiting.
LEMMA CallSettles ==
  ASSUME TypeOK, IInv, NEW th \in Threads, Collect(th) \/ GiveUp(th) \/ HangUp(th)
  PROVE  JobTypes' /\ IInv'
<1>1. call[th].outcome = "pending" /\ UNCHANGED <<thread, audit, feed, faulted>>
  BY DEF Collect, GiveUp, HangUp, limVars
<1>2. PICK r \in Runs : r = call[th].run
  BY <1>1 DEF IInv, CallInv
<1>3. disp[r].pc # "unused" /\ RunOK(r)
  BY <1>1, <1>2 DEF IInv, CallInv, RunInv
<1>4. CASE Collect(th)
  <2>1. PICK rc \in ResultClasses :
          /\ call' = [call EXCEPT ![th].outcome = rc]
          /\ job' = [job EXCEPT ![r] =
                       [phase |-> "gone", result |-> IF rc = "success" THEN "ok" ELSE "failed"]]
    BY <1>2, <1>4 DEF Collect
  <2>2. disp[r].pc = "child" /\ disp' = [disp EXCEPT ![r].pc = "closed"] /\ UNCHANGED abandoned
    BY <1>2, <1>4 DEF Collect
  <2>3. /\ call' \in [Threads -> Call]
        /\ call'[th].run = r /\ call'[th].outcome = rc
        /\ \A x \in Threads \ {th} : call'[x] = call[x]
    BY <1>2, <2>1, CallOutcome DEF TypeOK
  <2>4. /\ disp' \in [Runs -> Dispatch]
        /\ disp'[r].pc = "closed" /\ disp'[r].rc = disp[r].rc
        /\ \A q \in Runs \ {r} : disp'[q] = disp[q]
    BY <2>2, DispPc DEF TypeOK
  <2>5. /\ job' \in [Runs -> Job]
        /\ job'[r].phase = "gone" /\ job'[r].result = (IF rc = "success" THEN "ok" ELSE "failed")
        /\ \A q \in Runs \ {r} : job'[q] = job[q]
    BY <2>1 DEF TypeOK, Job
  <2>6. job[r].result = "none"
    BY <1>3, <2>2 DEF RunOK
  <2>7. RunOK(r)'
    BY <1>3, <2>4, <2>5, <2>6 DEF RunOK, Live, Working
  <2>8. \A x \in Threads :
           \/ call'[x] = call[x]
           \/ /\ call'[x].run = r /\ call[x].run = r /\ call[x].outcome = "pending"
              /\ call'[x].outcome \in ResultClasses
              /\ call'[x].outcome = "success" => job'[r].result = "ok"
    BY <1>1, <1>2, <2>3, <2>5
  <2>9. IInv'
    BY <1>1, <1>3, <2>2, <2>4, <2>5, <2>6, <2>7, <2>8, OneRunKeeps
  <2> QED
    BY <2>3, <2>4, <2>5, <2>9 DEF JobTypes
<1>5. CASE GiveUp(th) \/ HangUp(th)
  <2>1. PICK rc \in {"tool_timeout", "tool_error"} : call' = [call EXCEPT ![th].outcome = rc]
    BY <1>5 DEF GiveUp, HangUp
  <2>2. abandoned' = abandoned \cup {r} /\ UNCHANGED <<disp, job>>
    BY <1>2, <1>5 DEF GiveUp, HangUp
  <2>3. /\ call' \in [Threads -> Call]
        /\ call'[th].run = r /\ call'[th].outcome = rc
        /\ \A x \in Threads \ {th} : call'[x] = call[x]
    BY <1>2, <2>1, CallOutcome DEF TypeOK, ResultClasses
  <2>4. RunOK(r)'
    BY <1>1, <1>3, <2>2 DEF RunOK
  <2>5. \A x \in Threads :
           \/ call'[x] = call[x]
           \/ /\ call'[x].run = r /\ call[x].run = r /\ call[x].outcome = "pending"
              /\ call'[x].outcome \in ResultClasses
              /\ call'[x].outcome = "success" => job'[r].result = "ok"
    BY <1>1, <1>2, <2>1, <2>3 DEF ResultClasses
  <2>6. IInv'
    BY <1>1, <1>3, <2>2, <2>4, <2>5, OneRunKeeps
  <2> QED
    BY <2>2, <2>3, <2>6 DEF JobTypes, TypeOK
<1> QED
  BY <1>4, <1>5

\* The audited end of a tool call.
LEMMA CallAudited ==
  ASSUME TypeOK, IInv, NEW th \in Threads, FinishInvoke(th) \/ Observe(th)
  PROVE  JobTypes' /\ IInv'
<1>1. call[th].outcome \in ResultClasses /\ UNCHANGED <<disp, job, abandoned, faulted>>
  BY DEF FinishInvoke, Observe
<1>2. PICK r \in Runs, c \in ResultClasses : r = call[th].run /\ c = call[th].outcome
  BY <1>1 DEF IInv, CallInv, ResultClasses
<1>3. audit' = audit \cup {<<r, c>>}
  BY <1>2 DEF FinishInvoke, Observe, Audited
<1>4. \/ feed' = feed
      \/ feed' = feed \cup {<<r, IF c = "success" THEN "agent_task_completed"
                                                  ELSE "agent_task_failed">>}
  BY <1>2 DEF FinishInvoke, Observe
<1>5. /\ call' \in [Threads -> Call]
      /\ call'[th].outcome = "none"
      /\ \A x \in Threads \ {th} : call'[x] = call[x]
  <2>1. CASE call' = [call EXCEPT ![th] = NoCall]
    BY <2>1 DEF TypeOK, NoCall, Call
  <2>2. CASE call' = [call EXCEPT ![th].run = NoRun, ![th].outcome = "none"]
    BY <2>2, CallBegin DEF TypeOK
  <2> QED
    BY <2>1, <2>2 DEF FinishInvoke, Observe
<1>6. \A x \in Threads \ {th} : thread'[x] = thread[x]
  BY DEF FinishInvoke, Observe, Release, limVars, TypeOK, LimTypeOK
<1>7. IInv'
  BY <1>1, <1>2, <1>3, <1>4, <1>5, <1>6, AuditKeeps
<1> QED
  BY <1>1, <1>5, <1>7 DEF JobTypes, TypeOK

\* The end of an agent run.
LEMMA FinishAgentKeeps ==
  ASSUME TypeOK, IInv, NEW th \in Threads, FinishAgent(th)
  PROVE  JobTypes' /\ IInv'
<1>1. /\ call[th].outcome = "none"
      /\ thread' = [thread EXCEPT ![th] = IdleThread]
      /\ call' = [call EXCEPT ![th] = NoCall]
      /\ UNCHANGED <<disp, job, audit, feed, abandoned, faulted>>
  BY DEF FinishAgent, CanCall, Release
<1>2. /\ call' \in [Threads -> Call]
      /\ call'[th].outcome = "none"
      /\ \A x \in Threads \ {th} : call'[x] = call[x] /\ thread'[x] = thread[x]
  BY <1>1 DEF TypeOK, LimTypeOK, NoCall, Call
<1>3. IInv'
  BY <1>1, <1>2, HandlerKeeps
<1> QED
  BY <1>1, <1>2, <1>3 DEF JobTypes, TypeOK

----------------------------------------------------------------------------
\* The dispatcher's and Kubernetes' actions.

\* Steps that change a run's Job and the dispatcher's thread, and no caller.
LEMMA RunMoves ==
  ASSUME IInv, NEW r \in Runs,
         disp[r].pc # "unused" \/ job[r].phase \in Live,
         UNCHANGED <<thread, call, audit, feed, abandoned>>,
         faulted' = faulted \/ faulted' = faulted \cup {r},
         disp[r].pc # "unused" => disp'[r].pc # "unused",
         job[r].result = "ok" => job'[r].result = "ok",
         \A q \in Runs \ {r} : disp'[q] = disp[q] /\ job'[q] = job[q],
         RunOK(r)'
  PROVE  IInv'
<1>1. \A q \in Runs \ {r} : (q \in faulted' <=> q \in faulted) /\ (q \in abandoned' <=> q \in abandoned)
  OBVIOUS
<1>2. \A x \in Threads : call'[x] = call[x]
  OBVIOUS
<1> QED
  BY <1>1, <1>2, OneRunKeeps

\* What a run's new place has to satisfy when its caller does not move.
LEMMA PlaceOK ==
  ASSUME NEW r \in Runs, RunOK(r), UNCHANGED <<call, abandoned>>,
         faulted' = faulted \/ faulted' = faulted \cup {r},
         disp[r].pc \in Working,
         disp'[r].pc \in {"poll", "read", "delete", "reply", "closed"},
         disp'[r].pc \in {"reply", "closed"} => r \in faulted' \/ job'[r].phase \notin Live,
         job'[r].phase \in {"none", "active"} => job'[r].result = "none",
         disp'[r].rc = "success" => job'[r].result = "ok",
         disp'[r].pc = "reply" => disp'[r].rc # "raise"
  PROVE  RunOK(r)'
<1>1. Attended(r) => Attended(r)'
  BY DEF Attended
<1> QED
  BY <1>1 DEF RunOK, Working

\* create_job, applied or not, answered or not, keeps the invariant.
LEMMA CreateKeeps ==
  ASSUME TypeOK, IInv, NEW r \in Runs, CreateJob(r)
  PROVE  JobTypes' /\ IInv'
<1>1. disp[r].pc = "create" /\ UNCHANGED <<thread, call, audit, feed, abandoned>>
  BY DEF CreateJob, dispOnly, limVars
<1>2. RunOK(r) /\ job[r].phase = "none" /\ job[r].result = "none" /\ disp[r].rc # "success"
  BY <1>1 DEF IInv, RunInv, RunOK
<1>3. /\ job' \in [Runs -> Job]
      /\ job'[r].phase \in {"none", "active"} /\ job'[r].result = "none"
      /\ \A q \in Runs \ {r} : job'[q] = job[q]
  <2>1. job' = job \/ job' = [job EXCEPT ![r].phase = "active"]
    BY DEF CreateJob
  <2>2. "active" \in {"none", "gone"} \cup Live
    BY DEF Live
  <2> QED
    BY <1>2, <2>1, <2>2, JobPhase DEF TypeOK
<1>4. /\ disp' \in [Runs -> Dispatch]
      /\ disp'[r].pc \in {"poll", "reply", "closed"} /\ disp'[r].rc # "success"
      /\ disp'[r].pc = "reply" => disp'[r].rc # "raise"
      /\ \A q \in Runs \ {r} : disp'[q] = disp[q]
      /\ \/ disp'[r].pc = "poll" /\ faulted' = faulted
         \/ faulted' = faulted \cup {r}
  <2>1. CASE CallWorks /\ disp' = [disp EXCEPT ![r].pc = "poll"]
    BY <1>2, <2>1, DispPc DEF CallWorks, TypeOK
  <2>2. CASE /\ CallFails(r)
             /\ \E pc \in {"reply", "closed"} :
                  disp' = [disp EXCEPT ![r] = [pc |-> pc, rc |-> "tool_error"]]
    BY <2>2 DEF CallFails, TypeOK, Dispatch, ResultClasses
  <2> QED
    BY <2>1, <2>2 DEF CreateJob
<1>5. RunOK(r)'
  BY <1>1, <1>2, <1>3, <1>4, PlaceOK DEF Working
<1>6. IInv'
  BY <1>1, <1>2, <1>3, <1>4, <1>5, RunMoves
<1> QED
  BY <1>1, <1>3, <1>4, <1>6 DEF JobTypes, TypeOK

\* get_job and the reading of the pod's log.
LEMMA PollAndReadKeep ==
  ASSUME TypeOK, IInv, NEW r \in Runs, PollJob(r) \/ ReadLog(r)
  PROVE  JobTypes' /\ IInv'
<1>1. /\ disp[r].pc \in {"poll", "read"}
      /\ UNCHANGED <<thread, call, job, audit, feed, abandoned>>
      /\ faulted' = faulted \/ faulted' = faulted \cup {r}
  BY DEF PollJob, ReadLog, dispOnly, limVars, CallWorks, CallFails
<1>2. RunOK(r)
  BY DEF IInv, RunInv
<1>3. /\ disp' \in [Runs -> Dispatch]
      /\ disp'[r].pc \in {"read", "delete"}
      /\ disp'[r].rc = "success" => job[r].result = "ok"
      /\ \A q \in Runs \ {r} : disp'[q] = disp[q]
  <2>1. CASE /\ disp' = [disp EXCEPT ![r].pc = "read"]
    BY <1>2, <2>1, DispPc DEF TypeOK, RunOK
  <2>2. ASSUME NEW rc \in ResultClasses \cup {"raise"}, rc = "success" => job[r].result = "ok",
               disp' = [disp EXCEPT ![r] = [pc |-> "delete", rc |-> rc]]
        PROVE  <1>3!:
    BY <2>2 DEF TypeOK, Dispatch
  <2>3. CASE PollJob(r)
    <3>1. \/ disp' = [disp EXCEPT ![r].pc = "read"]
          \/ disp' = [disp EXCEPT ![r] = [pc |-> "delete", rc |-> PolledClass(r)]]
          \/ \E rc \in {"tool_error", "raise"} :
               disp' = [disp EXCEPT ![r] = [pc |-> "delete", rc |-> rc]]
      BY <2>3 DEF PollJob
    <3>2. PolledClass(r) \in {"tool_error", "tool_timeout"}
      BY DEF PolledClass
    <3> QED
      BY <3>1, <3>2, <2>1, <2>2 DEF ResultClasses
  <2>4. CASE ReadLog(r)
    <3>1. \E rc \in ResultClasses \cup {"raise"} :
            /\ rc = "success" => job[r].result = "ok"
            /\ disp' = [disp EXCEPT ![r] = [pc |-> "delete", rc |-> rc]]
      BY <2>4 DEF ReadLog, ResultClasses
    <3> QED
      BY <3>1, <2>2
  <2> QED
    BY <2>3, <2>4
<1>4. RunOK(r)'
  BY <1>1, <1>2, <1>3, PlaceOK DEF Working, RunOK
<1>5. IInv'
  BY <1>1, <1>3, <1>4, RunMoves
<1> QED
  BY <1>1, <1>3, <1>5 DEF JobTypes, TypeOK

\* The finally block.
LEMMA DeleteKeeps ==
  ASSUME TypeOK, IInv, NEW r \in Runs, DeleteJob(r)
  PROVE  JobTypes' /\ IInv'
<1>1. disp[r].pc = "delete" /\ UNCHANGED <<thread, call, audit, feed, abandoned>>
  BY DEF DeleteJob, dispOnly, limVars
<1>2. RunOK(r)
  BY DEF IInv, RunInv
<1>3. PICK pc \in {"reply", "closed"} :
        disp' = [disp EXCEPT ![r].pc = pc] /\ (pc = "reply" => disp[r].rc # "raise")
  BY DEF DeleteJob, AfterDelete
<1>4. /\ disp' \in [Runs -> Dispatch]
      /\ disp'[r].pc = pc /\ disp'[r].rc = disp[r].rc
      /\ \A q \in Runs \ {r} : disp'[q] = disp[q]
  BY <1>3, DispPc DEF TypeOK
<1>5. /\ job' \in [Runs -> Job]
      /\ job'[r].phase \in {job[r].phase, "gone"} /\ job'[r].result = job[r].result
      /\ \A q \in Runs \ {r} : job'[q] = job[q]
      /\ \/ job'[r].phase = "gone" /\ faulted' = faulted
         \/ faulted' = faulted \cup {r}
  <2>1. \/ job' = [job EXCEPT ![r].phase = "gone"] /\ faulted' = faulted
        \/ /\ job' = job \/ job' = [job EXCEPT ![r].phase = "gone"]
           /\ faulted' = faulted \cup {r}
    BY DEF DeleteJob, CallWorks, CallFails
  <2>2. CASE job' = [job EXCEPT ![r].phase = "gone"]
    BY <2>1, <2>2, JobPhase DEF TypeOK
  <2>3. CASE job' = job
    BY <2>1, <2>3, JobPhase DEF TypeOK
  <2> QED
    BY <2>1, <2>2, <2>3
<1>6. RunOK(r)'
  <2>1. /\ job'[r].phase \in {"none", "active"} => job'[r].result = "none"
        /\ disp'[r].rc = "success" => job'[r].result = "ok"
        /\ r \in faulted' \/ job'[r].phase \notin Live
    BY <1>2, <1>4, <1>5 DEF RunOK, Live
  <2> QED
    BY <1>1, <1>2, <1>3, <1>4, <1>5, <2>1, PlaceOK DEF Working
<1>7. IInv'
  BY <1>1, <1>4, <1>5, <1>6, RunMoves
<1> QED
  BY <1>1, <1>4, <1>5, <1>7 DEF JobTypes, TypeOK

\* The answer reaches the caller that waits for it, if any.
LEMMA ReplyKeeps ==
  ASSUME TypeOK, IInv, NEW r \in Runs, Reply(r)
  PROVE  JobTypes' /\ IInv'
<1>1. /\ disp[r].pc = "reply"
      /\ disp' = [disp EXCEPT ![r].pc = "closed"]
      /\ UNCHANGED <<thread, job, audit, feed, abandoned, faulted>>
  BY DEF Reply, dispOnly, limVars
<1>2. RunOK(r)
  BY DEF IInv, RunInv
<1>3. /\ disp' \in [Runs -> Dispatch]
      /\ disp'[r].pc = "closed" /\ disp'[r].rc = disp[r].rc
      /\ \A q \in Runs \ {r} : disp'[q] = disp[q]
  BY <1>1, DispPc DEF TypeOK
<1>4. PICK rc \in ResultClasses : rc = disp[r].rc
  BY <1>1, <1>2 DEF RunOK, TypeOK, Dispatch
<1>5. call' = [th \in Threads |-> IF th \in Waiting(r) THEN [call[th] EXCEPT !.outcome = rc] ELSE call[th]]
  BY <1>4 DEF Reply
<1>6. ASSUME NEW x \in Threads
      PROVE  /\ call'[x] \in Call
             /\ \/ call'[x] = call[x]
                \/ /\ call'[x].run = r /\ call[x].run = r /\ call[x].outcome = "pending"
                   /\ call'[x].outcome \in ResultClasses
                   /\ call'[x].outcome = "success" => job'[r].result = "ok"
  <2>1. call[x] \in Call
    BY DEF TypeOK
  <2>2. CASE x \notin Waiting(r)
    BY <1>5, <2>1, <2>2
  <2>3. CASE x \in Waiting(r)
    <3>1. call[x].run = r /\ call[x].outcome = "pending"
      BY <2>3 DEF Waiting
    <3>2. PICK c : c = [call[x] EXCEPT !.outcome = rc]
      OBVIOUS
    <3>3. c \in Call /\ c.run = r /\ c.outcome = rc
      BY <2>1, <3>1, <3>2 DEF Call
    <3>4. call'[x] = c
      BY <1>5, <2>3, <3>2
    <3>5. rc = "success" => job'[r].result = "ok"
      BY <1>1, <1>2, <1>4 DEF RunOK
    <3> QED
      BY <3>1, <3>3, <3>4, <3>5
  <2> QED
    BY <2>2, <2>3
<1>7. call' \in [Threads -> Call]
  BY <1>5, <1>6
<1>8. RunOK(r)'
  BY <1>1, <1>2, <1>3 DEF RunOK, Working
<1>9. IInv'
  BY <1>1, <1>3, <1>6, <1>8, OneRunKeeps
<1> QED
  BY <1>1, <1>3, <1>7, <1>9 DEF JobTypes, TypeOK

\* A Job ends, or is removed after its TTL.
LEMMA JobMoves ==
  ASSUME TypeOK, IInv, NEW r \in Runs, JobEnds(r) \/ TtlReap(r)
  PROVE  JobTypes' /\ IInv'
<1>1. /\ disp[r].pc # "child" /\ job[r].phase \in Live
      /\ UNCHANGED <<thread, call, disp, audit, feed, abandoned, faulted>>
  BY DEF JobEnds, TtlReap, IsJob, limVars, Live
<1>2. RunOK(r)
  BY DEF IInv, RunInv
<1>3. /\ job' \in [Runs -> Job]
      /\ job'[r].phase \in {"finished", "gone"}
      /\ job[r].result = "ok" => job'[r].result = "ok"
      /\ \A q \in Runs \ {r} : job'[q] = job[q]
  <2>1. CASE JobEnds(r)
    <3>1. PICK result \in {"ok", "not_ok", "failed", "deadline"} :
            job' = [job EXCEPT ![r] = [phase |-> "finished", result |-> result]]
      BY <2>1 DEF JobEnds
    <3>2. job[r].result = "none"
      BY <1>2, <2>1 DEF JobEnds, RunOK
    <3> QED
      BY <3>1, <3>2 DEF TypeOK, Job, Live
  <2>2. CASE TtlReap(r)
    BY <2>2, JobPhase DEF TtlReap, TypeOK
  <2> QED
    BY <2>1, <2>2
<1>4. RunOK(r)'
  <2>1. Attended(r) => Attended(r)'
    BY <1>1 DEF Attended
  <2> QED
    BY <1>1, <1>2, <1>3, <2>1 DEF RunOK, Live, Working
<1>5. IInv'
  BY <1>1, <1>3, <1>4, RunMoves
<1> QED
  BY <1>1, <1>3, <1>5 DEF JobTypes, TypeOK

----------------------------------------------------------------------------
\* Crashes.

\* The control plane loses its threads, its child processes and its calls.
LEMMA RestartKeeps ==
  ASSUME TypeOK, IInv, Restart
  PROVE  JobTypes' /\ IInv'
<1>1. /\ call' = [th \in Threads |-> NoCall]
      /\ abandoned' = abandoned \cup {r \in Runs : Waiting(r) # {}}
      /\ job' = [r \in Runs |-> IF disp[r].pc = "child" THEN [job[r] EXCEPT !.phase = "gone"]
                                                        ELSE job[r]]
      /\ disp' = [r \in Runs |-> IF disp[r].pc = "child" THEN [disp[r] EXCEPT !.pc = "closed"]
                                                         ELSE disp[r]]
      /\ UNCHANGED <<audit, feed, faulted>>
  BY DEF Restart
<1>2. call' \in [Threads -> Call] /\ \A x \in Threads : call'[x].outcome = "none"
  BY <1>1 DEF NoCall, Call
<1>3. ASSUME NEW r \in Runs
      PROVE  /\ disp'[r] \in Dispatch /\ job'[r] \in Job
             /\ disp[r].pc # "child" => disp'[r] = disp[r] /\ job'[r] = job[r]
             /\ disp[r].pc = "child" =>
                  /\ disp'[r].pc = "closed" /\ disp'[r].rc = disp[r].rc
                  /\ job'[r].phase = "gone" /\ job'[r].result = job[r].result
  <2>1. disp[r] \in Dispatch /\ job[r] \in Job
    BY DEF TypeOK
  <2>2. PICK d, j : d = [disp[r] EXCEPT !.pc = "closed"] /\ j = [job[r] EXCEPT !.phase = "gone"]
    OBVIOUS
  <2>3. d \in Dispatch /\ d.pc = "closed" /\ d.rc = disp[r].rc
    BY <2>1, <2>2 DEF Dispatch
  <2>4. j \in Job /\ j.phase = "gone" /\ j.result = job[r].result
    BY <2>1, <2>2 DEF Job
  <2>5. /\ disp'[r] = IF disp[r].pc = "child" THEN d ELSE disp[r]
        /\ job'[r] = IF disp[r].pc = "child" THEN j ELSE job[r]
    BY <1>1, <2>2
  <2> QED
    BY <2>1, <2>3, <2>4, <2>5
<1>4. disp' \in [Runs -> Dispatch] /\ job' \in [Runs -> Job]
  BY <1>1, <1>3
<1>5. CallInv'
  BY <1>2 DEF CallInv
<1>6. ASSUME NEW r \in Runs PROVE RunOK(r)'
  <2>1. RunOK(r)
    BY DEF IInv, RunInv
  <2>2. Attended(r) => r \in abandoned'
    BY <1>1 DEF Attended, Waiting
  <2>3. r \in abandoned => r \in abandoned'
    BY <1>1
  <2>4. CASE disp[r].pc = "child"
    BY <1>1, <1>3, <2>1, <2>4 DEF RunOK, Live, Working
  <2>5. CASE disp[r].pc # "child"
    BY <1>1, <1>3, <2>1, <2>2, <2>3, <2>5 DEF RunOK
  <2> QED
    BY <2>4, <2>5
<1>7. AuditInv'
  <2>1. \A r \in Runs : /\ disp[r].pc # "unused" => disp'[r].pc # "unused"
                        /\ job[r].result = "ok" => job'[r].result = "ok"
    BY <1>3
  <2> QED
    BY <1>1, <1>2, <2>1 DEF IInv, AuditInv
<1> QED
  BY <1>2, <1>4, <1>5, <1>6, <1>7 DEF JobTypes, IInv, RunInv

\* The dispatcher loses its threads; its callers and the Jobs do not notice.
LEMMA DispatcherDiesKeeps ==
  ASSUME TypeOK, IInv, DispatcherDies
  PROVE  JobTypes' /\ IInv'
<1>1. /\ faulted' = faulted \cup {r \in Runs : disp[r].pc \in Working}
      /\ disp' = [r \in Runs |-> IF disp[r].pc \in Working THEN [disp[r] EXCEPT !.pc = "closed"]
                                                           ELSE disp[r]]
      /\ UNCHANGED <<thread, call, job, audit, feed, abandoned>>
  BY DEF DispatcherDies, dispOnly, limVars
<1>2. ASSUME NEW r \in Runs
      PROVE  /\ disp'[r] \in Dispatch
             /\ disp[r].pc \notin Working => disp'[r] = disp[r]
             /\ disp[r].pc \in Working => disp'[r].pc = "closed" /\ disp'[r].rc = disp[r].rc
  <2>1. disp[r] \in Dispatch
    BY DEF TypeOK
  <2>2. PICK d : d = [disp[r] EXCEPT !.pc = "closed"]
    OBVIOUS
  <2>3. d \in Dispatch /\ d.pc = "closed" /\ d.rc = disp[r].rc
    BY <2>1, <2>2 DEF Dispatch
  <2>4. disp'[r] = IF disp[r].pc \in Working THEN d ELSE disp[r]
    BY <1>1, <2>2
  <2> QED
    BY <2>1, <2>3, <2>4
<1>3. disp' \in [Runs -> Dispatch]
  BY <1>1, <1>2
<1>4. \A r \in Runs : disp[r].pc # "unused" => disp'[r].pc # "unused"
  BY <1>2
<1>5. CallInv'
  BY <1>1, <1>4 DEF IInv, CallInv
<1>6. ASSUME NEW r \in Runs PROVE RunOK(r)'
  <2>1. RunOK(r) /\ (Attended(r) => Attended(r)')
    BY <1>1 DEF IInv, RunInv, Attended
  <2>2. CASE disp[r].pc \in Working
    BY <1>1, <1>2, <2>1, <2>2 DEF RunOK, Working
  <2>3. CASE disp[r].pc \notin Working
    BY <1>1, <1>2, <2>1, <2>3 DEF RunOK
  <2> QED
    BY <2>2, <2>3
<1>7. AuditInv'
  BY <1>1, <1>4 DEF IInv, AuditInv
<1> QED
  BY <1>1, <1>3, <1>5, <1>6, <1>7 DEF JobTypes, TypeOK, IInv, RunInv

----------------------------------------------------------------------------
\* The types of what is left: logs, histories and the fault counter.

RecordTypes ==
  /\ enabled \in BOOLEAN
  /\ audit \subseteq Runs \X ResultClasses
  /\ feed \subseteq Runs \X {"agent_task_completed", "agent_task_failed"}
  /\ faults \in 0..FaultBudget
  /\ abandoned \subseteq Runs
  /\ faulted \subseteq Runs

\* A fault stays within its budget.
LEMMA FaultsType ==
  ASSUME faults \in 0..FaultBudget, Fault \/ NoFault
  PROVE  faults' \in 0..FaultBudget
  BY RunsAssumption DEF Fault, NoFault

\* Every step keeps the audit log and the feed well typed.
LEMMA RecordStep ==
  ASSUME TypeOK, IInv, [Next]_vars
  PROVE  RecordTypes'
<1> USE DEF TypeOK, RecordTypes
<1>1. CASE UNCHANGED vars \/ UNCHANGED jobVars
  BY <1>1 DEF vars, jobVars
<1>2. ASSUME NEW th \in Threads, FinishInvoke(th) \/ Observe(th)
      PROVE  RecordTypes'
  <2>1. PICK r \in Runs, c \in ResultClasses : r = call[th].run /\ c = call[th].outcome
    BY <1>2 DEF FinishInvoke, Observe, IInv, CallInv, ResultClasses
  <2>2. audit' = audit \cup {<<r, c>>} /\ UNCHANGED <<enabled, faults, abandoned, faulted>>
    BY <1>2, <2>1 DEF FinishInvoke, Observe, Audited
  <2>3. \/ feed' = feed
        \/ feed' = feed \cup {<<r, "agent_task_completed">>}
        \/ feed' = feed \cup {<<r, "agent_task_failed">>}
    BY <1>2, <2>1 DEF FinishInvoke, Observe
  <2> QED
    BY <2>2, <2>3
<1>3. ASSUME NEW th \in Threads, GiveUp(th) \/ HangUp(th)
      PROVE  RecordTypes'
  <2>1. call[th].run \in Runs
    BY <1>3 DEF GiveUp, HangUp, IInv, CallInv
  <2>2. /\ abandoned' = abandoned \cup {call[th].run} /\ UNCHANGED <<enabled, audit, feed, faulted>>
        /\ Fault \/ NoFault
    BY <1>3 DEF GiveUp, HangUp, NoFault
  <2> QED
    BY <2>1, <2>2, FaultsType
<1>4. ASSUME NEW th \in Threads, Admit(th) \/ Collect(th) \/ FinishAgent(th)
      PROVE  RecordTypes'
  BY <1>4 DEF Admit, Collect, FinishAgent
<1>5. ASSUME NEW th \in Threads, NEW r \in Runs, Spawn(th, r) \/ PostRun(th, r) \/ PostRefused(th, r)
      PROVE  RecordTypes'
  BY <1>5 DEF Spawn, PostRun, PostRefused, Begin
<1>6. CASE ControlPlane
  <2>1. ASSUME NEW th \in Threads, NEW t \in Tenants, Arrive(th, t)
        PROVE  UNCHANGED jobVars
    BY <2>1 DEF Arrive
  <2> QED
    BY <1>1, <1>2, <1>3, <1>4, <1>5, <1>6, <2>1 DEF ControlPlane
<1>7. CASE Restart
  <2>1. /\ Fault /\ enabled' \in BOOLEAN /\ UNCHANGED <<audit, feed, faulted>>
        /\ abandoned' = abandoned \cup {r \in Runs : Waiting(r) # {}}
    BY <1>7 DEF Restart
  <2> QED
    BY <2>1, FaultsType
<1>8. ASSUME NEW r \in Runs, Dispatcher(r) \/ JobEnds(r) \/ TtlReap(r)
      PROVE  RecordTypes'
  <2>1. /\ UNCHANGED <<enabled, audit, feed, abandoned>>
        /\ faulted' = faulted \/ faulted' = faulted \cup {r}
        /\ Fault \/ NoFault
    BY <1>8 DEF Dispatcher, CreateJob, PollJob, ReadLog, DeleteJob, Reply, dispOnly,
                CallWorks, CallFails, JobEnds, TtlReap, NoFault
  <2> QED
    BY <2>1, FaultsType
<1>9. CASE DispatcherDies
  <2>1. /\ UNCHANGED <<enabled, audit, feed, abandoned>>
        /\ faulted' = faulted \cup {r \in Runs : disp[r].pc \in Working}
        /\ Fault
    BY <1>9 DEF DispatcherDies, dispOnly
  <2> QED
    BY <2>1, FaultsType
<1> QED
  BY <1>1, <1>6, <1>7, <1>8, <1>9 DEF Next

----------------------------------------------------------------------------
\* The theorems.

\* The initial state satisfies types and invariant.
LEMMA InitOK == Init => TypeOK /\ IInv
<1> SUFFICES ASSUME Init PROVE TypeOK /\ IInv
  OBVIOUS
<1>1. LimTypeOK
  BY FreshType, LimiterAssumption DEF Init, LimInit, LimTypeOK, Minutes
<1>2. call = [th \in Threads |-> NoCall] /\ call \in [Threads -> Call]
  BY DEF Init, NoCall, Call
<1>3. /\ disp = [r \in Runs |-> [pc |-> "unused", rc |-> "tool_error"]]
      /\ disp \in [Runs -> Dispatch]
  BY DEF Init, Dispatch, ResultClasses
<1>4. /\ job = [r \in Runs |-> [phase |-> "none", result |-> "none"]]
      /\ job \in [Runs -> Job]
  BY DEF Init, Job
<1>5. RecordTypes /\ audit = {} /\ feed = {}
  BY RunsAssumption DEF Init, RecordTypes
<1>6. TypeOK
  BY <1>1, <1>2, <1>3, <1>4, <1>5 DEF TypeOK, RecordTypes
<1>7. CallInv
  BY <1>2 DEF CallInv, NoCall
<1>8. RunInv
  BY <1>3, <1>4 DEF RunInv, RunOK, Working, Live
<1>9. AuditInv
  BY <1>5 DEF AuditInv
<1> QED
  BY <1>6, <1>7, <1>8, <1>9 DEF IInv

\* Every step preserves types and invariant.
LEMMA StepOK ==
  ASSUME TypeOK, IInv, [Next]_vars
  PROVE  TypeOK' /\ IInv'
<1>1. LimTypeOK'
  BY StepsOfTheLimiter, LimTypeStep DEF TypeOK
<1>2. RecordTypes'
  BY RecordStep
<1>3. JobTypes' /\ IInv'
  <2>1. CASE UNCHANGED vars
    BY <2>1, QuietStep DEF vars, limVars, jobVars, TypeOK, JobTypes
  <2>2. CASE Tick /\ UNCHANGED jobVars
    BY <2>2, QuietStep DEF Tick, jobVars, TypeOK, JobTypes
  <2>3. CASE ControlPlane
    BY <2>3, ArriveKeeps, CountKeeps, AdmitKeeps, CallSettles, CallAudited, FinishAgentKeeps, CallStarts
       DEF ControlPlane
  <2>4. CASE Restart
    BY <2>4, RestartKeeps
  <2>5. ASSUME NEW r \in Runs, Dispatcher(r) \/ JobEnds(r) \/ TtlReap(r)
        PROVE  JobTypes' /\ IInv'
    BY <2>5, CreateKeeps, PollAndReadKeep, DeleteKeeps, ReplyKeeps, JobMoves DEF Dispatcher
  <2>6. CASE DispatcherDies
    BY <2>6, DispatcherDiesKeeps
  <2> QED
    BY <2>1, <2>2, <2>3, <2>4, <2>5, <2>6 DEF Next
<1> QED
  BY <1>1, <1>2, <1>3 DEF TypeOK, JobTypes, RecordTypes

\* The variables keep their types and the invariant holds throughout.
THEOREM ToolInvariant == Spec => [](TypeOK /\ IInv)
<1>1. TypeOK /\ IInv /\ [Next]_vars => (TypeOK /\ IInv)'
  BY StepOK
<1> QED
  BY <1>1, InitOK, PTL DEF Spec

\* Types: nothing the dispatcher lets escape ("raise") ever reaches a caller.
THEOREM TypeCorrect == Spec => []TypeOK
  BY ToolInvariant, PTL

\* The dispatcher reaps every Job whose Kubernetes calls all work, whoever has
\* stopped waiting for it.
THEOREM ReapsUnlessFaulted == Spec => []ReapedUnlessFaulted
<1>1. TypeOK /\ IInv => ReapedUnlessFaulted
  BY DEF IInv, RunInv, RunOK, ReapedUnlessFaulted, Existing
<1> QED
  BY <1>1, ToolInvariant, PTL

\* The audit log and the notification feed claim no success that did not happen.
THEOREM SuccessesAreReal == Spec => []SuccessIsReal
<1>1. TypeOK /\ IInv => SuccessIsReal
  <2> SUFFICES ASSUME TypeOK, IInv PROVE SuccessIsReal
    OBVIOUS
  <2>1. ASSUME NEW e \in audit, e[2] = "success" PROVE job[e[1]].result = "ok"
    <3>1. PICK r \in Runs, c \in ResultClasses : e = <<r, c>>
      BY <2>1 DEF TypeOK
    <3> QED
      BY <2>1, <3>1 DEF IInv, AuditInv
  <2>2. ASSUME NEW e \in feed
        PROVE  e[2] = "agent_task_completed" <=> <<e[1], "success">> \in audit
    <3>1. PICK r \in Runs, event \in {"agent_task_completed", "agent_task_failed"} : e = <<r, event>>
      BY <2>2 DEF TypeOK
    <3> QED
      BY <2>2, <3>1 DEF IInv, AuditInv, ResultClasses
  <2> QED
    BY <2>1, <2>2 DEF SuccessIsReal
<1> QED
  BY <1>1, ToolInvariant, PTL

\* A run has one audited outcome, however late the dispatcher answers.
THEOREM OneVerdictEach == Spec => []OneVerdict
<1>1. TypeOK /\ IInv => OneVerdict
  <2> SUFFICES ASSUME TypeOK, IInv, NEW e \in audit, NEW f \in audit, e[1] = f[1]
               PROVE  e = f
    BY DEF OneVerdict
  <2>1. PICK r \in Runs, c \in ResultClasses : e = <<r, c>>
    BY DEF TypeOK
  <2>2. PICK d \in ResultClasses : f = <<r, d>>
    BY <2>1 DEF TypeOK
  <2> QED
    BY <2>1, <2>2 DEF IInv, AuditInv
<1> QED
  BY <1>1, ToolInvariant, PTL

\* Audit log and feed give each run one verdict, and a true one.
THEOREM VerdictsHold == Spec => []VerdictsAreTrue
<1>1. SuccessIsReal /\ OneVerdict => VerdictsAreTrue
  BY DEF VerdictsAreTrue
<1> QED
  BY <1>1, SuccessesAreReal, OneVerdictEach, PTL

\* Runs that nothing happened to have a caller each that holds a slot.
LEMMA AttendedHaveHolders ==
  ASSUME TypeOK, IInv
  PROVE  Cardinality(Existing \ (abandoned \cup faulted)) <= Cardinality(Holders)
<1> DEFINE T == Existing \ (abandoned \cup faulted)
           S == {th \in Holders : call[th].run \in T}
           f == [th \in S |-> call[th].run]
<1>1. ASSUME NEW r \in T PROVE \E th \in S : call[th].run = r
  <2>1. r \in Runs /\ job[r].phase \in Live /\ r \notin abandoned /\ r \notin faulted /\ RunOK(r)
    BY <1>1 DEF Existing, IInv, RunInv
  <2>2. disp[r].pc \in Working \cup {"child"}
    <3>1. disp[r] \in Dispatch
      BY <2>1 DEF TypeOK
    <3> QED
      BY <2>1, <3>1 DEF RunOK, Dispatch, Live, Working
  <2>3. PICK th \in Threads : call[th].run = r /\ call[th].outcome = "pending"
    BY <2>1, <2>2 DEF RunOK, Attended
  <2>4. th \in Holders
    BY <2>3 DEF IInv, CallInv, Holders
  <2> QED
    BY <1>1, <2>3, <2>4
<1>2. IsFiniteSet(S) /\ Cardinality(S) <= Cardinality(Holders)
  <2>1. S \subseteq Holders
    OBVIOUS
  <2> QED
    BY <2>1, HoldersFinite, FS_Subset
<1>3. f \in Surjection(S, T)
  BY <1>1 DEF Surjection
<1>4. IsFiniteSet(T) /\ Cardinality(T) <= Cardinality(S)
  BY <1>2, <1>3, FS_Surjection
<1>5. Cardinality(T) \in Nat /\ Cardinality(S) \in Nat /\ Cardinality(Holders) \in Nat
  BY <1>2, <1>4, HoldersFinite, FS_CardinalityType
<1> QED
  BY <1>2, <1>4, <1>5

\* The concurrency cap bounds the child processes and Jobs of all runs that
\* nothing happened to.
THEOREM CapOnAttended == Spec => []AttendedWithinCap
<1>1. TypeOK /\ IInv /\ Cardinality(Holders) <= Slots => AttendedWithinCap
  <2> SUFFICES ASSUME TypeOK, IInv, Cardinality(Holders) <= Slots
               PROVE  AttendedWithinCap
    OBVIOUS
  <2>1. Cardinality(Existing \ (abandoned \cup faulted)) \in Nat
    <3>1. IsFiniteSet(Runs)
      BY RunsAssumption, FS_Interval DEF Runs
    <3>2. Existing \ (abandoned \cup faulted) \in SUBSET Runs
      BY DEF Existing
    <3> QED
      BY <3>1, <3>2, FS_Subset, FS_CardinalityType
  <2> QED
    BY <2>1, AttendedHaveHolders, HoldersFinite, SlotsType DEF AttendedWithinCap
<1> QED
  BY <1>1, ToolInvariant, RefinesLimiter, SlotsAreConserved, PTL
=============================================================================
