-------------------------------- MODULE Mcp --------------------------------
(***************************************************************************)
(* MCPExecutor (src/app/control_plane/mcp.py): a server process is spawned *)
(* for one exchange over its standard streams and is gone when the handler *)
(* goes on, by itself or killed with its process group, unless the kill    *)
(* fails or nobody tries.  Listing the tools of a server takes an exchange *)
(* too, but no slot, and is not audited.                                   *)
(***************************************************************************)
EXTENDS Harness

OnMcp(h, pc) == job[h].pc = pc /\ job[h].wants \in {"mcp", "list"}

\* build_mcp_invoke_response up to the executor.
InvokeTool(h, t, s) == Kind[s] = "mcp" /\ Admit(h, t, s, "mcp")

\* build_mcp_list_response up to the executor.
ListTools(h, t, s) ==
  LET r == [Idle EXCEPT !.pc = "call", !.tenant = t, !.service = s, !.wants = "list"]
  IN /\ Kind[s] = "mcp"
     /\ job[h].pc \in {"idle", "answered"}
     /\ s \in offered
     /\ requests < MaxRequests
     /\ requests' = requests + 1
     /\ job' = [job EXCEPT ![h] = IF <<t, s>> \in Allowed THEN r ELSE Refused(r, "denied")]
     /\ UNCHANGED <<now, offered, disabled>>

\* The rest of the two handlers.
Conclude(h, r, result) ==
  IF r.wants = "mcp" THEN Finish(h, r, result)
  ELSE job' = [job EXCEPT ![h] = [Returned(r) EXCEPT !.answer = IF result = "success" THEN 200 ELSE 502]]

\* _exchange up to the spawn, which may fail, as may the resolver of the
\* child's secrets.
Spawn(h) ==
  LET r == job[h]
  IN /\ OnMcp(h, "call")
     /\ \/ job' = [job EXCEPT ![h] = [r EXCEPT !.pc = "exchange", !.process = "running"]]
        \/ Conclude(h, r, "error")
     /\ UNCHANGED <<now, offered, disabled, requests>>

\* The process answers and exits: a result, an error, no answer or a bad exit
\* code; a line that is JSON but no object escapes _find.
Exits(h) ==
  LET r == [job[h] EXCEPT !.process = "none"]
  IN /\ OnMcp(h, "exchange")
     /\ \/ \E result \in {"success", "unknown", "error"} : Conclude(h, r, result)
        \/ Escape(h, r)
     /\ UNCHANGED <<now, offered, disabled, requests>>

\* Mutant: the process is left to itself.
TimesOutLeaves(h) ==
  /\ OnMcp(h, "exchange")
  /\ Conclude(h, job[h], "timeout")
  /\ UNCHANGED <<now, offered, disabled, requests>>

\* communicate times out: _kill, which passes over its failures, then the outcome.
TimesOut(h) ==
  /\ OnMcp(h, "exchange")
  /\ \E process \in {"none", "orphan"} : Conclude(h, [job[h] EXCEPT !.process = process], "timeout")
  /\ UNCHANGED <<now, offered, disabled, requests>>

\* communicate, or _kill, raises anything else: an error, and nothing kills.
Breaks(h) ==
  /\ OnMcp(h, "exchange")
  /\ Conclude(h, [job[h] EXCEPT !.process = "orphan"], "error")
  /\ UNCHANGED <<now, offered, disabled, requests>>

McpNext ==
  \/ \E h \in Handlers, t \in Tenants, s \in Services : InvokeTool(h, t, s) \/ ListTools(h, t, s)
  \/ \E h \in Handlers : Spawn(h) \/ Exits(h) \/ TimesOut(h) \/ Breaks(h)

----------------------------------------------------------------------------
\* Properties.

\* No server process outlives the request it was spawned for, nor the slot that is
\* released before the answer, unless it could not be killed or its pipes failed:
\* but for such orphans the limiter's cap on invocations is one on processes.
NoProcessLeft == \A h \in Handlers : job[h].process = "running" => job[h].pc = "exchange"
============================================================================
