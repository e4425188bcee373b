------------------------------ MODULE Harness ------------------------------
(***************************************************************************)
(* The request path integrations.py, media.py and mcp.py have in common:   *)
(* the allow-list, the operator's per-tenant switch, the limiter, one call *)
(* to an executor, the audit record, the feed event and the answer.  The   *)
(* handlers are threads; the operator turns switches meanwhile.  Requests  *)
(* for a service the instance does not have end in a 404 and are left out. *)
(***************************************************************************)
EXTENDS Integers, Sequences, FiniteSets

CONSTANTS
  Handlers,    \* request threads
  Tenants, Services,
  Kind,        \* service -> "integration", "image", "tts", "stt" or "mcp"
  Deployments, \* sets of services an instance may have enabled
  Allowed,     \* the allow-lists: (tenant, service)
  Switchable,  \* bound: the switches the operator touches
  MaxTime,     \* bound on the clock
  MaxRequests  \* bound on the requests

ASSUME HarnessAssumption ==
  /\ MaxTime \in Nat /\ MaxRequests \in Nat
  /\ Deployments \subseteq SUBSET Services
  /\ Kind \in [Services -> {"integration", "image", "tts", "stt", "mcp"}]

VARIABLES
  now,       \* time.monotonic()
  offered,   \* the services enabled on this instance
  disabled,  \* rows of integration_tenant_state with enabled = FALSE
  job,       \* handler -> its request
  requests   \* requests begun

harnessVars == <<now, offered, disabled, job, requests>>

\* A request: where it is and what has been said of it.  The fields after
\* `answer' are the executors'.
NoCreds == [tenant |-> "none", version |-> 0]
NoToken == [tenant |-> "none", version |-> 0, dies |-> 0]
Idle == [pc |-> "idle", tenant |-> "none", service |-> "none", wants |-> "none",
         audit |-> <<>>, answer |-> 0,
         read |-> 0, creds |-> NoCreds, resolved |-> 0,
         token |-> NoToken, checked |-> 0, address |-> "none", sent |-> FALSE,
         artifact |-> 0, process |-> "none"]

PCs == {"idle", "call", "fetch", "fetched", "token", "refresh", "minted", "request", "send",
        "put", "exchange", "answered"}
Wants == {"none", "integration", "image", "tts", "stt", "mcp", "list"}
Decisions == {"denied", "tenant_disabled", "rate_limited", "success", "unknown", "wrong_kind", "timeout", "error"}
Anyone == Tenants \cup {"none"}
Creds == [tenant : Anyone, version : Nat]
Token == [tenant : Anyone, version : Nat, dies : Nat]
Request ==
  [pc : PCs, tenant : Anyone, service : Services \cup {"none"}, wants : Wants,
   audit : Seq(Decisions), answer : Nat, read : Nat, creds : Creds, resolved : Nat,
   token : Token, checked : Nat, address : {"none", "public", "private", "metadata"},
   sent : BOOLEAN, artifact : Nat, process : {"none", "running", "orphan"}]

\* Only the caches of integrations look at the clock.
Tick ==
  /\ now < MaxTime
  /\ \E s \in offered : Kind[s] = "integration"
  /\ now' = now + 1
  /\ UNCHANGED <<offered, disabled, job, requests>>

\* TenantIntegrationState.disable and enable, from the operator's shell; the
\* rows of services that are not offered are never read.
Switch(t, s) ==
  /\ s \in offered
  /\ disabled' = IF <<t, s>> \in disabled THEN disabled \ {<<t, s>>} ELSE disabled \cup {<<t, s>>}
  /\ UNCHANGED <<now, offered, job, requests>>

\* Only integrations and media look at the switch.
SwitchedOff(t, s) == Kind[s] # "mcp" /\ <<t, s>> \in disabled

Refused(r, decision) == [r EXCEPT !.pc = "answered", !.audit = <<decision>>, !.answer = 403]

\* A handler of one kind of service from its gate to the limiter.
Admit(h, t, s, kind) ==
  LET r == [Idle EXCEPT !.pc = "call", !.tenant = t, !.service = s, !.wants = kind]
  IN /\ job[h].pc \in {"idle", "answered"}
     /\ s \in offered
     /\ requests < MaxRequests
     /\ requests' = requests + 1
     /\ \E full \in BOOLEAN :
          job' = [job EXCEPT ![h] =
            CASE <<t, s>> \notin Allowed -> Refused(r, "denied")
              [] <<t, s>> \in Allowed /\ SwitchedOff(t, s) -> Refused(r, "tenant_disabled")
              [] <<t, s>> \in Allowed /\ ~SwitchedOff(t, s) /\ full -> [Refused(r, "rate_limited") EXCEPT !.answer = 429]
              [] OTHER -> r]
     /\ UNCHANGED <<now, offered, disabled>>

\* _to_http, by result class; "unknown" is a service or an operation, "error" any
\* other failure.
Status(result) ==
  CASE result = "success" -> 200
    [] result = "unknown" -> 404
    [] result = "wrong_kind" -> 400
    [] result = "timeout" -> 504
    [] result = "error" -> 502

\* The executor's locals are gone when it returns; what it did stays.
Returned(r) ==
  [r EXCEPT !.pc = "answered", !.read = 0, !.creds = NoCreds, !.resolved = 0, !.token = NoToken, !.checked = 0]

\* What a handler does with an outcome: release, audit, tell the feed (best
\* effort; "completed" after a success, "failed" otherwise) and answer.
Finish(h, r, result) ==
  job' = [job EXCEPT ![h] = [Returned(r) EXCEPT !.audit = Append(@, result), !.answer = Status(result)]]

\* An exception nobody catches: the slot is released, _instrument answers 500,
\* and nothing is audited or published.
Escape(h, r) == job' = [job EXCEPT ![h] = [Returned(r) EXCEPT !.answer = 500]]

HarnessInit ==
  /\ offered \in Deployments
  /\ now = 0 /\ disabled = {} /\ requests = 0
  /\ job = [h \in Handlers |-> Idle]

HarnessNext ==
  \/ Tick
  \/ \E p \in Switchable : Switch(p[1], p[2])
============================================================================
