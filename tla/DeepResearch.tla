---------------------------- MODULE DeepResearch ----------------------------
(***************************************************************************)
(* One deep-research run over the corpus of Retrieval, from POST           *)
(* /v1/agent/research to its answer (src/app/control_plane/                *)
(* deep_research.py): plan, retrieve, search the web, synthesise, each     *)
(* phase against one wall clock that is read between phases only.  Other   *)
(* requests index documents meanwhile.                                     *)
(*                                                                         *)
(* A passage is a chunk (document, position) or a web hit (its URL, which  *)
(* is document and chunk id in one).  What the model plans is arbitrary.   *)
(***************************************************************************)
EXTENDS Retrieval

CONSTANTS
  Callers,        \* who may ask: (tenant, user)
  Allowlist,      \* tenants allowed "deep_research"
  Urls,           \* what the search provider may return
  WebConfigured,  \* WEB_SEARCH is set
  MaxSubqueries, TopK, WallClock,  \* DeepResearchBudgets
  MaxPassages,    \* _MAX_PASSAGES
  WebTopK,        \* WebSearchConfig.top_k
  CallTime, QueryTime, WebTime  \* longest inference call, embedding and query, search

ASSUME ResearchAssumption ==
  /\ MaxSubqueries \in Nat /\ TopK \in Nat /\ WallClock \in Int /\ MaxPassages \in Nat \ {0}
  /\ CallTime \in Nat /\ QueryTime \in Nat /\ WebTime \in Nat /\ WebTopK \in Nat
  /\ Urls \cap (Docs \X Nat) = {}  \* no address is a chunk's id
  /\ WebConfigured \in BOOLEAN

VARIABLES
  caller,    \* (tenant, user) of the run
  pc,        \* where run_deep_research is
  web,       \* use_web
  queries,   \* how many subqueries there are
  next,      \* the subquery that is retrieved or searched next
  passages,  \* what retrieval has found
  hits,      \* what _retrieve_web has found
  elapsed,   \* time.monotonic() - started
  feed,      \* events of the run
  audit,     \* audit records of the run
  outcome    \* DeepResearchOutcome: status, detail, sources

runVars == <<caller, pc, web, queries, next, passages, hits, elapsed, feed, audit, outcome>>
vars == <<retVars, runVars>>

\* Mutant: each phase is given the whole wall clock.
OverBudgetNever == FALSE

OverBudget == elapsed' > WallClock

Document(p) == IF p \in Urls THEN p ELSE p[1]

\* The documents of the passages, each once, in order of first appearance.
Cited(ds, p) == IF Contains(ds, Document(p)) THEN ds ELSE Append(ds, Document(p))

SourcesOf(ps) ==
  LET cited[i \in 0..Len(ps)] == IF i = 0 THEN <<>> ELSE Cited(cited[i - 1], ps[i])
  IN cited[Len(ps)]

\* Append to ps what is new in s, up to the cap.
Added(ps, p) == IF Contains(ps, p) \/ Len(ps) >= MaxPassages THEN ps ELSE Append(ps, p)

AddNew(ps, s) ==
  LET shown[i \in 0..Len(s)] == IF i = 0 THEN ps ELSE Added(shown[i - 1], s[i])
  IN shown[Len(s)]

\* _emit: publishing is best effort.
Emit(event) == feed' = feed \/ feed' = Append(feed, event)

Fail(detail) ==
  /\ pc' = "done"
  /\ Emit("agent_task_failed")
  /\ outcome' = [status |-> "failed", detail |-> detail, sources |-> <<>>]

----------------------------------------------------------------------------
\* build_deep_research_response turns the request away: disabled, no inference
\* backend, bad body, or over the limit.
Refuse ==
  /\ pc = "request"
  /\ pc' = "done"
  /\ outcome' = [outcome EXCEPT !.status = "refused"]
  /\ UNCHANGED <<retVars, caller, web, queries, next, passages, hits, elapsed, feed, audit>>

Deny ==
  /\ pc = "request"
  /\ caller.tenant \notin Allowlist
  /\ pc' = "done"
  /\ audit' = Append(audit, "denied")
  /\ outcome' = [outcome EXCEPT !.status = "refused"]
  /\ UNCHANGED <<retVars, caller, web, queries, next, passages, hits, elapsed, feed>>

UseWeb(asked) == asked /\ WebConfigured

Start(asked) ==
  /\ pc = "request"
  /\ caller.tenant \in Allowlist
  /\ pc' = "plan"
  /\ web' = UseWeb(asked)
  /\ Emit("agent_task_progress")
  /\ UNCHANGED <<retVars, caller, queries, next, passages, hits, elapsed, audit, outcome>>

\* How long one call of a phase takes at most.
CallLimit == [plan |-> CallTime, retrieve |-> QueryTime, web |-> WebTime, synthesize |-> CallTime]

\* Any inference, embedding or search call raises.  (The search client is said
\* never to, but lets an http.client.HTTPException through.)
Raises(d) ==
  /\ pc \in DOMAIN CallLimit
  /\ d <= CallLimit[pc]
  /\ elapsed' = elapsed + d
  /\ Fail("inference_unavailable")
  /\ UNCHANGED <<retVars, caller, web, queries, next, passages, hits, audit>>

\* _plan: at least one query, the question itself when the model names none.
Plan(d, n) ==
  /\ pc = "plan"
  /\ elapsed' = elapsed + d
  /\ queries' = n
  /\ next' = 1
  /\ IF OverBudget
     THEN Fail("wall_clock")
     ELSE pc' = "retrieve" /\ UNCHANGED <<feed, outcome>>
  /\ UNCHANGED <<retVars, caller, web, passages, hits, audit>>

\* After the retrieval or search of a subquery: the next one, or the next phase
\* and the look at the clock before it.
NextPhase(full, phase) ==
  IF next < queries /\ ~full
  THEN pc' = pc /\ next' = next + 1 /\ UNCHANGED <<feed, outcome>>
  ELSE /\ next' = 1
       /\ IF OverBudget THEN Fail("wall_clock") ELSE pc' = phase /\ UNCHANGED <<feed, outcome>>

\* Mutant: a chunk two subqueries find is shown twice.
RetrieveRepeats(d, s) ==
  /\ pc = "retrieve"
  /\ elapsed' = elapsed + d
  /\ passages' = SubSeq(passages \o s, 1, Min({MaxPassages, Len(passages \o s)}))
  /\ NextPhase(Len(passages') >= MaxPassages, IF web THEN "web" ELSE "synthesize")
  /\ UNCHANGED <<retVars, caller, web, queries, hits, audit>>

\* _retrieve, one subquery; it stops at the cap.
Retrieve(d, s) ==
  /\ pc = "retrieve"
  /\ elapsed' = elapsed + d
  /\ passages' = AddNew(passages, s)
  /\ NextPhase(Len(passages') >= MaxPassages, IF web THEN "web" ELSE "synthesize")
  /\ UNCHANGED <<retVars, caller, web, queries, hits, audit>>

\* The loop that adds web hits to the passages of the corpus.
Merge(ps, hs) == AddNew(ps, hs)

\* What WebSearchClient.search may answer.
SearchAnswers == SeqOf(Urls, WebTopK)

\* _retrieve_web, one subquery; after the last one its hits are merged in.
SearchWeb(d, s) ==
  LET found == AddNew(hits, s)
      last  == next = queries \/ Len(found) >= MaxPassages
  IN /\ pc = "web"
     /\ elapsed' = elapsed + d
     /\ hits' = found
     /\ passages' = IF last THEN Merge(passages, found) ELSE passages
     /\ NextPhase(Len(found) >= MaxPassages, "synthesize")
     /\ UNCHANGED <<retVars, caller, web, queries, audit>>

\* Mutant: one more look at the clock, after the answer is there and audited.
SynthesizeChecked(d) ==
  /\ pc = "synthesize"
  /\ elapsed' = elapsed + d
  /\ audit' = Append(audit, "success")
  /\ IF OverBudget
     THEN Fail("wall_clock")
     ELSE /\ pc' = "done"
          /\ Emit("agent_task_completed")
          /\ outcome' = [status |-> "completed", detail |-> "none", sources |-> SourcesOf(passages)]
  /\ UNCHANGED <<retVars, caller, web, queries, next, passages, hits>>

\* _synthesize, the sources, the audit record and the last event; the clock is
\* not read again.
Synthesize(d) ==
  /\ pc = "synthesize"
  /\ elapsed' = elapsed + d
  /\ audit' = Append(audit, "success")
  /\ pc' = "done"
  /\ Emit("agent_task_completed")
  /\ outcome' = [status |-> "completed", detail |-> "none", sources |-> SourcesOf(passages)]
  /\ UNCHANGED <<retVars, caller, web, queries, next, passages, hits>>

\* Other requests index documents.
Elsewhere == RetNext /\ UNCHANGED runVars

----------------------------------------------------------------------------
Init ==
  /\ RetInit
  /\ caller \in Callers
  /\ pc = "request" /\ web = FALSE
  /\ queries = 0 /\ next = 1 /\ elapsed = 0
  /\ passages = <<>> /\ hits = <<>> /\ feed = <<>> /\ audit = <<>>
  /\ outcome = [status |-> "running", detail |-> "none", sources |-> <<>>]

Handler ==
  \/ Refuse \/ Deny
  \/ \E asked \in BOOLEAN : Start(asked)
  \/ \E d \in 0..Max(Range(CallLimit)) : Raises(d)
  \/ \E d \in 0..CallTime : Synthesize(d)
  \/ \E d \in 0..CallTime, n \in 1..(IF MaxSubqueries < 1 THEN 1 ELSE MaxSubqueries) : Plan(d, n)
  \/ \E d \in 0..QueryTime : \E s \in QueryAnswers(caller.tenant, TopK) : Retrieve(d, s)
  \/ \E d \in 0..WebTime : \E s \in SearchAnswers : SearchWeb(d, s)

Next == Handler \/ Elsewhere

Spec == Init /\ [][Next]_vars

----------------------------------------------------------------------------
\* Properties.

\* Whatever is indexed meanwhile and whatever the model plans, the run reads the
\* caller's own corpus, and the web only if it was asked for and an operator
\* has set it up; no passage is shown twice, and no more than MaxPassages.
OwnSourcesOnly ==
  /\ IsInjective(passages) /\ Len(passages) <= MaxPassages
  /\ \A i \in DOMAIN passages :
       \/ passages[i] \in Urls /\ web
       \/ passages[i] \notin Urls /\ index[passages[i][1]].owner.tenant = caller.tenant

\* The wall clock bounds a run but for the phase that was under way when it ran
\* out: one inference call, or all the queries or searches of one phase.
LongestPhase ==
  LET n == IF MaxSubqueries < 1 THEN 1 ELSE MaxSubqueries
  IN Max({CallTime, n * QueryTime, n * WebTime})
ClockBoundsRun ==
  /\ elapsed <= Max({WallClock, 0}) + LongestPhase
  /\ outcome.status = "completed" => elapsed <= Max({WallClock, 0}) + CallTime

\* The feed, the audit log and the answer tell the same story: at most one
\* terminal event, last, of the outcome's kind; a success is audited if and
\* only if there is an answer, whose sources are documents the model was shown.
StoryIsTrue ==
  /\ \A i \in DOMAIN feed :
       /\ feed[i] = "agent_task_progress" => i = 1
       /\ feed[i] # "agent_task_progress" =>
            /\ i = Len(feed) /\ pc = "done"
            /\ feed[i] = "agent_task_completed" <=> outcome.status = "completed"
  /\ Contains(audit, "success") <=> outcome.status = "completed"
  /\ outcome.status = "completed" =>
       ToSet(outcome.sources) = {Document(passages[i]) : i \in DOMAIN passages}
============================================================================
