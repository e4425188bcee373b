# A TLA+ model of the private AI workspace

This directory specifies, checks and proves properties of the workspace's own
control logic: self-serve model installs, tool execution, the agent loop, chat and
compare, deep research over a tenant's documents, notifications, the stores of a
user's own data, and integrations, media and MCP servers. The modules are written
from the code under `src/`; `PROJECT.json` maps each definition to the lines it
stands for, lists every run with its properties, the mutants that show each property
can fail, the findings, the hazards and the theorems.

Check a run with `tlc -config MCInstall.cfg MCModelInstall`, a proof module with
`tlapm ToolJobsProofs.tla`.

## 1. The system

The repository deploys a multi-tenant AI workspace on EKS. One stateless HTTP
server (the control plane, threads per request, several replicas) sits in front of
PostgreSQL, S3, a vLLM inference release and a few helper services. The parts that
are programs of this repository:

| Component | State it keeps | Operations | What makes it correct |
|---|---|---|---|
| Model install requests, `control_plane/model_requests.py` | table `model_install_requests`, kill switch | create (permission, allow-list, cap, insert, notify), list, reconciler's pending and status endpoints | only admissible rows are stored; a bounded queue; the owner hears of stored rows only |
| Model installer, `model_installer/` | none across rounds; the shared vLLM ConfigMap and Deployment | `run_once`: list, check, mark installing, scale, read, patch, wait, roll back, report | no row stranded, no unvetted model served, failed loads undone, every request decided |
| Rate limiter, `agent_tools.py: RateLimiter` | per-tenant window and count, one semaphore | `try_acquire`, `release` | no slot lost or invented, a bounded rate |
| Tool execution, `agent_tools.py`, `job_executor.py` | audit log, events | `POST /v1/agent/tools/invoke`: checks, limiter, child process or dispatcher, release, audit, event | true and single verdicts, cap respected, nothing outlives its call |
| Tool-runner dispatcher, `dispatcher/` | thread stacks; Jobs in the cluster | `POST /run`: create Job, poll, read log, delete | every Job deleted, the class returned is the Job's |
| Agent loop, `agent_loop.py` | transcript, counters, one slot | step: budget checks, inference, parse, deny or run, observe; eight exits, and exceptions that nothing in the loop catches | authorization on every call, budgets, one truthful outcome and event |
| Sandbox runner, `sandbox/` | none | run one tool on stdin | resource limits, one JSON line |
| Chat and inference client, `server.py`, `inference.py`, `routing.py`, `compare.py`, `documents.py` | one slot per request | completion with retry, stream, AI edit, compare of several models with synthesis | slot given back on each exit and within a bound, nothing asked twice, one model's failure is one |
| Deep research, `deep_research.py`, `web_search.py` | one run | plan, retrieve, search the web, synthesise, against one wall clock | own sources only, bounded, feed, audit and answer agree |
| Retrieval, `retrieval.py`, `embeddings.py` | tables of documents and chunks, originals in S3 | chunk, embed, store, notify; query | chunks are the text, each with its own vector, tenants apart |
| Notifications, `notifications.py`, the panel in `app.js` | event rows with read state; a stream's emitted ids; what the browser shows | publish, list, mark read, push stream | each unread event pushed, once per connection, in order; the panel settles |
| Conversations, `conversations.py` | threads and messages | create, append (first turn sets the title), get, delete | ownership, whole appends, complete and ordered reads |
| Notes and documents, `notes.py`, the editor in `app.js` | notes; the editor's current document | create, update, delete, list, AI edit | answers go to the document they are for |
| Memory, `memory.py` | memories per user | record with consent, recall, delete | own and undeleted memories only |
| Integrations and credentials, `integrations.py`, `integration_secrets.py`, `integrations_google.py`, `outbound.py` | per-tenant switches, cache of secrets, cache of tokens | invoke: allow-list, switch, limiter, secret, refresh, guard, send, audit | rotation visible within the TTL, tenants apart, pinned addresses |
| Media, `media.py`, `storage/s3.py` | artifacts in S3 | transcribe, generate, synthesise, show | a success is stored, artifacts shown to their maker |
| MCP client, `mcp.py` | one child process per exchange | invoke a tool, list tools | no process outlives its request |
| Sessions, tokens, auth | session rows | create, read, expire | expiry |
| Migrations, `db/` | schema | apply under an advisory lock | one at a time, all or nothing |
| Configuration, metrics, tracing, logging, UI, fixtures | none of interest | | |

How they interact: the browser calls the control plane; handlers share the in-memory
limiters, caches and the stores; tool, agent, research, indexing, media, install and
integration handlers publish events into the notification store. The control plane
calls the dispatcher, vLLM, the embedding and GPU backends, Google and S3 over HTTP
with time-outs (per read of a socket, not per call), and spawns MCP servers. The
dispatcher calls the Kubernetes API. The installer polls the control plane's internal
endpoints and patches the vLLM release by a Kubernetes client that sets no time-out;
vLLM in turn serves the control plane's inference calls.

What is hard in it: handlers interleave on threads and replicas between two store
calls; remote calls time out after they were applied; processes restart between two
remote calls and keep nothing; a caller gives up while its callee works on; unlocked
caches are refilled by slow calls that overtake each other; stamps are taken before
rows are inserted; the browser applies answers to whatever it shows by then; Kubernetes
status lags behind its spec; the language model may say anything in any order.

## 2. Modules

| Module | Models | Composition |
|---|---|---|
| `ModelRequests` | request table and handlers, with an arbitrary reconciler | |
| `ModelInstall` | the installers, late posts and the vLLM release | `EXTENDS ModelRequests`, and implements its `ReqSpec` |
| `RateLimiter` | the limiter as threads use it | |
| `ToolJobs` | invoke and agent handlers, executors, dispatcher, Jobs | `EXTENDS RateLimiter`, and implements its `LimSpec` |
| `AgentLoop` | one agent run | how its tools run is in `ToolJobs` |
| `Inference` | chat, stream, AI edit, compare and the client | `EXTENDS RateLimiter`, and implements its `LimSpec` |
| `Retrieval` | chunking, embedding, the document tables, query | |
| `DeepResearch` | one research run while others index | `EXTENDS Retrieval` |
| `Feed` | what the notification service promises a reader | |
| `Notifications` | both stores, handlers, push stream, the browser's panel | implements `Feed` (`INSTANCE Feed WITH`) |
| `Conversations`, `Notes`, `Memories` | the three stores of a user's data and the document editor | |
| `UserData` | the three behind one control plane | `EXTENDS` them |
| `Harness` | the request path integrations, media and MCP share | |
| `Integrations`, `Media`, `Mcp` | their executors | `EXTENDS Harness` |
| `Services` | the three on one set of handlers | `EXTENDS` them |
| `DataProofs`, `ResearchProofs` | theorems about `Notifications` and `UserData`, about `DeepResearch` | |
| the other `*Proofs` | theorems about the module of that name, `ModelInstallProofs` also about `ModelRequests` | |
| `MC*` | constants for TLC | |

### ModelRequests

`row` is the table plus inserts in flight: status `"creating"` is a handler that has
counted the open rows and not yet inserted. The create handler is `CreateCheck`
(permission, shape, allow-list, count, stamp), then `CreateInsert` (insert, notify,
release) or `CreateFail`. A request id is the rank of its `created_at`; replicas have
their own clocks, so any unused id may be drawn. `UpdateStatus` has no guard on the
row's present status, as in the code. Lists (`ListFor`, `Pending`) are state functions;
`ListFor` answers the `ListLimit` newest of the rows its caller may see.
The create handler's limiter appears as `Permits`, the handlers that can be between
acquire and release at once; its per-minute window only removes behaviours.

### ModelInstall

Each installer is a record of `run_once`'s locals with a `pc` per remote call; every
call has a branch in which it fails, and a patch or post that fails may have been
applied. A status post that timed out can also be applied later (`late`). The vLLM
release is `configMap`, `serving` (the ready pod's model) and `booting`. `wait_ready`
asks for an available and an updated replica; during a rolling update the first can be
the old pod, hence `DeploymentReady == serving # "none"`. `K8sCalls` are the values of
`pc` that wait for a call of the Kubernetes client. `_rollback` is the two patches
again. `Restart` loses all locals and may change the installer's kill switch.

### RateLimiter

Reading the clock, the section under the lock and the semaphore are three actions,
since other threads run in between. `admitted` and `stale` are history variables.

### ToolJobs

A handler thread (`thread`, from `RateLimiter`) with a slot has a `call`. A run of a tool
has a dispatcher thread `disp[r]` (or `"child"` for a subprocess) and a process or Job
`job[r]`. `run_tool_job` is `CreateJob`, `PollJob`, `ReadLog`, `DeleteJob`, `Reply`; an
exception that is no `K8sError` (a read time-out) is the class `"raise"`, which passes
through the `finally` block and closes the connection. `GiveUp` is the caller's
time-out. The agent's many calls under one slot are the kind `"agent"`. The poll loop's
sleeps are stutters. `abandoned` and `faulted` are history variables.

### AgentLoop

One action per exit or branch of a step. A model turn is any member of `Action`:
unparsable, unknown verb, final, or a call of any name with well-formed arguments or
not. The transcript keeps roles only. Time is added by inference and tool calls. The
`*Escapes` actions are exceptions past the loop's `except` clauses: an answer nested too
deep for `json.loads`, a token count that is infinite, an executor or an audit that
raises. The handler's `finally` gives the slot back, the caller gets a 500, and the user's
feed no terminal event.

### Inference

A thread that has acquired a slot of its surface's limiter has a `call`. Each completion
is `"connect"` (nothing is out yet), `"wait"` and a result: `urlopen` raises `URLError`
only while it connects and sends, so `ConnectFails` is what `_MAX_RETRIES` applies to,
and `AnswerFails` (an HTTP status, a time-out, an exception the client has no name for)
is not retried. The stream's loop is `ReadLine` and `WriteLine`, with the look at the
clock after each line, `StreamEnds` and `WriteFails`. `AfterOne` is compare's loop: the
next model, the synthesis, or the answer. `held` and `lived` add the time each step takes,
at most `ConnectTime`, `AnswerTime`, `LineTime` or `WriteTime`. These are the environment's
and not settings: the client's time-out is per read of the socket, so that an answer or a
line may trickle for longer, and writing to the browser has none. `sent` counts how often
the model got the present completion.

### Retrieval and DeepResearch

A text is the sequence of its words' lengths, which is all that `chunk_text` looks at; a
vector is the text it was computed from. The embedding backend answers as many items as
there are texts (`embed` refuses anything else), and they may be any vectors under any
indices, some missing or twice: `Embedded` sorts them by index, a missing one counting as
0, and keeps the order of equals, as Python does. `numbered` records whether a reply
numbers every item by its position, or none and keeps their order. `StoreDocument` is the
transaction. A query returns any `TopK` chunks of the tenant, since ranking is pgvector's.
In `DeepResearch`
every phase is a step per subquery, adds the time it took, and reads the wall clock only
where the code does; `Elsewhere` lets other callers index documents between any two.

### Feed and Notifications

`Build` stamps an event; `Publish` inserts it later, so handlers overtake each other, and an
event's number is the rank of its stamp. Lists are newest first, by insertion in memory and
by stamp in PostgreSQL. `PollStream` is one tick, `SendFrame` one frame of its batch; a
stream ends after `MaxTicks`, or breaks between two frames and starts anew with nothing
remembered. The browser merges frames, and replaces what it shows by a list response when
that arrives; its stream is a `fetch` that reads the body and is opened again after a pause
(`runNotificationStream`). Refinement: `unread`, `open` and the frames of the connection are
state of `Notifications`; an event is due on a connection if it was unread at some time
since its opening (`eligible`, history).

### Conversations, Notes, Memories, UserData

`append` is three steps (stamp; title read; insert, update and commit), `get` two. The
inserted row takes a key lock on its conversation, so insert and commit are one step against
a delete. A stamp is any not yet taken, since replicas have clocks of their own; `nth` of a
message counts the commits. Of a text it matters who speaks and whether it names anything:
one that is blank, or reads "New conversation", leaves the title open. `Notes` has the table
and the editor: `saveDoc` and `aiEditDoc` are a request, the server's step and an answer
that is applied to what is on the screen then, or is lost. `refreshDocs` and the Delete
button are awaited by nothing: lists come at any time, with the newest `MaxListed`
documents, and an entry stays until it is drawn again. A text is the draft it was written
for; an older revision of the same draft, opened from a list that is out of date, is not
told apart. `Memories` has the embedding call between a request's checks and its query. The
three share no state: `UserData` lets one of them move in a behaviour, and a property of one
is one of all.

### Harness, Integrations, Media, Mcp, Services

`Admit` is what the three services' handlers do up to their executor, `Finish` and
`Escape` what they do after it. In `Integrations` reading the clock, the fetch and the
store of a cache entry are separate steps, for the secret and for the access token.
Judging an address and connecting to it are two (`Validate` and `Send`, `CheckToken` and
`Refresh`), with the host resolving to anything at each time. The refresh of a token has
a guard and a socket of its own, and no permitted private hosts. `Media` is the backend's
call and the upload, which may fail with the object in place. The path of an artifact is
read as the tuple of its parts: the tenant is an e-mail domain and the id a uuid or
matched by `_SAFE_ARTIFACT_ID`, so neither holds a slash and the path has one reading.
`Mcp` has the server process from `Spawn` to its exit, the time-out that kills it, or the
kill that fails and the pipe that breaks, which leave an `"orphan"`.

## 3. Runs

| Run | Checks | Distinct states |
|---|---|---|
| `requests` | `BacklogBounded`, `FeedResolves`, `StoredAreAdmissible` | 332,630 |
| `install` | `RollbackRestores`, `LifecycleOrdered`, refinement `ReqSpec`, liveness `PendingPickedUp`, `InstallingResolves` | 70,378 |
| `install_overlap` | `OrphansCostFaults`, `ReleaseVetted` with two installers and late posts | 1,250,178 |
| `applied_serving` (violation) | `AppliedIsServing` | |
| `tool_jobs` | `AttendedWithinCap`, `ReapedUnlessFaulted`, `VerdictsAreTrue`, refinement `LimSpec` | 1,516,073 |
| `tool_jobs_live` | liveness `JobsEventuallyGone`, `SlotsComeBack` | 306,776 |
| `agent_loop` | `BudgetsHold`, `OnlyAllowedRun`, `StoryIsTrue` | 218,052 |
| `inference` | `LimiterHolds`, `ServedOnce`, `SlotHeldBounded`, `OneFailureIsOne` | 680,682 |
| `research` | `CorpusIsTheText`, `OwnSourcesOnly`, `ClockBoundsRun`, `StoryIsTrue` | 1,427,299 |
| `feed` | `FramesInOrder`, refinement `FeedSpec`, liveness `UnreadPushed`, `ViewSettles` | 851,835 |
| `user_data` | `ConversationsWhole`, `GetIsComplete`, `EditorFaithful`, `RecallIsSound` | 2,347,766 |
| `services` | `OwnCredentials`, `CredentialsFresh`, `GuardHolds`, `ArtifactsSafe`, `NoProcessLeft` | 2,061,674 |

Several properties are conjunctions of named parts that belong together: `LimiterHolds`
(slots conserved, rate overshoot bounded), `VerdictsAreTrue` (one verdict, true
successes), AgentLoop's `StoryIsTrue` (outcome, feed and transcript), `CorpusIsTheText`
(chunks, vectors, notices), `ConversationsWhole`, `EditorFaithful`, `CredentialsFresh`
(rotation, token life) and `ArtifactsSafe`.

What they show, beyond the names:

* **What the caps really bound.** The open-request cap is overshot by concurrent
  creates, but never by more than the handlers that can run at once, less one
  (`BacklogBounded`). The per-minute limit is overshot when a thread is preempted
  between clock and lock, by at most one more limit per such thread (`LimiterHolds`).
  The concurrency cap does not cover Jobs whose caller gave up or whose Kubernetes call
  failed, and covers all others (`AttendedWithinCap`). An agent run passes its wall-clock
  and token budgets by at most one step (`BudgetsHold`); a research run passes its wall
  clock by at most one phase (`ClockBoundsRun`), because no phase is interrupted and the
  synthesis is not looked at any more. A request holds its slot for a bounded number of
  waits: an ordinary call for its attempts and one answer, a compare for one of these per
  model, a stream for its own limit and one more line (`SlotHeldBounded`). How long such a
  wait may be the code does not bound, see the findings.
* **What failures cost.** Every row stranded in `installing` is paid for by a crash or a
  failed post (`OrphansCostFaults`): nothing else strands one, and nothing resumes one.
  A Job outlives its dispatcher thread only after a failed Kubernetes call or the
  dispatcher's death (`ReapedUnlessFaulted`), and then the TTL removes it
  (`JobsEventuallyGone`). A retry never gives the model a completion twice
  (`ServedOnce`); one of several models failing costs its own result (`OneFailureIsOne`).
  The editor mixes documents up, or saves a draft twice, only through an answer that was
  lost or came to a screen that had moved on, as with New while a save is pending; users
  who wait are safe (`EditorFaithful`).
  After a failed install the release may stay at a model that was reported failed, if the
  second of `set_model`'s patches failed, the rollback failed or knew no way back, or the
  process died, and at no other (`RollbackRestores`).
* **What is told is true.** Events name stored rows of their reader's, which the list names
  too unless as many newer ones as its limit crowd them out (`FeedResolves`); one verdict
  per run however late answers are, and an audited success is a Job that ended well
  (`VerdictsAreTrue`); agent and research runs tell feed, audit log and caller the same
  story (`StoryIsTrue`), of an agent run that ends in a 500 no more than its start; a media
  success is an object in storage (`ArtifactsSafe`).
* **What races cannot do.** A slow fetch that overwrites a newer cache entry keeps a
  rotated secret alive no longer than the TTL, since the TTL is counted from before the
  fetch (`CredentialsFresh`); counted from after it, the run fails. A delete that
  overtakes an append leaves no message behind (`ConversationsWhole`). Chunk and vector
  belong together although items come in any order, if the backend numbers them
  (`CorpusIsTheText`). The panel ends
  up with what is unread although lists and frames cross (`ViewSettles`).

### Bounds

* `requests`: three users in two tenants (a permitted one, an admin, one without
  permission), one repo per way of being refused, cap 1 and two handlers at once, three
  requests against lists of one: the smallest instance in which the cap is overshot by as
  much as the bound allows and a third request meets a full queue.
* `install`: two requests (one behind the other in the queue, and one installed over the
  other), four models (deployed, loadable, not loadable, denied by the installer only),
  one installer and two faults. With two faults a wait can fail and the rollback it
  causes fail too, or a crash follow a failed post.
* `install_overlap`: two installers and one fault with late delivery. Symmetry on the
  installers is sound: they are only ever compared for equality.
* `tool_jobs`: two threads for one slot, two runs, two faults: a Job that is left
  behind, the next call beside it, and a second failure. The window count is not of
  interest there (one window, limit 2).
* `tool_jobs_live`: one thread, one fault, two windows of one call each, and no symmetry,
  which is unsound for liveness.
* `agent_loop`: three steps, an allowed tool, a known tool that is not allowed and an
  allow-listed name that is no tool; budgets small enough to be passed mid-run.
* `inference`: two threads for one slot, two windows of one call, so that a stale thread,
  a full semaphore and a window change meet; one retry; two models, with and without
  synthesis; a unit of time for each wait, so that a stream lives past its cap of one.
* `research`: a document of a colleague and one of another tenant, of one text of two
  chunks with a word longer than a chunk and one of three chunks, which the cap refuses;
  two subqueries of two chunks each and two web hits against a cap of three passages, every
  call as long as the wall clock. The view leaves out the vectors of documents whose reply
  was not numbered: no guard and no other variable depends on them, and the only property
  that speaks of vectors speaks of the other documents.
* `feed`: three events, two owners, lists and batches of two, a ring of two (so that
  both the limit and the ring push events out), two ticks per connection, one loss.
* `user_data`: one conversation, two overlapping requests, three messages with stamps in any
  order; two documents in lists of one, and two calls of the editor under way; two memories
  and two overlapping requests.
* `services`: two handlers, two tenants and a service of each kind, three requests, one
  rotation or removal of a secret, two ticks of the clock with a TTL of one.

`MaxRequests`, `MaxRuns`, `FaultBudget`, `MaxMinute`, `PublishFails`, `LateDelivery`,
`MaxEvents`, `MaxDrops`, `MaxMessages`, `MaxDrafts`, `MaxTime`, `MaxRotations`,
`Switchable` and `Rotated` are the model's own bounds, as are the sets of ids, callers,
texts and threads. `ConnectTime`, `AnswerTime`, `LineTime`, `WriteTime`, `CallTime`,
`ToolTime`, `QueryTime` and `WebTime` are how long the environment takes at most, which
the properties are relative to; all others are settings or limits of the program. Deadlock
checking is off where the ids or requests are used up or the run is over: `tool_jobs*`,
`agent_loop`, `research`, `user_data`, `services`.

### Fairness

`ModelInstall!Fairness`: create handlers return, and an installer goes on from every point
but one of its Kubernetes calls: `run_forever` never ends, the posts and the list of pending
requests have a time-out, and so has boto3. The Kubernetes client sets none
(`clients.py:122`, `128`, `133`, `144`), so no fairness is assumed of these calls; that they
return (`K8sReturns`) is the premise of `PendingPickedUp` and `InstallingResolves`, and an
installer whose call hangs picks up nothing more. Nothing is assumed of users, of the kill
switch, of faults or of vLLM ever becoming ready. `ToolJobs!Fairness`: server threads are
scheduled and their waits end (`communicate` has a time-out, and so has each read of the
sockets), the dispatcher's loop ends (`overall_timeout`), and Kubernetes enforces
`activeDeadlineSeconds` and `ttlSecondsAfterFinished`. An agent run may make further calls,
never must. `Notifications!Fairness`: the server's stream thread runs on to a browser that
reads its stream, the browser opens the next three seconds after one ends (`app.js:1057`),
and the browser's timer polls the list. Each of these two loops has one step enabled at a
time, so weak fairness of the loop is fairness of its steps; nothing is assumed of
publishers, readers and losses, which are finitely many by `MaxDrops`.

### Mutants

Every property of every passing run has a mutant: an operator placed before the
definition it replaces, which changes the definition as a plausible bug would, and
under which TLC reports the property violated.

## 4. Findings

`applied_serving` ends with a counterexample: `wait_ready` is satisfied by the previous
pod; `applied` and the log line "model is serving" come while the old model serves.

Weaker disagreements between the code and its own words, met while modelling and not
given runs of their own:

* Count and insert of a request are two store calls, so concurrent creates exceed the
  cap that `model_requests.py:387` says bounds the stored rows; `BacklogBounded` says by
  how much.
* When `set_model` raises after its first patch, `run_once` reports `vllm_apply_failed`
  and does not roll back (`reconciler.py:118`); the next pod start loads the model of the
  failed request, against the comment at `reconciler.py:108` (`RollbackRestores` has this
  case as `LeftBehind`).
* `server.py:1282` calls the relay of a stream "bounded by a max connection lifetime". The
  deadline is looked at after each line; a model that trickles one line for ever, or a
  browser that does not read, holds the thread and its slot.
* A first message "New conversation" leaves the title open to the second
  (`conversations.py:236`); `FirstMessageNames` says which message names.
* An embedding backend that numbers its items wrongly is believed: nothing looks at gaps or
  repetitions (`embeddings.py:157`).
* A row in `installing` after a crash is never resumed; nothing keeps two installer
  processes from installing at once (`reconciler.py:65` says one at a time).
* The dispatcher knows no kill switch (`agent_tools.py:320`,
  `docs/m11-job-sandbox-design.md:81`): a call it has accepted becomes a Job after the
  control plane has come back disabled. One tenant can hold all slots
  (`docs/m11-followups/01-agent-loop.md:83`). `run_tool_job` does not "always reap"
  (`jobrunner.py:5`), because `create_job` is outside its `try`. An agent's call of an
  allowed tool with arguments that are no object leaves no audit record
  (`agent_tools.py:15`).
* `integration_secrets.py:151` says a failed fetch makes the caller degrade; no caller
  catches `IntegrationSecretError`, and the request ends in a 500 without audit record
  or event (`Escape`).
* An access token minted from a secret that was rotated or removed is used until it
  expires: the TTL bounds the secret, not the token (`RotationPropagates` speaks of
  credentials only).
* The MCP list handler spawns a server process without taking a slot, so the limiter's
  cap is one on invocations; and a server that cannot be killed, or whose pipes break, runs
  on after its slot is free.
* A document whose indexing fails leaves its uploaded original in S3.
* With more than `limit` unread events the stream never shows the older ones until newer
  ones are read, and then out of order (`FramesInOrder`, `UnreadPushed` say exactly when).

## 5. Proofs

All theorems hold for every value of the constants that meets the named assumptions
(`BoundsAssumption`, `PolicyAssumption`, `InstallAssumption`, `BudgetAssumption`,
`LimiterAssumption`, `ThreadsAssumption`, `RunsAssumption`, `ToolsAssumption`,
`BudgetsAssumption`, `NotificationsAssumption`, `SurfacesAssumption`, `RetryAssumption`,
`TimeAssumption`, `HarnessAssumption`, `CredentialAssumption`, `ConvAssumption`,
`NotesAssumption`, `MemoryAssumption`, `ChunkAssumption`, `ResearchAssumption`): natural
numbers for bounds and caps, finitely many threads, tools, repos and memories in their
sets. A few say what a value is: a text is a sequence of word lengths, a web address is
no chunk's id, and no uuid is `"none"`. The wall clock of a research run and the `top_k`
of a recall may be any integer, as in the code. TLC evaluates the assumptions of a module
in each of its runs.

Every safety property that a run checks is a theorem.

**ModelInstallProofs.** Of `ModelRequests`: `ReqTypeCorrect`; `BacklogCapped`: the bound is
inductive since `CreateCheck` counts requested rows below the cap with fewer than `Permits`
creating, and no other step adds to the backlog; `StoredAdmissible` strengthens the property
to inserts in flight (`AdmittedInv`); `FeedSound` uses that owner and repo of a row never
change and no row goes back to requested (`RowStep`), and that a row its reader may see is
listed or crowded out (`ListedOrCrowded`).

Of `ModelInstall`: `TypeCorrect` needs `RollbackKnown` (an installer that rolls back
has a previous model). `RefinesRequests`: every step is a step of the arbitrary
reconciler's table or leaves the table alone, so that `InstallKeepsRequests` carries the
theorems of `ModelRequests` over. `OnlyVettedModels` is inductive with `InstallersVetted`: the
request an installer has picked and the previous model it remembers are vetted; this is
where the two allow-lists, read at different times by different processes, meet.
`StrandedOnlyByFaults` is a counting argument: `OrphanInv` adds what each `pc` is about to
post (`PostedStatus`), and each step strands at most one row and then takes a fault
(`StrandedStep`). `LifecycleInOrder` assumes one installer and no late delivery (`Single`);
its invariant says that the installer knows its row's status. Under the same assumption
`FailedLoadsAreUndone`: `UndoneInv` says for each `pc` that the release points at a model
it may be left at (`Restorable`), or that the way back to one is remembered, or that there
is none and the request is about to be reported failed at a stage after its patch;
`SettledStay` that rows decided or stranded stay so, whatever a later install does.

**RateLimiterProofs.** `LimTypeCorrect`, `SlotsAreConserved` (permits plus slot holders is
constant, for any finite set of threads), `RateIsBounded` with `RateInv`, which says for
each window, by whether it is older than, equal to or newer than the tenant's entry, how
much of it is spent. `LimiterLimits` is both together.

**ToolJobsProofs.** `RefinesLimiter`: every handler step is a limiter step. `ToolInvariant`
proves `IInv`: `CallInv` (a call under way belongs to one running handler), `RunInv`
(`RunOK`: where a run is, what exists of it and whether somebody waits), `AuditInv`
(audited runs are over for their caller). From it `ReapsUnlessFaulted`,
`SuccessesAreReal`, `OneVerdictEach`, both as `VerdictsHold`, and, with the limiter's
slots and an injection from attended runs to slot holders, `CapOnAttended`.

**AgentLoopProofs.** `TypeCorrect` with `StepsInv` (the loop variable counts the turns),
`BudgetsBoundRuns` with `SpendInv`, `OnlyAllowedToolsRun` with `RecordsInv` (turns, audit
and executions correspond), `OutcomesAreTrue` with `OutcomeInv`, and `StoriesAreTrue`, for
which `PairInv` says that turns and replies of the transcript alternate and `FeedInv` what
has been published at each `pc`. A run that an exception ended is a case of its own in all
of them.

**DataProofs.** Of `Notifications`: `TypeCorrect`; `ImplementsFeed`: each step is a step of
`Feed` or a stutter, by `StoreInv` and `StreamInv`, which say that a batch is due on its
connection and holds nothing that was emitted, and that everything sent was emitted;
`FramesComeInOrder` strengthens (`OrderInv`) the order of the frames by that of the batch
still to come and of what no poll has found yet, for any number of events and any limit.

Of `UserData`, over `DataSpec`, in which the three stores take their steps in any order;
`DataInvariant` has one invariant for each store.

* `ConvInv`, for `ConversationsAreWhole` and `GetsAreComplete`. What the title of a
  conversation should be depends on two appends that overlap: the seed is read in one
  statement and written in another. `RequestTrue` therefore follows each append: its stamp
  is on no message yet, a title it has read is still that of a message that may seed one,
  and where no appends have overlapped it is the conversation's. Stamps say nothing of the
  order, so `FirstOf` speaks of commits. `Apart` keeps two appends apart: they have two
  stamps, and if they are on one conversation they have overlapped. A get sorts by stamp;
  that there is exactly one such order is proved by a least counterexample (`Orders`,
  `Unordered`).
* `NotesInv`, for `EditorIsFaithful`, holds for every user, who waits or not. `Kept` says
  what each document may hold and each call under way may still write into it: the
  document's own draft, unless it was crossed with another. `Once` follows each draft to
  its one document: without one it is unsaved, or its creation is under way or was lost, or
  it was rushed. `Waiting` is what is left when the user acts only between calls: one call
  at a time, on the text that is on the screen, so that nothing is crossed or rushed.
* `MemInv`, for `RecallsAreSound`: what a request knows to be deleted is deleted
  (`JobTrue`), and what was answered stays the caller's, whatever is deleted since
  (`AnswerTrue`).

**ResearchProofs.** Chunking, joining, collecting passages and naming sources are loops in
the code and recursive functions here. The library defines such functions and reasons
about them with operators as parameters, which these provers do not instantiate; so
`LoopExists` (a function exists that does what the loop does), `LoopsAgree` (it is the only
one) and `Climb` (what holds at 0 and is kept by each turn holds after the last) are stated
over sets of states and proved from the least counterexample. From them, for every text:
`ChunkTextPacks` (the chunks are the words in order, none lost, each of at least one word
and within the limit unless it is one word longer than that,
and none with room for the next word), `AddNewShown` (passages stay
without repetition and within the cap), `SourcesAreTheDocuments`, and `EmbeddedInOrder`
(whatever order the backend answers in, sorting by index gives each text its own vector if
the items are numbered by position, and a stable sort leaves unnumbered ones as they came).

On these rests the invariant `RunInv`, four parts, each kept by the run's steps and by
those of other requests (`RunInvariant`):

* `RetInv`, for `CorpusIsWhole`: by its stage, what an index request has and what the
  table holds of it (`DocTrue`), its vectors included where the reply was numbered; rows and
  notices belong to requests that stored them.
* `ShownInv`, for `SourcesAreOwn`: passages and hits are what the caller may read (`Own`)
  at every point, although the owner of a document is known only since its upload.
* `ClockInv`, for `RunsAreBounded`. The bound is not inductive, since it says nothing of
  the calls a phase has still to make: `Spent` bounds the clock by the calls of the phase
  that are over, counted from the last look at the clock.
* `StoryInv`, for `StoriesAgree`: for each exit, the feeds, audits and answers there are.

**InferenceProofs.** `RefinesLimiter` and `LimitsHold`: whatever way out of chat, stream,
edit and compare is taken, slots are conserved, which carries `LimiterLimits` over.
`NeverServedTwice` is inductive with `Sound`: a request that can still send has not sent,
which is why retrying after a refused connection, and after nothing else, is safe.
`SlotsHeldInCalls` and `FailuresAreTheirOwn` add `Kept` to it: `InTime` bounds the time a
request has had its slot, relative to what each wait takes, by where it is (the calls before
this one, the attempts of this one, the life of a stream), since the bound alone says
nothing of how many attempts are still to come; `Told` says how many results a compare has,
and that a synthesis was asked for only when two were good.

**ServicesProofs.** `ServicesTypeCorrect`, `CredentialsAreOwn`, `SocketsAreVetted` and
`ProcessesEnd` from one invariant, `ServicesInv`: every request is `Right` (a caller, its
own credentials, an address the guard has judged once it is pinned, a public one while it
refreshes, a process that could be killed only during its exchange), and the token cache
holds under a tenant what was minted for it. The last is what the property lacks: a request
takes its token from an entry that another thread may have written. One lemma per change of
a request (`FetchedRight`, `PinnedRight`, ...), one per component (`IntegrationsKeep`,
`MediaKeeps`, `McpKeeps`).

`CredentialsStayFresh` and `ArtifactsAreSafe` come from a second invariant on top of it,
`FreshInv`. That a credential is at most TTL out of date is not kept by itself: a secret
may be replaced while it is fetched, or wait in the cache while another thread uses it. So
`Fresh` follows the value (fetched: it was good when the clock was read; cached: its entry
ends within TTL of its being replaced; in use: the property), the stored version is known
not to be replaced, and a cached token to outlive its entry by the margin. `Backed` follows
an upload: no request has an audit record before it is answered, and what is under a key
was made by the key's tenant. The argument uses nothing of `Rotated` or `Switchable`.

Only model-checked: the liveness properties (`PendingPickedUp`, `InstallingResolves`,
`JobsEventuallyGone`, `SlotsComeBack`, `UnreadPushed`, `ViewSettles`), since fairness and
ENABLED are outside what the installed provers do. `AppliedIsServing` is no theorem: run
`applied_serving` shows it violated. No module uses RECURSIVE operators.

## 6. Not modelled

* Text (prompts, logs, error wording), HTTP plumbing, token verification (a library's
  work) and authentication failures, which change nothing; argument validation of tools.
* Sessions (`session.py`, `session_postgres.py`): no request path of the server creates or
  reads one.
* Migrations: one idempotent script in one transaction under PostgreSQL's advisory lock;
  a replica that dies half-way leaves nothing, by the database's own guarantee.
* In-memory stores used by tests only (the notification store's, which is the server's
  default, is modelled); configuration, metrics, tracing, rendering of the UI.
* The GPU backends' reachability probe and its cache, which only colours a status page.
* The tools inside the sandbox and the search provider's parsing: pure functions of text.

## 7. Plan

Done: all components that keep state or run concurrently.

All safety properties of the runs are proved. What is left is breadth: the two hazards
that no property covers, sessions should a request path come to use them, and the steps of
one research run and one agent run on the same limiter.
