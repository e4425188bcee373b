--------------------------- MODULE ModelRequests ---------------------------
(***************************************************************************)
(* The control plane's side of self-serve model installs: the table        *)
(* model_install_requests and the HTTP handlers that read and write it     *)
(* (src/app/control_plane/model_requests.py, PostgreSQL store).            *)
(*                                                                         *)
(* Handlers run on the threads of several server replicas, so a handler is *)
(* one action per store access.  The create handler counts the open rows   *)
(* and stamps created_at in one action (CreateCheck) and inserts in        *)
(* another (CreateInsert); other handlers run in between.  A request id is *)
(* the rank of its created_at stamp: replicas stamp with their own clocks, *)
(* so a later check may draw an earlier stamp, and CreateCheck takes any   *)
(* unused id.  Rejected calls change nothing and are stutters.             *)
(*                                                                         *)
(* Here the reconciler is arbitrary: PostStatus is any call of the         *)
(* authenticated status endpoint.  ModelInstall adds the real one.         *)
(***************************************************************************)
EXTENDS Integers, FiniteSets

CONSTANTS
  Users, TenantOf, GroupsOf,       \* who calls, from the verified token's claims
  AllowAllUsers, InstallGroup, AdminGroup, \* permission settings
  Repos, OrgOf,                    \* Hugging Face repos and their orgs
  Malformed,                       \* the members of Repos that fail _HF_REPO_RE
  CpAllowlist,                     \* MODEL_INSTALL_ALLOWLIST, parsed
  ErrorClasses,                    \* short strings a reconciler reports; "none" for ''
  Cap,                             \* model_install_max_open_per_tenant
  Permits,                         \* create handlers that can run at once: limiter
                                   \* max_concurrency times server replicas
  ListLimit,                       \* rows a list call asks for: 100, at most 200
  MaxRequests,                     \* bound: requests ever created
  PublishFails                     \* bound: may the best-effort publish fail?

ASSUME BoundsAssumption ==
  /\ Cap \in Nat /\ Permits \in Nat \ {0} /\ MaxRequests \in Nat \ {0}
  /\ ListLimit \in Nat \ {0}

ASSUME PolicyAssumption ==
  /\ Users # {} /\ Repos # {}
  /\ Malformed \subseteq Repos
  /\ "none" \in ErrorClasses
  /\ PublishFails \in BOOLEAN

VARIABLES
  row,       \* request id -> its record; "absent" and "creating" are not in the table
  feed,      \* notification events published for request owners
  enabled    \* MODEL_INSTALL_ENABLED, the control plane's kill switch

reqVars == <<row, feed, enabled>>

Ids == 1..MaxRequests
Tenants == {TenantOf[u] : u \in Users}
ReconcilerStatuses == {"installing", "applied", "failed"}
Statuses == {"requested"} \cup ReconcilerStatuses
Events == {"model_install_requested", "model_install_updated"}

ModelInstallRequest ==
  [status : {"absent", "creating"} \cup Statuses,
   owner  : Users,
   repo   : Repos,
   error  : ErrorClasses]

NoRow == [status |-> "absent", owner |-> CHOOSE u \in Users : TRUE,
          repo |-> CHOOSE r \in Repos : TRUE, error |-> "none"]

ReqTypeOK ==
  /\ row \in [Ids -> ModelInstallRequest]
  /\ feed \subseteq Users \X Events \X Ids
  /\ enabled \in BOOLEAN

----------------------------------------------------------------------------
\* Policy.

\* Deny by default; "*" admits any repo, else the exact repo or its org.
IsRepoAllowed(allowlist, repo) ==
  /\ allowlist # {}
  /\ "*" \in allowlist \/ repo \in allowlist \/ OrgOf[repo] \in allowlist

IsAdmin(u) == AdminGroup \in GroupsOf[u]

UserCanRequestInstall(u) ==
  \/ AllowAllUsers
  \/ InstallGroup # "unset" /\ InstallGroup \in GroupsOf[u]
  \/ IsAdmin(u)

----------------------------------------------------------------------------
\* Store queries.

WithStatus(S) == {id \in Ids : row[id].status \in S}
InTable == WithStatus(Statuses)
Creating == WithStatus({"creating"})
OfTenant(S, t) == {id \in S : TenantOf[row[id].owner] = t}

CountOpenForTenant(t) == Cardinality(OfTenant(WithStatus({"requested", "installing"}), t))

\* GET install-requests: of every row for an admin, of the own ones for anyone
\* else, the ListLimit newest (ORDER BY created_at DESC LIMIT).
Visible(u) == {id \in InTable : IsAdmin(u) \/ row[id].owner = u}
Newer(u, id) == {other \in Visible(u) : other > id}
ListFor(u) == {id \in Visible(u) : Cardinality(Newer(u, id)) < ListLimit}

\* Mutant: failed requests are offered again.
PendingOrFailed == IF enabled THEN WithStatus({"requested", "failed"}) ELSE {}

\* GET pending: no work while installs are disabled.  list_pending returns the 50
\* oldest; the installer reads the first of them only, which no limit drops.
Pending == IF enabled THEN WithStatus({"requested"}) ELSE {}

----------------------------------------------------------------------------
\* Handlers.

\* _notify: best effort, a failed publish is swallowed.
Notify(u, event, id) ==
  \/ feed' = feed \cup {<<u, event, id>>}
  \/ PublishFails /\ UNCHANGED feed

ReqInit ==
  /\ row = [id \in Ids |-> NoRow]
  /\ feed = {}
  /\ enabled \in BOOLEAN

\* Mutants of CreateCheck: without the cap, without the allow-list, and with the
\* notification before the insert.
StampRow(u, repo, id) ==
  /\ row[id].status = "absent"
  /\ row' = [row EXCEPT ![id] =
               [status |-> "creating", owner |-> u, repo |-> repo, error |-> "none"]]
CreateCheckWithoutCap(u, repo, id) ==
  /\ enabled /\ UserCanRequestInstall(u)
  /\ repo \notin Malformed /\ IsRepoAllowed(CpAllowlist, repo)
  /\ StampRow(u, repo, id)
  /\ UNCHANGED <<feed, enabled>>
CreateCheckAnyRepo(u, repo, id) ==
  /\ enabled /\ UserCanRequestInstall(u)
  /\ Cardinality(Creating) < Permits
  /\ CountOpenForTenant(TenantOf[u]) < Cap
  /\ StampRow(u, repo, id)
  /\ UNCHANGED <<feed, enabled>>
CreateCheckNotifies(u, repo, id) ==
  /\ enabled /\ UserCanRequestInstall(u)
  /\ Cardinality(Creating) < Permits
  /\ repo \notin Malformed /\ IsRepoAllowed(CpAllowlist, repo)
  /\ CountOpenForTenant(TenantOf[u]) < Cap
  /\ StampRow(u, repo, id)
  /\ Notify(u, "model_install_requested", id)
  /\ UNCHANGED enabled

\* build_model_request_create_response up to the record it is about to insert.
CreateCheck(u, repo, id) ==
  /\ enabled
  /\ UserCanRequestInstall(u)
  /\ Cardinality(Creating) < Permits
  /\ repo \notin Malformed
  /\ IsRepoAllowed(CpAllowlist, repo)
  /\ CountOpenForTenant(TenantOf[u]) < Cap
  /\ row[id].status = "absent"
  /\ row' = [row EXCEPT ![id] =
               [status |-> "creating", owner |-> u, repo |-> repo, error |-> "none"]]
  /\ UNCHANGED <<feed, enabled>>

\* store.create, the notification and the limiter's release.
CreateInsert(id) ==
  /\ row[id].status = "creating"
  /\ row' = [row EXCEPT ![id].status = "requested"]
  /\ Notify(row[id].owner, "model_install_requested", id)
  /\ UNCHANGED enabled

\* The insert raises or the replica dies: nothing is stored.
CreateFail(id) ==
  /\ row[id].status = "creating"
  /\ row' = [row EXCEPT ![id] = NoRow]
  /\ UNCHANGED <<feed, enabled>>

\* build_reconciler_status_response: no check of the row's current status.  The
\* publish follows the committed update; a crash in between is a failed publish.
UpdateStatus(id, status, error) ==
  /\ status \in ReconcilerStatuses
  /\ id \in InTable
  /\ row' = [row EXCEPT ![id].status = status, ![id].error = error]
  /\ Notify(row[id].owner, "model_install_updated", id)
  /\ UNCHANGED enabled

SetEnabled ==
  /\ enabled' \in BOOLEAN
  /\ UNCHANGED <<row, feed>>

Create ==
  \/ \E u \in Users, repo \in Repos, id \in Ids : CreateCheck(u, repo, id)
  \/ \E id \in Ids : CreateInsert(id)
  \/ \E id \in Ids : CreateFail(id)

PostStatus ==
  \E id \in Ids, status \in ReconcilerStatuses, error \in ErrorClasses :
    UpdateStatus(id, status, error)

ReqNext == Create \/ PostStatus \/ SetEnabled

ReqSpec == ReqInit /\ [][ReqNext]_reqVars

----------------------------------------------------------------------------
\* Properties.

\* What the open-request cap really bounds.  The count and the insert are two
\* store calls, so a tenant may overshoot Cap, but its queue of requests not yet
\* picked up, inserts in flight included, never passes Cap by more than the
\* create handlers that can run at once, less one.
Backlog(t) == OfTenant(WithStatus({"requested", "creating"}), t)
BacklogBounded == \A t \in Tenants : Cardinality(Backlog(t)) <= Cap - 1 + Permits

\* An event in a user's feed is about a request of that user's that is stored:
\* the row is there before the owner hears of it, and no later write takes it
\* away or gives it to another.  Opened from the event, the owner's list names it
\* unless ListLimit newer rows have crowded it out.  After an update event the row
\* is one a reconciler has advanced, and stays so: no step puts it back in the queue.
FeedResolves ==
  \A e \in feed :
    /\ e[3] \in InTable /\ row[e[3]].owner = e[1]
    /\ e[3] \in ListFor(e[1]) \/ Cardinality(Newer(e[1], e[3])) >= ListLimit
    /\ e[2] = "model_install_updated" => row[e[3]].status \in ReconcilerStatuses

\* Every stored request came from a permitted user and names a well-formed repo
\* on the operator's allow-list, whatever the reconciler has done to it since.
StoredAreAdmissible ==
  \A id \in InTable :
    /\ UserCanRequestInstall(row[id].owner)
    /\ row[id].repo \notin Malformed
    /\ IsRepoAllowed(CpAllowlist, row[id].repo)
============================================================================
