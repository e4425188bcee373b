------------------------- MODULE ModelInstallProofs -------------------------
(***************************************************************************)
(* Theorems about model installs.  First what holds of the request table   *)
(* alone, for every set of users, repos and policies, every cap and every  *)
(* number of concurrent create handlers, and whatever an authenticated     *)
(* reconciler posts; then of the whole system, for any number of requests, *)
(* installers, repos, faults and late status posts.                        *)
(***************************************************************************)
EXTENDS ModelInstall, FiniteSetTheorems, TLAPS


----------------------------------------------------------------------------
\* Bounds on cardinalities.

\* One element more is at most one more to count.
LEMMA AddOne ==
  ASSUME NEW S, IsFiniteSet(S), NEW x
  PROVE  IsFiniteSet(S \cup {x}) /\ Cardinality(S \cup {x}) <= Cardinality(S) + 1
<1>1. Cardinality(S) \in Nat
  BY FS_CardinalityType
<1>2. /\ IsFiniteSet(S \cup {x})
      /\ Cardinality(S \cup {x}) = IF x \in S THEN Cardinality(S) ELSE Cardinality(S) + 1
  BY FS_AddElement
<1> QED
  BY <1>1, <1>2

\* A union is at most as large as its parts together.
LEMMA UnionBound ==
  ASSUME NEW S, IsFiniteSet(S), NEW T, IsFiniteSet(T)
  PROVE  IsFiniteSet(S \cup T) /\ Cardinality(S \cup T) <= Cardinality(S) + Cardinality(T)
<1>1. /\ IsFiniteSet(S \cup T)
      /\ Cardinality(S \cup T) = Cardinality(S) + Cardinality(T) - Cardinality(S \cap T)
  BY FS_Union
<1>2. IsFiniteSet(S \cap T)
  BY FS_Subset, S \cap T \in SUBSET S
<1>3. Cardinality(S) \in Nat /\ Cardinality(T) \in Nat /\ Cardinality(S \cap T) \in Nat
  BY <1>2, FS_CardinalityType
<1> QED
  BY <1>1, <1>3

\* A subset of a finite set is finite and no larger.
LEMMA SubsetBound ==
  ASSUME NEW S, IsFiniteSet(S), NEW T, T \subseteq S
  PROVE  /\ IsFiniteSet(T)
         /\ Cardinality(T) \in Nat /\ Cardinality(S) \in Nat
         /\ Cardinality(T) <= Cardinality(S)
<1>1. IsFiniteSet(T) /\ Cardinality(T) <= Cardinality(S)
  BY FS_Subset
<1> QED
  BY <1>1, FS_CardinalityType

----------------------------------------------------------------------------
\* Types.

\* The filler of an unused id is a well-typed record.
LEMMA NoRowType == NoRow \in ModelInstallRequest
<1>1. (CHOOSE u \in Users : TRUE) \in Users
  BY PolicyAssumption
<1>2. (CHOOSE r \in Repos : TRUE) \in Repos
  BY PolicyAssumption
<1> QED
  BY <1>1, <1>2, PolicyAssumption DEF NoRow, ModelInstallRequest

\* Handlers keep the table and the feed well typed.
LEMMA ReqTypeStep ==
  ASSUME ReqTypeOK, [ReqNext]_reqVars
  PROVE  ReqTypeOK'
<1> USE DEF ReqTypeOK, ModelInstallRequest, Statuses, ReconcilerStatuses, Events
<1>1. ASSUME NEW u \in Users, NEW repo \in Repos, NEW id \in Ids, CreateCheck(u, repo, id)
      PROVE  ReqTypeOK'
  BY <1>1, PolicyAssumption DEF CreateCheck
<1>2. ASSUME NEW id \in Ids, CreateInsert(id) PROVE ReqTypeOK'
  <2>1. row' \in [Ids -> ModelInstallRequest]
    BY <1>2 DEF CreateInsert
  <2>2. feed' \subseteq Users \X Events \X Ids
    BY <1>2 DEF CreateInsert, Notify
  <2> QED BY <1>2, <2>1, <2>2 DEF CreateInsert
<1>3. ASSUME NEW id \in Ids, CreateFail(id) PROVE ReqTypeOK'
  BY <1>3, NoRowType DEF CreateFail
<1>4. ASSUME NEW id \in Ids, NEW status \in ReconcilerStatuses, NEW error \in ErrorClasses,
             UpdateStatus(id, status, error)
      PROVE  ReqTypeOK'
  <2>1. row' \in [Ids -> ModelInstallRequest]
    BY <1>4 DEF UpdateStatus
  <2>2. feed' \subseteq Users \X Events \X Ids
    BY <1>4 DEF UpdateStatus, Notify
  <2> QED BY <1>4, <2>1, <2>2 DEF UpdateStatus
<1>5. CASE SetEnabled
  BY <1>5 DEF SetEnabled
<1>6. CASE UNCHANGED reqVars
  BY <1>6 DEF reqVars
<1> QED
  BY <1>1, <1>2, <1>3, <1>4, <1>5, <1>6 DEF ReqNext, Create, PostStatus

\* The table starts empty and well typed.
LEMMA ReqTypeInit == ReqInit => ReqTypeOK
BY NoRowType DEF ReqInit, ReqTypeOK

\* The table, the feed and the kill switch are always well typed.
THEOREM ReqTypeCorrect == ReqSpec => []ReqTypeOK
<1>1. ReqTypeOK /\ [ReqNext]_reqVars => ReqTypeOK'
  BY ReqTypeStep
<1> QED
  BY ReqTypeInit, <1>1, PTL DEF ReqSpec

----------------------------------------------------------------------------
\* The open-request cap.

\* Every set of request ids is finite.
LEMMA IdSetsFinite ==
  ASSUME NEW S, S \subseteq Ids
  PROVE  IsFiniteSet(S) /\ Cardinality(S) \in Nat
<1>1. 1 \in Int /\ MaxRequests \in Int
  BY BoundsAssumption
<1>2. IsFiniteSet(Ids)
  BY <1>1, FS_Interval DEF Ids
<1> QED
  BY <1>2, SubsetBound

\* A backlog that does not grow stays within any bound it met.
LEMMA BacklogShrinks ==
  ASSUME NEW t \in Tenants, Backlog(t)' \subseteq Backlog(t),
         Cardinality(Backlog(t)) <= Cap - 1 + Permits
  PROVE  Cardinality(Backlog(t)') <= Cap - 1 + Permits
<1>1. IsFiniteSet(Backlog(t))
  BY IdSetsFinite DEF Backlog, OfTenant, WithStatus
<1>2. /\ Cardinality(Backlog(t)') \in Nat /\ Cardinality(Backlog(t)) \in Nat
      /\ Cardinality(Backlog(t)') <= Cardinality(Backlog(t))
  BY <1>1, SubsetBound
<1> QED
  BY <1>2, BoundsAssumption

\* A create handler passes the check with fewer than Cap rows open and fewer
\* than Permits handlers running, so the backlog it adds to is small enough.
LEMMA CheckKeepsBacklog ==
  ASSUME ReqTypeOK, NEW u \in Users, NEW repo \in Repos, NEW id \in Ids,
         CreateCheck(u, repo, id), NEW t \in Tenants, t = TenantOf[u]
  PROVE  Cardinality(Backlog(t)') <= Cap - 1 + Permits
<1> DEFINE Open == OfTenant(WithStatus({"requested", "installing"}), t)
           Waiting == Open \cup Creating
<1>1. IsFiniteSet(Open) /\ IsFiniteSet(Creating)
  BY IdSetsFinite DEF OfTenant, WithStatus, Creating
<1>2. Cardinality(Open) < Cap /\ Cardinality(Creating) < Permits
  BY DEF CreateCheck, CountOpenForTenant
<1>3. Backlog(t)' \subseteq Waiting \cup {id}
  <2>1. ASSUME NEW x \in Ids, x # id PROVE row'[x] = row[x]
    BY <2>1 DEF CreateCheck, ReqTypeOK
  <2> QED
    BY <2>1 DEF Backlog, OfTenant, WithStatus, Creating
<1> HIDE DEF Open
<1>4. IsFiniteSet(Waiting) /\ Cardinality(Waiting) <= Cardinality(Open) + Cardinality(Creating)
  BY <1>1, UnionBound
<1> HIDE DEF Waiting
<1>5. IsFiniteSet(Waiting \cup {id}) /\ Cardinality(Waiting \cup {id}) <= Cardinality(Waiting) + 1
  BY <1>4, AddOne
<1>6. /\ Cardinality(Backlog(t)') <= Cardinality(Waiting \cup {id})
      /\ Cardinality(Backlog(t)') \in Nat /\ Cardinality(Waiting \cup {id}) \in Nat
  BY <1>3, <1>5, SubsetBound
<1>7. Cardinality(Open) \in Nat /\ Cardinality(Creating) \in Nat /\ Cardinality(Waiting) \in Nat
  BY <1>1, <1>4, FS_CardinalityType
<1> QED
  BY <1>2, <1>4, <1>5, <1>6, <1>7, BoundsAssumption

\* No handler takes a tenant's backlog past the bound.
LEMMA BacklogStep ==
  ASSUME ReqTypeOK, BacklogBounded, [ReqNext]_reqVars
  PROVE  BacklogBounded'
<1> SUFFICES ASSUME NEW t \in Tenants PROVE Cardinality(Backlog(t)') <= Cap - 1 + Permits
  BY DEF BacklogBounded, Tenants
<1>0. Cardinality(Backlog(t)) <= Cap - 1 + Permits
  BY DEF BacklogBounded
<1> USE DEF Backlog, OfTenant, WithStatus, ReqTypeOK
<1>1. ASSUME NEW u \in Users, NEW repo \in Repos, NEW id \in Ids, CreateCheck(u, repo, id)
      PROVE  Cardinality(Backlog(t)') <= Cap - 1 + Permits
  <2>1. CASE t = TenantOf[u]
    BY <1>1, <2>1, CheckKeepsBacklog
  <2>2. CASE t # TenantOf[u]
    <3>1. Backlog(t)' \subseteq Backlog(t)
      BY <1>1, <2>2 DEF CreateCheck
    <3> QED BY <3>1, <1>0, BacklogShrinks
  <2> QED BY <2>1, <2>2
<1>2. ASSUME NEW id \in Ids, CreateInsert(id)
      PROVE  Cardinality(Backlog(t)') <= Cap - 1 + Permits
  <2>1. Backlog(t)' \subseteq Backlog(t)
    BY <1>2 DEF CreateInsert, ModelInstallRequest
  <2> QED BY <2>1, <1>0, BacklogShrinks
<1>3. ASSUME NEW id \in Ids, CreateFail(id)
      PROVE  Cardinality(Backlog(t)') <= Cap - 1 + Permits
  <2>1. Backlog(t)' \subseteq Backlog(t)
    BY <1>3 DEF CreateFail, NoRow
  <2> QED BY <2>1, <1>0, BacklogShrinks
<1>4. ASSUME NEW id \in Ids, NEW status \in ReconcilerStatuses, NEW error \in ErrorClasses,
             UpdateStatus(id, status, error)
      PROVE  Cardinality(Backlog(t)') <= Cap - 1 + Permits
  <2>1. Backlog(t)' \subseteq Backlog(t)
    BY <1>4 DEF UpdateStatus, ReconcilerStatuses, ModelInstallRequest
  <2> QED BY <2>1, <1>0, BacklogShrinks
<1>5. CASE UNCHANGED row
  <2>1. Backlog(t)' \subseteq Backlog(t)
    BY <1>5
  <2> QED BY <2>1, <1>0, BacklogShrinks
<1> QED
  BY <1>1, <1>2, <1>3, <1>4, <1>5 DEF ReqNext, Create, PostStatus, SetEnabled, reqVars

\* However create handlers interleave, and whatever the reconciler posts, a
\* tenant's backlog stays below Cap + Permits.
THEOREM BacklogCapped == ReqSpec => []BacklogBounded
<1>1. ReqInit => BacklogBounded
  <2> SUFFICES ASSUME ReqInit, NEW t \in Tenants
               PROVE  Cardinality(Backlog(t)) <= Cap - 1 + Permits
    BY DEF BacklogBounded
  <2>1. Backlog(t) = {}
    BY DEF ReqInit, NoRow, Backlog, OfTenant, WithStatus
  <2> QED
    BY <2>1, FS_EmptySet, BoundsAssumption
<1>2. ReqTypeOK /\ BacklogBounded /\ [ReqNext]_reqVars => BacklogBounded'
  BY BacklogStep
<1> QED
  BY <1>1, <1>2, ReqTypeCorrect, PTL DEF ReqSpec

----------------------------------------------------------------------------
\* What the stored rows and the feed promise.

\* The stored rows were admitted by the create handler's checks, and so were
\* the ones about to be stored.
Admissible(id) ==
  /\ UserCanRequestInstall(row[id].owner)
  /\ row[id].repo \notin Malformed
  /\ IsRepoAllowed(CpAllowlist, row[id].repo)
AdmittedInv == \A id \in Ids : row[id].status # "absent" => Admissible(id)

\* A step keeps owner and repo of every id in use, and takes no row out of the
\* table or back to "requested".
LEMMA RowStep ==
  ASSUME ReqTypeOK, [ReqNext]_reqVars, NEW id \in Ids, id \in InTable
  PROVE  /\ id \in InTable'
         /\ row'[id].owner = row[id].owner /\ row'[id].repo = row[id].repo
         /\ row[id].status \in ReconcilerStatuses => row'[id].status \in ReconcilerStatuses
<1> USE DEF ReqTypeOK, ModelInstallRequest, InTable, WithStatus, Statuses, ReconcilerStatuses
<1>1. ASSUME NEW u \in Users, NEW repo \in Repos, NEW x \in Ids, CreateCheck(u, repo, x)
      PROVE  row'[id] = row[id]
  BY <1>1 DEF CreateCheck
<1>2. ASSUME NEW x \in Ids, CreateInsert(x) \/ CreateFail(x) PROVE row'[id] = row[id]
  BY <1>2 DEF CreateInsert, CreateFail
<1>3. ASSUME NEW x \in Ids, NEW status \in ReconcilerStatuses, NEW error \in ErrorClasses,
             UpdateStatus(x, status, error)
      PROVE  /\ id \in InTable'
             /\ row'[id].owner = row[id].owner /\ row'[id].repo = row[id].repo
             /\ row[id].status \in ReconcilerStatuses => row'[id].status \in ReconcilerStatuses
  BY <1>3 DEF UpdateStatus
<1>4. CASE UNCHANGED row
  BY <1>4
<1> QED
  BY <1>1, <1>2, <1>3, <1>4 DEF ReqNext, Create, PostStatus, SetEnabled, reqVars

\* A handler never brings in a row the checks would have refused.
LEMMA AdmittedStep ==
  ASSUME ReqTypeOK, AdmittedInv, [ReqNext]_reqVars
  PROVE  AdmittedInv'
<1> SUFFICES ASSUME NEW id \in Ids, row'[id].status # "absent" PROVE Admissible(id)'
  BY DEF AdmittedInv
<1> USE DEF ReqTypeOK, ModelInstallRequest
<1>1. ASSUME row[id].status # "absent", row'[id].owner = row[id].owner, row'[id].repo = row[id].repo
      PROVE  Admissible(id)'
  BY <1>1 DEF AdmittedInv, Admissible
<1>2. ASSUME NEW u \in Users, NEW repo \in Repos, NEW x \in Ids, CreateCheck(u, repo, x)
      PROVE  Admissible(id)'
  <2>1. CASE x = id
    BY <1>2, <2>1 DEF CreateCheck, Admissible
  <2>2. CASE x # id
    BY <1>1, <1>2, <2>2 DEF CreateCheck
  <2> QED BY <2>1, <2>2
<1>3. ASSUME NEW x \in Ids, CreateInsert(x) PROVE Admissible(id)'
  BY <1>1, <1>3 DEF CreateInsert
<1>4. ASSUME NEW x \in Ids, CreateFail(x) PROVE Admissible(id)'
  BY <1>1, <1>4 DEF CreateFail, NoRow
<1>5. ASSUME NEW x \in Ids, NEW status \in ReconcilerStatuses, NEW error \in ErrorClasses,
             UpdateStatus(x, status, error)
      PROVE  Admissible(id)'
  BY <1>1, <1>5 DEF UpdateStatus, InTable, WithStatus, Statuses, ReconcilerStatuses
<1>6. CASE UNCHANGED row
  BY <1>1, <1>6
<1> QED
  BY <1>2, <1>3, <1>4, <1>5, <1>6 DEF ReqNext, Create, PostStatus, SetEnabled, reqVars

\* Every stored request was admitted by the permission check and the allow-list,
\* whatever has been posted about it since.
THEOREM StoredAdmissible == ReqSpec => []StoredAreAdmissible
<1>1. ReqInit => AdmittedInv
  <2>1. NoRow.status = "absent"
    BY DEF NoRow
  <2> QED BY <2>1 DEF ReqInit, AdmittedInv
<1>2. ReqTypeOK /\ AdmittedInv /\ [ReqNext]_reqVars => AdmittedInv'
  BY AdmittedStep
<1>3. AdmittedInv => StoredAreAdmissible
  BY DEF AdmittedInv, Admissible, StoredAreAdmissible, InTable, WithStatus, Statuses,
         ReconcilerStatuses
<1> QED
  BY <1>1, <1>2, <1>3, ReqTypeCorrect, PTL DEF ReqSpec

\* An event published in a step is about a row of its recipient, stored in that
\* step or before, and an update is about a row the reconciler advanced.
LEMMA EventStep ==
  ASSUME ReqTypeOK, [ReqNext]_reqVars, NEW e \in feed', e \notin feed
  PROVE  /\ e[3] \in InTable' /\ row'[e[3]].owner = e[1]
         /\ e[2] = "model_install_updated" => row'[e[3]].status \in ReconcilerStatuses
<1> USE DEF ReqTypeOK, ModelInstallRequest, InTable, WithStatus, Statuses, ReconcilerStatuses
<1>1. ASSUME NEW x \in Ids, CreateInsert(x)
      PROVE  /\ e[3] \in InTable' /\ row'[e[3]].owner = e[1]
             /\ e[2] # "model_install_updated"
  <2>1. e = <<row[x].owner, "model_install_requested", x>>
    BY <1>1 DEF CreateInsert, Notify
  <2> QED BY <1>1, <2>1 DEF CreateInsert
<1>2. ASSUME NEW x \in Ids, NEW status \in ReconcilerStatuses, NEW error \in ErrorClasses,
             UpdateStatus(x, status, error)
      PROVE  /\ e[3] \in InTable' /\ row'[e[3]].owner = e[1]
             /\ row'[e[3]].status \in ReconcilerStatuses
  <2>1. e = <<row[x].owner, "model_install_updated", x>>
    BY <1>2 DEF UpdateStatus, Notify
  <2> QED BY <1>2, <2>1 DEF UpdateStatus
<1>3. ASSUME UNCHANGED feed PROVE FALSE
  BY <1>3
<1> QED
  BY <1>1, <1>2, <1>3
  DEF ReqNext, Create, CreateCheck, CreateFail, PostStatus, SetEnabled, reqVars

FeedInv ==
  \A e \in feed : /\ e[3] \in InTable /\ row[e[3]].owner = e[1]
                  /\ e[2] = "model_install_updated" => row[e[3]].status \in ReconcilerStatuses

\* A row of a user's own is listed, or ListLimit newer ones are.
LEMMA ListedOrCrowded ==
  ASSUME NEW u, NEW id \in InTable, row[id].owner = u
  PROVE  id \in ListFor(u) \/ Cardinality(Newer(u, id)) >= ListLimit
<1>1. Cardinality(Newer(u, id)) \in Nat
  BY IdSetsFinite DEF Newer, Visible, InTable, WithStatus
<1>2. id \in Visible(u)
  BY DEF Visible
<1> QED
  BY <1>1, <1>2, BoundsAssumption DEF ListFor

\* An event in a user's feed is about a stored request of that user's, which the
\* list names unless newer rows fill it, and an update event is about one that has
\* left the queue of pending requests for good.
THEOREM FeedSound == ReqSpec => []FeedResolves
<1>1. ReqInit => FeedInv
  BY DEF ReqInit, FeedInv
<1>2. ReqTypeOK /\ FeedInv /\ [ReqNext]_reqVars => FeedInv'
  <2> SUFFICES ASSUME ReqTypeOK, FeedInv, [ReqNext]_reqVars, NEW e \in feed'
               PROVE  /\ e[3] \in InTable' /\ row'[e[3]].owner = e[1]
                      /\ e[2] = "model_install_updated" => row'[e[3]].status \in ReconcilerStatuses
    BY DEF FeedInv
  <2>1. CASE e \in feed
    <3>1. e[3] \in Ids /\ e[3] \in InTable /\ row[e[3]].owner = e[1]
      BY <2>1 DEF FeedInv, InTable, WithStatus
    <3> QED BY <2>1, <3>1, RowStep DEF FeedInv
  <2>2. CASE e \notin feed
    BY <2>2, EventStep
  <2> QED BY <2>1, <2>2
<1>3. FeedInv => FeedResolves
  BY ListedOrCrowded DEF FeedInv, FeedResolves
<1> QED
  BY <1>1, <1>2, <1>3, ReqTypeCorrect, PTL DEF ReqSpec


----------------------------------------------------------------------------
\* Types.

\* run_once starts from a well-typed state.
LEMMA IdleType == Idle \in Installer /\ Idle.pc = "idle"
<1>1. 1 \in Ids
  BY BoundsAssumption DEF Ids
<1> QED
  BY <1>1, PolicyAssumption DEF Idle, Installer, PCs, NoPrevious, ReconcilerStatuses

\* Every reason for which run_once denies a request is an error class.
LEMMA DenyReasonType ==
  ASSUME NEW repo PROVE DenyReason(repo) \in ErrorClasses
BY PolicyAssumption, InstallAssumption DEF DenyReason

\* The create handlers and the operator are steps of the request table.
LEMMA ControlPlaneStep ==
  ASSUME ControlPlane PROVE [ReqNext]_reqVars
BY DEF ControlPlane, ReqNext

\* A status post is a step of the request table.
LEMMA PostIsStep ==
  ASSUME NEW id \in Ids, NEW status \in ReconcilerStatuses, NEW error \in ErrorClasses,
         UpdateStatus(id, status, error)
  PROVE  ReqNext
BY DEF ReqNext, PostStatus

\* Every step of the whole system is a step of the request table or leaves it.
LEMMA StepRefines ==
  ASSUME TypeOK, [Next]_vars
  PROVE  [ReqNext]_reqVars
<1> USE DEF reqVars
<1>1. CASE ControlPlane
  BY <1>1, ControlPlaneStep
<1>2. CASE DeliverLate
  <2>1. PICK post \in late : UpdateStatus(post[1], post[2], post[3])
    BY <1>2 DEF DeliverLate
  <2>2. post[1] \in Ids /\ post[2] \in ReconcilerStatuses /\ post[3] \in ErrorClasses
    BY DEF TypeOK
  <2> QED BY <2>1, <2>2, PostIsStep
<1>3. CASE Release
  BY <1>3 DEF Release, PodStart, PodReady, PodCrashLoop, PodCrash
<1>4. ASSUME NEW i \in Installers, RunOnce(i) PROVE [ReqNext]_reqVars
  <2>1. inst[i].id \in Ids /\ inst[i].status \in ReconcilerStatuses /\ inst[i].error \in ErrorClasses
    BY DEF TypeOK, Installer
  <2>2. CASE PostAnswered(i)
    BY <2>1, <2>2, PostIsStep DEF PostAnswered
  <2>3. CASE PostRaises(i)
    BY <2>1, <2>3, PostIsStep DEF PostRaises
  <2>4. CASE UNCHANGED reqVars
    BY <2>4
  <2> QED
    BY <1>4, <2>2, <2>3, <2>4
    DEF RunOnce, PickPending, ScaleNodegroup, GetModel, PatchConfigMap, PatchDeployment,
        WaitReady, RollbackConfigMap, RollbackDeployment
<1>5. ASSUME NEW i \in Installers, Restart(i) PROVE [ReqNext]_reqVars
  BY <1>5 DEF Restart
<1>6. CASE UNCHANGED vars
  BY <1>6 DEF vars
<1> QED
  BY <1>1, <1>2, <1>3, <1>4, <1>5, <1>6 DEF Next

\* A rollback is only started towards a model that was read.
RollbackKnown ==
  \A i \in Installers : inst[i].pc = "rollback_configmap" => inst[i].prev \in Repos
TypeInv == TypeOK /\ RollbackKnown

\* A step of one installer leaves the others as they are.
OnlyInst(i) == inst' = [inst EXCEPT ![i] = inst'[i]]

LocalOK(i) ==
  /\ OnlyInst(i)
  /\ inst'[i] \in Installer
  /\ inst'[i].pc = "rollback_configmap" => inst'[i].prev \in Repos

\* Moving on to the next call keeps the other local variables.
LEMMA GotoLocal ==
  ASSUME TypeOK, NEW i \in Installers, NEW pc \in PCs, pc # "rollback_configmap", Goto(i, pc)
  PROVE  LocalOK(i)
BY DEF TypeOK, Goto, Installer, LocalOK, OnlyInst

\* Turning to the final report keeps the request and the previous model.
LEMMA ReportLocal ==
  ASSUME TypeOK, NEW i \in Installers, NEW status \in ReconcilerStatuses,
         NEW error \in ErrorClasses, Report(i, status, error)
  PROVE  LocalOK(i)
<1>1. "report" \in PCs /\ "report" # "rollback_configmap"
  BY DEF PCs, Working
<1> QED
  BY <1>1 DEF TypeOK, Report, Installer, LocalOK, OnlyInst

\* Each step of run_once leaves its installer's local variables well typed.
LEMMA RunOnceLocal ==
  ASSUME TypeInv, NEW i \in Installers, RunOnce(i) \/ Restart(i)
  PROVE  LocalOK(i)
<1> USE DEF TypeInv, TypeOK, OnlyInst, LocalOK
<1>0. inst[i] \in Installer /\ Repo(i) \in Repos
  BY DEF Repo, Installer, ReqTypeOK, ModelInstallRequest
<1>1. CASE PickPending(i)
  <2>1. PICK id \in Ids :
          LET reason == DenyReason(row[id].repo)
          IN inst' = [inst EXCEPT ![i] =
               [pc     |-> IF reason = "none" THEN "start" ELSE "deny",
                id     |-> id,
                prev   |-> NoPrevious,
                status |-> IF reason = "none" THEN "installing" ELSE "failed",
                error  |-> reason]]
    BY <1>1 DEF PickPending
  <2>2. DenyReason(row[id].repo) \in ErrorClasses
    BY DenyReasonType
  <2> QED
    BY <2>1, <2>2 DEF Installer, PCs, NoPrevious, ReconcilerStatuses
<1>2. CASE PostAnswered(i)
  <2>1. CASE inst[i].pc = "start"
    BY <1>0, <1>2, <2>1 DEF PostAnswered, Installer, PCs, Working
  <2>2. CASE inst[i].pc # "start"
    BY <1>2, <2>2, IdleType DEF PostAnswered
  <2> QED BY <2>1, <2>2
<1>3. CASE PostRaises(i)
  BY <1>3, IdleType DEF PostRaises
<1>4. ASSUME \/ \E pc \in PCs \ {"rollback_configmap"} : Goto(i, pc)
             \/ \E status \in ReconcilerStatuses, error \in ErrorClasses : Report(i, status, error)
      PROVE  LocalOK(i)
  BY <1>4, GotoLocal, ReportLocal DEF TypeInv
<1>a. /\ {"get_model", "patch_deployment", "wait_ready", "rollback_deployment", "report"}
           \subseteq PCs \ {"rollback_configmap"}
      /\ "failed" \in ReconcilerStatuses /\ "applied" \in ReconcilerStatuses
  BY DEF PCs, Working, ReconcilerStatuses
<1>b. /\ "gpu_provision_failed" \in ErrorClasses /\ "vllm_apply_failed" \in ErrorClasses
      /\ "none" \in ErrorClasses
  BY InstallAssumption, PolicyAssumption
<1>5. CASE GetModel(i)
  <2>1. PICK previous \in Repos \cup {NoPrevious} :
          inst' = [inst EXCEPT ![i].pc = "patch_configmap", ![i].prev = previous]
    BY <1>5 DEF GetModel
  <2> QED
    BY <1>0, <2>1 DEF Installer, PCs, Working, NoPrevious
<1>6. CASE ScaleNodegroup(i)
  BY <1>4, <1>6, <1>a, <1>b DEF ScaleNodegroup
<1>7. CASE PatchConfigMap(i) \/ PatchDeployment(i)
  BY <1>4, <1>7, <1>a, <1>b DEF PatchConfigMap, PatchDeployment
<1>8. CASE WaitReady(i)
  <2>1. CASE Report(i, "applied", "none")
    BY <1>4, <2>1, <1>a, <1>b
  <2>2. ASSUME NEW error \in {"load_timeout", "install_failed"}, StartRollback(i, error)
        PROVE  LocalOK(i)
    BY <1>0, <2>2, InstallAssumption
    DEF StartRollback, Installer, PCs, Working, ReconcilerStatuses, NoPrevious
  <2> QED BY <1>8, <2>1, <2>2 DEF WaitReady
<1>9. CASE RollbackConfigMap(i)
  BY <1>4, <1>9, <1>a DEF RollbackConfigMap
<1>10. CASE RollbackDeployment(i)
  BY <1>4, <1>10, <1>a DEF RollbackDeployment
<1>11. CASE Restart(i)
  BY <1>11, IdleType DEF Restart, Installer, PCs
<1> QED
  BY <1>1, <1>2, <1>3, <1>4, <1>5, <1>6, <1>7, <1>8, <1>9, <1>10, <1>11 DEF RunOnce

\* Steps of anyone else leave the installers alone.
LEMMA OthersKeepInst ==
  ASSUME [ControlPlane \/ DeliverLate \/ Release]_vars
  PROVE  UNCHANGED inst
BY DEF ControlPlane, DeliverLate, Release, PodStart, PodReady, PodCrashLoop, PodCrash,
       instVars, vars

\* A step draws on the fault budget at most once.
LEMMA FaultsStep ==
  ASSUME [Next]_vars
  PROVE  Fault \/ NoFault
BY DEF Next, vars, ControlPlane, DeliverLate, Release, PodStart, PodReady, PodCrashLoop,
    PodCrash, RunOnce, Restart, PickPending, PostAnswered, PostRaises, ScaleNodegroup, GetModel,
    PatchConfigMap, PatchDeployment, WaitReady, RollbackConfigMap, RollbackDeployment,
    instVars, Fault, NoFault

\* Late posts carry what run_once posted.
LEMMA LateStep ==
  ASSUME TypeOK, [Next]_vars
  PROVE  late' \subseteq Ids \X ReconcilerStatuses \X ErrorClasses
<1>1. ASSUME NEW i \in Installers, PostRaises(i)
      PROVE  late' \subseteq Ids \X ReconcilerStatuses \X ErrorClasses
  <2>1. inst[i].id \in Ids /\ inst[i].status \in ReconcilerStatuses /\ inst[i].error \in ErrorClasses
    BY DEF TypeOK, Installer
  <2> QED BY <1>1, <2>1 DEF PostRaises, TypeOK
<1>2. CASE DeliverLate
  BY <1>2 DEF DeliverLate, TypeOK
<1>3. CASE UNCHANGED late
  BY <1>3 DEF TypeOK
<1> QED
  BY <1>1, <1>2, <1>3
  DEF Next, vars, ControlPlane, Release, PodStart, PodReady, PodCrashLoop,
      PodCrash, RunOnce, Restart, PickPending, PostAnswered, ScaleNodegroup, GetModel,
      PatchConfigMap, PatchDeployment, WaitReady, RollbackConfigMap, RollbackDeployment, instVars

\* What a step can do to the release: point it at the repo of an installer's
\* request, point it back at the model an installer read, or move a pod on.
ReleaseMove ==
  /\ \/ configMap' = configMap
     \/ \E i \in Installers : inst[i].pc = "patch_configmap" /\ configMap' = Repo(i)
     \/ \E i \in Installers : inst[i].pc = "rollback_configmap" /\ configMap' = inst[i].prev
  /\ serving' \in {serving, "none"} \/ (booting \in Loadable /\ serving' = booting)
  /\ booting' \in {booting, "none", "created"} \/ booting' = configMap

\* Every step moves the release that way.
LEMMA ReleaseStep ==
  ASSUME [Next]_vars PROVE ReleaseMove
<1>1. ASSUME NEW i \in Installers, PatchConfigMap(i) PROVE ReleaseMove
  BY <1>1 DEF PatchConfigMap, ReleaseMove
<1>2. ASSUME NEW i \in Installers, RollbackConfigMap(i) PROVE ReleaseMove
  BY <1>2 DEF RollbackConfigMap, ReleaseMove
<1>3. ASSUME NEW i \in Installers, PatchDeployment(i) \/ RollbackDeployment(i) PROVE ReleaseMove
  BY <1>3 DEF PatchDeployment, RollbackDeployment, Rollout, ReleaseMove
<1>4. CASE Release
  BY <1>4 DEF Release, PodStart, PodReady, PodCrashLoop, PodCrash, ReleaseMove
<1>5. CASE UNCHANGED vllmVars
  BY <1>5 DEF vllmVars, ReleaseMove
<1> QED
  BY <1>1, <1>2, <1>3, <1>4, <1>5
  DEF Next, vars, ControlPlane, DeliverLate, RunOnce, Restart, PickPending, PostAnswered,
      PostRaises, ScaleNodegroup, GetModel, WaitReady

\* Every step keeps the whole state well typed.
LEMMA TypeStep ==
  ASSUME TypeInv, [Next]_vars
  PROVE  TypeInv'
<1>1. ReqTypeOK'
  BY StepRefines, ReqTypeStep DEF TypeInv, TypeOK
<1>2. inst' \in [Installers -> Installer] /\ RollbackKnown'
  <2>1. CASE \E i \in Installers : RunOnce(i) \/ Restart(i)
    <3>1. PICK i \in Installers : LocalOK(i)
      BY <2>1, RunOnceLocal
    <3> QED BY <3>1 DEF LocalOK, OnlyInst, RollbackKnown, TypeInv, TypeOK
  <2>2. CASE UNCHANGED inst
    BY <2>2 DEF TypeInv, TypeOK, RollbackKnown
  <2> QED
    BY <2>1, <2>2, OthersKeepInst DEF Next
<1>3. faults' \in 0..FaultBudget
  BY FaultsStep, BudgetAssumption DEF TypeInv, TypeOK, Fault, NoFault
<1>4. late' \subseteq Ids \X ReconcilerStatuses \X ErrorClasses
  BY LateStep DEF TypeInv
<1>5. ASSUME NEW i \in Installers PROVE Repo(i) \in Repos
  BY DEF Repo, Installer, TypeInv, TypeOK, ReqTypeOK, ModelInstallRequest
<1>6. configMap' \in Repos
  BY <1>5, ReleaseStep DEF ReleaseMove, TypeInv, TypeOK, RollbackKnown
<1>7. serving' \in Repos \cup {"none"} /\ booting' \in Repos \cup {"none", "created"}
  BY ReleaseStep, InstallAssumption DEF ReleaseMove, TypeInv, TypeOK
<1> QED
  BY <1>1, <1>2, <1>3, <1>4, <1>6, <1>7 DEF TypeInv, TypeOK

\* The system starts well typed.
LEMMA TypeInit == Init => TypeInv
<1>1. ASSUME Init PROVE TypeInv
  <2>1. ReqTypeOK
    BY <1>1, ReqTypeInit DEF Init
  <2>2. inst \in [Installers -> Installer] /\ RollbackKnown
    BY <1>1, IdleType DEF Init, RollbackKnown
  <2>3. faults \in 0..FaultBudget
    BY <1>1, BudgetAssumption DEF Init
  <2> QED
    BY <1>1, <2>1, <2>2, <2>3, InstallAssumption DEF Init, TypeInv, TypeOK
<1> QED BY <1>1

\* The state of the whole install pipeline is always well typed.
THEOREM TypeCorrect == Spec => []TypeOK
<1>1. TypeInv /\ [Next]_vars => TypeInv'
  BY TypeStep
<1>2. TypeInv => TypeOK
  BY DEF TypeInv
<1> QED
  BY TypeInit, <1>1, <1>2, PTL DEF Spec

----------------------------------------------------------------------------
\* Refinement: with its real reconcilers the system is the request table of
\* ModelRequests, so what holds there under any reconciler holds here.

\* Installers, late posts and crashes only do to the table what an arbitrary
\* reconciler may do.
THEOREM RefinesRequests == Spec => ReqSpec
<1>1. Init => ReqInit
  BY DEF Init
<1>2. TypeInv /\ [Next]_vars => TypeInv'
  BY TypeStep
<1>3. TypeInv /\ [Next]_vars => [ReqNext]_reqVars
  BY StepRefines DEF TypeInv
<1> QED
  BY TypeInit, <1>1, <1>2, <1>3, PTL DEF Spec, ReqSpec

\* So the installers keep a tenant's backlog below Cap + Permits and the feed sound.
THEOREM InstallKeepsRequests ==
  Spec => [](BacklogBounded /\ FeedResolves /\ StoredAreAdmissible)
BY RefinesRequests, BacklogCapped, FeedSound, StoredAdmissible, PTL

----------------------------------------------------------------------------
\* Only vetted models reach the release.

\* What makes it inductive: an installer past the allow-list checks holds the
\* row it checked, a row's repo never changes, and what a rollback restores was
\* read from the ConfigMap.
InstallersVetted ==
  \A i \in Installers :
    /\ inst[i].pc \in Working \cup {"start"} => inst[i].id \in InTable /\ Vetted(Repo(i))
    /\ inst[i].prev # NoPrevious => Vetted(inst[i].prev)
VettedInv == InstallersVetted /\ ReleaseVetted

\* The checks of run_once and of the create handler together vet a model.
LEMMA PickVets ==
  ASSUME NEW repo, DenyReason(repo) = "none", IsRepoAllowed(CpAllowlist, repo)
  PROVE  Vetted(repo)
BY DEF DenyReason, Vetted

\* The model of an installer that keeps its request stays vetted.
LEMMA HeldStaysVetted ==
  ASSUME TypeInv, InstallersVetted, [Next]_vars, NEW i \in Installers,
         inst[i].pc \in Working \cup {"start"}, inst'[i].id = inst[i].id
  PROVE  inst'[i].id \in InTable' /\ Vetted(Repo(i)')
<1>1. inst[i].id \in Ids /\ inst[i].id \in InTable /\ Vetted(Repo(i))
  BY DEF InstallersVetted, TypeInv, TypeOK, Installer
<1>2. /\ inst[i].id \in InTable'
      /\ row'[inst[i].id].repo = row[inst[i].id].repo
  BY <1>1, StepRefines, RowStep DEF TypeInv, TypeOK
<1> QED
  BY <1>1, <1>2 DEF Repo

\* Which requests and previous models a step of run_once may leave an installer
\* with: a row just picked, the one it held, or none.
LocalMove(i) ==
  \/ /\ inst'[i].prev = NoPrevious
     /\ inst'[i].pc \in Working \cup {"start"} =>
          /\ inst'[i].id \in WithStatus({"requested"})
          /\ DenyReason(row[inst'[i].id].repo) = "none"
  \/ /\ inst[i].pc \in Working \cup {"start"}
     /\ inst'[i].id = inst[i].id
     /\ inst'[i].prev \in {inst[i].prev, configMap, NoPrevious}

\* Every step of run_once moves that way.
LEMMA RunOnceMove ==
  ASSUME TypeInv, NEW i \in Installers, RunOnce(i) \/ Restart(i)
  PROVE  LocalMove(i)
<1>0. inst \in [Installers -> Installer] /\ inst[i] \in Installer
  BY DEF TypeInv, TypeOK
<1>1. CASE PickPending(i)
  <2>1. PICK id \in Ids :
          /\ IsOldest(id, Pending)
          /\ inst'[i] = [pc     |-> IF DenyReason(row[id].repo) = "none" THEN "start" ELSE "deny",
                         id     |-> id,
                         prev   |-> NoPrevious,
                         status |-> IF DenyReason(row[id].repo) = "none" THEN "installing" ELSE "failed",
                         error  |-> DenyReason(row[id].repo)]
    BY <1>0, <1>1 DEF PickPending
  <2>2. id \in WithStatus({"requested"})
    BY <2>1 DEF IsOldest, Pending
  <2>3. inst'[i].prev = NoPrevious /\ inst'[i].id = id
    BY <2>1
  <2>4. DenyReason(row[id].repo) # "none" => inst'[i].pc = "deny"
    BY <2>1
  <2>5. "deny" \notin Working \cup {"start"}
    BY DEF Working
  <2> QED
    BY <2>2, <2>3, <2>4, <2>5, Zenon DEF LocalMove
<1>2. ASSUME inst'[i] = Idle \/ inst'[i] = [Idle EXCEPT !.pc = "off"]
      PROVE  LocalMove(i)
  <2>1. inst'[i].prev = NoPrevious /\ inst'[i].pc \in {"idle", "off"}
    BY <1>2 DEF Idle
  <2>2. inst'[i].pc \notin Working \cup {"start"}
    BY <2>1 DEF Working
  <2> QED
    BY <2>1, <2>2, Zenon DEF LocalMove
<1>3. CASE PostAnswered(i)
  <2>1. CASE inst[i].pc = "start"
    BY <1>0, <1>3, <2>1 DEF PostAnswered, LocalMove, Installer
  <2>2. CASE inst[i].pc # "start"
    <3>1. inst'[i] = Idle
      BY <1>0, <1>3, <2>2 DEF PostAnswered
    <3> QED BY <3>1, <1>2
  <2> QED BY <2>1, <2>2
<1>4. CASE PostRaises(i)
  <2>1. inst'[i] = Idle
    BY <1>0, <1>4 DEF PostRaises
  <2> QED BY <2>1, <1>2
<1>5. CASE Restart(i)
  BY <1>0, <1>2, <1>5 DEF Restart, Idle
<1>6. ASSUME inst[i].pc \in Working,
             \/ \E pc \in PCs : Goto(i, pc)
             \/ \E status \in ReconcilerStatuses, error \in ErrorClasses :
                  Report(i, status, error) \/ StartRollback(i, error)
      PROVE  LocalMove(i)
  <2>1. inst'[i].id = inst[i].id /\ inst'[i].prev = inst[i].prev
    <3>1. ASSUME NEW pc \in PCs, Goto(i, pc)
          PROVE  inst'[i].id = inst[i].id /\ inst'[i].prev = inst[i].prev
      BY <1>0, <3>1 DEF Goto, Installer
    <3>2. ASSUME NEW status \in ReconcilerStatuses, NEW error \in ErrorClasses, Report(i, status, error)
          PROVE  inst'[i].id = inst[i].id /\ inst'[i].prev = inst[i].prev
      BY <1>0, <3>2 DEF Report, Installer
    <3>3. ASSUME NEW error \in ErrorClasses, StartRollback(i, error)
          PROVE  inst'[i].id = inst[i].id /\ inst'[i].prev = inst[i].prev
      BY <1>0, <3>3 DEF StartRollback, Installer
    <3> QED BY <1>6, <3>1, <3>2, <3>3
  <2> QED BY <1>6, <2>1, Zenon DEF LocalMove
<1>a. /\ {"get_model", "patch_deployment", "wait_ready", "rollback_deployment", "report"} \subseteq PCs
      /\ {"scale", "patch_configmap", "patch_deployment", "wait_ready", "rollback_configmap",
          "rollback_deployment"} \subseteq Working
      /\ "failed" \in ReconcilerStatuses /\ "applied" \in ReconcilerStatuses
  BY DEF PCs, Working, ReconcilerStatuses
<1>b. {"none", "gpu_provision_failed", "vllm_apply_failed", "load_timeout", "install_failed"}
        \subseteq ErrorClasses
  BY InstallAssumption, PolicyAssumption
<1>7. CASE ScaleNodegroup(i)
  <2>1. Goto(i, "get_model") \/ Report(i, "failed", "gpu_provision_failed")
    BY <1>7 DEF ScaleNodegroup
  <2>2. inst[i].pc \in Working
    BY <1>7, <1>a DEF ScaleNodegroup
  <2> QED BY <2>1, <2>2, <1>6, <1>a, <1>b
<1>8. CASE GetModel(i)
  <2>1. PICK previous \in {configMap, NoPrevious} :
          inst' = [inst EXCEPT ![i].pc = "patch_configmap", ![i].prev = previous]
    BY <1>8 DEF GetModel
  <2>2. inst[i].pc \in Working
    BY <1>8 DEF GetModel, Working
  <2> QED BY <1>0, <2>1, <2>2 DEF LocalMove, Installer
<1>9. CASE PatchConfigMap(i) \/ PatchDeployment(i)
  BY <1>6, <1>9, <1>a, <1>b DEF PatchConfigMap, PatchDeployment
<1>10. CASE WaitReady(i)
  BY <1>6, <1>10, <1>a, <1>b DEF WaitReady
<1>11. CASE RollbackConfigMap(i) \/ RollbackDeployment(i)
  BY <1>6, <1>11, <1>a DEF RollbackConfigMap, RollbackDeployment
<1> QED
  BY <1>1, <1>3, <1>4, <1>5, <1>7, <1>8, <1>9, <1>10, <1>11 DEF RunOnce

\* Requested rows were vetted by the control plane: InstallersVetted is kept.
LEMMA InstallersVettedStep ==
  ASSUME TypeInv, VettedInv, StoredAreAdmissible, [Next]_vars
  PROVE  InstallersVetted'
<1> SUFFICES ASSUME NEW j \in Installers
             PROVE  /\ inst'[j].pc \in Working \cup {"start"} =>
                         inst'[j].id \in InTable' /\ Vetted(Repo(j)')
                    /\ inst'[j].prev # NoPrevious => Vetted(inst'[j].prev)
  BY DEF InstallersVetted, Vetted
<1>1. CASE inst'[j] = inst[j]
  <2>1. inst[j].prev # NoPrevious => Vetted(inst[j].prev)
    BY DEF VettedInv, InstallersVetted
  <2>2. ASSUME inst[j].pc \in Working \cup {"start"} PROVE inst'[j].id \in InTable' /\ Vetted(Repo(j)')
    BY <1>1, <2>2, HeldStaysVetted DEF VettedInv
  <2> QED BY <1>1, <2>1, <2>2
<1>2. CASE LocalMove(j)
  <2>1. CASE /\ inst'[j].prev = NoPrevious
             /\ inst'[j].pc \in Working \cup {"start"} =>
                  /\ inst'[j].id \in WithStatus({"requested"})
                  /\ DenyReason(row[inst'[j].id].repo) = "none"
    <3>1. ASSUME inst'[j].pc \in Working \cup {"start"}
          PROVE  inst'[j].id \in InTable' /\ Vetted(Repo(j)')
      <4>1. inst'[j].id \in Ids /\ inst'[j].id \in InTable
        BY <2>1, <3>1 DEF InTable, WithStatus, Statuses
      <4>2. IsRepoAllowed(CpAllowlist, row[inst'[j].id].repo)
        BY <4>1 DEF StoredAreAdmissible
      <4>3. Vetted(row[inst'[j].id].repo)
        BY <2>1, <3>1, <4>2, PickVets
      <4>4. inst'[j].id \in InTable' /\ row'[inst'[j].id].repo = row[inst'[j].id].repo
        BY <4>1, StepRefines, RowStep DEF TypeInv, TypeOK
      <4> QED BY <4>3, <4>4 DEF Repo
    <3> QED BY <2>1, <3>1
  <2>2. CASE /\ inst[j].pc \in Working \cup {"start"}
             /\ inst'[j].id = inst[j].id
             /\ inst'[j].prev \in {inst[j].prev, configMap, NoPrevious}
    <3>1. inst'[j].id \in InTable' /\ Vetted(Repo(j)')
      BY <2>2, HeldStaysVetted DEF VettedInv
    <3>2. inst'[j].prev # NoPrevious => Vetted(inst'[j].prev)
      BY <2>2 DEF VettedInv, InstallersVetted, ReleaseVetted
    <3> QED BY <3>1, <3>2
  <2> QED BY <1>2, <2>1, <2>2 DEF LocalMove
<1>3. CASE \E i \in Installers : RunOnce(i) \/ Restart(i)
  <2>1. PICK i \in Installers : RunOnce(i) \/ Restart(i)
    BY <1>3
  <2>2. LocalMove(i) /\ LocalOK(i)
    BY <2>1, RunOnceMove, RunOnceLocal
  <2>3. i # j => inst'[j] = inst[j]
    BY <2>2 DEF LocalOK, OnlyInst, TypeInv, TypeOK
  <2> QED BY <1>1, <1>2, <2>2, <2>3
<1>4. CASE UNCHANGED inst
  BY <1>1, <1>4
<1> QED
  BY <1>3, <1>4, OthersKeepInst DEF Next

\* A step points the release only at models already vetted.
LEMMA ReleaseVettedStep ==
  ASSUME TypeInv, VettedInv, [Next]_vars
  PROVE  ReleaseVetted'
<1>1. Vetted(configMap) /\ Vetted(configMap')
  <2>1. ASSUME NEW i \in Installers, inst[i].pc = "patch_configmap" PROVE Vetted(Repo(i))
    BY <2>1 DEF VettedInv, InstallersVetted, Working
  <2>2. ASSUME NEW i \in Installers, inst[i].pc = "rollback_configmap" PROVE Vetted(inst[i].prev)
    <3>1. inst[i].prev # NoPrevious
      BY <2>2, InstallAssumption DEF TypeInv, RollbackKnown, NoPrevious
    <3> QED BY <3>1 DEF VettedInv, InstallersVetted
  <2> QED
    BY <2>1, <2>2, ReleaseStep DEF ReleaseMove, VettedInv, ReleaseVetted
<1>2. booting \in Loadable => booting \notin {"none", "created"}
  BY InstallAssumption
<1>3. serving' # "none" => Vetted(serving')
  BY <1>2, ReleaseStep DEF ReleaseMove, VettedInv, ReleaseVetted
<1>4. booting' \notin {"none", "created"} => Vetted(booting')
  BY <1>1, ReleaseStep DEF ReleaseMove, VettedInv, ReleaseVetted
<1> QED
  BY <1>1, <1>3, <1>4 DEF ReleaseVetted, Vetted

\* However installs, failures, rollbacks and restarts interleave, the shared
\* release is only pointed at, loads or serves its deployed model or one that
\* both allow-lists admit.
THEOREM OnlyVettedModels == Spec => []ReleaseVetted
<1>1. Init => VettedInv
  <2> SUFFICES ASSUME Init PROVE VettedInv
    OBVIOUS
  <2>1. InstallersVetted
    <3>1. \A i \in Installers : inst[i].pc = "idle" /\ inst[i].prev = NoPrevious
      BY DEF Init, Idle
    <3> QED BY <3>1 DEF InstallersVetted, Working
  <2>2. ReleaseVetted
    BY DEF Init, ReleaseVetted, Vetted
  <2> QED BY <2>1, <2>2 DEF VettedInv
<1>2. TypeInv /\ [Next]_vars => TypeInv'
  BY TypeStep
<1>3. TypeInv /\ VettedInv /\ StoredAreAdmissible /\ [Next]_vars => VettedInv'
  BY InstallersVettedStep, ReleaseVettedStep DEF VettedInv
<1>4. VettedInv => ReleaseVetted
  BY DEF VettedInv
<1> QED
  BY TypeInit, <1>1, <1>2, <1>3, <1>4, RefinesRequests, StoredAdmissible, PTL DEF Spec

----------------------------------------------------------------------------
\* Stranded requests.

\* run_once first posts "installing" and last a final status.
Posted(local) ==
  /\ local.pc = "start" => local.status = "installing"
  /\ local.pc = "report" => local.status \in {"applied", "failed"}
  /\ local.pc = "deny" => local.status = "failed"
  /\ local.pc \in {"rollback_configmap", "rollback_deployment"} => local.status = "failed"
PostedStatus == \A i \in Installers : Posted(inst[i])
LateInstalling == {post \in late : post[2] = "installing"}
OrphanInv == PostedStatus /\ IsFiniteSet(late) /\ OrphansCostFaults

\* A step of installer i can only strand the request i was working on.
LEMMA OrphanGrowth ==
  ASSUME TypeInv, NEW i \in Installers, OnlyInst(i),
         \A y \in Ids : y # inst[i].id => row'[y].status = row[y].status
  PROVE  Orphans' \subseteq Orphans \cup {inst[i].id}
<1> SUFFICES ASSUME NEW y \in Orphans', y # inst[i].id PROVE y \in Orphans
  OBVIOUS
<1>1. y \in Ids /\ row[y].status = "installing"
  BY DEF Orphans
<1>2. ASSUME NEW j \in Installers PROVE ~Holds(j, y)
  <2>1. CASE j = i
    BY <2>1 DEF Holds
  <2>2. CASE j # i
    <3>1. inst'[j] = inst[j]
      BY <2>2 DEF OnlyInst, TypeInv, TypeOK
    <3>2. ~Holds(j, y)'
      BY DEF Orphans
    <3> QED BY <3>1, <3>2 DEF Holds
  <2> QED BY <2>1, <2>2
<1> QED
  BY <1>1, <1>2 DEF Orphans

\* It strands none if the request is no longer "installing", is still held, or
\* was not held before and keeps its status.
LEMMA OrphanShrink ==
  ASSUME TypeInv, NEW i \in Installers, OnlyInst(i),
         \A y \in Ids : y # inst[i].id => row'[y].status = row[y].status,
         \/ row'[inst[i].id].status # "installing"
         \/ inst'[i].pc \in Working /\ inst'[i].id = inst[i].id
         \/ inst[i].pc \notin Working /\ row'[inst[i].id].status = row[inst[i].id].status
  PROVE  Orphans' \subseteq Orphans
<1>1. Orphans' \subseteq Orphans \cup {inst[i].id}
  BY OrphanGrowth
<1>2. PICK x : x = inst[i].id
  OBVIOUS
<1> SUFFICES ASSUME x \in Orphans' PROVE x \in Orphans
  BY <1>1, <1>2
<1>3. /\ x \in Ids /\ row'[x].status = "installing"
      /\ \A j \in Installers : ~Holds(j, x)'
  BY DEF Orphans
<1>4. inst[i].pc \notin Working /\ row[x].status = "installing"
  BY <1>2, <1>3 DEF Holds
<1>5. ASSUME NEW j \in Installers PROVE ~Holds(j, x)
  <2>1. CASE j = i
    BY <2>1, <1>4 DEF Holds
  <2>2. CASE j # i
    <3>1. inst'[j] = inst[j]
      BY <2>2 DEF OnlyInst, TypeInv, TypeOK
    <3> QED BY <3>1, <1>3 DEF Holds
  <2> QED BY <2>1, <2>2
<1> QED
  BY <1>3, <1>4, <1>5 DEF Orphans

\* What a step does to the stranded requests and to the posts that may strand one.
NoneStranded == Orphans' \subseteq Orphans /\ LateInstalling' \subseteq LateInstalling
OneStranded ==
  \E x : \/ Orphans' \subseteq Orphans \cup {x} /\ LateInstalling' \subseteq LateInstalling
         \/ Orphans' \subseteq Orphans /\ LateInstalling' \subseteq LateInstalling \cup {x}
OneDelivered ==
  \E x, post : /\ post \in LateInstalling
               /\ Orphans' \subseteq Orphans \cup {x}
               /\ LateInstalling' \subseteq LateInstalling \ {post}
StrandedStep == (NoneStranded /\ NoFault) \/ (NoneStranded /\ Fault) \/ (OneStranded /\ Fault)
                \/ (OneDelivered /\ NoFault)

\* A status post changes the status of its own row only.
LEMMA PostStatusOf ==
  ASSUME ReqTypeOK, NEW id \in Ids, NEW status, NEW error, UpdateStatus(id, status, error)
  PROVE  /\ row'[id].status = status
         /\ \A y \in Ids : y # id => row'[y].status = row[y].status
BY DEF UpdateStatus, ReqTypeOK, ModelInstallRequest

\* Control-plane steps move no row into or out of "installing".
LEMMA ControlPlaneKeepsInstalling ==
  ASSUME TypeInv, Create \/ SetEnabled, NEW y \in Ids
  PROVE  row'[y].status = "installing" => row[y].status = "installing"
<1> USE DEF TypeInv, TypeOK, ReqTypeOK, ModelInstallRequest
<1>1. ASSUME NEW u \in Users, NEW repo \in Repos, NEW id \in Ids, CreateCheck(u, repo, id)
      PROVE  row'[y].status = "installing" => row[y].status = "installing"
  BY <1>1 DEF CreateCheck
<1>2. ASSUME NEW id \in Ids, CreateInsert(id)
      PROVE  row'[y].status = "installing" => row[y].status = "installing"
  BY <1>2 DEF CreateInsert
<1>3. ASSUME NEW id \in Ids, CreateFail(id)
      PROVE  row'[y].status = "installing" => row[y].status = "installing"
  <2>1. NoRow.status = "absent"
    BY DEF NoRow
  <2> QED BY <1>3, <2>1 DEF CreateFail
<1>4. CASE SetEnabled
  BY <1>4 DEF SetEnabled
<1> QED
  BY <1>1, <1>2, <1>3, <1>4 DEF Create

\* Steps of run_once that post nothing strand nothing: the installer goes on
\* holding its request or had none.
LEMMA QuietRunStep ==
  ASSUME TypeInv, PostedStatus, NEW i \in Installers, LocalOK(i), UNCHANGED <<row, late>>,
         \/ inst[i].pc \notin Working
         \/ inst'[i].pc \in Working /\ inst'[i].id = inst[i].id
  PROVE  NoneStranded
<1>1. Orphans' \subseteq Orphans
  BY OrphanShrink DEF LocalOK
<1> QED
  BY <1>1 DEF NoneStranded, LateInstalling

\* Between its first and its last post, run_once keeps its request.
LEMMA RunOnceHolds ==
  ASSUME TypeInv, NEW i \in Installers,
         \/ PickPending(i) \/ ScaleNodegroup(i) \/ GetModel(i) \/ PatchConfigMap(i)
         \/ PatchDeployment(i) \/ WaitReady(i) \/ RollbackConfigMap(i) \/ RollbackDeployment(i)
  PROVE  /\ UNCHANGED <<row, late>>
         /\ \/ inst[i].pc \notin Working
            \/ inst'[i].pc \in Working /\ inst'[i].id = inst[i].id
         /\ Fault \/ NoFault
<1>0. inst \in [Installers -> Installer] /\ inst[i] \in Installer
  BY DEF TypeInv, TypeOK
<1>1. CASE PickPending(i)
  <2>1. inst[i].pc \notin Working
    BY <1>1 DEF PickPending, Working
  <2> QED BY <1>1, <2>1 DEF PickPending, reqVars, NoFault
<1>2. ASSUME NEW pc \in Working, Goto(i, pc) PROVE inst'[i].pc \in Working /\ inst'[i].id = inst[i].id
  BY <1>0, <1>2 DEF Goto, Installer
<1>3. ASSUME NEW status, NEW error, Report(i, status, error)
      PROVE  inst'[i].pc \in Working /\ inst'[i].id = inst[i].id
  BY <1>0, <1>3 DEF Report, Installer, Working
<1>4. ASSUME NEW error, StartRollback(i, error)
      PROVE  inst'[i].pc \in Working /\ inst'[i].id = inst[i].id
  BY <1>0, <1>4 DEF StartRollback, Installer, Working
<1>5. CASE GetModel(i)
  <2>1. PICK previous :
          /\ inst' = [inst EXCEPT ![i].pc = "patch_configmap", ![i].prev = previous]
          /\ Fault \/ NoFault
    BY <1>5 DEF GetModel
  <2>2. inst'[i].pc = "patch_configmap" /\ inst'[i].id = inst[i].id
    BY <1>0, <2>1 DEF Installer
  <2> QED BY <1>5, <2>1, <2>2 DEF GetModel, Working, reqVars
<1>6. {"get_model", "patch_deployment", "wait_ready", "rollback_deployment", "report"} \subseteq Working
  BY DEF Working
<1>7. CASE ScaleNodegroup(i)
  BY <1>2, <1>3, <1>6, <1>7 DEF ScaleNodegroup, reqVars
<1>8. CASE PatchConfigMap(i)
  BY <1>2, <1>3, <1>6, <1>8 DEF PatchConfigMap, reqVars
<1>9. CASE PatchDeployment(i)
  BY <1>2, <1>3, <1>6, <1>9 DEF PatchDeployment, reqVars
<1>10. CASE WaitReady(i)
  BY <1>3, <1>4, <1>10 DEF WaitReady, reqVars
<1>11. CASE RollbackConfigMap(i)
  BY <1>2, <1>6, <1>11 DEF RollbackConfigMap, reqVars
<1>12. CASE RollbackDeployment(i)
  BY <1>2, <1>6, <1>12 DEF RollbackDeployment, reqVars
<1> QED
  BY <1>1, <1>5, <1>7, <1>8, <1>9, <1>10, <1>11, <1>12

\* A step of an installer strands at most one request, and only by a fault.
LEMMA InstallerStrands ==
  ASSUME TypeInv, PostedStatus, NEW i \in Installers, RunOnce(i) \/ Restart(i)
  PROVE  StrandedStep
<1>0. /\ LocalOK(i) /\ inst \in [Installers -> Installer] /\ inst[i] \in Installer
      /\ inst[i].id \in Ids /\ ReqTypeOK
  BY RunOnceLocal DEF TypeInv, TypeOK, Installer
<1>1. CASE \/ PickPending(i) \/ ScaleNodegroup(i) \/ GetModel(i) \/ PatchConfigMap(i)
           \/ PatchDeployment(i) \/ WaitReady(i) \/ RollbackConfigMap(i) \/ RollbackDeployment(i)
  BY <1>0, <1>1, RunOnceHolds, QuietRunStep DEF StrandedStep
<1>2. CASE PostAnswered(i)
  <2>1. /\ row'[inst[i].id].status = inst[i].status
        /\ \A y \in Ids : y # inst[i].id => row'[y].status = row[y].status
    BY <1>0, <1>2, PostStatusOf DEF PostAnswered
  <2>2. CASE inst[i].pc = "start"
    <3>1. inst'[i].pc = "scale" /\ inst'[i].id = inst[i].id
      BY <1>0, <1>2, <2>2 DEF PostAnswered, Installer
    <3>2. Orphans' \subseteq Orphans
      BY <1>0, <2>1, <3>1, OrphanShrink DEF LocalOK, Working
    <3> QED BY <1>2, <3>2 DEF PostAnswered, StrandedStep, NoneStranded, LateInstalling, NoFault
  <2>3. CASE inst[i].pc # "start"
    <3>1. inst[i].status # "installing"
      BY <1>2, <2>3 DEF PostAnswered, PostedStatus, Posted
    <3>2. Orphans' \subseteq Orphans
      BY <1>0, <2>1, <3>1, OrphanShrink DEF LocalOK
    <3> QED BY <1>2, <3>2 DEF PostAnswered, StrandedStep, NoneStranded, LateInstalling, NoFault
  <2> QED BY <2>2, <2>3
<1>3. CASE PostRaises(i)
  <2>0. Fault
    BY <1>3 DEF PostRaises
  <2>1. CASE UNCHANGED late
    <3>1. \A y \in Ids : y # inst[i].id => row'[y].status = row[y].status
      BY <1>0, <1>3, PostStatusOf DEF PostRaises, reqVars
    <3>2. Orphans' \subseteq Orphans \cup {inst[i].id}
      BY <1>0, <3>1, OrphanGrowth DEF LocalOK
    <3>3. LateInstalling' \subseteq LateInstalling
      BY <2>1 DEF LateInstalling
    <3> QED BY <2>0, <3>2, <3>3 DEF StrandedStep, OneStranded
  <2>2. CASE /\ late' = late \cup {<<inst[i].id, inst[i].status, inst[i].error>>}
             /\ UNCHANGED reqVars
    <3>1. CASE inst[i].pc = "start"
      <4>1. Orphans' \subseteq Orphans
        BY <1>0, <2>2, <3>1, OrphanShrink DEF LocalOK, reqVars, Working
      <4>2. LateInstalling' \subseteq
              LateInstalling \cup {<<inst[i].id, inst[i].status, inst[i].error>>}
        BY <2>2 DEF LateInstalling
      <4> QED BY <2>0, <4>1, <4>2 DEF StrandedStep, OneStranded
    <3>2. CASE inst[i].pc # "start"
      <4>1. inst[i].status # "installing"
        BY <1>3, <3>2 DEF PostRaises, PostedStatus, Posted
      <4>2. LateInstalling' \subseteq LateInstalling
        BY <2>2, <4>1 DEF LateInstalling
      <4>3. Orphans' \subseteq Orphans \cup {inst[i].id}
        BY <1>0, <2>2, OrphanGrowth DEF LocalOK, reqVars
      <4> QED BY <2>0, <4>2, <4>3 DEF StrandedStep, OneStranded
    <3> QED BY <3>1, <3>2
  <2> QED BY <1>3, <2>1, <2>2 DEF PostRaises
<1>4. CASE Restart(i)
  <2>1. Orphans' \subseteq Orphans \cup {inst[i].id}
    BY <1>0, <1>4, OrphanGrowth DEF Restart, LocalOK, reqVars
  <2>2. LateInstalling' \subseteq LateInstalling /\ Fault
    BY <1>4 DEF Restart, LateInstalling
  <2> QED BY <2>1, <2>2 DEF StrandedStep, OneStranded
<1> QED
  BY <1>1, <1>2, <1>3, <1>4 DEF RunOnce

\* Nor does any other step of the system: a late "installing" strands its row
\* when it is delivered and is no longer late then.
LEMMA AnyStepStrands ==
  ASSUME TypeInv, PostedStatus, [Next]_vars
  PROVE  StrandedStep
<1>1. CASE \E i \in Installers : RunOnce(i) \/ Restart(i)
  BY <1>1, InstallerStrands
<1>2. ASSUME UNCHANGED inst,
             \A y \in Ids : row'[y].status = "installing" => row[y].status = "installing"
      PROVE  Orphans' \subseteq Orphans
  BY <1>2 DEF Orphans, Holds
<1>3. CASE ControlPlane
  <2>1. UNCHANGED inst
    BY <1>3, OthersKeepInst
  <2>2. Orphans' \subseteq Orphans
    BY <1>2, <1>3, <2>1, ControlPlaneKeepsInstalling DEF ControlPlane
  <2> QED
    BY <1>3, <2>2 DEF ControlPlane, StrandedStep, NoneStranded, LateInstalling, NoFault, instVars
<1>4. CASE DeliverLate
  <2>1. PICK post \in late :
          /\ UpdateStatus(post[1], post[2], post[3])
          /\ late' = late \ {post}
          /\ UNCHANGED <<inst, faults>>
    BY <1>4 DEF DeliverLate
  <2>2. post[1] \in Ids /\ ReqTypeOK
    BY DEF TypeInv, TypeOK
  <2>3. /\ row'[post[1]].status = post[2]
        /\ \A y \in Ids : y # post[1] => row'[y].status = row[y].status
    BY <2>1, <2>2, PostStatusOf
  <2>4. CASE post[2] = "installing"
    <3>1. Orphans' \subseteq Orphans \cup {post[1]}
      BY <2>1, <2>3 DEF Orphans, Holds
    <3>2. post \in LateInstalling /\ LateInstalling' \subseteq LateInstalling \ {post}
      BY <2>1, <2>4 DEF LateInstalling
    <3> QED BY <2>1, <3>1, <3>2 DEF StrandedStep, OneDelivered, NoFault
  <2>5. CASE post[2] # "installing"
    <3>1. Orphans' \subseteq Orphans
      BY <1>2, <2>1, <2>3, <2>5
    <3> QED BY <2>1, <3>1 DEF StrandedStep, NoneStranded, LateInstalling, NoFault
  <2> QED BY <2>4, <2>5
<1>5. CASE Release \/ UNCHANGED vars
  <2>1. UNCHANGED <<row, inst, late>> /\ (Fault \/ NoFault)
    BY <1>5
    DEF Release, PodStart, PodReady, PodCrashLoop, PodCrash, reqVars, instVars, vars, Fault, NoFault
  <2> QED
    BY <1>2, <2>1 DEF StrandedStep, NoneStranded, LateInstalling
<1> QED
  BY <1>1, <1>3, <1>4, <1>5 DEF Next

\* run_once sets the status it is going to post when it turns to the post.
LEMMA PostedStatusStep ==
  ASSUME TypeInv, PostedStatus, [Next]_vars
  PROVE  PostedStatus'
<1>1. ASSUME NEW i \in Installers, RunOnce(i) \/ Restart(i)
      PROVE  Posted(inst'[i])
  <2> DEFINE Posting == {"start", "deny", "report", "rollback_configmap", "rollback_deployment"}
  <2>0. inst \in [Installers -> Installer] /\ inst[i] \in Installer
    BY DEF TypeInv, TypeOK
  <2>1. CASE PickPending(i)
    <3>1. PICK id \in Ids :
            inst'[i] = [pc     |-> IF DenyReason(row[id].repo) = "none" THEN "start" ELSE "deny",
                        id     |-> id,
                        prev   |-> NoPrevious,
                        status |-> IF DenyReason(row[id].repo) = "none" THEN "installing" ELSE "failed",
                        error  |-> DenyReason(row[id].repo)]
      BY <2>0, <2>1 DEF PickPending
    <3> QED BY <3>1 DEF Posted
  <2>2. ASSUME inst'[i].pc \notin Posting
        PROVE  Posted(inst'[i])
    BY <2>2 DEF Posted
  <2>3. CASE PostAnswered(i)
    <3>1. inst'[i].pc \in {"scale", "idle"}
      <4>1. CASE inst[i].pc = "start"
        BY <2>0, <2>3, <4>1 DEF PostAnswered, Installer
      <4>2. CASE inst[i].pc # "start"
        BY <2>0, <2>3, <4>2, IdleType DEF PostAnswered
      <4> QED BY <4>1, <4>2
    <3> QED BY <2>2, <3>1
  <2>4. CASE PostRaises(i) \/ Restart(i)
    <3>1. inst'[i].pc \in {"idle", "off"}
      BY <2>0, <2>4 DEF PostRaises, Restart, Idle
    <3> QED BY <2>2, <3>1
  <2>5. ASSUME NEW pc, Goto(i, pc), pc \notin Posting
        PROVE  inst'[i].pc \notin Posting
    BY <2>0, <2>5 DEF Goto, Installer
  <2>6. ASSUME NEW status \in {"applied", "failed"}, NEW error, Report(i, status, error)
        PROVE  inst'[i].pc = "report" /\ inst'[i].status \in {"applied", "failed"}
    BY <2>0, <2>6 DEF Report, Installer
  <2>7. CASE ScaleNodegroup(i) \/ PatchConfigMap(i) \/ PatchDeployment(i)
    BY <2>2, <2>5, <2>6, <2>7 DEF Posted, ScaleNodegroup, PatchConfigMap, PatchDeployment
  <2>8. CASE GetModel(i)
    <3>1. inst'[i].pc = "patch_configmap"
      BY <2>0, <2>8 DEF GetModel, Installer
    <3> QED BY <2>2, <3>1
  <2>9. ASSUME NEW error, StartRollback(i, error)
        PROVE  inst'[i].pc \in {"report", "rollback_configmap"} /\ inst'[i].status = "failed"
    BY <2>0, <2>9 DEF StartRollback, Installer
  <2>10. CASE WaitReady(i)
    BY <2>6, <2>9, <2>10 DEF Posted, WaitReady
  <2>11. ASSUME NEW pc \in {"report", "rollback_deployment"}, Goto(i, pc), inst[i].status = "failed"
         PROVE  Posted(inst'[i])
    BY <2>0, <2>11 DEF Goto, Installer, Posted
  <2>12. CASE RollbackConfigMap(i) \/ RollbackDeployment(i)
    <3>1. inst[i].status = "failed"
      BY <2>12 DEF RollbackConfigMap, RollbackDeployment, PostedStatus, Posted
    <3> QED BY <2>11, <2>12, <3>1 DEF RollbackConfigMap, RollbackDeployment
  <2> QED
    BY <1>1, <2>1, <2>3, <2>4, <2>7, <2>8, <2>10, <2>12 DEF RunOnce
<1>2. CASE \E i \in Installers : RunOnce(i) \/ Restart(i)
  <2>1. PICK i \in Installers : RunOnce(i) \/ Restart(i)
    BY <1>2
  <2>2. \A j \in Installers : j # i => inst'[j] = inst[j]
    BY <2>1, RunOnceLocal DEF LocalOK, OnlyInst, TypeInv, TypeOK
  <2> QED BY <1>1, <2>1, <2>2 DEF PostedStatus
<1>3. CASE UNCHANGED inst
  BY <1>3 DEF PostedStatus
<1> QED
  BY <1>2, <1>3, OthersKeepInst DEF Next

\* What one step strands is paid for by the faults it draws.
LEMMA StrandedCost ==
  ASSUME TypeInv, OrphanInv, StrandedStep, IsFiniteSet(late'), faults' \in Nat
  PROVE  OrphansCostFaults'
<1>1. /\ IsFiniteSet(Orphans) /\ IsFiniteSet(LateInstalling)
      /\ Cardinality(Orphans) \in Nat /\ Cardinality(LateInstalling) \in Nat
  <2>1. IsFiniteSet(Orphans)
    BY IdSetsFinite DEF Orphans
  <2>2. IsFiniteSet(LateInstalling)
    BY SubsetBound DEF LateInstalling, OrphanInv
  <2> QED BY <2>1, <2>2, FS_CardinalityType
<1>2. Cardinality(Orphans) + Cardinality(LateInstalling) <= faults
  BY DEF OrphanInv, OrphansCostFaults, LateInstalling
<1>3. faults \in Nat
  BY DEF TypeInv, TypeOK
<1> SUFFICES Cardinality(Orphans') + Cardinality(LateInstalling') <= faults'
  BY DEF OrphansCostFaults, LateInstalling
<1>4. CASE NoneStranded /\ (Fault \/ NoFault)
  <2>1. /\ Cardinality(Orphans') \in Nat /\ Cardinality(LateInstalling') \in Nat
        /\ Cardinality(Orphans') <= Cardinality(Orphans)
        /\ Cardinality(LateInstalling') <= Cardinality(LateInstalling)
    BY <1>1, <1>4, SubsetBound DEF NoneStranded
  <2> QED BY <1>1, <1>2, <1>3, <1>4, <2>1 DEF Fault, NoFault
<1>5. CASE OneStranded /\ Fault
  <2>0. faults' = faults + 1
    BY <1>5 DEF Fault
  <2>1. PICK x : \/ Orphans' \subseteq Orphans \cup {x} /\ LateInstalling' \subseteq LateInstalling
                 \/ Orphans' \subseteq Orphans /\ LateInstalling' \subseteq LateInstalling \cup {x}
    BY <1>5 DEF OneStranded
  <2>2. /\ IsFiniteSet(Orphans \cup {x}) /\ IsFiniteSet(LateInstalling \cup {x})
        /\ Cardinality(Orphans \cup {x}) <= Cardinality(Orphans) + 1
        /\ Cardinality(LateInstalling \cup {x}) <= Cardinality(LateInstalling) + 1
    BY <1>1, AddOne
  <2>3. CASE Orphans' \subseteq Orphans \cup {x} /\ LateInstalling' \subseteq LateInstalling
    <3>1. /\ Cardinality(Orphans') \in Nat /\ Cardinality(LateInstalling') \in Nat
          /\ Cardinality(Orphans \cup {x}) \in Nat
          /\ Cardinality(Orphans') <= Cardinality(Orphans \cup {x})
          /\ Cardinality(LateInstalling') <= Cardinality(LateInstalling)
      BY <1>1, <2>2, <2>3, SubsetBound
    <3> QED BY <1>1, <1>2, <1>3, <2>0, <2>2, <3>1
  <2>4. CASE Orphans' \subseteq Orphans /\ LateInstalling' \subseteq LateInstalling \cup {x}
    <3>1. /\ Cardinality(Orphans') \in Nat /\ Cardinality(LateInstalling') \in Nat
          /\ Cardinality(LateInstalling \cup {x}) \in Nat
          /\ Cardinality(Orphans') <= Cardinality(Orphans)
          /\ Cardinality(LateInstalling') <= Cardinality(LateInstalling \cup {x})
      BY <1>1, <2>2, <2>4, SubsetBound
    <3> QED BY <1>1, <1>2, <1>3, <2>0, <2>2, <3>1
  <2> QED BY <2>1, <2>3, <2>4
<1>6. CASE OneDelivered /\ NoFault
  <2>1. PICK x, post : /\ post \in LateInstalling
                       /\ Orphans' \subseteq Orphans \cup {x}
                       /\ LateInstalling' \subseteq LateInstalling \ {post}
    BY <1>6 DEF OneDelivered
  <2>2. IsFiniteSet(Orphans \cup {x}) /\ Cardinality(Orphans \cup {x}) <= Cardinality(Orphans) + 1
    BY <1>1, AddOne
  <2>3. /\ IsFiniteSet(LateInstalling \ {post})
        /\ Cardinality(LateInstalling \ {post}) = Cardinality(LateInstalling) - 1
    BY <1>1, <2>1, FS_RemoveElement
  <2>4. /\ Cardinality(Orphans') \in Nat /\ Cardinality(Orphans \cup {x}) \in Nat
        /\ Cardinality(Orphans') <= Cardinality(Orphans \cup {x})
    BY <2>1, <2>2, SubsetBound
  <2>5. /\ Cardinality(LateInstalling') \in Nat
        /\ Cardinality(LateInstalling') <= Cardinality(LateInstalling \ {post})
    BY <2>1, <2>3, SubsetBound
  <2> QED BY <1>1, <1>2, <1>3, <1>6, <2>2, <2>3, <2>4, <2>5 DEF NoFault
<1> QED
  BY <1>4, <1>5, <1>6 DEF StrandedStep

\* Only finitely many posts are ever late.
LEMMA LateFiniteStep ==
  ASSUME IsFiniteSet(late), [Next]_vars
  PROVE  IsFiniteSet(late')
<1>1. ASSUME NEW i \in Installers, PostRaises(i) PROVE IsFiniteSet(late')
  BY <1>1, FS_AddElement DEF PostRaises
<1>2. CASE DeliverLate
  BY <1>2, FS_RemoveElement DEF DeliverLate
<1>3. CASE UNCHANGED late
  BY <1>3
<1> QED
  BY <1>1, <1>2, <1>3
  DEF Next, vars, ControlPlane, Release, PodStart, PodReady, PodCrashLoop,
      PodCrash, RunOnce, Restart, PickPending, PostAnswered, ScaleNodegroup, GetModel,
      PatchConfigMap, PatchDeployment, WaitReady, RollbackConfigMap, RollbackDeployment, instVars

\* For any number of installers and requests, each row stuck in "installing"
\* with nobody to advance it has cost a crash or a failed post of its own; a
\* behaviour without faults strands none.
THEOREM StrandedOnlyByFaults == Spec => []OrphansCostFaults
<1>1. Init => OrphanInv
  <2> SUFFICES ASSUME Init PROVE OrphanInv
    OBVIOUS
  <2>1. PostedStatus
    <3>1. \A i \in Installers : inst[i].pc = "idle"
      BY DEF Init, Idle
    <3> QED BY <3>1 DEF PostedStatus, Posted
  <2>2. Orphans = {} /\ {post \in late : post[2] = "installing"} = {} /\ late = {} /\ faults = 0
    <3>1. NoRow.status = "absent"
      BY DEF NoRow
    <3> QED BY <3>1 DEF Init, ReqInit, Orphans
  <2> QED
    BY <2>1, <2>2, FS_EmptySet DEF OrphanInv, OrphansCostFaults
<1>2. TypeInv /\ [Next]_vars => TypeInv'
  BY TypeStep
<1>3. TypeInv /\ OrphanInv /\ [Next]_vars => OrphanInv'
  <2> SUFFICES ASSUME TypeInv, OrphanInv, [Next]_vars PROVE OrphanInv'
    OBVIOUS
  <2>1. PostedStatus /\ IsFiniteSet(late)
    BY DEF OrphanInv
  <2>2. PostedStatus' /\ StrandedStep /\ IsFiniteSet(late')
    BY <2>1, PostedStatusStep, AnyStepStrands, LateFiniteStep
  <2>3. faults' \in Nat
    BY TypeStep DEF TypeInv, TypeOK
  <2>4. OrphansCostFaults'
    BY <2>2, <2>3, StrandedCost
  <2> QED
    BY <2>2, <2>4 DEF OrphanInv
<1>4. OrphanInv => OrphansCostFaults
  BY DEF OrphanInv
<1> QED
  BY TypeInit, <1>1, <1>2, <1>3, <1>4, PTL DEF Spec

----------------------------------------------------------------------------
\* The life of a request under one installer.

Single == (\A i, j \in Installers : i = j) /\ ~LateDelivery

\* What makes the order inductive: the only installer knows the status of the
\* row it works on, and no late post can change it.
Tracked(i) ==
  /\ inst[i].pc \in {"start", "deny"} => row[inst[i].id].status = "requested"
  /\ inst[i].pc \in Working => row[inst[i].id].status = "installing"
TrackedInv == late = {} /\ PostedStatus /\ \A i \in Installers : Tracked(i)

LegalStep ==
  \A id \in Ids : row'[id].status # row[id].status => LegalMove(row[id].status, row'[id].status)

\* Control-plane steps are legal and leave the rows of an installer alone.
LEMMA CreateLegal ==
  ASSUME TypeInv, Create \/ SetEnabled
  PROVE  /\ LegalStep
         /\ \A y \in Ids : row[y].status \in {"requested", "installing"} =>
              row'[y].status = row[y].status
<1> USE DEF TypeInv, TypeOK, ReqTypeOK, ModelInstallRequest, LegalStep, LegalMove
<1>1. ASSUME NEW u \in Users, NEW repo \in Repos, NEW id \in Ids, CreateCheck(u, repo, id)
      PROVE  /\ LegalStep
             /\ \A y \in Ids : row[y].status \in {"requested", "installing"} =>
                  row'[y].status = row[y].status
  BY <1>1 DEF CreateCheck
<1>2. ASSUME NEW id \in Ids, CreateInsert(id)
      PROVE  /\ LegalStep
             /\ \A y \in Ids : row[y].status \in {"requested", "installing"} =>
                  row'[y].status = row[y].status
  BY <1>2 DEF CreateInsert
<1>3. ASSUME NEW id \in Ids, CreateFail(id)
      PROVE  /\ LegalStep
             /\ \A y \in Ids : row[y].status \in {"requested", "installing"} =>
                  row'[y].status = row[y].status
  <2>1. NoRow.status = "absent"
    BY DEF NoRow
  <2> QED BY <1>3, <2>1 DEF CreateFail
<1>4. CASE SetEnabled
  BY <1>4 DEF SetEnabled
<1> QED
  BY <1>1, <1>2, <1>3, <1>4 DEF Create

\* A post of the tracked request is legal.
LEMMA PostLegal ==
  ASSUME TypeInv, TrackedInv, NEW i \in Installers, inst[i].pc \in {"start", "deny", "report"},
         UpdateStatus(inst[i].id, inst[i].status, inst[i].error)
  PROVE  LegalStep
<1>1. inst[i].id \in Ids /\ ReqTypeOK
  BY DEF TypeInv, TypeOK, Installer
<1>2. /\ row'[inst[i].id].status = inst[i].status
      /\ \A y \in Ids : y # inst[i].id => row'[y].status = row[y].status
  BY <1>1, PostStatusOf
<1>3. LegalMove(row[inst[i].id].status, inst[i].status)
  <2>1. Tracked(i) /\ Posted(inst[i])
    BY DEF TrackedInv, PostedStatus
  <2> QED BY <2>1 DEF Tracked, Posted, Working, LegalMove
<1> QED
  BY <1>2, <1>3 DEF LegalStep

\* Every step of a run with one installer is legal.
LEMMA LegalAlways ==
  ASSUME TypeInv, TrackedInv, [Next]_vars
  PROVE  LegalStep
<1>1. CASE ControlPlane
  BY <1>1, CreateLegal DEF ControlPlane
<1>2. CASE DeliverLate
  BY <1>2 DEF DeliverLate, TrackedInv
<1>3. ASSUME NEW i \in Installers, PostAnswered(i) \/ PostRaises(i) PROVE LegalStep
  BY <1>3, PostLegal DEF PostAnswered, PostRaises, LegalStep, reqVars
<1>4. CASE UNCHANGED row
  BY <1>4 DEF LegalStep
<1> QED
  BY <1>1, <1>2, <1>3, <1>4
  DEF Next, vars, Release, PodStart, PodReady, PodCrashLoop, PodCrash, RunOnce, Restart,
      PickPending, ScaleNodegroup, GetModel, PatchConfigMap, PatchDeployment, WaitReady,
      RollbackConfigMap, RollbackDeployment, reqVars

\* The only installer keeps track of its request.
LEMMA TrackedStep ==
  ASSUME Single, TypeInv, TrackedInv, [Next]_vars
  PROVE  TrackedInv'
<1>1. late' = {}
  <2>1. ASSUME NEW i \in Installers, PostRaises(i) PROVE late' = late
    BY <2>1 DEF PostRaises, Single
  <2> QED
    BY <2>1
    DEF TrackedInv, Next, vars, ControlPlane, DeliverLate, Release, PodStart, PodReady, PodCrashLoop,
        PodCrash, RunOnce, Restart, PickPending, PostAnswered, ScaleNodegroup, GetModel,
        PatchConfigMap, PatchDeployment, WaitReady, RollbackConfigMap, RollbackDeployment, instVars
<1>2. PostedStatus'
  BY PostedStatusStep DEF TrackedInv
<1>3. ASSUME NEW i \in Installers PROVE Tracked(i)'
  <2>0. /\ inst \in [Installers -> Installer] /\ inst[i] \in Installer /\ inst[i].id \in Ids
        /\ Tracked(i) /\ Posted(inst[i]) /\ ReqTypeOK
    BY DEF TypeInv, TypeOK, Installer, TrackedInv, PostedStatus
  <2>1. CASE ControlPlane
    <3>1. inst' = inst
      BY <2>1, OthersKeepInst
    <3>2. \A y \in Ids : row[y].status \in {"requested", "installing"} =>
            row'[y].status = row[y].status
      BY <2>1, CreateLegal DEF ControlPlane
    <3> QED BY <2>0, <3>1, <3>2 DEF Tracked
  <2>2. CASE DeliverLate
    BY <2>2 DEF DeliverLate, TrackedInv
  <2>3. CASE Release \/ UNCHANGED vars
    <3>1. UNCHANGED <<row, inst>>
      BY <2>3 DEF Release, PodStart, PodReady, PodCrashLoop, PodCrash, reqVars, instVars, vars
    <3> QED BY <2>0, <3>1 DEF Tracked
  <2>4. CASE PostAnswered(i)
    <3>1. row'[inst[i].id].status = inst[i].status
      BY <2>0, <2>4, PostStatusOf DEF PostAnswered
    <3>2. CASE inst[i].pc = "start"
      <4>1. inst'[i].pc = "scale" /\ inst'[i].id = inst[i].id
        BY <2>0, <2>4, <3>2 DEF PostAnswered, Installer
      <4> QED BY <2>0, <3>1, <3>2, <4>1 DEF Tracked, Posted, Working
    <3>3. CASE inst[i].pc # "start"
      <4>1. inst'[i].pc = "idle"
        BY <2>0, <2>4, <3>3, IdleType DEF PostAnswered
      <4> QED BY <4>1 DEF Tracked, Working
    <3> QED BY <3>2, <3>3
  <2>5. CASE PostRaises(i) \/ Restart(i)
    <3>1. inst'[i].pc \in {"idle", "off"}
      BY <2>0, <2>5 DEF PostRaises, Restart, Idle
    <3> QED BY <3>1 DEF Tracked, Working
  <2>6. CASE PickPending(i)
    <3>1. PICK id \in Ids :
            /\ IsOldest(id, Pending)
            /\ inst'[i].id = id
            /\ inst'[i].pc \in {"start", "deny"}
      BY <2>0, <2>6 DEF PickPending
    <3>2. row'[id].status = "requested"
      BY <2>6, <3>1 DEF IsOldest, Pending, WithStatus, PickPending, reqVars
    <3> QED BY <3>1, <3>2 DEF Tracked, Working
  <2>7. CASE \/ ScaleNodegroup(i) \/ GetModel(i) \/ PatchConfigMap(i) \/ PatchDeployment(i)
             \/ WaitReady(i) \/ RollbackConfigMap(i) \/ RollbackDeployment(i)
    <3>1. inst[i].pc \in Working
      BY <2>7 DEF ScaleNodegroup, GetModel, PatchConfigMap, PatchDeployment, WaitReady,
                  RollbackConfigMap, RollbackDeployment, Working
    <3>2. inst'[i].pc \in Working /\ inst'[i].id = inst[i].id /\ row' = row
      BY <2>7, <3>1, RunOnceHolds
    <3>3. inst'[i].pc \notin {"start", "deny"}
      BY <3>2 DEF Working
    <3> QED BY <2>0, <3>1, <3>2, <3>3 DEF Tracked
  <2>8. CASE \E j \in Installers : RunOnce(j) \/ Restart(j)
    <3>1. RunOnce(i) \/ Restart(i)
      BY <2>8 DEF Single
    <3> QED BY <3>1, <2>4, <2>5, <2>6, <2>7 DEF RunOnce
  <2> QED
    BY <2>1, <2>2, <2>3, <2>8 DEF Next
<1> QED
  BY <1>1, <1>2, <1>3 DEF TrackedInv

\* With one installer and no late delivery, crashes and failed posts included,
\* a request only moves requested -> installing -> applied | failed or is denied.
THEOREM LifecycleInOrder ==
  ASSUME Single
  PROVE  Spec => LifecycleOrdered
<1>1. Init => TrackedInv
  <2> SUFFICES ASSUME Init PROVE TrackedInv
    OBVIOUS
  <2>1. \A i \in Installers : inst[i].pc = "idle"
    BY DEF Init, Idle
  <2> QED
    BY <2>1 DEF Init, TrackedInv, Tracked, PostedStatus, Posted, Working
<1>2. TypeInv /\ [Next]_vars => TypeInv'
  BY TypeStep
<1>3. TypeInv /\ TrackedInv /\ [Next]_vars => TrackedInv'
  BY TrackedStep
<1>4. TypeInv /\ TrackedInv /\ [Next]_vars =>
        [\A id \in Ids : row'[id].status # row[id].status =>
           LegalMove(row[id].status, row'[id].status)]_vars
  BY LegalAlways DEF LegalStep
<1> QED
  BY TypeInit, <1>1, <1>2, <1>3, <1>4, PTL DEF Spec, LifecycleOrdered

----------------------------------------------------------------------------
\* Failed loads are undone.

\* What the release may be configured for between two installs.
Restorable == IF faults = 0 THEN Sanctioned ELSE Sanctioned \cup LeftBehind

LateErrors == {"vllm_apply_failed", "load_timeout", "install_failed"}

\* Where the release points while the only installer works: at what it pointed
\* at before, or at the request's repo with the way back remembered; without a way
\* back, or once that has failed, the request is about to be reported failed.
NoWayBack(i) == inst[i].prev = NoPrevious /\ faults > 0
Undone(i) ==
  /\ Quiet(i) => configMap \in Restorable
  /\ inst[i].pc = "patch_configmap" => inst[i].prev = configMap \/ NoWayBack(i)
  /\ inst[i].pc \in {"patch_deployment", "wait_ready"} =>
       /\ configMap = Repo(i)
       /\ inst[i].prev \in Restorable \/ NoWayBack(i)
  /\ inst[i].pc \in {"rollback_configmap", "rollback_deployment"} =>
       inst[i].prev \in Restorable /\ inst[i].error \in LateErrors
  /\ inst[i].pc = "rollback_configmap" => configMap = Repo(i)
  /\ inst[i].pc = "rollback_deployment" => configMap = inst[i].prev
  /\ inst[i].pc = "report" /\ inst[i].status = "applied" => configMap = Repo(i)
  /\ inst[i].pc = "report" /\ inst[i].status = "failed" =>
       \/ configMap \in Restorable
       \/ configMap = Repo(i) /\ faults > 0 /\ inst[i].error \in LateErrors
UndoneInv == \A i \in Installers : Undone(i)

\* Nobody writes to the row of a request that is decided or stranded.
LEMMA SettledStay ==
  ASSUME TypeInv, TrackedInv, [Next]_vars,
         NEW id \in Ids, id \in WithStatus({"applied", "failed"}) \cup Orphans
  PROVE  row'[id] = row[id]
<1>0. row[id].status \in {"applied", "failed", "installing"}
  BY DEF WithStatus, Orphans
<1>1. row \in [Ids -> ModelInstallRequest] /\ inst \in [Installers -> Installer]
  BY DEF TypeInv, TypeOK, ReqTypeOK
<1>2. CASE ControlPlane
  <2>1. ASSUME NEW u \in Users, NEW repo \in Repos, NEW x \in Ids, CreateCheck(u, repo, x)
        PROVE  row'[id] = row[id]
    BY <1>0, <1>1, <2>1 DEF CreateCheck
  <2>2. ASSUME NEW x \in Ids, CreateInsert(x) \/ CreateFail(x) PROVE row'[id] = row[id]
    BY <1>0, <1>1, <2>2 DEF CreateInsert, CreateFail
  <2>3. CASE SetEnabled
    BY <2>3 DEF SetEnabled
  <2> QED
    BY <1>2, <2>1, <2>2, <2>3 DEF ControlPlane, Create
<1>3. CASE DeliverLate
  BY <1>3 DEF DeliverLate, TrackedInv
<1>4. ASSUME NEW j \in Installers, inst[j].pc \in {"start", "deny", "report"},
             UpdateStatus(inst[j].id, inst[j].status, inst[j].error)
      PROVE  row'[id] = row[id]
  <2>1. Tracked(j) /\ inst[j].id \in Ids
    BY <1>1 DEF TrackedInv, Installer
  <2>2. inst[j].id # id
    <3>1. CASE inst[j].pc \in {"start", "deny"}
      BY <1>0, <2>1, <3>1 DEF Tracked
    <3>2. CASE inst[j].pc = "report"
      BY <2>1, <3>2 DEF Tracked, Working, WithStatus, Orphans, Holds
    <3> QED
      BY <1>4, <3>1, <3>2
  <2> QED
    BY <1>1, <1>4, <2>1, <2>2 DEF UpdateStatus
<1>5. ASSUME NEW j \in Installers, PostAnswered(j) \/ PostRaises(j) PROVE row'[id] = row[id]
  BY <1>4, <1>5 DEF PostAnswered, PostRaises, reqVars
<1>6. CASE UNCHANGED row
  BY <1>6
<1> QED
  BY <1>2, <1>3, <1>5, <1>6
  DEF Next, vars, Release, PodStart, PodReady, PodCrashLoop, PodCrash, RunOnce, Restart,
      PickPending, ScaleNodegroup, GetModel, PatchConfigMap, PatchDeployment, WaitReady,
      RollbackConfigMap, RollbackDeployment, reqVars

\* A stranded request stays so.
LEMMA OrphansStay ==
  ASSUME Single, TypeInv, TrackedInv, [Next]_vars, NEW id \in Orphans
  PROVE  id \in Orphans'
<1>1. id \in Ids /\ row[id].status = "installing" /\ \A j \in Installers : ~Holds(j, id)
  BY DEF Orphans
<1>2. row'[id] = row[id]
  BY <1>1, SettledStay
<1>3. ASSUME NEW j \in Installers PROVE ~Holds(j, id)'
  <2>0. inst \in [Installers -> Installer] /\ inst[j] \in Installer /\ Tracked(j)
    BY DEF TypeInv, TypeOK, TrackedInv
  <2>1. CASE PostAnswered(j)
    <3>1. CASE inst[j].pc = "start"
      <4>1. inst'[j].id = inst[j].id
        BY <2>0, <2>1, <3>1 DEF PostAnswered, Installer
      <4> QED
        BY <1>1, <2>0, <3>1, <4>1 DEF Tracked, Holds
    <3>2. CASE inst[j].pc # "start"
      <4>1. inst'[j].pc = "idle"
        BY <2>0, <2>1, <3>2, IdleType DEF PostAnswered
      <4> QED BY <4>1 DEF Holds, Working
    <3> QED BY <3>1, <3>2
  <2>2. CASE PostRaises(j) \/ Restart(j)
    <3>1. inst'[j].pc \in {"idle", "off"}
      BY <2>0, <2>2 DEF PostRaises, Restart, Idle
    <3> QED BY <3>1 DEF Holds, Working
  <2>3. CASE PickPending(j)
    <3>1. inst'[j].pc \in {"start", "deny"}
      BY <2>0, <2>3 DEF PickPending
    <3> QED BY <3>1 DEF Holds, Working
  <2>4. CASE \/ ScaleNodegroup(j) \/ GetModel(j) \/ PatchConfigMap(j) \/ PatchDeployment(j)
             \/ WaitReady(j) \/ RollbackConfigMap(j) \/ RollbackDeployment(j)
    <3>1. inst[j].pc \in Working
      BY <2>4 DEF ScaleNodegroup, GetModel, PatchConfigMap, PatchDeployment, WaitReady,
                  RollbackConfigMap, RollbackDeployment, Working
    <3>2. inst'[j].id = inst[j].id
      BY <2>4, <3>1, RunOnceHolds
    <3> QED BY <1>1, <3>1, <3>2 DEF Holds
  <2>5. CASE UNCHANGED inst
    BY <1>1, <2>5 DEF Holds
  <2>6. CASE \E k \in Installers : RunOnce(k) \/ Restart(k)
    <3>1. RunOnce(j) \/ Restart(j)
      BY <2>6 DEF Single
    <3> QED BY <3>1, <2>1, <2>2, <2>3, <2>4 DEF RunOnce
  <2> QED
    BY <2>5, <2>6, OthersKeepInst DEF Next
<1> QED
  BY <1>1, <1>2, <1>3 DEF Orphans

\* A model the release may be configured for stays one.
LEMMA RestorableGrows ==
  ASSUME Single, TypeInv, TrackedInv, [Next]_vars
  PROVE  /\ Restorable \subseteq Restorable'
         /\ faults > 0 => faults' > 0
         /\ faults \in Nat /\ faults' \in Nat
<1>1. faults \in Nat /\ faults' \in Nat /\ (faults > 0 => faults' > 0)
  BY FaultsStep, TypeStep DEF TypeInv, TypeOK, Fault, NoFault
<1>2. Sanctioned \subseteq Sanctioned'
  BY SettledStay DEF Sanctioned, AppliedModels, WithStatus
<1>3. LeftBehind \subseteq LeftBehind'
  <2> SUFFICES ASSUME NEW id \in Orphans \cup FailedAfterPatch
               PROVE  row[id].repo \in LeftBehind'
    BY DEF LeftBehind
  <2>1. id \in Ids /\ id \in WithStatus({"applied", "failed"}) \cup Orphans
    BY DEF Orphans, FailedAfterPatch, WithStatus
  <2>2. row'[id] = row[id]
    BY <2>1, SettledStay
  <2>3. id \in (Orphans \cup FailedAfterPatch)'
    BY <2>2, OrphansStay DEF FailedAfterPatch, WithStatus
  <2> QED
    BY <2>2, <2>3 DEF LeftBehind
<1> QED
  BY <1>1, <1>2, <1>3 DEF Restorable

\* The request of a working installer keeps its repo.
LEMMA RepoStays ==
  ASSUME TypeInv, TrackedInv, [Next]_vars, NEW i \in Installers, inst[i].pc \in Working
  PROVE  row'[inst[i].id].repo = row[inst[i].id].repo
<1>1. inst[i].id \in Ids /\ TypeOK /\ ReqTypeOK
  BY DEF TypeInv, TypeOK, Installer
<1>2. row[inst[i].id].status = "installing"
  BY DEF TrackedInv, Tracked
<1>3. inst[i].id \in InTable
  BY <1>1, <1>2 DEF InTable, WithStatus, Statuses, ReconcilerStatuses
<1> QED
  BY <1>1, <1>3, RowStep, StepRefines

\* Whatever it is doing, the installer leaves the release at a model that may stay
\* or at the one of its request.
LEMMA UndoneBound ==
  ASSUME TypeInv, TrackedInv, NEW i \in Installers, Undone(i)
  PROVE  configMap \in Restorable \/ (inst[i].pc \in Working /\ configMap = Repo(i))
<1>1. inst[i].pc \in PCs /\ Posted(inst[i])
  BY DEF TypeInv, TypeOK, Installer, TrackedInv, PostedStatus
<1> QED
  BY <1>1 DEF Undone, Quiet, PCs, Working, Posted

\* An installer that a fault stops in the middle strands its request, so the model
\* it leaves behind is accounted for.
LEMMA CutOff ==
  ASSUME Single, TypeInv, TrackedInv, NEW i \in Installers, Undone(i),
         faults' > 0, faults' \in Nat, configMap' = configMap, Restorable \subseteq Restorable',
         inst[i].pc \in Working =>
           /\ row'[inst[i].id].repo = row[inst[i].id].repo
           /\ row'[inst[i].id].status = "installing",
         inst'[i].pc \in {"idle", "off"}
  PROVE  Undone(i)'
<1>1. configMap \in Restorable \/ (inst[i].pc \in Working /\ configMap = Repo(i))
  BY UndoneBound
<1>2. CASE inst[i].pc \in Working /\ configMap = Repo(i)
  <2>1. PICK x : x = inst[i].id
    BY Zenon
  <2>2. x \in Ids
    BY <2>1 DEF TypeInv, TypeOK, Installer
  <2>3. \A j \in Installers : inst'[j].pc \notin Working
    BY DEF Single, Working
  <2>4. x \in Orphans'
    BY <1>2, <2>1, <2>2, <2>3 DEF Orphans, Holds
  <2>5. configMap' \in LeftBehind'
    BY <1>2, <2>1, <2>4 DEF LeftBehind, Repo
  <2> QED
    BY <2>5 DEF Restorable, Undone, Quiet
<1> QED
  BY <1>1, <1>2 DEF Undone, Quiet

\* The final post, however it ends, accounts for the model the release is left at.
LEMMA UndoneByPost ==
  ASSUME Single, TypeInv, TrackedInv, NEW i \in Installers, Undone(i), PostAnswered(i) \/ PostRaises(i),
         Restorable \subseteq Restorable', faults > 0 => faults' > 0, faults \in Nat, faults' \in Nat,
         inst[i].pc \in Working => row'[inst[i].id].repo = row[inst[i].id].repo
  PROVE  Undone(i)'
<1>0. /\ inst \in [Installers -> Installer] /\ inst[i] \in Installer /\ inst[i].id \in Ids
      /\ row \in [Ids -> ModelInstallRequest] /\ ReqTypeOK /\ Posted(inst[i]) /\ Tracked(i)
  BY DEF TypeInv, TypeOK, ReqTypeOK, Installer, TrackedInv, PostedStatus
<1>1. configMap' = configMap /\ inst[i].pc \in {"start", "deny", "report"}
  BY DEF PostAnswered, PostRaises, vllmVars
<1>2. inst'[i].pc \in {"scale", "idle"}
  BY <1>0, IdleType DEF PostAnswered, PostRaises, Installer
<1>3. ASSUME configMap \in Restorable' PROVE Undone(i)'
  BY <1>1, <1>2, <1>3 DEF Undone, Quiet
<1>4. CASE UpdateStatus(inst[i].id, inst[i].status, inst[i].error)
  <2>1. /\ row'[inst[i].id].status = inst[i].status
        /\ row'[inst[i].id].error = inst[i].error
        /\ row'[inst[i].id].repo = row[inst[i].id].repo
    BY <1>0, <1>4 DEF UpdateStatus, ModelInstallRequest
  <2>2. CASE inst[i].pc = "report" /\ inst[i].status = "applied"
    <3>1. configMap = row[inst[i].id].repo
      BY <2>2 DEF Undone, Repo
    <3>2. configMap \in Sanctioned'
      BY <1>0, <2>1, <2>2, <3>1 DEF Sanctioned, AppliedModels, WithStatus
    <3> QED
      BY <1>3, <3>2 DEF Restorable
  <2>3. CASE /\ inst[i].pc = "report" /\ inst[i].status = "failed"
             /\ configMap = Repo(i) /\ faults > 0 /\ inst[i].error \in LateErrors
    <3>1. inst[i].id \in FailedAfterPatch'
      BY <1>0, <2>1, <2>3 DEF FailedAfterPatch, WithStatus, LateErrors
    <3>2. configMap \in LeftBehind' /\ faults' > 0
      BY <2>1, <2>3, <3>1 DEF LeftBehind, Repo
    <3> QED
      BY <1>3, <3>2 DEF Restorable
  <2>4. CASE configMap \in Restorable
    BY <1>3, <2>4
  <2> QED
    BY <1>0, <1>1, <2>2, <2>3, <2>4 DEF Undone, Quiet, Posted
<1>5. CASE PostRaises(i) /\ UNCHANGED row
  <2>1. inst'[i].pc \in {"idle", "off"}
    BY <1>0, <1>5, IdleType DEF PostRaises
  <2>2. faults' > 0
    BY <1>5 DEF PostRaises, Fault
  <2>3. inst[i].pc \in Working => row'[inst[i].id].status = "installing"
    BY <1>0, <1>5 DEF Tracked
  <2> QED
    BY <1>1, <2>1, <2>2, <2>3, CutOff
<1> QED
  BY <1>4, <1>5 DEF PostAnswered, PostRaises, reqVars

\* Every other step of the installer keeps the way back, or gives it up by a fault.
LEMMA UndoneStep ==
  ASSUME Single, TypeInv, TrackedInv, NEW i \in Installers, Undone(i), RunOnce(i) \/ Restart(i),
         Restorable \subseteq Restorable', faults > 0 => faults' > 0, faults \in Nat, faults' \in Nat,
         inst[i].pc \in Working => row'[inst[i].id].repo = row[inst[i].id].repo
  PROVE  Undone(i)'
<1>0. /\ inst \in [Installers -> Installer] /\ inst[i] \in Installer /\ inst[i].id \in Ids
      /\ configMap \in Repos /\ Posted(inst[i]) /\ ReqTypeOK
  BY DEF TypeInv, TypeOK, Installer, TrackedInv, PostedStatus
<1>1. CASE PickPending(i)
  <2>1. inst'[i].pc \in {"start", "deny"} /\ inst[i].pc = "idle" /\ configMap' = configMap
    BY <1>0, <1>1 DEF PickPending, vllmVars
  <2> QED
    BY <2>1 DEF Undone, Quiet
<1>2. CASE PostAnswered(i) \/ PostRaises(i)
  BY <1>2, UndoneByPost
<1>3. CASE Restart(i)
  <2>1. inst'[i].pc \in {"idle", "off"} /\ row' = row /\ configMap' = configMap
    BY <1>0, <1>3 DEF Restart, Idle, vllmVars, reqVars
  <2>2. faults' > 0
    BY <1>3 DEF Restart, Fault
  <2>3. inst[i].pc \in Working => row'[inst[i].id].status = "installing"
    BY <2>1 DEF TrackedInv, Tracked
  <2> QED
    BY <2>1, <2>2, <2>3, CutOff
<1>4. ASSUME NEW pc, Goto(i, pc)
      PROVE  /\ inst'[i].pc = pc /\ inst'[i].id = inst[i].id /\ inst'[i].prev = inst[i].prev
             /\ inst'[i].status = inst[i].status /\ inst'[i].error = inst[i].error
  BY <1>0, <1>4 DEF Goto, Installer
<1>5. ASSUME NEW status, NEW error, Report(i, status, error)
      PROVE  /\ inst'[i].pc = "report" /\ inst'[i].status = status /\ inst'[i].error = error
             /\ inst'[i].id = inst[i].id
  BY <1>0, <1>5 DEF Report, Installer
<1>6. CASE ScaleNodegroup(i)
  <2>1. inst[i].pc = "scale" /\ configMap' = configMap
    BY <1>6 DEF ScaleNodegroup, vllmVars
  <2>2. configMap \in Restorable
    BY <2>1 DEF Undone, Quiet
  <2>3. inst'[i].pc = "get_model" \/ (inst'[i].pc = "report" /\ inst'[i].status = "failed")
    BY <1>4, <1>5, <1>6 DEF ScaleNodegroup
  <2> QED
    BY <2>1, <2>2, <2>3 DEF Undone, Quiet
<1>7. CASE GetModel(i)
  <2>1. /\ inst[i].pc = "get_model" /\ inst'[i].pc = "patch_configmap" /\ configMap' = configMap
        /\ \/ inst'[i].prev = configMap
           \/ inst'[i].prev = NoPrevious /\ faults' > 0
    BY <1>0, <1>7 DEF GetModel, Fault, NoFault, vllmVars, Installer
  <2> QED
    BY <2>1 DEF Undone, Quiet, NoWayBack
<1>8. CASE PatchConfigMap(i)
  <2>1. inst[i].pc = "patch_configmap" /\ row' = row /\ configMap \in Restorable
    BY <1>8 DEF PatchConfigMap, reqVars, Undone, Quiet
  <2>2. CASE Goto(i, "patch_deployment") /\ configMap' = Repo(i)
    <3>1. inst'[i].pc = "patch_deployment" /\ inst'[i].prev = inst[i].prev /\ Repo(i)' = Repo(i)
      BY <1>4, <2>1, <2>2 DEF Repo
    <3> QED
      BY <2>1, <2>2, <3>1 DEF Undone, Quiet, NoWayBack
  <2>3. CASE Fault /\ Report(i, "failed", "vllm_apply_failed") /\ configMap' \in {configMap, Repo(i)}
    <3>1. /\ inst'[i].pc = "report" /\ inst'[i].status = "failed" /\ faults' > 0
          /\ inst'[i].error \in LateErrors /\ Repo(i)' = Repo(i)
      BY <1>5, <2>1, <2>3 DEF Repo, LateErrors, Fault
    <3> QED
      BY <2>1, <2>3, <3>1 DEF Undone, Quiet
  <2> QED
    BY <1>8, <2>2, <2>3 DEF PatchConfigMap
<1>9. CASE PatchDeployment(i)
  <2>1. /\ inst[i].pc = "patch_deployment" /\ row' = row /\ configMap' = configMap
        /\ configMap = Repo(i) /\ (inst[i].prev \in Restorable \/ NoWayBack(i))
    BY <1>9 DEF PatchDeployment, reqVars, Undone
  <2>2. CASE Goto(i, "wait_ready")
    <3>1. inst'[i].pc = "wait_ready" /\ inst'[i].prev = inst[i].prev /\ Repo(i)' = Repo(i)
      BY <1>4, <2>1, <2>2 DEF Repo
    <3> QED
      BY <2>1, <3>1 DEF Undone, Quiet, NoWayBack
  <2>3. CASE Fault /\ Report(i, "failed", "vllm_apply_failed")
    <3>1. /\ inst'[i].pc = "report" /\ inst'[i].status = "failed" /\ faults' > 0
          /\ inst'[i].error \in LateErrors /\ Repo(i)' = Repo(i)
      BY <1>5, <2>1, <2>3 DEF Repo, LateErrors, Fault
    <3> QED
      BY <2>1, <3>1 DEF Undone, Quiet
  <2> QED
    BY <1>9, <2>2, <2>3 DEF PatchDeployment
<1>10. CASE WaitReady(i)
  <2>1. /\ inst[i].pc = "wait_ready" /\ configMap' = configMap /\ row' = row
        /\ configMap = Repo(i) /\ (inst[i].prev \in Restorable \/ NoWayBack(i))
    BY <1>10 DEF WaitReady, vllmVars, reqVars, Undone
  <2>2. CASE Report(i, "applied", "none")
    <3>1. inst'[i].pc = "report" /\ inst'[i].status = "applied" /\ Repo(i)' = Repo(i)
      BY <1>5, <2>1, <2>2 DEF Repo
    <3> QED
      BY <2>1, <3>1 DEF Undone, Quiet
  <2>3. ASSUME NEW error \in LateErrors, StartRollback(i, error)
        PROVE  Undone(i)'
    <3>1. /\ inst'[i].status = "failed" /\ inst'[i].error = error
          /\ inst'[i].id = inst[i].id /\ inst'[i].prev = inst[i].prev
          /\ inst'[i].pc = IF inst[i].prev \in {NoPrevious, Repo(i)} THEN "report" ELSE "rollback_configmap"
      BY <1>0, <2>3 DEF StartRollback, Installer
    <3>2. Repo(i)' = Repo(i)
      BY <2>1, <3>1 DEF Repo
    <3>3. CASE inst[i].prev = NoPrevious /\ faults > 0
      BY <2>1, <2>3, <3>1, <3>2, <3>3 DEF Undone, Quiet
    <3>4. CASE inst[i].prev \in Restorable
      <4>1. inst[i].prev # NoPrevious
        BY <1>0, <3>4, InstallAssumption
        DEF Restorable, Sanctioned, AppliedModels, LeftBehind, Orphans, FailedAfterPatch, WithStatus,
            NoPrevious, ReqTypeOK, ModelInstallRequest
      <4> QED
        BY <2>1, <2>3, <3>1, <3>2, <3>4, <4>1 DEF Undone, Quiet
    <3> QED
      BY <2>1, <3>3, <3>4 DEF NoWayBack
  <2> QED
    BY <1>10, <2>2, <2>3 DEF WaitReady, LateErrors
<1>11. CASE RollbackConfigMap(i)
  <2>1. /\ inst[i].pc = "rollback_configmap" /\ row' = row /\ configMap = Repo(i)
        /\ inst[i].prev \in Restorable /\ inst[i].error \in LateErrors /\ inst[i].status = "failed"
    BY <1>0, <1>11 DEF RollbackConfigMap, reqVars, Undone, Posted
  <2>2. CASE Goto(i, "rollback_deployment") /\ configMap' = inst[i].prev
    <3>1. /\ inst'[i].pc = "rollback_deployment" /\ inst'[i].prev = inst[i].prev
          /\ inst'[i].error = inst[i].error
      BY <1>4, <2>2
    <3> QED
      BY <2>1, <2>2, <3>1 DEF Undone, Quiet
  <2>3. CASE Fault /\ Goto(i, "report") /\ configMap' \in {configMap, inst[i].prev}
    <3>1. /\ inst'[i].pc = "report" /\ inst'[i].status = "failed" /\ inst'[i].error = inst[i].error
          /\ faults' > 0 /\ Repo(i)' = Repo(i)
      BY <1>4, <2>1, <2>3 DEF Repo, Fault
    <3> QED
      BY <2>1, <2>3, <3>1 DEF Undone, Quiet
  <2> QED
    BY <1>11, <2>2, <2>3 DEF RollbackConfigMap
<1>12. CASE RollbackDeployment(i)
  <2>1. /\ inst[i].pc = "rollback_deployment" /\ configMap' = configMap
        /\ configMap = inst[i].prev /\ inst[i].prev \in Restorable /\ inst[i].status = "failed"
    BY <1>0, <1>12 DEF RollbackDeployment, Undone, Posted
  <2>2. inst'[i].pc = "report" /\ inst'[i].status = "failed"
    BY <1>4, <1>12, <2>1 DEF RollbackDeployment
  <2> QED
    BY <2>1, <2>2 DEF Undone, Quiet
<1> QED
  BY <1>1, <1>2, <1>3, <1>6, <1>7, <1>8, <1>9, <1>10, <1>11, <1>12 DEF RunOnce

\* Every step of the system keeps it.
LEMMA UndoneInvStep ==
  ASSUME Single, TypeInv, TrackedInv, UndoneInv, [Next]_vars
  PROVE  UndoneInv'
<1> SUFFICES ASSUME NEW i \in Installers
             PROVE  Undone(i)'
  BY DEF UndoneInv
<1>1. /\ Restorable \subseteq Restorable' /\ (faults > 0 => faults' > 0)
      /\ faults \in Nat /\ faults' \in Nat
  BY RestorableGrows
<1>2. Undone(i)
  BY DEF UndoneInv
<1>3. inst[i].pc \in Working => row'[inst[i].id].repo = row[inst[i].id].repo
  BY RepoStays
<1>4. CASE UNCHANGED <<inst, configMap>>
  <2>1. inst[i].pc \in Working => Repo(i)' = Repo(i)
    BY <1>3, <1>4 DEF Repo
  <2> QED
    BY <1>1, <1>2, <1>4, <2>1 DEF Undone, Quiet, Working, NoWayBack
<1>5. CASE \E j \in Installers : RunOnce(j) \/ Restart(j)
  <2>1. RunOnce(i) \/ Restart(i)
    BY <1>5 DEF Single
  <2> QED
    BY <1>1, <1>2, <1>3, <2>1, UndoneStep
<1>6. CASE ControlPlane \/ DeliverLate \/ Release \/ UNCHANGED vars
  BY <1>4, <1>6
  DEF ControlPlane, DeliverLate, Release, PodStart, PodReady, PodCrashLoop, PodCrash,
      instVars, vllmVars, vars
<1> QED
  BY <1>5, <1>6 DEF Next

\* With one installer and no late delivery, whatever loads and whatever does not, in
\* any order: between two installs the release is configured for the deployed model
\* or for one whose request was reported applied; after a fault it may also be left
\* at the model of a request that failed after its patch or is stranded, no other.
THEOREM FailedLoadsAreUndone ==
  ASSUME Single, Installers # {}
  PROVE  Spec => []RollbackRestores
<1>1. Init => TrackedInv /\ UndoneInv
  <2> SUFFICES ASSUME Init PROVE TrackedInv /\ UndoneInv
    OBVIOUS
  <2>1. \A i \in Installers : inst[i].pc = "idle"
    BY DEF Init, Idle
  <2> QED
    BY <2>1 DEF Init, TrackedInv, Tracked, PostedStatus, Posted, Working, UndoneInv, Undone,
                Restorable, Sanctioned
<1>2. TypeInv /\ [Next]_vars => TypeInv'
  BY TypeStep
<1>3. TypeInv /\ TrackedInv /\ [Next]_vars => TrackedInv'
  BY TrackedStep
<1>4. TypeInv /\ TrackedInv /\ UndoneInv /\ [Next]_vars => UndoneInv'
  BY UndoneInvStep
<1>5. TypeInv /\ UndoneInv => RollbackRestores
  BY DEF TypeInv, TypeOK, UndoneInv, Undone, RollbackRestores, Restorable
<1> QED
  BY TypeInit, <1>1, <1>2, <1>3, <1>4, <1>5, PTL DEF Spec
============================================================================
