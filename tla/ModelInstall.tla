---------------------------- MODULE ModelInstall ----------------------------
(***************************************************************************)
(* Self-serve model installs end to end: the control plane's request table *)
(* (ModelRequests), the model-installer reconcilers that work it off       *)
(* (src/app/model_installer), and the shared vLLM release they repoint.    *)
(*                                                                         *)
(* An installer is a process in run_forever.  One call of run_once is a    *)
(* walk through its pc, one action per remote call: other installers, the  *)
(* control plane and Kubernetes run in between.  Every call can fail;      *)
(* failures and crashes draw on FaultBudget.  A status post that times out *)
(* may be lost, may have been applied with its answer lost, or may be      *)
(* applied later (`late').                                                 *)
(*                                                                         *)
(* The vLLM release is external: one Deployment with one replica and       *)
(* Kubernetes' default rolling update (surge 1, no pod given up before its *)
(* successor is ready), whose pod reads MODEL_ID from the ConfigMap when   *)
(* its container starts.                                                   *)
(***************************************************************************)
EXTENDS ModelRequests

CONSTANTS
  Installers,        \* installer processes; more than one while a rollout overlaps
  InstallerAllowlist,\* the installer's own allow-list
  InitialModel,      \* the model the release is deployed with
  Loadable,          \* the models that vLLM can load
  FaultBudget,       \* bound: failed calls and crashes in a behaviour
  LateDelivery       \* bound: may a timed-out status post be applied later?

ASSUME InstallAssumption ==
  /\ {"repo_not_allowed", "repo_invalid", "gpu_provision_failed", "vllm_apply_failed",
      "load_timeout", "install_failed"} \subseteq ErrorClasses
  /\ InitialModel \in Repos
  /\ Loadable \subseteq Repos
  /\ {"absent", "none", "created"} \cap Repos = {}
  /\ LateDelivery \in BOOLEAN

ASSUME BudgetAssumption == FaultBudget \in Nat

VARIABLES
  inst,       \* installer -> the local variables of run_once
  faults,     \* failures and crashes so far
  late,       \* timed-out status posts the control plane has yet to apply
  configMap,  \* model_id in the vLLM ConfigMap
  serving,    \* the model of the release's ready pod, or "none"
  booting     \* the pod not ready yet: "none", "created" or the model it loads

instVars == <<inst, faults, late>>
vllmVars == <<configMap, serving, booting>>
vars == <<reqVars, instVars, vllmVars>>

\* pc values in which run_once holds a request it has marked installing.
Working == {"scale", "get_model", "patch_configmap", "patch_deployment", "wait_ready",
            "rollback_configmap", "rollback_deployment", "report"}
PCs == {"idle", "off", "start", "deny"} \cup Working

\* pc values in which run_once waits for a call of the Kubernetes client, which
\* sets no time-out: such a call may never return.
K8sCalls == {"get_model", "patch_configmap", "patch_deployment", "wait_ready",
             "rollback_configmap", "rollback_deployment"}

NoPrevious == "absent"

Installer ==
  [pc     : PCs,
   id     : Ids,                            \* rid; meaningless while idle or off
   prev   : Repos \cup {NoPrevious},        \* previous
   status : ReconcilerStatuses,             \* the status being posted
   error  : ErrorClasses]

Idle == [pc |-> "idle", id |-> 1, prev |-> NoPrevious, status |-> "failed", error |-> "none"]

TypeOK ==
  /\ ReqTypeOK
  /\ inst \in [Installers -> Installer]
  /\ faults \in 0..FaultBudget
  /\ late \subseteq Ids \X ReconcilerStatuses \X ErrorClasses
  /\ configMap \in Repos
  /\ serving \in Repos \cup {"none"}
  /\ booting \in Repos \cup {"none", "created"}

Repo(i) == row[inst[i].id].repo

----------------------------------------------------------------------------
\* The vLLM release (external).

\* The Deployment controller replaces any pod still booting by one of the new
\* template; the ready pod stays until the new one is ready.
Rollout == booting' = "created" /\ UNCHANGED serving

\* The container starts and resolves MODEL_ID.
PodStart ==
  /\ booting = "created"
  /\ booting' = configMap
  /\ UNCHANGED <<reqVars, instVars, configMap, serving>>

PodReady ==
  /\ booting \in Loadable
  /\ serving' = booting
  /\ booting' = "none"
  /\ UNCHANGED <<reqVars, instVars, configMap>>

\* A model that cannot be loaded: the container exits and is started again.
PodCrashLoop ==
  /\ booting \in Repos \ Loadable
  /\ booting' = "created"
  /\ UNCHANGED <<reqVars, instVars, configMap, serving>>

\* The serving pod dies; its restarted container resolves MODEL_ID afresh.
PodCrash ==
  /\ serving # "none"
  /\ faults < FaultBudget
  /\ faults' = faults + 1
  /\ serving' = "none"
  /\ booting' = IF booting = "none" THEN "created" ELSE booting
  /\ UNCHANGED <<reqVars, inst, late, configMap>>

----------------------------------------------------------------------------
\* The installer.

NoFault == UNCHANGED faults
Fault == faults < FaultBudget /\ faults' = faults + 1

Goto(i, pc) == inst' = [inst EXCEPT ![i].pc = pc]
Report(i, status, error) ==
  inst' = [inst EXCEPT ![i].pc = "report", ![i].status = status, ![i].error = error]

\* Mutant: the oldest row of all, pending or not.
IsOldestRow(id, S) == id \in S /\ \A other \in InTable : id <= other

\* pending[0]: list_pending orders by created_at.
IsOldest(id, S) == id \in S /\ \A other \in S : id <= other

\* Mutant: the installer trusts the control plane's allow-list.
DenyReasonFormatOnly(repo) == IF repo \in Malformed THEN "repo_invalid" ELSE "none"

DenyReason(repo) ==
  CASE repo \in Malformed -> "repo_invalid"
    [] ~IsRepoAllowed(InstallerAllowlist, repo) -> "repo_not_allowed"
    [] OTHER -> "none"

\* list_pending and the checks that precede the first set_status.
PickPending(i) ==
  /\ inst[i].pc = "idle"
  /\ \E id \in Ids :
       /\ IsOldest(id, Pending)
       /\ LET reason == DenyReason(row[id].repo)
          IN inst' = [inst EXCEPT ![i] =
               [pc     |-> IF reason = "none" THEN "start" ELSE "deny",
                id     |-> id,
                prev   |-> NoPrevious,
                status |-> IF reason = "none" THEN "installing" ELSE "failed",
                error  |-> reason]]
  /\ UNCHANGED <<reqVars, faults, late, vllmVars>>

\* Mutant: the owner hears of the end only.
PostAnsweredSilent(i) ==
  /\ inst[i].pc \in {"start", "deny", "report"}
  /\ row' = [row EXCEPT ![inst[i].id].status = inst[i].status, ![inst[i].id].error = inst[i].error]
  /\ IF inst[i].pc = "start" THEN UNCHANGED feed
     ELSE Notify(row[inst[i].id].owner, "model_install_updated", inst[i].id)
  /\ inst' = [inst EXCEPT ![i] =
                IF @.pc = "start" THEN [@ EXCEPT !.pc = "scale"] ELSE Idle]
  /\ UNCHANGED <<enabled, faults, late, vllmVars>>

\* set_status answered: run_once goes on after "installing", returns otherwise.
PostAnswered(i) ==
  /\ inst[i].pc \in {"start", "deny", "report"}
  /\ UpdateStatus(inst[i].id, inst[i].status, inst[i].error)
  /\ inst' = [inst EXCEPT ![i] =
                IF @.pc = "start" THEN [@ EXCEPT !.pc = "scale"] ELSE Idle]
  /\ UNCHANGED <<faults, late, vllmVars>>

\* set_status raises: run_once is abandoned, run_forever starts the next round.
PostRaises(i) ==
  /\ inst[i].pc \in {"start", "deny", "report"}
  /\ Fault
  /\ inst' = [inst EXCEPT ![i] = Idle]
  /\ \/ UpdateStatus(inst[i].id, inst[i].status, inst[i].error) /\ UNCHANGED late
     \/ UNCHANGED <<reqVars, late>>
     \/ /\ LateDelivery
        /\ late' = late \cup {<<inst[i].id, inst[i].status, inst[i].error>>}
        /\ UNCHANGED reqVars
  /\ UNCHANGED vllmVars

DeliverLate ==
  \E post \in late :
    /\ UpdateStatus(post[1], post[2], post[3])
    /\ late' = late \ {post}
    /\ UNCHANGED <<inst, faults, vllmVars>>

ScaleNodegroup(i) ==
  /\ inst[i].pc = "scale"
  /\ \/ NoFault /\ Goto(i, "get_model")
     \/ Fault /\ Report(i, "failed", "gpu_provision_failed")
  /\ UNCHANGED <<reqVars, late, vllmVars>>

GetModel(i) ==
  /\ inst[i].pc = "get_model"
  /\ \E previous \in {configMap, NoPrevious} :
       /\ IF previous = configMap THEN NoFault ELSE Fault
       /\ inst' = [inst EXCEPT ![i].pc = "patch_configmap", ![i].prev = previous]
  /\ UNCHANGED <<reqVars, late, vllmVars>>

\* set_model, first half.  A call that raises may still have been applied.
PatchConfigMap(i) ==
  /\ inst[i].pc = "patch_configmap"
  /\ \/ NoFault /\ Goto(i, "patch_deployment") /\ configMap' = Repo(i)
     \/ /\ Fault
        /\ Report(i, "failed", "vllm_apply_failed")
        /\ configMap' \in {configMap, Repo(i)}
  /\ UNCHANGED <<reqVars, late, serving, booting>>

\* set_model, second half: the restart annotation triggers a rollout.
PatchDeployment(i) ==
  /\ inst[i].pc = "patch_deployment"
  /\ \/ NoFault /\ Goto(i, "wait_ready") /\ Rollout
     \/ /\ Fault
        /\ Report(i, "failed", "vllm_apply_failed")
        /\ Rollout \/ UNCHANGED <<serving, booting>>
  /\ UNCHANGED <<reqVars, late, configMap>>

\* wait_ready is true as soon as the Deployment has an available replica and an
\* updated one: the pod of the previous rollout is enough for the first.
DeploymentReady == serving # "none"

\* Mutant: the failure is reported and nothing is rolled back.
StartNoRollback(i, error) == Report(i, "failed", error)

\* _rollback returns at once without a previous model to restore.
StartRollback(i, error) ==
  inst' = [inst EXCEPT
    ![i].pc = IF inst[i].prev \in {NoPrevious, Repo(i)} THEN "report" ELSE "rollback_configmap",
    ![i].status = "failed",
    ![i].error = error]

\* Mutant: run_once returns from a load that times out without a report.
WaitReadyForgets(i) ==
  /\ inst[i].pc = "wait_ready"
  /\ \/ DeploymentReady /\ NoFault /\ Report(i, "applied", "none")
     \/ ~DeploymentReady /\ NoFault /\ inst' = [inst EXCEPT ![i] = Idle]
     \/ Fault /\ StartRollback(i, "install_failed")
  /\ UNCHANGED <<reqVars, late, vllmVars>>

\* Mutant: a load that times out is tried again, without end.
WaitReadyRetries(i) ==
  /\ inst[i].pc = "wait_ready"
  /\ \/ DeploymentReady /\ NoFault /\ Report(i, "applied", "none")
     \/ ~DeploymentReady /\ NoFault /\ Goto(i, "scale")
     \/ Fault /\ StartRollback(i, "install_failed")
  /\ UNCHANGED <<reqVars, late, vllmVars>>

WaitReady(i) ==
  /\ inst[i].pc = "wait_ready"
  /\ \/ DeploymentReady /\ NoFault /\ Report(i, "applied", "none")
     \/ ~DeploymentReady /\ NoFault /\ StartRollback(i, "load_timeout")
     \/ Fault /\ StartRollback(i, "install_failed")
  /\ UNCHANGED <<reqVars, late, vllmVars>>

RollbackConfigMap(i) ==
  /\ inst[i].pc = "rollback_configmap"
  /\ \/ NoFault /\ Goto(i, "rollback_deployment") /\ configMap' = inst[i].prev
     \/ Fault /\ Goto(i, "report") /\ configMap' \in {configMap, inst[i].prev}
  /\ UNCHANGED <<reqVars, late, serving, booting>>

\* The annotation has a resolution of one second: a rollback in the second of
\* the failed set_model writes the stamp already there and restarts nothing.
RollbackDeployment(i) ==
  /\ inst[i].pc = "rollback_deployment"
  /\ Goto(i, "report")
  /\ \/ NoFault /\ Rollout
     \/ NoFault /\ inst[i].error = "install_failed" /\ UNCHANGED <<serving, booting>>
     \/ Fault /\ (Rollout \/ UNCHANGED <<serving, booting>>)
  /\ UNCHANGED <<reqVars, late, configMap>>

\* The process dies, or is redeployed, and comes back with its kill switch
\* (InstallerConfig.enabled) on or off; run_once keeps nothing across a restart.
Restart(i) ==
  /\ Fault
  /\ \E pc \in {"idle", "off"} : inst' = [inst EXCEPT ![i] = [Idle EXCEPT !.pc = pc]]
  /\ UNCHANGED <<reqVars, late, vllmVars>>

RunOnce(i) ==
  \/ PickPending(i)
  \/ PostAnswered(i)
  \/ PostRaises(i)
  \/ ScaleNodegroup(i)
  \/ GetModel(i)
  \/ PatchConfigMap(i)
  \/ PatchDeployment(i)
  \/ WaitReady(i)
  \/ RollbackConfigMap(i)
  \/ RollbackDeployment(i)

----------------------------------------------------------------------------
Init ==
  /\ ReqInit
  /\ inst = [i \in Installers |-> Idle]
  /\ faults = 0
  /\ late = {}
  /\ configMap = InitialModel
  /\ \/ serving = InitialModel /\ booting = "none"
     \/ serving = "none" /\ booting = "created"  \* no GPU node yet: scaled to zero

ControlPlane == (Create \/ SetEnabled) /\ UNCHANGED <<instVars, vllmVars>>
Release == PodStart \/ PodReady \/ PodCrashLoop \/ PodCrash

Next ==
  \/ ControlPlane
  \/ DeliverLate
  \/ Release
  \/ \E i \in Installers : RunOnce(i) \/ Restart(i)

Spec == Init /\ [][Next]_vars

\* run_forever polls without end.  The posts and the list of pending requests have
\* a socket time-out and small answers, boto3 its own time-outs under wait_s, so an
\* installer that waits for one of these goes on; create handlers return.  Nothing
\* is assumed of the Kubernetes calls, of users, operators, faults or of the time
\* vLLM takes to load.
Fairness ==
  /\ \A i \in Installers : WF_vars(inst[i].pc \notin K8sCalls /\ RunOnce(i))
  /\ \A id \in Ids : WF_vars((CreateInsert(id) \/ CreateFail(id)) /\ UNCHANGED <<instVars, vllmVars>>)

FairSpec == Spec /\ Fairness

----------------------------------------------------------------------------
\* Properties.

Holds(i, id) == inst[i].pc \in Working /\ inst[i].id = id

\* Rows marked installing that no installer will ever advance again.
Orphans == {id \in Ids : row[id].status = "installing" /\ ~\E i \in Installers : Holds(i, id)}

\* list_pending returns "requested" rows only, so a row left in "installing" is
\* never retried.  Each such row, and each late post that would make one, costs
\* a fault of its own: without crashes and failed posts none is ever stranded.
OrphansCostFaults ==
  Cardinality(Orphans) + Cardinality({post \in late : post[2] = "installing"}) <= faults

\* Whatever order installs, failures and rollbacks come in, the shared release
\* only ever points at, loads or serves its deployed model or a well-formed repo
\* that is on the control plane's allow-list and on the installer's.
Vetted(m) ==
  \/ m = InitialModel
  \/ m \notin Malformed /\ IsRepoAllowed(CpAllowlist, m) /\ IsRepoAllowed(InstallerAllowlist, m)
ReleaseVetted ==
  /\ Vetted(configMap)
  /\ serving # "none" => Vetted(serving)
  /\ booting \notin {"none", "created"} => Vetted(booting)

\* With one installer and no late delivery a row only moves
\* requested -> installing -> applied | failed, or is denied straight from
\* requested; the update has no guard of its own, the order comes from run_once.
LegalMove(old, new) ==
  <<old, new>> \in
    {<<"absent", "creating">>, <<"creating", "absent">>, <<"creating", "requested">>,
     <<"requested", "installing">>, <<"requested", "failed">>,
     <<"installing", "applied">>, <<"installing", "failed">>}
LifecycleOrdered ==
  [][\A id \in Ids : row'[id].status # row[id].status =>
        LegalMove(row[id].status, row'[id].status)]_vars

\* With one installer and no late delivery a load that times out is undone:
\* whenever the installer is between installs the release is configured for the
\* deployed model or for the model of a request reported applied.  Faults break
\* this in one way only: a second patch of set_model that fails, a rollback that
\* fails or knows no previous model, or a process that dies on the way leaves the
\* ConfigMap at the model of a request that has failed at that stage or is
\* stranded; a request refused, or failed before set_model, never leaves its model.
Quiet(i) == inst[i].pc \in {"idle", "off", "start", "deny", "scale", "get_model", "patch_configmap"}
AppliedModels == {row[id].repo : id \in WithStatus({"applied"})}
FailedAfterPatch ==
  {id \in WithStatus({"failed"}) :
     row[id].error \in {"vllm_apply_failed", "load_timeout", "install_failed"}}
LeftBehind == {row[id].repo : id \in Orphans \cup FailedAfterPatch}
Sanctioned == {InitialModel} \cup AppliedModels
RollbackRestores ==
  (\A i \in Installers : Quiet(i)) =>
    configMap \in Sanctioned \/ (faults > 0 /\ configMap \in LeftBehind)

\* Kubernetes answers installer i: it is not stuck in one of its calls.
K8sReturns(i) == []<>(inst[i].pc \notin K8sCalls)

\* While installs stay enabled and some installer is running whose Kubernetes calls
\* return, no request waits for ever, even though posts fail and installers crash.
PendingPickedUp ==
  \A i \in Installers : <>[](enabled /\ inst[i].pc # "off") /\ K8sReturns(i) =>
    \A id \in Ids : row[id].status = "requested" ~> row[id].status # "requested"

\* If Kubernetes calls return, a request picked up is decided, also after faults,
\* unless its own round was cut off by a crash or a failed post.
InstallingResolves ==
  (\A i \in Installers : K8sReturns(i)) =>
    \A id \in Ids :
      row[id].status = "installing" ~> row[id].status \in {"applied", "failed"} \/ id \in Orphans

\* What run_once logs and reports at reconciler.py:138-139: when a request is
\* reported applied, "model is serving".
AppliedIsServing ==
  \A i \in Installers :
    inst[i].pc = "report" /\ inst[i].status = "applied" => serving = Repo(i)
============================================================================
