----------------------------- MODULE Reconciler -----------------------------
(***************************************************************************)
(* The Platform reconciler of the kubefox operator                        *)
(* (src/components/operator/controller/platform_controller.go) for one     *)
(* Platform object.  controller-runtime runs Reconcile for one key at a    *)
(* time from a de-duplicating work queue; every API call of a pass (to     *)
(* Kubernetes or to Vault) is a step of its own, which may fail, and the   *)
(* cluster changes between them.  setupMap lives in the operator's memory  *)
(* and is lost when the operator restarts; Vault keeps what was written.   *)
(***************************************************************************)
EXTENDS Naturals, Sequences, FiniteSets

CONSTANTS
    CompSeq,       \* the platform components in the order reconcile sets them up
    CommitsValid   \* build.Info's broker and httpsrv commits match RegexpCommit

Comps == {CompSeq[i] : i \in 1..Len(CompSeq)}

ASSUME ReconcilerAssumption ==
    /\ CompSeq \in Seq(STRING) /\ Len(CompSeq) > 0
    /\ \A i, j \in 1..Len(CompSeq) : CompSeq[i] = CompSeq[j] => i = j
    /\ \A i \in 1..Len(CompSeq) : CompSeq[i] \notin {"none", "Unknown", "True"}
    /\ CommitsValid \in BOOLEAN

\* Vault calls of setupVaultPlatform, in order: the cluster and the
\* namespace data stores, then the five PKI writes (mount, config/urls,
\* intermediate/generate, root/sign-intermediate, intermediate/set-signed).
NumVaultCalls == 7
FirstPKICall  == 3
PKIDone       == NumVaultCalls - FirstPKICall + 1

\* Values of the Available condition: none yet, Unknown (reconcile failed),
\* True, or False with "component c is unavailable" as reason.
CondVal == {"none", "Unknown", "True"} \cup Comps

Phase == {"idle", "getNs", "getPlat", "reconcile", "vault", "applyPlat",
          "compVault", "compSetup", "apps", "status"}

VARIABLES
    rpc,        \* where the reconcile pass is
    ci,         \* index in CompSeq of the component being set up
    vi,         \* index of the next Vault call of setupVaultPlatform
    work,       \* platform.Status.Conditions as modified by this pass
    rerr,       \* reconcileErr
    queued,     \* the Platform's key is in the work queue
    setupPlat,  \* setupMap[platform key]
    setupComp,  \* setupMap[td.Name()] per component
    ds,         \* Vault: data stores created (0..2)
    pki,        \* Vault: PKI writes done on the Platform's mount (0..PKIDone)
    vcomp,      \* Vault: role, policies and k8s role of each component written
    nsPhase,    \* the Namespace: "absent", "active" or "terminating"
    platform,   \* the Platform object exists
    debugBad,   \* spec.debug.enabled, name not "debug" and namespace not "kubefox-debug"
    caCM,       \* the root CA ConfigMap exists
    applied,    \* the component's workload was applied by SetupComponent
    ready,      \* the component's workload is ready
    cond,       \* the Available condition stored in the Platform's status
    changed,    \* the Platform was written since this pass read it
    flaky       \* API calls may still fail and the cluster may still change

passVars    == <<rpc, ci, vi, work, rerr>>
vaultVars   == <<ds, pki, vcomp>>
clusterVars == <<nsPhase, platform, debugBad, caCM, applied, ready, cond, changed>>
vars == <<passVars, queued, setupPlat, setupComp, vaultVars, clusterVars, flaky>>

TypeOK ==
    /\ rpc \in Phase
    /\ ci \in 1..Len(CompSeq)
    /\ vi \in 1..NumVaultCalls
    /\ work \in CondVal
    /\ rerr \in BOOLEAN /\ queued \in BOOLEAN /\ setupPlat \in BOOLEAN
    /\ setupComp \in [Comps -> BOOLEAN]
    /\ ds \in 0..FirstPKICall - 1
    /\ pki \in 0..PKIDone
    /\ vcomp \in [Comps -> BOOLEAN]
    /\ nsPhase \in {"absent", "active", "terminating"}
    /\ platform \in BOOLEAN /\ debugBad \in BOOLEAN /\ caCM \in BOOLEAN
    /\ applied \in [Comps -> BOOLEAN] /\ ready \in [Comps -> BOOLEAN]
    /\ cond \in CondVal
    /\ changed \in BOOLEAN /\ flaky \in BOOLEAN

\* The operator starts with an empty setupMap and Vault untouched; the
\* initial list of Platforms fills the work queue.
Init ==
    /\ rpc = "idle" /\ ci = 1 /\ vi = 1 /\ work = "none" /\ rerr = FALSE
    /\ setupPlat = FALSE /\ setupComp = [c \in Comps |-> FALSE]
    /\ ds = 0 /\ pki = 0 /\ vcomp = [c \in Comps |-> FALSE]
    /\ nsPhase \in {"absent", "active"}
    /\ platform = (nsPhase = "active")
    /\ debugBad \in BOOLEAN /\ caCM \in BOOLEAN
    /\ applied = [c \in Comps |-> FALSE] /\ ready = [c \in Comps |-> FALSE]
    /\ cond = "none" /\ changed = FALSE
    /\ queued = platform
    /\ flaky = TRUE

\* A call of the pass that fails: an API error, a conflict, Vault down.
CallFails == flaky

\* Mutant: the error of a pass is dropped instead of requeued.
FinishNoRequeue(err) ==
    /\ rpc' = "idle"
    /\ queued' = queued

\* Reconcile returns: its error is handed to RetryConflictWebhookErr, and an
\* error puts the key back in the queue.
Finish(err) ==
    /\ rpc' = "idle"
    /\ queued' = (queued \/ err)

\* reconcile returns to Reconcile, with the conditions it left and its error;
\* Reconcile then records Unknown/ReconcileFailed or goes on to the apps.
Return(w, err) ==
    /\ rerr' = err
    /\ work' = IF err THEN "Unknown" ELSE w
    /\ rpc' = IF err THEN "status" ELSE "apps"

-----------------------------------------------------------------------------
(* The reconcile pass.                                                     *)

\* The worker takes the key off the queue.
Dequeue ==
    /\ rpc = "idle" /\ queued
    /\ rpc' = "getNs" /\ queued' = FALSE
    /\ UNCHANGED <<ci, vi, work, rerr, setupPlat, setupComp, vaultVars,
                   clusterVars, flaky>>

\* Reconcile: Get the Namespace.  Not found and terminating both clear the
\* setup flag and end the pass without error; another error is returned.
GetNs ==
    /\ rpc = "getNs"
    /\ \/ /\ nsPhase = "active"
          /\ rpc' = "getPlat"
          /\ UNCHANGED <<queued, setupPlat>>
       \/ /\ nsPhase # "active"
          /\ setupPlat' = FALSE
          /\ Finish(FALSE)
       \/ /\ CallFails
          /\ setupPlat' = FALSE
          /\ Finish(TRUE)
    /\ UNCHANGED <<ci, vi, work, rerr, setupComp, vaultVars, clusterVars, flaky>>

\* Reconcile: Get the Platform; the pass works on the copy it read.
GetPlat ==
    /\ rpc = "getPlat"
    /\ \/ /\ platform
          /\ rpc' = "reconcile" /\ work' = cond /\ changed' = FALSE
          /\ UNCHANGED <<queued, setupPlat>>
       \/ /\ ~platform
          /\ setupPlat' = FALSE
          /\ Finish(FALSE)
          /\ UNCHANGED <<work, changed>>
       \/ /\ CallFails
          /\ setupPlat' = FALSE
          /\ Finish(TRUE)
          /\ UNCHANGED <<work, changed>>
    /\ UNCHANGED <<ci, vi, rerr, setupComp, vaultVars, nsPhase, platform,
                   debugBad, caCM, applied, ready, cond, flaky>>

\* reconcile: skip a misconfigured debug Platform; fetch the root CA
\* ConfigMap (clearing the flag when that fails); then, unless the Platform
\* is already set up, check the build's commits and set up Vault.
ReconcileStart ==
    /\ rpc = "reconcile"
    /\ \/ /\ debugBad
          /\ Return(work, FALSE)
          /\ UNCHANGED <<vi, setupPlat>>
       \/ /\ ~debugBad /\ (~caCM \/ CallFails)
          /\ setupPlat' = FALSE
          /\ Return(work, TRUE)
          /\ UNCHANGED vi
       \/ /\ ~debugBad /\ caCM /\ setupPlat
          /\ rpc' = "applyPlat"
          /\ UNCHANGED <<vi, work, rerr, setupPlat>>
       \/ /\ ~debugBad /\ caCM /\ ~setupPlat /\ ~CommitsValid
          /\ Return(work, FALSE)
          /\ UNCHANGED <<vi, setupPlat>>
       \/ /\ ~debugBad /\ caCM /\ ~setupPlat /\ CommitsValid
          /\ rpc' = "vault" /\ vi' = 1
          /\ UNCHANGED <<work, rerr, setupPlat>>
    /\ UNCHANGED <<ci, queued, setupComp, vaultVars, clusterVars, flaky>>

\* Mutant: the data-store calls run past their two indices.
CreateDataStoreUnguarded ==
    /\ rpc = "vault"
    /\ ds' = IF vi > ds THEN vi ELSE ds
    /\ vi' = vi + 1
    /\ UNCHANGED <<rpc, ci, work, rerr, queued, setupPlat, setupComp, pki,
                   vcomp, clusterVars, flaky>>

\* setupVaultPlatform: CreateDataStore for the cluster, then for the
\* Namespace (idempotent).
CreateDataStore ==
    /\ rpc = "vault" /\ vi < FirstPKICall
    /\ ds' = IF vi > ds THEN vi ELSE ds
    /\ vi' = vi + 1
    /\ UNCHANGED <<rpc, ci, work, rerr, queued, setupPlat, setupComp, pki,
                   vcomp, clusterVars, flaky>>

\* setupVaultPlatform: MountConfig of the Platform's PKI path is non-nil,
\* so the whole PKI block is skipped, whatever it left undone before, and
\* the Platform is marked set up.
MountExists ==
    /\ rpc = "vault" /\ vi = FirstPKICall /\ pki > 0
    /\ setupPlat' = TRUE
    /\ rpc' = "applyPlat"
    /\ UNCHANGED <<ci, vi, work, rerr, queued, setupComp, vaultVars,
                   clusterVars, flaky>>

\* setupVaultPlatform: the next PKI write succeeds; after set-signed the
\* Platform is marked set up.
PKIWrite ==
    /\ rpc = "vault" /\ vi >= FirstPKICall
    /\ vi = FirstPKICall => pki = 0
    /\ pki' = vi - FirstPKICall + 1
    /\ IF vi = NumVaultCalls
          THEN /\ setupPlat' = TRUE /\ rpc' = "applyPlat"
               /\ UNCHANGED vi
          ELSE /\ vi' = vi + 1
               /\ UNCHANGED <<rpc, setupPlat>>
    /\ UNCHANGED <<ci, work, rerr, queued, setupComp, ds, vcomp, clusterVars,
                   flaky>>

\* setupVaultPlatform: GetClient or the next Vault call fails; what was
\* written stays written.
VaultFail ==
    /\ rpc = "vault" /\ CallFails
    /\ Return(work, TRUE)
    /\ UNCHANGED <<ci, vi, queued, setupPlat, setupComp, vaultVars,
                   clusterVars, flaky>>

\* reconcile: ApplyTemplate of the "platform" template.
ApplyPlat ==
    /\ rpc = "applyPlat"
    /\ \/ rpc' = "compVault" /\ ci' = 1 /\ UNCHANGED <<work, rerr>>
       \/ CallFails /\ Return(work, TRUE) /\ UNCHANGED ci
    /\ UNCHANGED <<vi, queued, setupPlat, setupComp, vaultVars, clusterVars,
                   flaky>>

\* The component being set up in this pass.
Cur == CompSeq[ci]

\* Mutant: the component's setup is looked up under the Platform's key.
CompVaultWrongKey ==
    /\ rpc = "compVault"
    /\ \/ /\ setupPlat
          /\ rpc' = "compSetup"
          /\ UNCHANGED <<work, rerr, setupComp, vcomp>>
       \/ /\ ~setupPlat
          /\ vcomp' = [vcomp EXCEPT ![Cur] = TRUE]
          /\ setupComp' = [setupComp EXCEPT ![Cur] = TRUE]
          /\ rpc' = "compSetup"
          /\ UNCHANGED <<work, rerr>>
       \/ /\ ~setupPlat /\ CallFails
          /\ Return(work, TRUE)
          /\ UNCHANGED <<setupComp, vcomp>>
    /\ UNCHANGED <<ci, vi, queued, setupPlat, ds, pki, clusterVars, flaky>>

\* setupVaultComponent: skipped when setupMap says the component is set
\* up; otherwise the role, the policies and the Kubernetes auth role are
\* written (idempotent overwrites) and the component is marked set up.  A
\* failure returns the error without touching the conditions.
CompVault ==
    /\ rpc = "compVault"
    /\ \/ /\ setupComp[Cur]
          /\ rpc' = "compSetup"
          /\ UNCHANGED <<work, rerr, setupComp, vcomp>>
       \/ /\ ~setupComp[Cur]
          /\ vcomp' = [vcomp EXCEPT ![Cur] = TRUE]
          /\ setupComp' = [setupComp EXCEPT ![Cur] = TRUE]
          /\ rpc' = "compSetup"
          /\ UNCHANGED <<work, rerr>>
       \/ /\ ~setupComp[Cur] /\ CallFails
          /\ Return(work, TRUE)
          /\ UNCHANGED <<setupComp, vcomp>>
    /\ UNCHANGED <<ci, vi, queued, setupPlat, ds, pki, clusterVars, flaky>>

\* CompMgr.SetupComponent applies the workload and reports whether it is
\* ready.  Not ready (or an error) sets Available False for this component
\* and returns chill(err): nil when the workload is merely not ready yet.
\* After the last component Available becomes True.
CompSetup ==
    /\ rpc = "compSetup"
    /\ \/ /\ applied' = [applied EXCEPT ![Cur] = TRUE]
          /\ IF ready[Cur] /\ ci < Len(CompSeq)
                THEN /\ ci' = ci + 1 /\ rpc' = "compVault"
                     /\ UNCHANGED <<work, rerr>>
                ELSE /\ Return(IF ready[Cur] THEN "True" ELSE Cur, FALSE)
                     /\ UNCHANGED ci
       \/ /\ CallFails
          /\ Return(Cur, TRUE)
          /\ UNCHANGED <<ci, applied>>
    /\ UNCHANGED <<vi, queued, setupPlat, setupComp, vaultVars, nsPhase,
                   platform, debugBad, caCM, ready, cond, changed, flaky>>

\* Reconcile: only when reconcile succeeded, CompMgr.ReconcileApps; its
\* error becomes reconcileErr.
Apps ==
    /\ rpc = "apps"
    /\ rpc' = "status"
    /\ \/ UNCHANGED rerr
       \/ CallFails /\ rerr' = TRUE
    /\ UNCHANGED <<ci, vi, work, queued, setupPlat, setupComp, vaultVars,
                   clusterVars, flaky>>

\* updateComponentsStatus: the platform pods are listed into
\* Status.Components (not a property's concern); the List may fail.
ComponentsStatusErr == {FALSE} \cup (IF CallFails THEN {TRUE} ELSE {})

\* Reconcile: updateComponentsStatus lists the pods (an error is kept if
\* there was none), then Status().Update writes the conditions.  The write
\* is refused when the Platform was deleted or changed since it was read
\* (resourceVersion conflict).  The error, if any, requeues the key.
Status ==
    /\ rpc = "status"
    /\ \E listErr \in ComponentsStatusErr :
          \/ /\ platform /\ ~changed
             /\ cond' = work
             /\ Finish(rerr \/ listErr)
          \/ /\ ~platform \/ changed \/ CallFails
             /\ Finish(TRUE)
             /\ UNCHANGED cond
    /\ UNCHANGED <<ci, vi, work, rerr, setupPlat, setupComp, vaultVars,
                   nsPhase, platform, debugBad, caCM, applied, ready, changed,
                   flaky>>

-----------------------------------------------------------------------------
(* The cluster, Vault's availability and the operator process.            *)

\* A Namespace and its Platform are created; the Platform event enqueues.
CreatePlatform ==
    /\ flaky /\ nsPhase = "absent"
    /\ nsPhase' = "active" /\ platform' = TRUE
    /\ cond' = "none" /\ changed' = TRUE /\ debugBad' \in BOOLEAN
    /\ queued' = TRUE
    /\ UNCHANGED <<passVars, setupPlat, setupComp, vaultVars, caCM, applied,
                   ready, flaky>>

\* The Platform's spec is edited (the debug settings); the update enqueues.
EditPlatform ==
    /\ flaky /\ platform
    /\ debugBad' = ~debugBad /\ changed' = TRUE
    /\ queued' = TRUE
    /\ UNCHANGED <<passVars, setupPlat, setupComp, vaultVars, nsPhase,
                   platform, caCM, applied, ready, cond, flaky>>

\* The Namespace is deleted: it is terminating and the Platform gets its
\* deletion timestamp, an update that enqueues.
DeleteNamespace ==
    /\ flaky /\ nsPhase = "active"
    /\ nsPhase' = "terminating" /\ changed' = TRUE
    /\ queued' = TRUE
    /\ UNCHANGED <<passVars, setupPlat, setupComp, vaultVars, platform,
                   debugBad, caCM, applied, ready, cond, flaky>>

\* The Namespace is gone with everything in it; the Platform's deletion
\* enqueues.  Vault keeps what was written for the Namespace.
NamespaceGone ==
    /\ nsPhase = "terminating"
    /\ nsPhase' = "absent" /\ platform' = FALSE /\ changed' = TRUE
    /\ applied' = [c \in Comps |-> FALSE] /\ ready' = [c \in Comps |-> FALSE]
    /\ cond' = "none"
    /\ queued' = TRUE
    /\ UNCHANGED <<passVars, setupPlat, setupComp, vaultVars, debugBad, caCM,
                   flaky>>

\* The root CA ConfigMap appears (it is not watched: nothing is enqueued).
CreateCA ==
    /\ flaky /\ ~caCM
    /\ caCM' = TRUE
    /\ UNCHANGED <<passVars, queued, setupPlat, setupComp, vaultVars,
                   nsPhase, platform, debugBad, applied, ready, cond, changed,
                   flaky>>

\* An applied workload becomes ready; the owned object's update enqueues.
BecomeReady(c) ==
    /\ applied[c] /\ ~ready[c]
    /\ ready' = [ready EXCEPT ![c] = TRUE]
    /\ queued' = TRUE
    /\ UNCHANGED <<passVars, setupPlat, setupComp, vaultVars, nsPhase,
                   platform, debugBad, caCM, applied, cond, changed, flaky>>

\* A ready workload stops being ready (pod lost); the update enqueues.
BecomeUnready(c) ==
    /\ flaky /\ ready[c]
    /\ ready' = [ready EXCEPT ![c] = FALSE]
    /\ queued' = TRUE
    /\ UNCHANGED <<passVars, setupPlat, setupComp, vaultVars, nsPhase,
                   platform, debugBad, caCM, applied, cond, changed, flaky>>

\* The operator restarts: the pass and setupMap are lost, Vault and the
\* cluster are not, and the initial list enqueues the existing Platform.
Restart ==
    /\ flaky
    /\ rpc' = "idle" /\ ci' = 1 /\ vi' = 1 /\ work' = "none" /\ rerr' = FALSE
    /\ setupPlat' = FALSE /\ setupComp' = [c \in Comps |-> FALSE]
    /\ queued' = platform
    /\ UNCHANGED <<vaultVars, clusterVars, flaky>>

\* From here on API calls succeed and the cluster is left alone.
Calm ==
    /\ flaky
    /\ flaky' = FALSE
    /\ UNCHANGED <<passVars, queued, setupPlat, setupComp, vaultVars,
                   clusterVars>>

-----------------------------------------------------------------------------
\* The steps of the controller's worker.
Step ==
    \/ Dequeue \/ GetNs \/ GetPlat \/ ReconcileStart
    \/ CreateDataStore \/ MountExists \/ PKIWrite \/ VaultFail
    \/ ApplyPlat \/ CompVault \/ CompSetup \/ Apps \/ Status

\* What the cluster, Vault's availability and the process do meanwhile.
Environment ==
    \/ CreatePlatform \/ EditPlatform \/ DeleteNamespace \/ NamespaceGone
    \/ CreateCA \/ Restart \/ Calm
    \/ \E c \in Comps : BecomeReady(c) \/ BecomeUnready(c)

Next == Step \/ Environment

\* The controller's worker runs whenever the queue holds the key or a pass
\* is under way, and an applied workload's pods eventually become ready.
\* Nothing is assumed of failures: they stop only if Calm happens.
Fairness ==
    /\ WF_vars(Step)
    /\ \A c \in Comps : WF_vars(BecomeReady(c))

Spec == Init /\ [][Next]_vars

FairSpec == Spec /\ Fairness

-----------------------------------------------------------------------------
(* Properties.                                                             *)

\* A Platform that reconcile can set up: its Namespace is active and it is
\* not a misconfigured debug Platform, and the root CA ConfigMap exists.
Sound == nsPhase = "active" /\ platform /\ ~debugBad /\ caCM

\* Available=True is only ever stored when every platform component's
\* workload was applied and its Vault role and policies were written,
\* across failed passes, operator restarts and concurrent Platform edits
\* (the skip on setupMap[td.Name()] and the status write of a stale copy).
AvailableMeansSetUp ==
    cond = "True" => \A c \in Comps : applied[c] /\ vcomp[c]

\* Available=True is only ever stored when the Platform's intermediate CA
\* was signed and installed in Vault (setupVaultPlatform completed).
AvailableMeansPKI ==
    cond = "True" => pki = PKIDone

\* Once failures stop, a Platform that can be set up becomes Available:
\* every path that ends a pass without reaching True either returns an
\* error (requeued) or waits for an event that enqueues it again (a
\* workload becoming ready).
Converges ==
    (~flaky /\ Sound) ~> (cond = "True")
=============================================================================
