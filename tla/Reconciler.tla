---------------------------- MODULE Reconciler ----------------------------
(***************************************************************************)
(* The life of one ZarfPackage under ZarfPackageReconciler                 *)
(* (src/internal/controller/zarfpackage_controller.go): the stored object, *)
(* the informer cache the reconciler reads, the in-memory copy it works on *)
(* and patches back, and what Zarf has in the cluster.                     *)
(*                                                                         *)
(* The work queue gives a key to one worker at a time, so there is one     *)
(* reconcile in progress.  It is cut where it calls the API server or the  *)
(* sidecar; users, the cache, crashes and the connection monitor act in    *)
(* between.  Sources are tags of one OCI repository ordered by version;    *)
(* the package has no upgradePolicy.                                       *)
(***************************************************************************)
EXTENDS Naturals, Patches

CONSTANTS Sources,      \* versions of spec.source; 0 is the empty string
          Values,       \* the other deployment-affecting fields of the spec
          MaxRetries,   \* spec.maxRetries, 0 for unlimited
          Webhook,      \* whether the admission webhooks are enabled
          Faults,       \* what may go wrong around the reconciler
          SidecarCodes, \* how Deploy and Remove may fail
          EditsRace,    \* users edit whenever they like, not only at rest;
                        \*   they delete whenever they like
          MaxEdits,     \* bound: edits users make
          MaxFailures   \* bound: FailureCount that is told apart

ASSUME ReconcilerAssumption ==
    /\ Sources \subseteq Nat \ {0} /\ Values \subseteq Nat \ {0}
    /\ MaxRetries \in Nat /\ MaxEdits \in Nat /\ MaxFailures \in Nat
    /\ MaxRetries <= MaxFailures
    /\ Webhook \in BOOLEAN /\ EditsRace \in BOOLEAN
    /\ Faults \subseteq {"crash", "patch", "lag", "secret", "outage", "lookup",
                         "dependency", "drift"}
    /\ "outage" \in Faults => {"Canceled", "Error"} \subseteq SidecarCodes
    /\ SidecarCodes \subseteq {"Busy", "Canceled", "Rejected", "Error"}

VARIABLES obj,        \* the object in the API server
          cache,      \* what the informer cache last saw of it
          queued,     \* the key is in the work queue, or a timer will add it
          client,     \* ZarfPackageReconciler.ZarfClient is not nil
          cluster,    \* what Zarf has deployed under the package's name
          pc,         \* where the reconcile stands
          mem,        \* zarfPkg: the copy being worked on
          original,   \* original.Status
          plan,       \* what deploy was decided on
          hasClient,  \* zarfClient, read once per reconcile
          sendsRV,    \* mem has a newer resourceVersion than original, so that
                      \*   the next patch carries it
          fresh,      \* that resourceVersion is still the stored one
          edits       \* how many edits users have made

worker == <<pc, mem, original, plan, hasClient, sendsRV, fresh>>
vars == <<obj, cache, queued, client, cluster, worker, edits>>

-----------------------------------------------------------------------------
(* The object and its status *)

Phases == {"", "Pending", "Deploying", "Deployed", "Failed", "Removing"}

(* Reasons of the Ready condition, which is True for "Deployed" only;
   "SecretNotFound" stands for the invalid secrets too. *)
Reasons == {"", "Reconciling", "Deploying", "Deployed", "DeployFailed", "SecretNotFound",
            "MaxRetriesExceeded", "DependenciesNotMet", "RemoveFailed"}

Specs == [source : Sources, values : Values, suspend : BOOLEAN]

(* Mutant: only the source is hashed. *)
HashOfSource(spec) == <<spec.source>>

(* DeploymentHash tells apart what the deployment-affecting fields tell apart. *)
DeploymentHash(spec) == <<spec.source, spec.values>>
NoHash == <<>>

Statuses == [phase : Phases, packageName : BOOLEAN, source : Sources \cup {0},
             hash : (Sources \X Values) \cup {NoHash}, failureCount : 0..MaxFailures,
             ready : Reasons, attemptError : BOOLEAN]

ZeroStatus == [phase |-> "", packageName |-> FALSE, source |-> 0, hash |-> NoHash,
               failureCount |-> 0, ready |-> "", attemptError |-> FALSE]

Objects == [exists : BOOLEAN, spec : Specs, redeploy : BOOLEAN, finalizer : BOOLEAN,
            deleting : BOOLEAN, status : Statuses]

(* No object: not created, deleted, or no copy of it in memory. *)
NoObject == [exists |-> FALSE, spec |-> [source |-> 0, values |-> 0, suspend |-> FALSE],
             redeploy |-> FALSE, finalizer |-> FALSE, deleting |-> FALSE,
             status |-> ZeroStatus]

(* What Zarf has deployed.  "partial" is a deploy or remove that was cut off:
   Zarf reports a failed component for "failed" only. *)
Absent == [source |-> 0, values |-> 0, state |-> "absent"]
Deployment(source, values, state) == [source |-> source, values |-> values, state |-> state]

(* The reply to a patch is decoded over the object that was sent. *)
Decode(m, o) ==
    [o EXCEPT !.redeploy = m.redeploy \/ o.redeploy,
              !.status = DecodeOver(ZeroStatus, m.status, @)]

-----------------------------------------------------------------------------
(* Helpers of the reconciler *)

Inc(n) == IF n < MaxFailures THEN n + 1 ELSE n

recordFailure(st) == [st EXCEPT !.failureCount = Inc(@)]
resetFailures(st) == [st EXCEPT !.failureCount = 0]
maxRetriesExceeded(st) == MaxRetries > 0 /\ st.failureCount >= MaxRetries
markMaxRetriesExceeded(st) == [st EXCEPT !.phase = "Failed", !.ready = "MaxRetriesExceeded"]

(* One more failure, and the end of the retries when there were enough. *)
CountFailure(st) ==
    LET failed == recordFailure(st)
    IN IF maxRetriesExceeded(failed) THEN markMaxRetriesExceeded(failed) ELSE failed

isMaxRetriesTerminal(st) == st.phase = "Failed" /\ st.ready = "MaxRetriesExceeded"

(* A failed component in the status comes with an attempt error. *)
canPreserveCurrentDeployment(st) ==
    st.phase = "Deployed" /\ ~st.attemptError /\ st.ready = "Deployed"

shouldPreserveFailedReadyCondition(st) ==
    st.phase = "Failed" /\ st.attemptError /\ st.ready \in {"DeployFailed", "MaxRetriesExceeded"}

(* preferredResolvedSemverSource: the newer of the two, unless a redeploy was
   asked for. *)
deploymentSource(m) ==
    IF ~m.redeploy /\ m.status.source > m.spec.source THEN m.status.source ELSE m.spec.source

deploymentSpecChanged(m) == m.status.hash # DeploymentHash(m.spec)

(* The Secret lookups of the resolve functions fail alike. *)
SecretFailure(st) ==
    recordFailure([st EXCEPT !.phase = "Failed", !.ready = "SecretNotFound"])

syncStatusFromDeployed(st) == [st EXCEPT !.packageName = TRUE]

waitForDependencies(st, dep, preserve) ==
    IF dep.state \in {"healthy", "partial"} /\ canPreserveCurrentDeployment(st)
    THEN syncStatusFromDeployed(st)
    ELSE IF preserve THEN st
    ELSE [st EXCEPT !.phase = IF @ = "Failed" THEN @ ELSE "Pending",
                    !.ready = IF shouldPreserveFailedReadyCondition(st)
                              THEN @ ELSE "DependenciesNotMet"]

applyDeploySuccessStatus(m, source) ==
    [resetFailures(m.status) EXCEPT
        !.packageName = TRUE, !.source = source, !.attemptError = FALSE,
        !.phase = "Deployed", !.ready = "Deployed",
        !.hash = DeploymentHash(m.spec)]

-----------------------------------------------------------------------------
(* Reconcile *)

NoPlan == [source |-> 0, wasFailed |-> FALSE]

Init ==
    /\ \E spec \in Specs :
          /\ ~spec.suspend
          /\ obj = [NoObject EXCEPT !.exists = TRUE, !.spec = spec]
    /\ cache = obj
    /\ queued = TRUE
    /\ client = TRUE
    /\ cluster = Absent
    /\ pc = "idle"
    /\ mem = NoObject
    /\ original = ZeroStatus
    /\ plan = NoPlan
    /\ hasClient = FALSE
    /\ sendsRV = FALSE
    /\ fresh = FALSE
    /\ edits = 0

Read == IF "lag" \in Faults THEN cache ELSE obj

(* The worker has read the object and the client; it goes on at l with the
   status st in memory. *)
Begin(l, st) ==
    /\ pc' = l
    /\ mem' = [Read EXCEPT !.status = st]
    /\ original' = Read.status
    /\ hasClient' = client
    /\ queued' = FALSE
    /\ UNCHANGED <<obj, cache, client, cluster, plan, sendsRV, fresh, edits>>

(* The worker is done with the object; again when it asks for a requeue. *)
Rest(again) ==
    /\ pc' = "idle"
    /\ mem' = NoObject
    /\ original' = ZeroStatus
    /\ plan' = NoPlan
    /\ hasClient' = FALSE
    /\ sendsRV' = FALSE
    /\ fresh' = FALSE
    /\ queued' = (queued \/ again)

Goto(l, st) == pc' = l /\ mem' = [mem EXCEPT !.status = st]

(* No object, a deleted one without the finalizer, or a suspended one. *)
NothingToDo(o) ==
    \/ ~o.exists
    \/ o.deleting /\ ~o.finalizer
    \/ ~o.deleting /\ o.finalizer /\ o.spec.suspend

(* The condition that says so may fail to be stored. *)
Ignore ==
    /\ pc = "idle" /\ queued
    /\ NothingToDo(Read)
    /\ queued' \in IF "patch" \in Faults THEN BOOLEAN ELSE {FALSE}
    /\ UNCHANGED <<obj, cache, client, cluster, worker, edits>>

(* Requeued whether or not the patch succeeds. *)
AddFinalizer ==
    /\ pc = "idle" /\ queued
    /\ Read.exists /\ ~Read.deleting /\ ~Read.finalizer
    /\ \/ obj.exists /\ obj' = [obj EXCEPT !.finalizer = TRUE]
       \/ (~obj.exists \/ "patch" \in Faults) /\ UNCHANGED obj
    /\ UNCHANGED <<cache, queued, client, cluster, worker, edits>>

(* Mutant: the reconcile that adds the finalizer goes on. *)
ActiveWithoutFinalizer == Read.exists /\ ~Read.deleting /\ ~Read.spec.suspend

Active == Read.exists /\ ~Read.deleting /\ Read.finalizer /\ ~Read.spec.suspend

SidecarUnavailable ==
    /\ pc = "idle" /\ queued
    /\ Active /\ ~client
    /\ Begin("finish",
             CountFailure([Read.status EXCEPT !.phase = "Pending", !.ready = "Reconciling"]))

Terminal ==
    /\ pc = "idle" /\ queued
    /\ Active /\ client
    /\ isMaxRetriesTerminal(Read.status) /\ ~Read.redeploy
    /\ Begin("finish", Read.status)

(* Mutant: isMaxRetriesTerminal is not asked. *)
StartAlways ==
    /\ pc = "idle" /\ queued
    /\ Active /\ client
    /\ Begin("reconcile", Read.status)

StartReconcile ==
    /\ pc = "idle" /\ queued
    /\ Active /\ client
    /\ ~isMaxRetriesTerminal(Read.status) \/ Read.redeploy
    /\ Begin("reconcile", Read.status)

StartDeletion ==
    /\ pc = "idle" /\ queued
    /\ Read.exists /\ Read.deleting /\ Read.finalizer
    /\ Begin("removing", [Read.status EXCEPT !.phase = "Removing"])

-----------------------------------------------------------------------------
(* reconcile: the lookup of what is deployed, and deploymentDecision *)

(* Mutants: a failed attempt is forgotten; a changed spec is. *)
ForgetsFailure(dep, drift) ==
    \/ dep = Absent \/ mem.redeploy \/ dep.state = "failed" \/ deploymentSpecChanged(mem) \/ drift
ForgetsSpec(dep, drift) ==
    \/ dep = Absent \/ mem.redeploy \/ dep.state = "failed" \/ mem.status.phase = "Failed" \/ drift

needsDeploy(dep, drift) ==
    \/ dep = Absent
    \/ mem.redeploy
    \/ dep.state = "failed"
    \/ mem.status.phase = "Failed"
    \/ deploymentSpecChanged(mem)
    \/ drift

Decide(dep, lookupFailed) ==
    \E drift \in IF "drift" \in Faults THEN BOOLEAN ELSE {FALSE} :
        \/ /\ ~needsDeploy(dep, drift)
           /\ Goto("finish", [resetFailures(syncStatusFromDeployed(mem.status)) EXCEPT
                                !.phase = "Deployed", !.ready = "Deployed"])
           /\ UNCHANGED plan
        \/ /\ needsDeploy(dep, drift)
           /\ Goto("persist", [mem.status EXCEPT !.phase = "Deploying", !.ready = "Deploying"])
           /\ plan' = [source |-> deploymentSource(mem),
                       wasFailed |-> mem.status.phase = "Failed"]
        \/ /\ needsDeploy(dep, drift)
           /\ "dependency" \in Faults
           /\ \/ Goto("finish",
                       waitForDependencies(mem.status, dep,
                           lookupFailed /\ canPreserveCurrentDeployment(mem.status)))
              \/ Goto("finish", mem.status)    \* checkDependencies failed
           /\ UNCHANGED plan

(* reconcile goes on with what the lookup of the package found. *)
deployed == IF mem.status.packageName THEN cluster ELSE Absent

Found ==
    /\ pc = "reconcile"
    /\ Decide(deployed, FALSE)
    /\ UNCHANGED <<obj, cache, queued, client, cluster, original, hasClient, sendsRV, fresh, edits>>

(* Any error of the lookup counts as nothing deployed, but one of the secrets. *)
LookupFails ==
    /\ pc = "reconcile"
    /\ mem.status.packageName
    /\ \/ "lookup" \in Faults /\ Decide(Absent, TRUE)
       \/ "secret" \in Faults /\ Goto("finish", SecretFailure(mem.status)) /\ UNCHANGED plan
    /\ UNCHANGED <<obj, cache, queued, client, cluster, original, hasClient, sendsRV, fresh, edits>>

reconcile == Found \/ LookupFails

-----------------------------------------------------------------------------
(* deploy *)

(* Status().Patch: store what differs from original, read the reply back.
   A patch that changes nothing may leave the resourceVersion as it was. *)
PatchStatus ==
    /\ obj.exists
    /\ obj' = [obj EXCEPT !.status = MergePatch(original, mem.status, @)]
    /\ mem' = Decode(mem, obj')
    /\ original' = mem'.status
    /\ sendsRV' \in IF obj' = obj THEN BOOLEAN ELSE {TRUE}
    /\ fresh' = TRUE

PatchFails == ~obj.exists \/ "patch" \in Faults

(* The phase Deploying is stored; a failure to do so is only logged. *)
PersistDeploying ==
    /\ pc = "persist"
    /\ pc' = "prepare"
    /\ \/ PatchStatus
       \/ PatchFails /\ UNCHANGED <<obj, mem, original, sendsRV, fresh>>
    /\ UNCHANGED <<cache, queued, client, cluster, plan, hasClient, edits>>

(* How a remove that was not refused may leave the package. *)
Removals == IF cluster = Absent THEN {Absent}
            ELSE {Absent, cluster, [cluster EXCEPT !.state = "partial"]}

Reliable == SidecarCodes = {} /\ "lookup" \notin Faults

(* The secrets, and the cleanup after a failed attempt: it looks the package
   up and removes it, and goes on whatever comes of that. *)
preDeployCleanup ==
    /\ pc = "prepare"
    /\ \/ "secret" \in Faults /\ Goto("finish", SecretFailure(mem.status)) /\ UNCHANGED cluster
       \/ /\ Goto("deploy", mem.status)
          /\ IF plan.wasFailed /\ mem.status.packageName /\ cluster # Absent
             THEN cluster' \in IF Reliable THEN {Absent} ELSE Removals
             ELSE UNCHANGED cluster
    /\ UNCHANGED <<obj, cache, queued, client, original, plan, hasClient, sendsRV, fresh, edits>>

(* The source was decided on before the phase was stored, the other options
   are read after. *)
Attempted(state) == Deployment(plan.source, mem.spec.values, state)

(* How a deploy whose reply was an error, or was lost, may leave the package. *)
Attempts == {cluster} \cup {Attempted(state) : state \in {"partial", "failed", "healthy"}}

Deploying == pc \in {"deploy", "retry"}

DeploySucceeds ==
    /\ Deploying
    /\ cluster' = Attempted("healthy")
    /\ Goto(IF mem.redeploy THEN "clear" ELSE "finish",
            applyDeploySuccessStatus(mem, plan.source))
    /\ UNCHANGED <<obj, cache, queued, client, original, plan, hasClient, sendsRV, fresh, edits>>

DeployFailed(st) == [st EXCEPT !.phase = "Failed", !.attemptError = TRUE, !.ready = "DeployFailed"]

DeployFails(code) ==
    /\ Deploying
    /\ \/ /\ code = "Busy"
          /\ Goto("finish", [mem.status EXCEPT !.ready = "Deploying"])
          /\ UNCHANGED cluster
       \/ /\ code = "Canceled"
          /\ Goto("finish", mem.status)
          /\ cluster' \in Attempts
       \/ /\ code = "Rejected"    \* while loading, or by the image verification
          /\ Goto("finish", DeployFailed(mem.status))
          /\ cluster' \in {cluster, Attempted("healthy")}
       \/ /\ code = "Error"
          /\ Goto("finish", CountFailure(DeployFailed(mem.status)))
          /\ cluster' \in Attempts
    /\ UNCHANGED <<obj, cache, queued, client, original, plan, hasClient, sendsRV, fresh, edits>>

(* An error that names a stuck Helm operation is answered with one more call,
   once the stuck releases are repaired. *)
retryDeployAfterHelmRecovery ==
    /\ pc = "deploy" /\ "Error" \in SidecarCodes
    /\ pc' = "retry"
    /\ cluster' \in {cluster, Attempted("partial"), Attempted("failed")}
    /\ UNCHANGED <<obj, cache, queued, client, mem, original, plan, hasClient, sendsRV, fresh, edits>>

(* The annotation is cleared by a patch of the object itself: the status in
   the reply is the stored one. *)
ClearAnnotation ==
    /\ pc = "clear"
    /\ pc' = "finish"
    /\ \/ /\ obj.exists
          /\ obj' = [obj EXCEPT !.redeploy = FALSE]
          /\ mem' = Decode([mem EXCEPT !.redeploy = FALSE], obj')
          /\ sendsRV' = TRUE /\ fresh' = TRUE
       \/ PatchFails /\ UNCHANGED <<obj, mem, sendsRV, fresh>>
    /\ UNCHANGED <<cache, queued, client, cluster, original, plan, hasClient, edits>>

(* Mutant: a failed removal is not tried again. *)
UpdateOnce ==
    /\ pc = "finish"
    /\ Rest(mem.status.ready # "RemoveFailed")
    /\ \/ /\ obj.exists /\ (sendsRV => fresh)
          /\ obj' = [obj EXCEPT !.status = MergePatch(original, mem.status, @)]
       \/ (PatchFails \/ (sendsRV /\ ~fresh)) /\ UNCHANGED obj
    /\ UNCHANGED <<cache, client, cluster, edits>>

(* The deferred status patch: refused when it carries an old resourceVersion. *)
UpdateStatus ==
    /\ pc = "finish"
    /\ Rest(TRUE)
    /\ \/ /\ obj.exists /\ (sendsRV => fresh)
          /\ obj' = [obj EXCEPT !.status = MergePatch(original, mem.status, @)]
       \/ (PatchFails \/ (sendsRV /\ ~fresh)) /\ UNCHANGED obj
    /\ UNCHANGED <<cache, client, cluster, edits>>

-----------------------------------------------------------------------------
(* handleDeletion *)

(* The phase Removing is stored first.  Its patch is taken from a copy, so it
   sends nothing else. *)
PersistRemoving ==
    /\ pc = "removing"
    /\ \/ /\ obj.exists
          /\ obj' = [obj EXCEPT !.status.phase = "Removing"]
          /\ mem' = Decode(mem, obj')
          /\ sendsRV' \in IF obj' = obj THEN BOOLEAN ELSE {TRUE}
          /\ pc' = "remove" /\ original' = mem'.status /\ fresh' = TRUE
       \/ /\ ~obj.exists
          /\ pc' = "remove" /\ original' = mem.status
          /\ UNCHANGED <<obj, mem, sendsRV, fresh>>
       \/ /\ "patch" \in Faults
          /\ pc' = "finish"
          /\ UNCHANGED <<obj, mem, original, sendsRV, fresh>>
    /\ UNCHANGED <<cache, queued, client, cluster, plan, hasClient, edits>>

(* Mutant: the removal is tried once. *)
CallsRemoveOnce == mem.status.packageName /\ hasClient /\ mem.status.failureCount = 0

(* Without a client or a package name there is nothing to call. *)
CallsRemove == mem.status.packageName /\ hasClient

RemoveSucceeds ==
    /\ pc = "remove"
    /\ IF CallsRemove THEN cluster' = Absent ELSE UNCHANGED cluster
    /\ Goto("dropFinalizer", resetFailures(mem.status))
    /\ UNCHANGED <<obj, cache, queued, client, original, plan, hasClient, sendsRV, fresh, edits>>

RemoveFailed(st) == [st EXCEPT !.ready = "RemoveFailed"]

RemoveFails(code) ==
    /\ pc = "remove"
    /\ CallsRemove
    /\ \/ code = "Secret" /\ Goto("finish", SecretFailure(mem.status)) /\ UNCHANGED cluster
       \/ code = "Busy" /\ Goto("finish", mem.status) /\ UNCHANGED cluster
       \/ code = "Canceled" /\ Goto("finish", mem.status) /\ cluster' \in Removals
       \/ code = "Rejected" /\ Goto("finish", RemoveFailed(mem.status)) /\ UNCHANGED cluster
       \/ /\ code = "Error"
          /\ Goto("finish", CountFailure(RemoveFailed(mem.status)))
          /\ cluster' \in Removals
    /\ UNCHANGED <<obj, cache, queued, client, original, plan, hasClient, sendsRV, fresh, edits>>

(* Nothing else holds the object: with its finalizer it is gone. *)
RemoveFinalizer ==
    /\ pc = "dropFinalizer"
    /\ \/ obj.exists /\ obj' = NoObject /\ Rest(FALSE)
       \/ /\ PatchFails
          /\ pc' = "finish"
          /\ UNCHANGED <<obj, queued, mem, original, plan, hasClient, sendsRV, fresh>>
    /\ UNCHANGED <<cache, client, cluster, edits>>

-----------------------------------------------------------------------------
(* Around the reconciler *)

AtRest == pc = "idle" /\ cache = obj /\ obj.status.phase # "Deploying"

MayEdit == EditsRace \/ AtRest

(* A user writes the object; ValidateUpdate protects the source. *)
Write(o) ==
    /\ edits < MaxEdits /\ edits' = edits + 1
    /\ obj.exists /\ ~obj.deleting
    /\ obj' = o
    /\ fresh' = FALSE
    /\ UNCHANGED <<cache, queued, client, cluster, pc, mem, original, plan, hasClient, sendsRV>>

(* Mutant: the source is protected before the deployment, not during it. *)
ValidateWhilePending(spec) ==
    Webhook /\ obj.status.phase = "Pending" => spec.source = obj.spec.source

ValidateUpdate(spec) ==
    Webhook /\ obj.status.phase = "Deploying" => spec.source = obj.spec.source

Edit(spec) ==
    MayEdit /\ spec # obj.spec /\ ValidateUpdate(spec) /\ Write([obj EXCEPT !.spec = spec])

Annotate == MayEdit /\ ~obj.redeploy /\ Write([obj EXCEPT !.redeploy = TRUE])

Delete == Write(IF obj.finalizer THEN [obj EXCEPT !.deleting = TRUE] ELSE NoObject)

(* Mutant: a deletion is no reason to look at the object. *)
MissesDeletion(old, new) ==
    old.exists # new.exists \/ old.spec # new.spec \/ old.redeploy # new.redeploy

(* A watch event reaches the cache and, past annotationPredicate, the queue. *)
annotationPredicate(old, new) ==
    \/ old.exists # new.exists
    \/ old.spec # new.spec \/ old.deleting # new.deleting    \* the generation
    \/ old.redeploy # new.redeploy

WatchEvent ==
    /\ cache # obj
    /\ cache' = obj
    /\ queued' = (queued \/ annotationPredicate(cache, obj))
    /\ UNCHANGED <<obj, client, cluster, worker, edits>>

(* The manager restarts: the cache and the queue are filled from a list, and
   the new reconciler has no client until the monitor has connected.  The
   sidecar is another process: the call that was running ends somehow. *)
Crash ==
    /\ "crash" \in Faults
    /\ Rest(TRUE)
    /\ cache' = obj
    /\ client' = FALSE
    /\ cluster' \in CASE Deploying -> Attempts
                      [] pc = "remove" /\ CallsRemove -> Removals
                      [] OTHER -> {cluster}
    /\ UNCHANGED <<obj, edits>>

(* SetZarfClient, by the connection monitor: a client it has connected, or nil
   when the sidecar stopped answering. *)
SetZarfClient ==
    /\ client => "outage" \in Faults
    /\ client' = ~client
    /\ UNCHANGED <<obj, cache, queued, cluster, worker, edits>>

-----------------------------------------------------------------------------
Sidecar == DeploySucceeds \/ RemoveSucceeds
SidecarFails ==
    \/ \E code \in SidecarCodes : DeployFails(code) \/ RemoveFails(code)
    \/ "secret" \in Faults /\ RemoveFails("Secret")

TakeUp ==
    \/ Ignore \/ AddFinalizer \/ SidecarUnavailable \/ Terminal
    \/ StartReconcile \/ StartDeletion

Work ==
    \/ TakeUp \/ reconcile \/ PersistDeploying \/ preDeployCleanup
    \/ retryDeployAfterHelmRecovery \/ ClearAnnotation \/ UpdateStatus
    \/ PersistRemoving \/ RemoveFinalizer

Users == (\E spec \in Specs : Edit(spec)) \/ Annotate \/ Delete

Next == Work \/ Sidecar \/ SidecarFails \/ Users \/ WatchEvent \/ Crash \/ SetZarfClient

SafetySpec == Init /\ [][Next]_vars

(* The lookup succeeds and, where a deploy is needed, the dependencies are met. *)
Unhindered == Found /\ (needsDeploy(deployed, FALSE) => pc' = "persist")

(* What is queued is taken up, a reconcile comes to its end (every step of it
   has an outcome and none is taken twice), and the cache catches up.  What is
   tried again and again (a lookup, dependencies, a deploy, a remove) succeeds
   one day. *)
Fairness ==
    /\ WF_vars(TakeUp) /\ []<>(pc = "idle") /\ []<>(cache = obj)
    /\ SF_vars(Unhindered) /\ SF_vars(DeploySucceeds) /\ SF_vars(RemoveSucceeds)

Spec == SafetySpec /\ Fairness

-----------------------------------------------------------------------------
(* Properties *)

(* The values the object, its copies and the worker's locals can take; in
   particular a stored hash is always one DeploymentHash computes. *)
TypeOK ==
    /\ obj \in Objects \cup {NoObject} /\ cache \in Objects \cup {NoObject}
    /\ mem \in Objects \cup {NoObject}
    /\ original \in Statuses
    /\ queued \in BOOLEAN /\ client \in BOOLEAN /\ hasClient \in BOOLEAN
    /\ sendsRV \in BOOLEAN /\ fresh \in BOOLEAN
    /\ cluster \in [source : Sources, values : Values, state : {"healthy", "partial", "failed"}]
                     \cup {Absent}
    /\ pc \in {"idle", "reconcile", "persist", "prepare", "deploy", "retry", "clear", "finish",
                "removing", "remove", "dropFinalizer"}
    /\ plan \in [source : Sources, wasFailed : BOOLEAN] \cup {NoPlan}
    /\ edits \in 0..MaxEdits

(* Once the retries are used up (markMaxRetriesExceeded) no deploy is under way
   until a user asks for one with the annotation. *)
RetriesStop ==
    isMaxRetriesTerminal(obj.status) /\ ~obj.redeploy /\ ~obj.deleting
        => pc \notin {"persist", "prepare", "deploy", "retry", "clear"}

(* An object whose status names its package disappears in one way only: the
   worker that carries out its deletion drops the finalizer, and Zarf has
   removed the package by then unless that worker found no client when it
   started (handleDeletion). *)
ReleasedAfterRemoval ==
    [][obj.status.packageName /\ obj.exists /\ ~obj'.exists
          => pc = "dropFinalizer" /\ (hasClient => cluster' = Absent)]_vars

(* No package is deployed for an object that is gone, however stale the read
   that started the reconcile: the finalizer keeps the object that long. *)
NoDeployForGone ==
    ~obj.exists => pc \notin {"persist", "prepare", "deploy", "retry", "clear"}

(* A key that left the queue comes back when there is something to do for the
   object: annotationPredicate drops no event that matters, and a reconcile that
   gives up asks to be called again. *)
NeverForgotten == pc = "idle" /\ ~queued /\ cache = obj => NothingToDo(obj)

(* ValidateUpdate keeps the source of a stored deployment in progress as the
   worker deploying it knows it. *)
SourceFixedWhileDeploying ==
    Webhook /\ obj.exists /\ obj.status.phase = "Deploying"
            /\ pc \in {"prepare", "deploy", "retry", "clear"}
        => obj.spec.source = mem.spec.source

(* A package whose status says it is deployed with its present spec (the hash)
   is: with those values, and no older version than the source names. *)
InSync ==
    pc = "idle" /\ obj.status.phase = "Deployed" /\ obj.status.hash = DeploymentHash(obj.spec)
        => /\ cluster.state = "healthy"
           /\ cluster.values = obj.spec.values
           /\ cluster.source >= obj.spec.source

(* A deletion is carried out: the finalizer is removed, however often the
   removal was refused or failed.  Whether it should be for a suspended package
   is left open: the code removes it, the documentation of suspend says no
   remove is performed. *)
DeletionCompletes == obj.deleting ~> ~obj.exists \/ obj.spec.suspend

(* A package that is neither suspended nor deleted gets deployed with the
   values of its spec and no older version than its source names, again after
   every edit (users edit a bounded number of times). *)
Converges ==
    []<>(\/ ~obj.exists \/ obj.deleting \/ obj.spec.suspend
         \/ cluster.state = "healthy" /\ cluster.values = obj.spec.values
            /\ cluster.source >= obj.spec.source /\ obj.status.phase = "Deployed")

-----------------------------------------------------------------------------
(* What the repository says and the code does not do *)

(* Deleting a ZarfPackage removes its package (handleDeletion).  It does not
   when the delete meets the first deploy: the status with the package's name
   is refused as a conflict.  Nor does it when the deletion is taken up without
   a client, as after a restart. *)
DeletionRemovesPackage == ~obj.exists => cluster = Absent

(* After a redeploy of the source of the spec by annotation, the package stays
   at that source.  The next deploy goes back to the newer one, which is still
   in the status. *)
RedeployedSourceStays ==
    [][cluster.state = "healthy" /\ cluster.source = obj.spec.source
          => cluster'.source \in {0, obj.spec.source}]_vars
=============================================================================
