-------------------------- MODULE ReconcilerProofs --------------------------
(***************************************************************************)
(* Safety of the reconciler for any versions, values, retries, edits and   *)
(* sidecar codes.  Each part adds an inductive invariant to those before   *)
(* it: Typed, Held (what the finalizer holds, for reads as stale as the    *)
(* cache makes them), Undone and Guarded (for reads that are up to date),  *)
(* Released (who lets the object go), Watched (for reads from the cache).  *)
(***************************************************************************)
EXTENDS Reconciler, TLAPS

-----------------------------------------------------------------------------
(* The types of statuses and objects *)

LEMMA Bounds ==
    /\ MaxRetries \in Nat /\ MaxEdits \in Nat /\ MaxFailures \in Nat
    /\ Sources \subseteq Nat /\ Values \subseteq Nat /\ 0 \notin Sources
BY ReconcilerAssumption

LEMMA Counted ==
    /\ 0 \in 0..MaxFailures /\ 0 \in 0..MaxEdits
    /\ \A n \in 0..MaxFailures : Inc(n) \in 0..MaxFailures
    /\ \A n \in 0..MaxEdits : n < MaxEdits => n + 1 \in 0..MaxEdits
BY Bounds DEF Inc

LEMMA NewerIsSource == \A s \in Sources, t \in Sources \cup {0} : t > s => t \in Sources
<1> SUFFICES ASSUME NEW s \in Sources, 0 > s PROVE FALSE
  OBVIOUS
<1> QED BY Bounds

LEMMA Hashed == \A s \in Sources, v \in Values : <<s, v>> \in (Sources \X Values) \cup {NoHash}
OBVIOUS

LEMMA ZeroTyped == ZeroStatus \in Statuses
BY Counted DEF ZeroStatus, Statuses, Phases, Reasons, NoHash

(* Setting the phase and the reason of a status. *)
LEMMA Marked ==
    ASSUME NEW st \in Statuses, NEW p \in Phases, NEW r \in Reasons
    PROVE  /\ [st EXCEPT !.phase = p, !.ready = r] \in Statuses
           /\ [st EXCEPT !.phase = p] \in Statuses
           /\ [st EXCEPT !.ready = r] \in Statuses
BY DEF Statuses

LEMMA NamesOK ==
    /\ {"Pending", "Deploying", "Deployed", "Failed", "Removing"} \subseteq Phases
    /\ {"Reconciling", "Deploying", "Deployed", "DeployFailed", "SecretNotFound",
        "MaxRetriesExceeded", "DependenciesNotMet", "RemoveFailed"} \subseteq Reasons
BY DEF Phases, Reasons

LEMMA CountTyped ==
    ASSUME NEW st \in Statuses
    PROVE  /\ recordFailure(st) \in Statuses /\ recordFailure(st).packageName = st.packageName
           /\ resetFailures(st) \in Statuses /\ resetFailures(st).packageName = st.packageName
<1>1. st.failureCount \in 0..MaxFailures
  BY DEF Statuses
<1>2. Inc(st.failureCount) \in 0..MaxFailures /\ 0 \in 0..MaxFailures
  BY <1>1, Counted
<1> QED BY <1>2 DEF recordFailure, resetFailures, Statuses

LEMMA FailureTyped ==
    ASSUME NEW st \in Statuses
    PROVE  /\ CountFailure(st) \in Statuses /\ CountFailure(st).packageName = st.packageName
           /\ SecretFailure(st) \in Statuses /\ SecretFailure(st).packageName = st.packageName
<1>1. \A s \in Statuses : markMaxRetriesExceeded(s) \in Statuses
                          /\ markMaxRetriesExceeded(s).packageName = s.packageName
  BY DEF markMaxRetriesExceeded, Statuses, Phases, Reasons
<1>2. /\ [st EXCEPT !.phase = "Failed", !.ready = "SecretNotFound"] \in Statuses
      /\ [st EXCEPT !.phase = "Failed", !.ready = "SecretNotFound"].packageName = st.packageName
  BY DEF Statuses, Phases, Reasons
<1> QED BY <1>1, <1>2, CountTyped DEF CountFailure, SecretFailure

LEMMA OutcomeTyped ==
    ASSUME NEW st \in Statuses
    PROVE  /\ DeployFailed(st) \in Statuses /\ DeployFailed(st).packageName = st.packageName
           /\ RemoveFailed(st) \in Statuses /\ RemoveFailed(st).packageName = st.packageName
           /\ syncStatusFromDeployed(st) \in Statuses
BY DEF DeployFailed, RemoveFailed, syncStatusFromDeployed, Statuses, Phases, Reasons

LEMMA WaitTyped ==
    ASSUME NEW st \in Statuses, NEW dep, NEW preserve
    PROVE  waitForDependencies(st, dep, preserve) \in Statuses
<1>1. [st EXCEPT !.phase = IF @ = "Failed" THEN @ ELSE "Pending",
                 !.ready = IF shouldPreserveFailedReadyCondition(st)
                           THEN @ ELSE "DependenciesNotMet"] \in Statuses
  BY DEF Statuses, Phases, Reasons
<1> QED BY <1>1, OutcomeTyped DEF waitForDependencies

LEMMA SuccessTyped ==
    ASSUME NEW m \in Objects, NEW source \in Sources
    PROVE  applyDeploySuccessStatus(m, source) \in Statuses
<1>1. DeploymentHash(m.spec) \in (Sources \X Values) \cup {NoHash}
  BY Hashed DEF Objects, Specs, DeploymentHash
<1>2. m.status \in Statuses
  BY DEF Objects
<1> DEFINE reset == resetFailures(m.status)
<1>3. reset \in Statuses
  BY <1>2, CountTyped
<1> HIDE DEF reset
<1>4. [reset EXCEPT !.packageName = TRUE, !.source = source, !.attemptError = FALSE,
                    !.phase = "Deployed", !.ready = "Deployed",
                    !.hash = DeploymentHash(m.spec)] \in Statuses
  BY <1>1, <1>3 DEF Statuses, Phases, Reasons
<1> QED BY <1>4 DEF applyDeploySuccessStatus, reset

(* A status is its fields. *)
LEMMA StatusFields ==
    ASSUME NEW st \in Statuses, NEW r, DOMAIN r = DOMAIN st, r = [f \in DOMAIN r |-> r[f]],
           r.phase \in Phases, r.packageName \in BOOLEAN, r.source \in Sources \cup {0},
           r.hash \in (Sources \X Values) \cup {NoHash}, r.failureCount \in 0..MaxFailures,
           r.ready \in Reasons, r.attemptError \in BOOLEAN
    PROVE  r \in Statuses
<1>1. DOMAIN st = {"phase", "packageName", "source", "hash", "failureCount", "ready",
                   "attemptError"}
  BY DEF Statuses
<1>2. r = [phase |-> r.phase, packageName |-> r.packageName, source |-> r.source,
           hash |-> r.hash, failureCount |-> r.failureCount, ready |-> r.ready,
           attemptError |-> r.attemptError]
  BY <1>1
<1> QED BY <1>2 DEF Statuses

LEMMA MergedStatus ==
    ASSUME NEW from \in Statuses, NEW to \in Statuses, NEW base \in Statuses
    PROVE  /\ MergePatch(from, to, base) \in Statuses
           /\ \A f \in DOMAIN base : MergePatch(from, to, base)[f]
                                        = IF to[f] # from[f] THEN to[f] ELSE base[f]
<1> DEFINE merged == MergePatch(from, to, base)
<1>1. DOMAIN merged = DOMAIN base /\ merged = [f \in DOMAIN merged |-> merged[f]]
  BY DEF MergePatch
<1>2. /\ merged.phase \in Phases /\ merged.ready \in Reasons
      /\ merged.packageName \in BOOLEAN /\ merged.attemptError \in BOOLEAN
  BY DEF MergePatch, Statuses
<1>3. /\ merged.source \in Sources \cup {0}
      /\ merged.hash \in (Sources \X Values) \cup {NoHash}
      /\ merged.failureCount \in 0..MaxFailures
  BY DEF MergePatch, Statuses
<1>4. \A f \in DOMAIN base : merged[f] = IF to[f] # from[f] THEN to[f] ELSE base[f]
  BY DEF MergePatch
<1> HIDE DEF merged
<1>5. merged \in Statuses
  BY <1>1, <1>2, <1>3, StatusFields
<1> QED BY <1>4, <1>5 DEF merged

LEMMA DecodedStatus ==
    ASSUME NEW sent \in Statuses, NEW reply \in Statuses
    PROVE  /\ DecodeOver(ZeroStatus, sent, reply) \in Statuses
           /\ reply.packageName => DecodeOver(ZeroStatus, sent, reply).packageName
<1> DEFINE decoded == DecodeOver(ZeroStatus, sent, reply)
<1>1. DOMAIN decoded = DOMAIN reply /\ decoded = [f \in DOMAIN decoded |-> decoded[f]]
  BY DEF DecodeOver
<1>2. /\ decoded.phase \in Phases /\ decoded.ready \in Reasons
      /\ decoded.packageName \in BOOLEAN /\ decoded.attemptError \in BOOLEAN
  BY DEF DecodeOver, Statuses
<1>3. /\ decoded.source \in Sources \cup {0}
      /\ decoded.hash \in (Sources \X Values) \cup {NoHash}
      /\ decoded.failureCount \in 0..MaxFailures
  BY DEF DecodeOver, Statuses
<1>4. reply.packageName => decoded.packageName
  BY DEF DecodeOver, Statuses, ZeroStatus
<1> HIDE DEF decoded
<1>5. decoded \in Statuses
  BY <1>1, <1>2, <1>3, StatusFields
<1> QED BY <1>4, <1>5 DEF decoded

LEMMA DecodedObject ==
    ASSUME NEW m \in Objects, NEW o \in Objects
    PROVE  /\ Decode(m, o) \in Objects
           /\ Decode(m, o).spec = o.spec
           /\ o.status.packageName => Decode(m, o).status.packageName
<1>1. m.status \in Statuses /\ o.status \in Statuses /\ m.redeploy \in BOOLEAN
  BY DEF Objects
<1> DEFINE st == DecodeOver(ZeroStatus, m.status, o.status)
           re == m.redeploy \/ o.redeploy
<1>2. st \in Statuses /\ (o.status.packageName => st.packageName)
  BY <1>1, DecodedStatus
<1>3. re \in BOOLEAN
  BY <1>1 DEF Objects
<1>4. Decode(m, o) = [o EXCEPT !.redeploy = re, !.status = st]
  BY DEF Decode
<1> HIDE DEF st, re
<1> QED BY <1>2, <1>3, <1>4 DEF Objects

LEMMA WithStatus ==
    ASSUME NEW o \in Objects, NEW st \in Statuses
    PROVE  /\ [o EXCEPT !.status = st] \in Objects
           /\ [o EXCEPT !.status = st].status = st
           /\ [o EXCEPT !.status = st].spec = o.spec
           /\ [o EXCEPT !.status = st].exists = o.exists
           /\ [o EXCEPT !.status = st].finalizer = o.finalizer
           /\ [o EXCEPT !.status = st].deleting = o.deleting
           /\ [o EXCEPT !.status = st].redeploy = o.redeploy
BY DEF Objects

-----------------------------------------------------------------------------
(* Type correctness *)

Deployments == [source : Sources, values : Values, state : {"healthy", "partial", "failed"}]
Plans == [source : Sources, wasFailed : BOOLEAN]

(* A worker that is not idle has an object, and a plan from the decision to the
   end of the deploy. *)
Typed ==
    /\ TypeOK
    /\ pc # "idle" => mem \in Objects
    /\ pc \in {"persist", "prepare", "deploy", "retry"} => plan \in Plans

LEMMA Existing ==
    ASSUME TypeOK
    PROVE  /\ obj.exists => obj \in Objects
           /\ Read.exists => Read \in Objects /\ Read.status \in Statuses
           /\ obj.status \in Statuses
BY ZeroTyped DEF TypeOK, Read, NoObject, Objects

LEMMA TypedInit == Init => Typed
<1> SUFFICES ASSUME Init PROVE Typed
  OBVIOUS
<1>1. PICK spec \in Specs : obj = [NoObject EXCEPT !.exists = TRUE, !.spec = spec]
  BY DEF Init
<1>2. obj = [exists |-> TRUE, spec |-> spec, redeploy |-> FALSE, finalizer |-> FALSE,
             deleting |-> FALSE, status |-> ZeroStatus]
  BY <1>1 DEF NoObject
<1>3. obj \in Objects
  BY <1>2, ZeroTyped DEF Objects
<1>4. edits \in 0..MaxEdits
  BY Counted DEF Init
<1> QED BY <1>3, <1>4, ZeroTyped DEF Init, Typed, TypeOK

(* A step that only moves the worker to l with the status st in memory. *)
LEMMA MoveTyped ==
    ASSUME Typed, pc # "idle", NEW st \in Statuses, NEW l, Goto(l, st)
    PROVE  mem' \in Objects /\ mem'.status = st /\ pc' = l
<1>1. mem \in Objects
  BY DEF Typed
<1> QED BY <1>1, WithStatus DEF Goto

LEMMA BeginTyped ==
    ASSUME Typed, Read.exists, NEW st \in Statuses,
           NEW l \in {"reconcile", "finish", "removing"}, Begin(l, st)
    PROVE  Typed'
<1>1. Read \in Objects /\ Read.status \in Statuses
  BY Existing DEF Typed
<1>2. mem' \in Objects
  BY <1>1, WithStatus DEF Begin
<1>3. original' \in Statuses /\ pc' = l
  BY <1>1 DEF Begin
<1>4. hasClient' \in BOOLEAN /\ queued' \in BOOLEAN
  BY DEF Begin, Typed, TypeOK
<1>5. UNCHANGED <<obj, cache, client, cluster, plan, sendsRV, fresh, edits>>
  BY DEF Begin
<1> QED BY <1>2, <1>3, <1>4, <1>5 DEF Typed, TypeOK

LEMMA TypedTakeUp == Typed /\ TakeUp => Typed'
<1> SUFFICES ASSUME Typed, TakeUp PROVE Typed'
  OBVIOUS
<1>1. CASE Ignore
  <2>1. queued' \in BOOLEAN
    BY <1>1 DEF Ignore
  <2>2. UNCHANGED <<obj, cache, client, cluster, worker, edits>>
    BY <1>1 DEF Ignore
  <2> QED BY <2>1, <2>2 DEF Typed, TypeOK, worker
<1>2. CASE AddFinalizer
  <2>1. obj' \in Objects \cup {NoObject}
    <3>1. CASE obj' = obj
      BY <3>1 DEF Typed, TypeOK
    <3>2. CASE obj.exists /\ obj' = [obj EXCEPT !.finalizer = TRUE]
      <4>1. obj \in Objects
        BY <3>2, Existing DEF Typed
      <4> QED BY <3>2, <4>1 DEF Objects
    <3> QED BY <1>2, <3>1, <3>2 DEF AddFinalizer
  <2> QED BY <1>2, <2>1 DEF AddFinalizer, Typed, TypeOK, worker
<1>3. CASE SidecarUnavailable
  <2>1. Read.exists /\ Read.status \in Statuses
    BY <1>3, Existing DEF SidecarUnavailable, Active, Typed
  <2> DEFINE st == [Read.status EXCEPT !.phase = "Pending", !.ready = "Reconciling"]
  <2>2. st \in Statuses
    BY <2>1, Marked, NamesOK
  <2>3. CountFailure(st) \in Statuses
    BY <2>2, FailureTyped
  <2>4. Begin("finish", CountFailure(st))
    BY <1>3 DEF SidecarUnavailable
  <2> HIDE DEF st
  <2> QED BY <2>1, <2>3, <2>4, BeginTyped
<1>4. CASE Terminal
  <2>1. Read.exists /\ Read.status \in Statuses
    BY <1>4, Existing DEF Terminal, Active, Typed
  <2> QED BY <1>4, <2>1, BeginTyped DEF Terminal
<1>5. CASE StartReconcile
  <2>1. Read.exists /\ Read.status \in Statuses
    BY <1>5, Existing DEF StartReconcile, Active, Typed
  <2> QED BY <1>5, <2>1, BeginTyped DEF StartReconcile
<1>6. CASE StartDeletion
  <2>1. Read.exists /\ Read.status \in Statuses
    BY <1>6, Existing DEF StartDeletion, Typed
  <2> DEFINE st == [Read.status EXCEPT !.phase = "Removing"]
  <2>2. st \in Statuses
    BY <2>1, Marked, NamesOK
  <2>3. Begin("removing", st)
    BY <1>6 DEF StartDeletion
  <2> HIDE DEF st
  <2> QED BY <2>1, <2>2, <2>3, BeginTyped
<1> QED BY <1>1, <1>2, <1>3, <1>4, <1>5, <1>6 DEF TakeUp

(* What stays in a step of the worker that moves on in memory. *)
Elsewhere == UNCHANGED <<obj, cache, queued, client, original, hasClient, sendsRV, fresh, edits>>

LEMMA MemoryTyped ==
    ASSUME Typed, pc # "idle", Elsewhere, NEW st \in Statuses,
           NEW l \in {"persist", "deploy", "retry", "clear", "finish", "dropFinalizer"}, Goto(l, st),
           cluster' \in Deployments \cup {Absent},
           plan' \in Plans \/ UNCHANGED plan,
           l \in {"persist", "deploy", "retry"} => plan' \in Plans
    PROVE  Typed'
<1>1. mem' \in Objects /\ pc' = l
  BY MoveTyped
<1> QED BY <1>1 DEF Typed, TypeOK, Elsewhere, Plans, Deployments

LEMMA DecideTyped ==
    ASSUME Typed, pc # "idle", NEW dep, NEW lookupFailed, Decide(dep, lookupFailed), Elsewhere,
           UNCHANGED cluster
    PROVE  Typed'
<1>1. mem \in Objects /\ mem.status \in Statuses /\ cluster' \in Deployments \cup {Absent}
  BY DEF Typed, TypeOK, Objects, Deployments
<1>2. PICK drift \in BOOLEAN :
        \/ /\ Goto("finish", [resetFailures(syncStatusFromDeployed(mem.status)) EXCEPT
                                 !.phase = "Deployed", !.ready = "Deployed"])
           /\ UNCHANGED plan
        \/ /\ Goto("persist", [mem.status EXCEPT !.phase = "Deploying", !.ready = "Deploying"])
           /\ plan' = [source |-> deploymentSource(mem),
                       wasFailed |-> mem.status.phase = "Failed"]
        \/ /\ \/ Goto("finish",
                       waitForDependencies(mem.status, dep,
                           lookupFailed /\ canPreserveCurrentDeployment(mem.status)))
              \/ Goto("finish", mem.status)
           /\ UNCHANGED plan
  BY DEF Decide
<1>3. CASE /\ Goto("finish", [resetFailures(syncStatusFromDeployed(mem.status)) EXCEPT
                                 !.phase = "Deployed", !.ready = "Deployed"])
           /\ UNCHANGED plan
  <2>1. resetFailures(syncStatusFromDeployed(mem.status)) \in Statuses
    BY <1>1, OutcomeTyped, CountTyped
  <2> DEFINE st == [resetFailures(syncStatusFromDeployed(mem.status)) EXCEPT
                       !.phase = "Deployed", !.ready = "Deployed"]
  <2>2. st \in Statuses
    BY <2>1, Marked, NamesOK
  <2>3. Goto("finish", st)
    BY <1>3
  <2> HIDE DEF st
  <2> QED BY <1>1, <1>3, <2>2, <2>3, MemoryTyped
<1>4. CASE /\ Goto("persist", [mem.status EXCEPT !.phase = "Deploying", !.ready = "Deploying"])
           /\ plan' = [source |-> deploymentSource(mem),
                       wasFailed |-> mem.status.phase = "Failed"]
  <2> DEFINE st == [mem.status EXCEPT !.phase = "Deploying", !.ready = "Deploying"]
  <2>1. st \in Statuses
    BY <1>1, Marked, NamesOK
  <2>2. deploymentSource(mem) \in Sources
    <3>1. mem.spec.source \in Sources /\ mem.status.source \in Sources \cup {0}
      BY <1>1 DEF Objects, Specs, Statuses
    <3>2. mem.status.source > mem.spec.source => mem.status.source \in Sources
      BY <3>1, NewerIsSource
    <3> QED BY <3>1, <3>2 DEF deploymentSource
  <2>3. plan' \in Plans
    BY <1>4, <2>2 DEF Plans
  <2>4. Goto("persist", st)
    BY <1>4
  <2> HIDE DEF st
  <2> QED BY <1>1, <2>1, <2>3, <2>4, MemoryTyped
<1>5. CASE /\ Goto("finish", waitForDependencies(mem.status, dep,
                             lookupFailed /\ canPreserveCurrentDeployment(mem.status)))
           /\ UNCHANGED plan
  BY <1>1, <1>5, WaitTyped, MemoryTyped
<1>6. CASE Goto("finish", mem.status) /\ UNCHANGED plan
  BY <1>1, <1>6, MemoryTyped
<1> QED BY <1>2, <1>3, <1>4, <1>5, <1>6

LEMMA TypedReconcile == Typed /\ reconcile => Typed'
<1> SUFFICES ASSUME Typed, reconcile PROVE Typed'
  OBVIOUS
<1>1. pc # "idle" /\ Elsewhere /\ UNCHANGED cluster
  BY DEF reconcile, Found, LookupFails, Elsewhere
<1>2. mem.status \in Statuses /\ cluster' \in Deployments \cup {Absent}
  BY <1>1 DEF Typed, TypeOK, Objects, Deployments
<1>3. CASE Decide(deployed, FALSE)
  BY <1>1, <1>3, DecideTyped
<1>4. CASE Decide(Absent, TRUE)
  BY <1>1, <1>4, DecideTyped
<1>5. CASE Goto("finish", SecretFailure(mem.status)) /\ UNCHANGED plan
  BY <1>1, <1>2, <1>5, FailureTyped, MemoryTyped
<1> QED BY <1>3, <1>4, <1>5 DEF reconcile, Found, LookupFails

(* What stays when a write to the object is tried. *)
Locally == UNCHANGED <<cache, queued, client, cluster, plan, hasClient, edits>>

LEMMA StoredTyped ==
    ASSUME Typed, pc # "idle", Locally, obj' \in Objects \cup {NoObject}, mem' \in Objects,
           original' \in Statuses, sendsRV' \in BOOLEAN, fresh' \in BOOLEAN,
           pc' \in {"prepare", "finish", "remove"}, pc' = "prepare" => pc = "persist"
    PROVE  Typed'
BY DEF Typed, TypeOK, Locally

LEMMA PatchTyped ==
    ASSUME Typed, pc # "idle", PatchStatus
    PROVE  /\ obj' \in Objects /\ mem' \in Objects /\ original' \in Statuses
           /\ sendsRV' \in BOOLEAN /\ fresh' \in BOOLEAN
           /\ obj'.status = MergePatch(original, mem.status, obj.status)
           /\ obj'.spec = obj.spec /\ mem'.spec = obj.spec
           /\ obj'.exists = obj.exists /\ obj'.finalizer = obj.finalizer
           /\ obj'.deleting = obj.deleting /\ obj'.redeploy = obj.redeploy
<1>1. obj \in Objects /\ mem \in Objects /\ original \in Statuses
  BY Existing DEF PatchStatus, Typed, TypeOK
<1>2. obj.status \in Statuses /\ mem.status \in Statuses
  BY <1>1 DEF Objects
<1> DEFINE st == MergePatch(original, mem.status, obj.status)
<1>3. st \in Statuses
  BY <1>1, <1>2, MergedStatus
<1>4. obj' = [obj EXCEPT !.status = st]
  BY DEF PatchStatus
<1> HIDE DEF st
<1>5. /\ obj' \in Objects /\ obj'.status = st /\ obj'.spec = obj.spec
      /\ obj'.exists = obj.exists /\ obj'.finalizer = obj.finalizer
      /\ obj'.deleting = obj.deleting /\ obj'.redeploy = obj.redeploy
  BY <1>1, <1>3, <1>4, WithStatus
<1>6. mem' = Decode(mem, obj') /\ original' = mem'.status
  BY DEF PatchStatus
<1>7. mem' \in Objects /\ mem'.spec = obj'.spec
  BY <1>1, <1>5, <1>6, DecodedObject
<1>8. original' \in Statuses
  BY <1>6, <1>7 DEF Objects
<1>9. sendsRV' \in BOOLEAN /\ fresh' \in BOOLEAN
  BY DEF PatchStatus
<1> QED BY <1>5, <1>7, <1>8, <1>9 DEF st

LEMMA TypedPersistDeploying == Typed /\ PersistDeploying => Typed'
<1> SUFFICES ASSUME Typed, PersistDeploying PROVE Typed'
  OBVIOUS
<1>1. pc = "persist" /\ pc' = "prepare" /\ Locally
  BY DEF PersistDeploying, Locally
<1>2. CASE PatchStatus
  BY <1>1, <1>2, PatchTyped, StoredTyped
<1>3. CASE UNCHANGED <<obj, mem, original, sendsRV, fresh>>
  BY <1>1, <1>3, StoredTyped DEF Typed, TypeOK
<1> QED BY <1>2, <1>3 DEF PersistDeploying

LEMMA RemovalsTyped ==
    ASSUME cluster \in Deployments \cup {Absent}
    PROVE  Removals \subseteq Deployments \cup {Absent}
BY DEF Removals, Deployments

LEMMA AttemptsTyped ==
    ASSUME Typed, Deploying
    PROVE  /\ Attempts \subseteq Deployments \cup {Absent}
           /\ \A state \in {"partial", "failed", "healthy"} : Attempted(state) \in Deployments
<1>1. mem \in Objects /\ plan \in Plans /\ cluster \in Deployments \cup {Absent}
  BY DEF Deploying, Typed, TypeOK, Deployments
<1>2. mem.spec.values \in Values /\ plan.source \in Sources
  BY <1>1 DEF Objects, Specs, Plans
<1>3. \A state \in {"partial", "failed", "healthy"} : Attempted(state) \in Deployments
  BY <1>2 DEF Attempted, Deployment, Deployments
<1> QED BY <1>1, <1>3 DEF Attempts

LEMMA TypedCleanup == Typed /\ preDeployCleanup => Typed'
<1> SUFFICES ASSUME Typed, preDeployCleanup PROVE Typed'
  OBVIOUS
<1>1. pc = "prepare" /\ Elsewhere /\ UNCHANGED plan
  BY DEF preDeployCleanup, Elsewhere
<1>2. mem.status \in Statuses /\ cluster \in Deployments \cup {Absent} /\ plan \in Plans
  BY <1>1 DEF Typed, TypeOK, Objects, Deployments
<1>3. cluster' \in Deployments \cup {Absent}
  BY <1>2, RemovalsTyped DEF preDeployCleanup
<1>4. SecretFailure(mem.status) \in Statuses
  BY <1>2, FailureTyped
<1>5. CASE Goto("finish", SecretFailure(mem.status))
  BY <1>1, <1>3, <1>4, <1>5, MemoryTyped
<1>6. CASE Goto("deploy", mem.status)
  BY <1>1, <1>2, <1>3, <1>6, MemoryTyped
<1> QED BY <1>5, <1>6 DEF preDeployCleanup

LEMMA TypedDeploySucceeds == Typed /\ DeploySucceeds => Typed'
<1> SUFFICES ASSUME Typed, DeploySucceeds PROVE Typed'
  OBVIOUS
<1>1. Deploying /\ pc # "idle" /\ Elsewhere /\ UNCHANGED plan
  BY DEF DeploySucceeds, Elsewhere, Deploying
<1>2. mem \in Objects /\ plan.source \in Sources
  BY <1>1 DEF Typed, Deploying, Plans
<1>3. applyDeploySuccessStatus(mem, plan.source) \in Statuses
  BY <1>2, SuccessTyped
<1>4. cluster' \in Deployments \cup {Absent}
  BY <1>1, AttemptsTyped DEF DeploySucceeds
<1>5. PICK l \in {"clear", "finish"} : Goto(l, applyDeploySuccessStatus(mem, plan.source))
  BY DEF DeploySucceeds
<1> QED BY <1>1, <1>3, <1>4, <1>5, MemoryTyped

LEMMA TypedDeployFails ==
    ASSUME Typed, NEW code, DeployFails(code)
    PROVE  Typed'
<1>1. Deploying /\ pc # "idle" /\ Elsewhere /\ UNCHANGED plan
  BY DEF DeployFails, Elsewhere, Deploying
<1>2. mem.status \in Statuses /\ cluster \in Deployments \cup {Absent}
  BY <1>1 DEF Typed, TypeOK, Objects, Deployments
<1>3. cluster' \in Deployments \cup {Absent}
  BY <1>1, <1>2, AttemptsTyped DEF DeployFails
<1>4. /\ [mem.status EXCEPT !.ready = "Deploying"] \in Statuses
      /\ DeployFailed(mem.status) \in Statuses
      /\ CountFailure(DeployFailed(mem.status)) \in Statuses
  BY <1>2, Marked, NamesOK, OutcomeTyped, FailureTyped
<1>5. \/ Goto("finish", [mem.status EXCEPT !.ready = "Deploying"])
      \/ Goto("finish", mem.status)
      \/ Goto("finish", DeployFailed(mem.status))
      \/ Goto("finish", CountFailure(DeployFailed(mem.status)))
  BY DEF DeployFails
<1> QED BY <1>1, <1>2, <1>3, <1>4, <1>5, MemoryTyped

LEMMA TypedRetry == Typed /\ retryDeployAfterHelmRecovery => Typed'
<1> SUFFICES ASSUME Typed, retryDeployAfterHelmRecovery PROVE Typed'
  OBVIOUS
<1>1. pc = "deploy" /\ pc' = "retry" /\ Elsewhere /\ UNCHANGED <<mem, plan>>
  BY DEF retryDeployAfterHelmRecovery, Elsewhere
<1>2. cluster' \in Deployments \cup {Absent}
  BY <1>1, AttemptsTyped DEF retryDeployAfterHelmRecovery, Typed, TypeOK, Deployments, Deploying
<1> QED BY <1>1, <1>2 DEF Typed, TypeOK, Elsewhere, Deployments

LEMMA ClearTyped ==
    ASSUME Typed, pc # "idle", obj.exists, obj' = [obj EXCEPT !.redeploy = FALSE],
           mem' = Decode([mem EXCEPT !.redeploy = FALSE], obj')
    PROVE  /\ obj' \in Objects /\ mem' \in Objects
           /\ obj'.exists = obj.exists /\ obj'.finalizer = obj.finalizer
           /\ obj'.deleting = obj.deleting /\ obj'.status = obj.status
<1>1. obj \in Objects /\ mem \in Objects
  BY Existing DEF Typed
<1>2. obj' \in Objects /\ [mem EXCEPT !.redeploy = FALSE] \in Objects
  BY <1>1 DEF Objects
<1>3. /\ obj'.exists = obj.exists /\ obj'.finalizer = obj.finalizer
      /\ obj'.deleting = obj.deleting /\ obj'.status = obj.status
  BY <1>1 DEF Objects
<1> QED BY <1>2, <1>3, DecodedObject

LEMMA TypedClearAnnotation == Typed /\ ClearAnnotation => Typed'
<1> SUFFICES ASSUME Typed, ClearAnnotation PROVE Typed'
  OBVIOUS
<1>1. pc = "clear" /\ pc' = "finish" /\ Locally /\ UNCHANGED original
  BY DEF ClearAnnotation, Locally
<1>2. original' \in Statuses
  BY <1>1 DEF Typed, TypeOK
<1>3. CASE /\ obj.exists
           /\ obj' = [obj EXCEPT !.redeploy = FALSE]
           /\ mem' = Decode([mem EXCEPT !.redeploy = FALSE], obj')
           /\ sendsRV' = TRUE /\ fresh' = TRUE
  BY <1>1, <1>2, <1>3, ClearTyped, StoredTyped
<1>4. CASE UNCHANGED <<obj, mem, sendsRV, fresh>>
  BY <1>1, <1>2, <1>4, StoredTyped DEF Typed, TypeOK
<1> QED BY <1>3, <1>4 DEF ClearAnnotation

(* The worker is idle again. *)
LEMMA RestTyped ==
    ASSUME Typed, NEW again \in BOOLEAN, Rest(again), obj' \in Objects \cup {NoObject},
           cache' \in {cache, obj}, cluster' \in Deployments \cup {Absent},
           client' \in {client, FALSE}, edits' = edits
    PROVE  Typed'
BY ZeroTyped DEF Typed, TypeOK, Rest, Deployments

(* The write of the deferred status patch, and the one of the phase Removing. *)
StatusWritten ==
    /\ obj.exists
    /\ obj' = [obj EXCEPT !.status = MergePatch(original, mem.status, @)]

RemovingWritten ==
    /\ obj.exists
    /\ obj' = [obj EXCEPT !.status.phase = "Removing"]
    /\ mem' = Decode(mem, obj')

LEMMA UpdateTyped ==
    ASSUME Typed, pc = "finish", StatusWritten
    PROVE  /\ obj' \in Objects
           /\ obj'.status = MergePatch(original, mem.status, obj.status)
           /\ obj'.exists = obj.exists /\ obj'.spec = obj.spec /\ obj'.finalizer = obj.finalizer
           /\ obj'.deleting = obj.deleting /\ obj'.redeploy = obj.redeploy
<1>1. obj \in Objects /\ mem.status \in Statuses /\ obj.status \in Statuses
  BY Existing DEF Typed, TypeOK, Objects, StatusWritten
<1>2. original \in Statuses
  BY DEF Typed, TypeOK
<1> DEFINE st == MergePatch(original, mem.status, obj.status)
<1>3. st \in Statuses /\ obj' = [obj EXCEPT !.status = st]
  BY <1>1, <1>2, MergedStatus DEF StatusWritten
<1> HIDE DEF st
<1>4. /\ obj' \in Objects /\ obj'.status = st
      /\ obj'.exists = obj.exists /\ obj'.spec = obj.spec /\ obj'.finalizer = obj.finalizer
      /\ obj'.deleting = obj.deleting /\ obj'.redeploy = obj.redeploy
  BY <1>1, <1>3, WithStatus
<1> QED BY <1>4 DEF st

LEMMA TypedUpdateStatus == Typed /\ UpdateStatus => Typed'
<1> SUFFICES ASSUME Typed, UpdateStatus PROVE Typed'
  OBVIOUS
<1>1. pc = "finish" /\ Rest(TRUE) /\ UNCHANGED <<cache, client, cluster, edits>>
  BY DEF UpdateStatus
<1>2. obj' \in Objects \cup {NoObject}
  <2>1. CASE obj' = obj
    BY <2>1 DEF Typed, TypeOK
  <2>2. CASE StatusWritten
    BY <1>1, <2>2, UpdateTyped
  <2> QED BY <2>1, <2>2 DEF UpdateStatus, StatusWritten
<1>3. cluster' \in Deployments \cup {Absent}
  BY <1>1 DEF Typed, TypeOK, Deployments
<1> QED BY <1>1, <1>2, <1>3, RestTyped

LEMMA RemovingTyped ==
    ASSUME Typed, pc # "idle", RemovingWritten
    PROVE  /\ obj' \in Objects /\ mem' \in Objects
           /\ obj'.exists = obj.exists /\ obj'.spec = obj.spec /\ obj'.finalizer = obj.finalizer
           /\ obj'.deleting = obj.deleting /\ obj'.redeploy = obj.redeploy
           /\ obj'.status.packageName = obj.status.packageName
           /\ obj'.status.packageName => mem'.status.packageName
<1>1. obj \in Objects /\ mem \in Objects /\ obj.status \in Statuses
  BY Existing DEF Typed, TypeOK, Objects, RemovingWritten
<1> DEFINE st == [obj.status EXCEPT !.phase = "Removing"]
<1>2. st \in Statuses /\ st.packageName = obj.status.packageName
  BY <1>1 DEF Statuses, Phases
<1>3. obj' = [obj EXCEPT !.status = st]
  BY <1>1 DEF Objects, RemovingWritten
<1> HIDE DEF st
<1>4. /\ obj' \in Objects /\ obj'.status = st
      /\ obj'.exists = obj.exists /\ obj'.spec = obj.spec /\ obj'.finalizer = obj.finalizer
      /\ obj'.deleting = obj.deleting /\ obj'.redeploy = obj.redeploy
  BY <1>1, <1>2, <1>3, WithStatus
<1>5. mem' \in Objects /\ (obj'.status.packageName => mem'.status.packageName)
  BY <1>1, <1>4, DecodedObject DEF RemovingWritten
<1> QED BY <1>2, <1>4, <1>5

LEMMA TypedPersistRemoving == Typed /\ PersistRemoving => Typed'
<1> SUFFICES ASSUME Typed, PersistRemoving PROVE Typed'
  OBVIOUS
<1>1. pc = "removing" /\ Locally /\ mem \in Objects /\ mem.status \in Statuses
  BY DEF PersistRemoving, Locally, Typed, Objects
<1>2. CASE /\ RemovingWritten
           /\ sendsRV' \in IF obj' = obj THEN BOOLEAN ELSE {TRUE}
           /\ pc' = "remove" /\ original' = mem'.status /\ fresh' = TRUE
  <2>1. obj' \in Objects /\ mem' \in Objects
    BY <1>1, <1>2, RemovingTyped
  <2>2. original' \in Statuses
    BY <1>2, <2>1 DEF Objects
  <2>3. sendsRV' \in BOOLEAN /\ fresh' \in BOOLEAN
    BY <1>2
  <2> QED BY <1>1, <1>2, <2>1, <2>2, <2>3, StoredTyped
<1>3. CASE pc' = "remove" /\ original' = mem.status /\ UNCHANGED <<obj, mem, sendsRV, fresh>>
  BY <1>1, <1>3, StoredTyped DEF Typed, TypeOK
<1>4. CASE pc' = "finish" /\ UNCHANGED <<obj, mem, original, sendsRV, fresh>>
  BY <1>1, <1>4, StoredTyped DEF Typed, TypeOK
<1> QED BY <1>2, <1>3, <1>4 DEF PersistRemoving, RemovingWritten

LEMMA TypedRemoveSucceeds == Typed /\ RemoveSucceeds => Typed'
<1> SUFFICES ASSUME Typed, RemoveSucceeds PROVE Typed'
  OBVIOUS
<1>1. pc = "remove" /\ Elsewhere /\ UNCHANGED plan
  BY DEF RemoveSucceeds, Elsewhere
<1>2. mem.status \in Statuses /\ cluster \in Deployments \cup {Absent}
  BY <1>1 DEF Typed, TypeOK, Objects, Deployments
<1>3. cluster' \in Deployments \cup {Absent}
  BY <1>2 DEF RemoveSucceeds
<1>4. Goto("dropFinalizer", resetFailures(mem.status))
  BY DEF RemoveSucceeds
<1> QED BY <1>1, <1>2, <1>3, <1>4, CountTyped, MemoryTyped

LEMMA TypedRemoveFails ==
    ASSUME Typed, NEW code, RemoveFails(code)
    PROVE  Typed'
<1>1. pc = "remove" /\ Elsewhere /\ UNCHANGED plan
  BY DEF RemoveFails, Elsewhere
<1>2. mem.status \in Statuses /\ cluster \in Deployments \cup {Absent}
  BY <1>1 DEF Typed, TypeOK, Objects, Deployments
<1>3. cluster' \in Deployments \cup {Absent}
  BY <1>2, RemovalsTyped DEF RemoveFails
<1>4. /\ SecretFailure(mem.status) \in Statuses
      /\ RemoveFailed(mem.status) \in Statuses
      /\ CountFailure(RemoveFailed(mem.status)) \in Statuses
  BY <1>2, OutcomeTyped, FailureTyped
<1>5. \/ Goto("finish", SecretFailure(mem.status))
      \/ Goto("finish", mem.status)
      \/ Goto("finish", RemoveFailed(mem.status))
      \/ Goto("finish", CountFailure(RemoveFailed(mem.status)))
  BY DEF RemoveFails
<1> QED BY <1>1, <1>2, <1>3, <1>4, <1>5, MemoryTyped

LEMMA TypedRemoveFinalizer == Typed /\ RemoveFinalizer => Typed'
<1> SUFFICES ASSUME Typed, RemoveFinalizer PROVE Typed'
  OBVIOUS
<1>1. pc = "dropFinalizer" /\ UNCHANGED <<cache, client, cluster, edits>>
  BY DEF RemoveFinalizer
<1>2. CASE obj' = NoObject /\ Rest(FALSE)
  <2>1. cluster' \in Deployments \cup {Absent}
    BY <1>1 DEF Typed, TypeOK, Deployments
  <2> QED BY <1>1, <1>2, <2>1, RestTyped
<1>3. CASE /\ pc' = "finish"
           /\ UNCHANGED <<obj, queued, mem, original, plan, hasClient, sendsRV, fresh>>
  BY <1>1, <1>3 DEF Typed, TypeOK
<1> QED BY <1>2, <1>3 DEF RemoveFinalizer

LEMMA WriteTyped ==
    ASSUME Typed, NEW o \in Objects \cup {NoObject}, Write(o)
    PROVE  Typed'
<1>1. edits \in 0..MaxEdits /\ edits < MaxEdits /\ edits' = edits + 1
  BY DEF Write, Typed, TypeOK
<1>2. edits' \in 0..MaxEdits
  BY <1>1, Counted
<1>3. /\ obj' \in Objects \cup {NoObject} /\ fresh' \in BOOLEAN
      /\ UNCHANGED <<cache, queued, client, cluster, pc, mem, original, plan, hasClient, sendsRV>>
  BY DEF Write
<1> QED BY <1>2, <1>3 DEF Typed, TypeOK

LEMMA TypedUsers == Typed /\ Users => Typed'
<1> SUFFICES ASSUME Typed, Users PROVE Typed'
  OBVIOUS
<1>1. obj \in Objects
  BY Existing DEF Users, Edit, Annotate, Delete, Write, Typed
<1>2. ASSUME NEW spec \in Specs, Edit(spec) PROVE Typed'
  <2>1. [obj EXCEPT !.spec = spec] \in Objects
    BY <1>1 DEF Objects
  <2> QED BY <1>2, <2>1, WriteTyped DEF Edit
<1>3. CASE Annotate
  <2>1. [obj EXCEPT !.redeploy = TRUE] \in Objects
    BY <1>1 DEF Objects
  <2> QED BY <1>3, <2>1, WriteTyped DEF Annotate
<1>4. CASE Delete
  <2>1. (IF obj.finalizer THEN [obj EXCEPT !.deleting = TRUE] ELSE NoObject)
            \in Objects \cup {NoObject}
    BY <1>1 DEF Objects
  <2> QED BY <1>4, <2>1, WriteTyped DEF Delete
<1> QED BY <1>2, <1>3, <1>4 DEF Users

LEMMA TypedWatchEvent == Typed /\ WatchEvent => Typed'
<1> SUFFICES ASSUME Typed, WatchEvent PROVE Typed'
  OBVIOUS
<1>1. queued' \in BOOLEAN
  BY DEF WatchEvent
<1>2. cache' = obj /\ UNCHANGED <<obj, client, cluster, worker, edits>>
  BY DEF WatchEvent
<1> QED BY <1>1, <1>2 DEF Typed, TypeOK, worker

LEMMA TypedCrash == Typed /\ Crash => Typed'
<1> SUFFICES ASSUME Typed, Crash PROVE Typed'
  OBVIOUS
<1>1. cluster \in Deployments \cup {Absent} /\ obj \in Objects \cup {NoObject}
  BY DEF Typed, TypeOK, Deployments
<1>2. cluster' \in Deployments \cup {Absent}
  <2>1. CASE Deploying
    BY <2>1, AttemptsTyped DEF Crash, Deploying
  <2>2. CASE ~Deploying
    BY <1>1, <2>2, RemovalsTyped DEF Crash
  <2> QED BY <2>1, <2>2
<1> QED BY <1>1, <1>2, RestTyped DEF Crash

LEMMA TypedStep == Typed /\ [Next]_vars => Typed'
<1> SUFFICES ASSUME Typed, [Next]_vars PROVE Typed'
  OBVIOUS
<1>1. CASE UNCHANGED vars
  BY <1>1 DEF Typed, TypeOK, vars, worker
<1>2. CASE Work
  BY <1>2, TypedTakeUp, TypedReconcile, TypedPersistDeploying, TypedCleanup, TypedRetry,
     TypedClearAnnotation, TypedUpdateStatus, TypedPersistRemoving, TypedRemoveFinalizer
     DEF Work
<1>3. CASE Sidecar
  BY <1>3, TypedDeploySucceeds, TypedRemoveSucceeds DEF Sidecar
<1>4. CASE SidecarFails
  BY <1>4, TypedDeployFails, TypedRemoveFails DEF SidecarFails
<1>5. CASE SetZarfClient
  <2>1. client' \in BOOLEAN
    BY <1>5 DEF SetZarfClient
  <2>2. UNCHANGED <<obj, cache, queued, cluster, worker, edits>>
    BY <1>5 DEF SetZarfClient
  <2> QED BY <2>1, <2>2 DEF Typed, TypeOK, worker
<1> QED BY <1>1, <1>2, <1>3, <1>4, <1>5, TypedUsers, TypedWatchEvent, TypedCrash DEF Next

LEMMA AlwaysTyped == SafetySpec => []Typed
BY TypedInit, TypedStep, PTL DEF SafetySpec

(* The stored object, its copies and the worker's locals keep their types, for
   any versions, values, faults and bounds: in particular every worker that is
   past the decision has a plan. *)
THEOREM TypeCorrect == SafetySpec => []TypeOK
<1>1. Typed => TypeOK
  BY DEF Typed
<1> QED BY <1>1, AlwaysTyped, PTL

-----------------------------------------------------------------------------
(* Who holds the object *)

Working == {"reconcile", "persist", "prepare", "deploy", "retry", "clear"}
Deleting == {"removing", "remove", "dropFinalizer"}

(* The reads of the worker are out of date by steps of the API server only: a
   finalizer that was seen is there as long as the object, a deletion that was
   seen goes on, and an object that was seen alive is there until the worker
   itself sees its deletion. *)
Held ==
    /\ pc \in Working => obj.exists
    /\ pc # "idle" /\ obj.exists => obj.finalizer
    /\ pc \in Deleting => obj.deleting \/ ~obj.exists
    /\ "lag" \in Faults =>
          /\ cache.exists /\ cache.finalizer /\ obj.exists => obj.finalizer
          /\ cache.exists /\ cache.finalizer /\ ~obj.exists => cache.deleting
          /\ cache.exists /\ cache.deleting => obj.deleting \/ ~obj.exists
          /\ pc \in Deleting /\ cache.exists => cache.deleting

LEMMA HeldInit == Init => Held
<1> SUFFICES ASSUME Init PROVE Held
  OBVIOUS
<1>1. PICK spec \in Specs : obj = [NoObject EXCEPT !.exists = TRUE, !.spec = spec]
  BY DEF Init
<1>2. obj.exists = TRUE /\ obj.finalizer = FALSE /\ obj.deleting = FALSE /\ cache = obj
  BY <1>1 DEF NoObject, Init
<1>3. pc = "idle"
  BY DEF Init
<1> QED BY <1>2, <1>3 DEF Held, Working, Deleting

SameObject ==
    /\ obj'.exists = obj.exists /\ obj'.finalizer = obj.finalizer
    /\ obj'.deleting = obj.deleting

(* The worker goes on with a reconcile or a deletion, or comes to its end. *)
Onward ==
    /\ pc # "idle" /\ cache' = cache /\ SameObject
    /\ pc' \in Working => pc \in Working
    /\ pc' \in Deleting => pc \in Deleting

LEMMA WorkerGoesOn ==
    ASSUME Typed,
           \/ reconcile \/ PersistDeploying \/ preDeployCleanup \/ retryDeployAfterHelmRecovery
           \/ ClearAnnotation \/ UpdateStatus \/ PersistRemoving \/ Sidecar \/ SidecarFails
    PROVE  Onward
<1>1. CASE reconcile
  BY <1>1 DEF reconcile, Found, LookupFails, Decide, Goto, Onward, SameObject, Working, Deleting
<1>2. CASE PersistDeploying
  <2>1. pc = "persist" /\ pc' = "prepare" /\ cache' = cache
    BY <1>2 DEF PersistDeploying
  <2>2. SameObject
    BY <1>2, <2>1, PatchTyped DEF PersistDeploying, SameObject
  <2> QED BY <2>1, <2>2 DEF Onward, Working, Deleting
<1>3. CASE preDeployCleanup
  BY <1>3 DEF preDeployCleanup, Goto, Onward, SameObject, Working, Deleting
<1>4. CASE retryDeployAfterHelmRecovery
  BY <1>4 DEF retryDeployAfterHelmRecovery, Onward, SameObject, Working, Deleting
<1>5. CASE ClearAnnotation
  <2>1. pc = "clear" /\ pc' = "finish" /\ cache' = cache
    BY <1>5 DEF ClearAnnotation
  <2>2. SameObject
    BY <1>5, <2>1, ClearTyped DEF ClearAnnotation, SameObject
  <2> QED BY <2>1, <2>2 DEF Onward, Working, Deleting
<1>6. CASE UpdateStatus
  <2>1. pc = "finish" /\ pc' = "idle" /\ cache' = cache
    BY <1>6 DEF UpdateStatus, Rest
  <2>2. SameObject
    <3>1. CASE obj' = obj
      BY <3>1 DEF SameObject
    <3>2. CASE StatusWritten
      BY <2>1, <3>2, UpdateTyped DEF SameObject
    <3> QED BY <1>6, <3>1, <3>2 DEF UpdateStatus, StatusWritten
  <2> QED BY <2>1, <2>2 DEF Onward, Working, Deleting
<1>7. CASE PersistRemoving
  <2>1. pc = "removing" /\ pc' \in {"remove", "finish"} /\ cache' = cache
    BY <1>7 DEF PersistRemoving
  <2>2. SameObject
    <3>1. CASE obj' = obj
      BY <3>1 DEF SameObject
    <3>2. CASE RemovingWritten
      BY <2>1, <3>2, RemovingTyped DEF SameObject
    <3> QED BY <1>7, <3>1, <3>2 DEF PersistRemoving, RemovingWritten
  <2> QED BY <2>1, <2>2 DEF Onward, Working, Deleting
<1>8. CASE Sidecar
  BY <1>8 DEF Sidecar, DeploySucceeds, RemoveSucceeds, Deploying, Goto, Onward, SameObject,
     Working, Deleting
<1>9. CASE SidecarFails
  BY <1>9 DEF SidecarFails, DeployFails, RemoveFails, Deploying, Goto, Onward, SameObject,
     Working, Deleting
<1> QED BY <1>1, <1>2, <1>3, <1>4, <1>5, <1>6, <1>7, <1>8, <1>9

(* The worker takes the object up. *)
Taken ==
    /\ pc = "idle" /\ obj' = obj /\ cache' = cache
    /\ Read.exists /\ Read.finalizer
    /\ \/ pc' = "finish"
       \/ pc' = "reconcile" /\ ~Read.deleting
       \/ pc' = "removing" /\ Read.deleting

LEMMA WorkerTakesUp ==
    ASSUME TakeUp
    PROVE  \/ Ignore \/ AddFinalizer \/ Taken
BY DEF TakeUp, SidecarUnavailable, Terminal, StartReconcile, StartDeletion, Begin, Active, Taken

LEMMA HeldTaken == Held /\ Taken => Held'
<1> SUFFICES ASSUME Held, Taken PROVE Held'
  OBVIOUS
<1>1. CASE "lag" \in Faults
  BY <1>1 DEF Held, Taken, Read, Working, Deleting
<1>2. CASE "lag" \notin Faults
  BY <1>2 DEF Held, Taken, Read, Working, Deleting
<1> QED BY <1>1, <1>2

LEMMA HeldOnward == Held /\ Onward => Held'
<1> SUFFICES ASSUME Held, Onward PROVE Held'
  OBVIOUS
<1>1. "idle" \notin Working /\ "idle" \notin Deleting
  BY DEF Working, Deleting
<1> QED BY <1>1 DEF Held, Onward, SameObject

(* A user leaves the object alone but for the spec and the annotation, or
   deletes it: with the finalizer it stays. *)
LEMMA UserWrites ==
    ASSUME Typed, Users
    PROVE  /\ UNCHANGED <<pc, cache, mem, original, client, hasClient, cluster>> /\ obj.exists
           /\ \/ /\ SameObject /\ obj'.status = obj.status
                 /\ obj.redeploy => obj'.redeploy
                 /\ \/ obj'.spec = obj.spec
                    \/ Webhook /\ obj.status.phase = "Deploying"
                          => obj'.spec.source = obj.spec.source
              \/ /\ obj.finalizer /\ obj'.exists /\ obj'.finalizer /\ obj'.deleting
                 /\ obj'.status = obj.status /\ obj'.spec = obj.spec
                 /\ obj'.redeploy = obj.redeploy
              \/ ~obj.finalizer /\ obj' = NoObject
<1>1. obj \in Objects /\ obj.exists
  BY Existing DEF Users, Edit, Annotate, Delete, Write, Typed
<1>2. UNCHANGED <<pc, cache, mem, original, client, hasClient, cluster>>
  BY DEF Users, Edit, Annotate, Delete, Write
<1>3. ASSUME NEW spec \in Specs, Edit(spec)
      PROVE  /\ SameObject /\ obj'.status = obj.status /\ obj'.redeploy = obj.redeploy
             /\ Webhook /\ obj.status.phase = "Deploying" => obj'.spec.source = obj.spec.source
  <2>1. obj' = [obj EXCEPT !.spec = spec] /\ ValidateUpdate(spec)
    BY <1>3 DEF Edit, Write
  <2>2. SameObject /\ obj'.status = obj.status /\ obj'.redeploy = obj.redeploy /\ obj'.spec = spec
    BY <1>1, <2>1 DEF Objects, SameObject
  <2> QED BY <2>1, <2>2 DEF ValidateUpdate
<1>4. CASE Annotate
  <2>1. obj' = [obj EXCEPT !.redeploy = TRUE]
    BY <1>4 DEF Annotate, Write
  <2>2. SameObject /\ obj'.status = obj.status /\ obj'.redeploy = TRUE /\ obj'.spec = obj.spec
    BY <1>1, <2>1 DEF Objects, SameObject
  <2> QED BY <1>1, <1>2, <2>2
<1>5. CASE Delete
  <2>1. CASE obj.finalizer
    <3>1. obj' = [obj EXCEPT !.deleting = TRUE]
      BY <1>5, <2>1 DEF Delete, Write
    <3>2. /\ obj'.exists = obj.exists /\ obj'.finalizer = obj.finalizer /\ obj'.deleting = TRUE
          /\ obj'.status = obj.status /\ obj'.spec = obj.spec /\ obj'.redeploy = obj.redeploy
      BY <1>1, <3>1 DEF Objects
    <3> QED BY <1>1, <1>2, <2>1, <3>2
  <2>2. CASE ~obj.finalizer
    BY <1>1, <1>2, <1>5, <2>2 DEF Delete, Write
  <2> QED BY <2>1, <2>2
<1> QED BY <1>1, <1>2, <1>3, <1>4, <1>5 DEF Users

LEMMA HeldUsers == Typed /\ Held /\ Users => Held'
<1> SUFFICES ASSUME Typed, Held, Users PROVE Held'
  OBVIOUS
<1>1. UNCHANGED <<pc, cache>> /\ obj.exists
  BY UserWrites
<1>2. CASE SameObject
  BY <1>1, <1>2 DEF Held, SameObject
<1>3. CASE obj.finalizer /\ obj'.exists /\ obj'.finalizer /\ obj'.deleting
  BY <1>1, <1>3 DEF Held
<1>4. CASE ~obj.finalizer /\ obj' = NoObject
  <2>1. obj'.exists = FALSE
    BY <1>4 DEF NoObject
  <2>2. pc = "idle"
    BY <1>1, <1>4 DEF Held
  <2> QED BY <1>1, <1>4, <2>1, <2>2 DEF Held, Working, Deleting
<1> QED BY <1>2, <1>3, <1>4, UserWrites

LEMMA HeldStep == Typed /\ Held /\ [Next]_vars => Held'
<1> SUFFICES ASSUME Typed, Held, [Next]_vars PROVE Held'
  OBVIOUS
<1>1. CASE UNCHANGED <<obj, cache, pc>>
  BY <1>1 DEF Held
<1>2. CASE AddFinalizer
  <2>1. pc = "idle" /\ pc' = pc /\ cache' = cache
    BY <1>2 DEF AddFinalizer, worker
  <2>2. CASE obj' = obj
    BY <1>1, <2>1, <2>2
  <2>3. CASE obj.exists /\ obj' = [obj EXCEPT !.finalizer = TRUE]
    <3>1. obj \in Objects
      BY <2>3, Existing DEF Typed
    <3>2. obj'.exists = obj.exists /\ obj'.finalizer = TRUE /\ obj'.deleting = obj.deleting
      BY <2>3, <3>1 DEF Objects
    <3> QED BY <2>1, <2>3, <3>2 DEF Held
  <2> QED BY <1>2, <2>2, <2>3 DEF AddFinalizer
<1>3. CASE RemoveFinalizer
  <2>1. CASE pc' = "finish" /\ UNCHANGED <<obj, cache>>
    BY <1>3, <2>1 DEF RemoveFinalizer, Held, Working, Deleting
  <2>2. CASE obj' = NoObject /\ Rest(FALSE) /\ UNCHANGED cache
    <3>1. pc = "dropFinalizer" /\ pc' = "idle" /\ obj'.exists = FALSE
      BY <1>3, <2>2 DEF RemoveFinalizer, Rest, NoObject
    <3> QED BY <2>2, <3>1 DEF Held, Working, Deleting
  <2> QED BY <1>3, <2>1, <2>2 DEF RemoveFinalizer
<1>4. CASE WatchEvent
  BY <1>4 DEF WatchEvent, worker, Held
<1>5. CASE Crash
  BY <1>5 DEF Crash, Rest, Held, Working, Deleting
<1>6. CASE TakeUp
  BY <1>1, <1>2, <1>6, WorkerTakesUp, HeldTaken DEF Ignore, worker
<1> QED BY <1>1, <1>2, <1>3, <1>4, <1>5, <1>6, WorkerGoesOn, HeldOnward, HeldUsers
        DEF Next, Work, SetZarfClient, vars, worker

LEMMA AlwaysHeld == SafetySpec => []Held
BY HeldInit, HeldStep, AlwaysTyped, PTL DEF SafetySpec

(* However stale the read that started it, no deploy runs for an object that is
   gone: the worker that could drop the finalizer has by then read the deletion,
   and nobody else can let the object go. *)
THEOREM NothingForTheGone == SafetySpec => []NoDeployForGone
<1>1. Held => NoDeployForGone
  BY DEF Held, NoDeployForGone, Working
<1> QED BY <1>1, AlwaysHeld, PTL

-----------------------------------------------------------------------------
(* The status and the spec while a deploy is under way, for reads that are up to
   date *)

Undone ==
    /\ pc \in {"reconcile", "persist"} => original = obj.status
    /\ pc = "persist" => mem.status.phase = "Deploying"
    /\ pc \in Working => obj.redeploy \/ ~isMaxRetriesTerminal(obj.status)

(* From the read on, because the patch of the phase Deploying may fail and leave
   the one of an earlier attempt. *)
Guarded ==
    Webhook /\ pc \in Working /\ obj.status.phase = "Deploying"
        => obj.spec.source = mem.spec.source

LEMMA GotoSpec ==
    ASSUME Typed, pc # "idle", NEW st, NEW l, Goto(l, st)
    PROVE  mem'.spec = mem.spec /\ mem'.status = st
BY DEF Typed, Goto, Objects

LEMMA UndoneUsers ==
    ASSUME Typed, Held, Undone, Guarded, Users
    PROVE  Undone' /\ Guarded'
<1>1. UNCHANGED <<pc, mem, original>> /\ obj.exists
  BY UserWrites
<1>2. CASE obj'.status = obj.status /\ (obj.redeploy => obj'.redeploy)
           /\ (obj'.spec = obj.spec \/ (Webhook /\ obj.status.phase = "Deploying"
                                            => obj'.spec.source = obj.spec.source))
  BY <1>1, <1>2 DEF Undone, Guarded, isMaxRetriesTerminal
<1>3. CASE ~obj.finalizer
  <2>1. pc = "idle"
    BY <1>1, <1>3 DEF Held
  <2> QED BY <1>1, <2>1 DEF Undone, Guarded, Working
<1>4. CASE obj'.status = obj.status /\ obj'.spec = obj.spec /\ obj'.redeploy = obj.redeploy
  BY <1>1, <1>4 DEF Undone, Guarded, isMaxRetriesTerminal
<1> QED BY <1>2, <1>3, <1>4, UserWrites

LEMMA UndoneStep ==
    ASSUME "lag" \notin Faults, Typed, Held, Undone, Guarded, [Next]_vars
    PROVE  Undone' /\ Guarded'
<1>1. CASE UNCHANGED <<obj, pc, mem, original>>
  BY <1>1 DEF Undone, Guarded, isMaxRetriesTerminal
<1>2. CASE pc' \notin Working
  BY <1>2 DEF Undone, Guarded, Working
<1>3. CASE StartReconcile
  <2>1. obj \in Objects /\ Read = obj
    BY <1>3, Existing DEF StartReconcile, Active, Read, Typed
  <2>2. /\ pc' = "reconcile" /\ mem' = [obj EXCEPT !.status = obj.status]
        /\ original' = obj.status /\ obj' = obj
        /\ obj.redeploy \/ ~isMaxRetriesTerminal(obj.status)
    BY <1>3, <2>1 DEF StartReconcile, Begin
  <2>3. mem'.spec = obj.spec
    BY <2>1, <2>2 DEF Objects
  <2> QED BY <2>2, <2>3 DEF Undone, Guarded, Working, isMaxRetriesTerminal
<1>4. CASE reconcile
  <2>1. pc = "reconcile" /\ UNCHANGED <<obj, original>>
    BY <1>4 DEF reconcile, Found, LookupFails
  <2>2. \/ pc' = "finish"
        \/ Goto("persist", [mem.status EXCEPT !.phase = "Deploying", !.ready = "Deploying"])
    BY <1>4 DEF reconcile, Found, LookupFails, Decide, Goto
  <2>3. CASE Goto("persist", [mem.status EXCEPT !.phase = "Deploying", !.ready = "Deploying"])
    <3>1. pc' = "persist" /\ mem \in Objects /\ mem.status \in Statuses
      BY <2>1, <2>3 DEF Goto, Typed, Objects
    <3>2. /\ mem'.spec = mem.spec
          /\ mem'.status = [mem.status EXCEPT !.phase = "Deploying", !.ready = "Deploying"]
      BY <2>1, <2>3, GotoSpec
    <3>3. mem'.status.phase = "Deploying"
      BY <3>1, <3>2 DEF Statuses
    <3> QED BY <2>1, <3>1, <3>2, <3>3 DEF Undone, Guarded, Working, isMaxRetriesTerminal
  <2> QED BY <1>2, <2>2, <2>3 DEF Working
<1>5. CASE PersistDeploying
  <2>1. pc = "persist" /\ pc' = "prepare"
    BY <1>5 DEF PersistDeploying
  <2>2. CASE PatchStatus
    <3>1. obj'.status = MergePatch(original, mem.status, obj.status) /\ mem'.spec = obj'.spec
      BY <2>1, <2>2, PatchTyped
    <3>2. /\ original = obj.status /\ obj.status \in Statuses
          /\ mem.status \in Statuses /\ mem.status.phase = "Deploying"
      BY <2>1, Existing DEF Undone, Typed, Objects
    <3>3. "phase" \in DOMAIN obj.status
      BY <3>2 DEF Statuses
    <3>4. obj'.status.phase = IF mem.status.phase # original.phase THEN mem.status.phase
                              ELSE obj.status.phase
      BY <3>1, <3>2, <3>3, MergedStatus
    <3>5. obj'.status.phase = "Deploying"
      BY <3>2, <3>4
    <3> QED BY <2>1, <3>1, <3>5 DEF Undone, Guarded, Working, isMaxRetriesTerminal
  <2>3. CASE UNCHANGED <<obj, mem, original>>
    BY <2>1, <2>3 DEF Undone, Guarded, Working, isMaxRetriesTerminal
  <2> QED BY <1>5, <2>2, <2>3 DEF PersistDeploying
<1>6. CASE pc \in {"prepare", "deploy", "retry"} /\ pc' \in {"deploy", "retry", "clear"}
           /\ obj' = obj /\ mem'.spec = mem.spec
  BY <1>6 DEF Undone, Guarded, Working, isMaxRetriesTerminal
<1>7. CASE preDeployCleanup
  <2>1. pc = "prepare" /\ obj' = obj
    BY <1>7 DEF preDeployCleanup
  <2>2. CASE Goto("deploy", mem.status)
    BY <1>6, <2>1, <2>2, GotoSpec DEF Goto
  <2> QED BY <1>2, <1>7, <2>2 DEF preDeployCleanup, Goto, Working
<1>8. CASE retryDeployAfterHelmRecovery
  BY <1>6, <1>8 DEF retryDeployAfterHelmRecovery
<1>9. CASE DeploySucceeds
  <2>1. pc \in {"deploy", "retry"} /\ obj' = obj
    BY <1>9 DEF DeploySucceeds, Deploying
  <2>2. PICK l \in {"clear", "finish"} : Goto(l, applyDeploySuccessStatus(mem, plan.source))
    BY <1>9 DEF DeploySucceeds
  <2>3. pc' = l /\ mem'.spec = mem.spec
    BY <2>1, <2>2, GotoSpec DEF Goto
  <2> QED BY <1>2, <1>6, <2>1, <2>3 DEF Working
<1>10. CASE TakeUp
  <2>1. CASE Ignore \/ AddFinalizer
    <3>1. pc' = "idle"
      BY <2>1 DEF Ignore, AddFinalizer, worker
    <3> QED BY <1>2, <3>1 DEF Working
  <2>2. CASE SidecarUnavailable \/ Terminal \/ StartDeletion
    <3>1. pc' \in {"finish", "removing"}
      BY <2>2 DEF SidecarUnavailable, Terminal, StartDeletion, Begin
    <3> QED BY <1>2, <3>1 DEF Working
  <2> QED BY <1>3, <1>10, <2>1, <2>2 DEF TakeUp
<1>11. CASE \/ ClearAnnotation \/ UpdateStatus \/ PersistRemoving \/ RemoveFinalizer
            \/ RemoveSucceeds \/ SidecarFails \/ Crash
  <2>1. pc' \notin Working
    BY <1>11 DEF ClearAnnotation, UpdateStatus, PersistRemoving, RemoveFinalizer, Rest,
       RemoveSucceeds, SidecarFails, DeployFails, RemoveFails, Goto, Crash, Working
  <2> QED BY <1>2, <2>1
<1> QED BY <1>1, <1>4, <1>5, <1>7, <1>8, <1>9, <1>10, <1>11, UndoneUsers
        DEF Next, Work, Sidecar, WatchEvent, SetZarfClient, vars, worker

LEMMA AlwaysUndone ==
    ASSUME "lag" \notin Faults
    PROVE  SafetySpec => [](Undone /\ Guarded)
<1>1. Init => Undone /\ Guarded
  BY DEF Init, Undone, Guarded, Working
<1>2. Typed /\ Held /\ Undone /\ Guarded /\ [Next]_vars => (Undone /\ Guarded)'
  BY UndoneStep
<1> QED BY <1>1, <1>2, AlwaysTyped, AlwaysHeld, PTL DEF SafetySpec

(* Unless it works from a stale read, the reconciler starts no deploy of a
   package whose retries are used up, and none under way has them used up: only
   the annotation starts again. *)
THEOREM RetriesAreBounded ==
    ASSUME "lag" \notin Faults
    PROVE  SafetySpec => []RetriesStop
<1>1. Undone => RetriesStop
  BY DEF Undone, RetriesStop, Working
<1> QED BY <1>1, AlwaysUndone, PTL

(* Unless it works from a stale read, the worker deploying a package knows the
   source that ValidateUpdate protects, whichever of its patches failed. *)
THEOREM SourceIsGuarded ==
    ASSUME "lag" \notin Faults
    PROVE  SafetySpec => []SourceFixedWhileDeploying
<1>1. Guarded => SourceFixedWhileDeploying
  BY DEF Guarded, SourceFixedWhileDeploying, Working
<1> QED BY <1>1, AlwaysUndone, PTL

-----------------------------------------------------------------------------
(* Who lets the object go *)

(* A status that names the package was written under the finalizer, and the
   worker that drops it has seen the name and, given a client, removed the
   package. *)
Released ==
    obj.exists /\ obj.status.packageName =>
        /\ obj.finalizer
        /\ pc = "remove" => mem.status.packageName
        /\ pc = "dropFinalizer" /\ hasClient => cluster = Absent

LEMMA ReleasedInit == Init => Released
<1> SUFFICES ASSUME Init PROVE Released
  OBVIOUS
<1>1. PICK spec \in Specs : obj = [NoObject EXCEPT !.exists = TRUE, !.spec = spec]
  BY DEF Init
<1>2. obj.status = ZeroStatus
  BY <1>1 DEF NoObject
<1>3. ~ZeroStatus.packageName
  BY DEF ZeroStatus
<1> QED BY <1>2, <1>3 DEF Released

LEMMA ReleasedUsers ==
    ASSUME Typed, Released, Users
    PROVE  Released' /\ (obj.status.packageName /\ obj.exists => obj'.exists)
<1>1. UNCHANGED <<pc, mem, hasClient, cluster>> /\ obj.exists
  BY UserWrites
<1>2. CASE SameObject /\ obj'.status = obj.status
  BY <1>1, <1>2 DEF Released, SameObject
<1>3. CASE obj.finalizer /\ obj'.exists /\ obj'.finalizer /\ obj'.status = obj.status
  BY <1>1, <1>3 DEF Released
<1>4. CASE ~obj.finalizer /\ obj' = NoObject
  BY <1>1, <1>4 DEF Released, NoObject
<1> QED BY <1>2, <1>3, <1>4, UserWrites

LEMMA ReleasedStep ==
    ASSUME Typed, Held, Released, [Next]_vars
    PROVE  /\ Released'
           /\ obj.status.packageName /\ obj.exists /\ ~obj'.exists
                => pc = "dropFinalizer" /\ (hasClient => cluster' = Absent)
<1>1. CASE Onward /\ pc' \notin {"remove", "dropFinalizer"}
  BY <1>1 DEF Onward, SameObject, Held, Released
<1>2. CASE obj' = obj /\ pc' \notin {"remove", "dropFinalizer"}
  BY <1>2 DEF Released
<1>3. CASE UNCHANGED <<obj, pc, mem, hasClient, cluster>>
  BY <1>3 DEF Released
<1>4. CASE AddFinalizer
  <2>1. pc' = "idle"
    BY <1>4 DEF AddFinalizer, worker
  <2>2. CASE obj.exists /\ obj' = [obj EXCEPT !.finalizer = TRUE]
    <3>1. obj \in Objects
      BY <2>2, Existing DEF Typed
    <3>2. obj'.exists = obj.exists /\ obj'.finalizer = TRUE
      BY <2>2, <3>1 DEF Objects
    <3> QED BY <2>1, <2>2, <3>2 DEF Released
  <2> QED BY <1>2, <1>4, <2>1, <2>2 DEF AddFinalizer
<1>5. CASE TakeUp
  BY <1>2, <1>3, <1>4, <1>5, WorkerTakesUp DEF Ignore, Taken, worker
<1>6. CASE PersistRemoving
  <2>1. pc = "removing" /\ pc' \in {"remove", "finish"} /\ Onward
    BY <1>6, WorkerGoesOn DEF PersistRemoving
  <2>2. CASE RemovingWritten /\ pc' = "remove"
    <3>1. obj'.exists = obj.exists /\ obj'.finalizer = obj.finalizer
      BY <2>1 DEF Onward, SameObject
    <3>2. obj'.status.packageName => mem'.status.packageName
      BY <2>1, <2>2, RemovingTyped
    <3> QED BY <2>1, <2>2, <3>1, <3>2 DEF Held, Released
  <2>3. CASE ~obj.exists /\ UNCHANGED obj
    BY <2>3 DEF Released
  <2> QED BY <1>1, <1>6, <2>1, <2>2, <2>3 DEF PersistRemoving, RemovingWritten
<1>7. CASE RemoveSucceeds
  <2>1. pc = "remove" /\ pc' = "dropFinalizer" /\ UNCHANGED <<obj, hasClient>>
    BY <1>7 DEF RemoveSucceeds, Goto
  <2>2. CASE obj.exists /\ obj.status.packageName /\ hasClient
    <3>1. CallsRemove
      BY <2>1, <2>2 DEF Released, CallsRemove
    <3>2. cluster' = Absent
      BY <1>7, <3>1 DEF RemoveSucceeds
    <3> QED BY <2>1, <2>2, <3>2 DEF Released
  <2>3. CASE ~(obj.exists /\ obj.status.packageName /\ hasClient)
    BY <2>1, <2>3 DEF Released
  <2> QED BY <2>2, <2>3
<1>8. CASE RemoveFinalizer
  <2>1. pc = "dropFinalizer" /\ cluster' = cluster /\ pc' \in {"idle", "finish"}
    BY <1>8 DEF RemoveFinalizer, Rest
  <2>2. CASE obj' = NoObject
    BY <2>1, <2>2 DEF Released, NoObject
  <2> QED BY <1>2, <1>8, <2>1, <2>2 DEF RemoveFinalizer
<1>9. CASE \/ reconcile \/ PersistDeploying \/ preDeployCleanup \/ retryDeployAfterHelmRecovery
           \/ ClearAnnotation \/ UpdateStatus \/ DeploySucceeds \/ SidecarFails
  <2>1. Onward
    BY <1>9, WorkerGoesOn DEF Sidecar
  <2>2. pc' \notin {"remove", "dropFinalizer"}
    BY <1>9 DEF reconcile, Found, LookupFails, Decide, PersistDeploying, preDeployCleanup,
       retryDeployAfterHelmRecovery, ClearAnnotation, UpdateStatus, Rest, DeploySucceeds,
       SidecarFails, DeployFails, RemoveFails, Goto
  <2> QED BY <1>1, <2>1, <2>2
<1>10. CASE Crash
  BY <1>2, <1>10 DEF Crash, Rest
<1>11. CASE Users
  BY <1>11, ReleasedUsers
<1> QED BY <1>3, <1>5, <1>6, <1>7, <1>8, <1>9, <1>10, <1>11
        DEF Next, Work, Sidecar, WatchEvent, SetZarfClient, vars, worker

(* An object whose status names the package is let go by RemoveFinalizer only,
   and by a reconcile that had a client only once Zarf has removed the package,
   whatever patches fail, reads are stale, clients are taken away or restarts
   interrupt the deletion. *)
THEOREM ReleasedOnlyAfterRemoval == SafetySpec => ReleasedAfterRemoval
<1>1. Init => Released
  BY ReleasedInit
<1>2. Typed /\ Held /\ Released /\ [Next]_vars => Released'
  BY ReleasedStep
<1>3. Typed /\ Held /\ Released /\ [Next]_vars
        => [obj.status.packageName /\ obj.exists /\ ~obj'.exists
              => pc = "dropFinalizer" /\ (hasClient => cluster' = Absent)]_vars
  BY ReleasedStep
<1> QED BY <1>1, <1>2, <1>3, AlwaysTyped, AlwaysHeld, PTL
        DEF SafetySpec, ReleasedAfterRemoval

-----------------------------------------------------------------------------
(* The queue, for reads from the cache *)

(* What is not queued and not being worked on needs nothing as far as the cache
   knows, or is gone, which is one more event. *)
Watched ==
    /\ obj.exists /\ obj.deleting => obj.finalizer
    /\ cache.exists /\ cache.deleting => cache.finalizer
    /\ pc = "idle" /\ ~queued => NothingToDo(cache) \/ ~obj.exists

(* An event that annotationPredicate drops leaves nothing to do. *)
LEMMA DroppedEvents ==
    ASSUME Typed, Held, "lag" \in Faults, Watched, NothingToDo(cache),
           ~annotationPredicate(cache, obj)
    PROVE  NothingToDo(obj)
<1>1. cache.exists = obj.exists /\ cache.spec = obj.spec /\ cache.deleting = obj.deleting
  BY DEF annotationPredicate
<1>2. cache.exists /\ cache.finalizer /\ obj.exists => obj.finalizer
  BY DEF Held
<1> QED BY <1>1, <1>2 DEF NothingToDo, Watched

LEMMA WatchedStep ==
    ASSUME "lag" \in Faults, Typed, Held, Watched, [Next]_vars
    PROVE  Watched'
<1>2. CASE Onward /\ (pc' = "idle" => queued')
  BY <1>2 DEF Onward, SameObject, Watched
<1>3. CASE UNCHANGED <<obj, cache, queued, pc>>
  BY <1>3 DEF Watched, NothingToDo
<1>4. CASE TakeUp
  <2>1. CASE Ignore
    BY <2>1 DEF Ignore, Read, Watched, NothingToDo
  <2>2. CASE AddFinalizer
    <3>1. queued' /\ cache' = cache
      BY <2>2 DEF AddFinalizer
    <3>2. CASE obj.exists /\ obj' = [obj EXCEPT !.finalizer = TRUE]
      <4>1. obj \in Objects
        BY <3>2, Existing DEF Typed
      <4>2. obj'.finalizer
        BY <3>2, <4>1 DEF Objects
      <4> QED BY <3>1, <4>2 DEF Watched
    <3> QED BY <2>2, <3>1, <3>2 DEF AddFinalizer, Watched
  <2>3. CASE Taken
    BY <2>3 DEF Taken, Watched
  <2> QED BY <1>4, <2>1, <2>2, <2>3, WorkerTakesUp
<1>5. CASE RemoveFinalizer
  <2>1. cache' = cache
    BY <1>5 DEF RemoveFinalizer
  <2>2. CASE obj' = NoObject
    BY <2>1, <2>2 DEF NoObject, Watched
  <2>3. CASE pc' = "finish" /\ obj' = obj
    BY <2>1, <2>3 DEF Watched
  <2> QED BY <1>5, <2>2, <2>3 DEF RemoveFinalizer
<1>6. CASE Users
  <2>1. UNCHANGED <<pc, cache, queued>> /\ obj.exists
    BY <1>6, UserWrites DEF Users, Edit, Annotate, Delete, Write
  <2>2. CASE SameObject
    BY <2>1, <2>2 DEF SameObject, Watched, NothingToDo
  <2>3. CASE obj'.exists /\ obj'.finalizer
    BY <2>1, <2>3 DEF Watched, NothingToDo
  <2>4. CASE obj' = NoObject
    BY <2>1, <2>4 DEF Watched, NoObject
  <2> QED BY <1>6, <2>2, <2>3, <2>4, UserWrites
<1>7. CASE WatchEvent
  <2>1. /\ UNCHANGED <<pc, obj>> /\ cache' = obj
        /\ queued' = (queued \/ annotationPredicate(cache, obj))
    BY <1>7 DEF WatchEvent, worker
  <2>2. ASSUME pc = "idle", ~queued' PROVE NothingToDo(obj)
    <3>1. ~queued /\ ~annotationPredicate(cache, obj)
      BY <2>1, <2>2
    <3>2. CASE ~obj.exists
      BY <3>2 DEF NothingToDo
    <3>3. CASE NothingToDo(cache)
      BY <3>1, <3>3, DroppedEvents
    <3> QED BY <2>2, <3>1, <3>2, <3>3 DEF Watched
  <2>3. NothingToDo(cache)' = NothingToDo(obj)
    BY <2>1 DEF NothingToDo
  <2> QED BY <2>1, <2>2, <2>3 DEF Watched
<1>8. CASE Crash
  BY <1>8 DEF Crash, Rest, Watched
<1>9. CASE \/ reconcile \/ PersistDeploying \/ preDeployCleanup \/ retryDeployAfterHelmRecovery
           \/ ClearAnnotation \/ UpdateStatus \/ PersistRemoving \/ Sidecar \/ SidecarFails
  <2>1. pc' = "idle" => queued'
    BY <1>9 DEF reconcile, Found, LookupFails, Decide, PersistDeploying, preDeployCleanup,
       retryDeployAfterHelmRecovery, ClearAnnotation, UpdateStatus, Rest, PersistRemoving,
       Sidecar, DeploySucceeds, RemoveSucceeds, SidecarFails, DeployFails, RemoveFails, Goto
  <2> QED BY <1>2, <1>9, <2>1, WorkerGoesOn
<1> QED BY <1>3, <1>4, <1>5, <1>6, <1>7, <1>8, <1>9 DEF Next, Work, SetZarfClient, vars, worker

(* Whatever fails, no object that needs the reconciler is out of its sight: with
   the cache up to date, it is being worked on, queued, or there is nothing to
   do for it. *)
THEOREM NothingIsForgotten ==
    ASSUME "lag" \in Faults
    PROVE  SafetySpec => []NeverForgotten
<1>1. Init => Watched
  <2> SUFFICES ASSUME Init PROVE Watched
    OBVIOUS
  <2>1. PICK spec \in Specs : obj = [NoObject EXCEPT !.exists = TRUE, !.spec = spec]
    BY DEF Init
  <2>2. obj.deleting = FALSE /\ cache = obj /\ queued
    BY <2>1 DEF NoObject, Init
  <2> QED BY <2>2 DEF Watched
<1>2. Typed /\ Held /\ Watched /\ [Next]_vars => Watched'
  BY WatchedStep
<1>3. Watched => NeverForgotten
  BY DEF Watched, NeverForgotten, NothingToDo
<1> QED BY <1>1, <1>2, <1>3, AlwaysTyped, AlwaysHeld, PTL DEF SafetySpec
=============================================================================
