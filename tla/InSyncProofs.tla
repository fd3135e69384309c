---------------------------- MODULE InSyncProofs ----------------------------
(***************************************************************************)
(* InSync for any versions, values and edits, when users edit at rest and  *)
(* nothing cuts a deploy off.  The status that InSync is about is written  *)
(* by a worker from what it read, so the invariant follows the hash from   *)
(* the read to the patch: whom the stored status can be trusted with, and  *)
(* what the status in memory will say once it is written.                  *)
(***************************************************************************)
EXTENDS ReconcilerProofs

(* Reads are up to date, patches succeed, the client stays, the sidecar neither
   cancels nor refuses, and dependencies are met. *)
Quiet ==
    /\ ~EditsRace
    /\ Faults \subseteq {"lookup", "secret", "drift"}
    /\ SidecarCodes \subseteq {"Rejected", "Error"}

Matches(h) == cluster.state = "healthy" /\ cluster.values = h[2] /\ cluster.source >= h[1]

(* The hash of a status that may be reported as Deployed without a deploy. *)
Trusted(st) ==
    st.phase \in {"", "Pending", "Deployed"} /\ st.hash # NoHash => Matches(st.hash)

(* The phase Deploying stays behind when the annotation is cleared.  Then the
   hash may be an old one, but users wait for the end of the deploy. *)
Resumable(st) ==
    st.phase = "Deploying" /\ st.hash = DeploymentHash(obj.spec) => Matches(st.hash)

(* What the worker has in memory is about the object as it is. *)
Current ==
    /\ mem.spec = obj.spec
    /\ original.phase = obj.status.phase /\ original.hash = obj.status.hash
    /\ sendsRV /\ ~fresh => obj.deleting

Planned ==
    /\ pc = "reconcile" =>
          /\ mem.status.phase = obj.status.phase /\ mem.status.hash = obj.status.hash
          /\ Resumable(obj.status) /\ obj.status.phase # "Removing"
    /\ pc \in {"persist", "prepare", "deploy", "retry"} =>
          /\ mem.status.phase = "Deploying" /\ mem.status.hash = obj.status.hash
          /\ plan.source >= mem.spec.source
    /\ pc \in {"prepare", "deploy", "retry", "clear"} => obj.status.phase = "Deploying"
    /\ pc = "clear" => mem.status.hash = DeploymentHash(mem.spec) /\ Matches(mem.status.hash)

Outcome ==
    /\ pc = "finish" =>
          /\ Trusted(mem.status)
          /\ obj.deleting \/ Resumable(mem.status)
          /\ mem.status.phase = "Removing" => obj.deleting
    /\ pc \in Deleting => mem.status.phase = "Removing" /\ obj.deleting
    /\ pc = "removing" => mem.status.hash = obj.status.hash
    /\ pc \in {"remove", "dropFinalizer"} => obj.status.phase = "Removing"

Stored ==
    /\ obj.exists \/ obj = NoObject
    /\ Trusted(obj.status)
    /\ obj.status.phase = "Removing" => obj.deleting
    /\ pc = "idle" => ~sendsRV /\ (obj.deleting \/ Resumable(obj.status))

Sync == Stored /\ (pc # "idle" /\ obj.exists => Current /\ Planned /\ Outcome)

LEMMA QuietReads ==
    ASSUME Quiet
    PROVE  /\ "lag" \notin Faults /\ "patch" \notin Faults /\ "crash" \notin Faults
           /\ "outage" \notin Faults /\ "dependency" \notin Faults
           /\ "Busy" \notin SidecarCodes /\ "Canceled" \notin SidecarCodes
           /\ Read = obj
BY DEF Quiet, Read

LEMMA ZeroFields == ZeroStatus.phase = "" /\ ZeroStatus.hash = NoHash
BY DEF ZeroStatus

LEMMA NothingStored == obj = NoObject => obj.status = ZeroStatus /\ ~obj.exists
BY DEF NoObject

LEMMA HashIsSet == \A spec : DeploymentHash(spec) # NoHash
BY DEF DeploymentHash, NoHash

(* The phase and the hash of a status that is written. *)
LEMMA CountedPhase ==
    ASSUME NEW st \in Statuses
    PROVE  /\ CountFailure(st).phase \in {st.phase, "Failed"}
           /\ SecretFailure(st).phase = "Failed"
           /\ DeployFailed(st).phase = "Failed"
           /\ RemoveFailed(st).phase = st.phase
           /\ resetFailures(st).phase = st.phase
<1>1. recordFailure(st).phase = st.phase /\ recordFailure(st) \in Statuses
  BY CountTyped DEF recordFailure, Statuses
<1>2. \A s \in Statuses : markMaxRetriesExceeded(s).phase = "Failed"
  BY DEF markMaxRetriesExceeded, Statuses
<1>3. CountFailure(st).phase \in {st.phase, "Failed"}
  BY <1>1, <1>2 DEF CountFailure
<1>4. SecretFailure(st).phase = "Failed"
  BY DEF SecretFailure, recordFailure, Statuses
<1>5. /\ DeployFailed(st).phase = "Failed" /\ RemoveFailed(st).phase = st.phase
      /\ resetFailures(st).phase = st.phase
  BY DEF DeployFailed, RemoveFailed, resetFailures, Statuses
<1> QED BY <1>3, <1>4, <1>5

(* A step that leaves all this alone. *)
LEMMA SyncFrame ==
    ASSUME Sync, UNCHANGED <<obj, pc, mem, original, plan, sendsRV, fresh, cluster>>
    PROVE  Sync'
<1>1. Stored'
  BY DEF Sync, Stored, Trusted, Resumable, Matches, DeploymentHash
<1>2. Current => Current'
  BY DEF Current
<1>3. Planned => Planned'
  BY DEF Planned, Resumable, Matches, DeploymentHash
<1>4. Outcome => Outcome'
  BY DEF Outcome, Trusted, Resumable, Matches, DeploymentHash, Deleting
<1> QED BY <1>1, <1>2, <1>3, <1>4 DEF Sync

(* The status of an object that is gone says nothing. *)
LEMMA SyncGone ==
    ASSUME obj' = NoObject, pc' = "idle" => ~sendsRV'
    PROVE  Sync'
<1>1. obj'.status = ZeroStatus /\ ~obj'.exists
  BY DEF NoObject
<1>2. obj'.status.phase = "" /\ obj'.status.hash = NoHash
  BY <1>1, ZeroFields
<1> QED BY <1>1, <1>2 DEF Sync, Stored, Trusted, Resumable

(* A step of the worker in memory; the cluster may change. *)
LEMMA SyncInMemory ==
    ASSUME Typed, Sync, pc # "idle", NEW l, l # "idle", NEW st \in Statuses, Goto(l, st),
           UNCHANGED <<obj, original, sendsRV, fresh>>, Trusted(obj.status)',
           obj.exists => Planned' /\ Outcome'
    PROVE  Sync'
<1>1. pc' = l /\ mem'.spec = mem.spec
  <2>1. mem \in Objects
    BY DEF Typed
  <2> QED BY <2>1, WithStatus DEF Goto
<1>2. Stored'
  BY <1>1 DEF Sync, Stored
<1>3. obj.exists => Current'
  BY <1>1 DEF Sync, Current
<1> QED BY <1>2, <1>3 DEF Sync

(* The end of an attempt that failed: the phase Failed is trusted with nothing. *)
LEMMA EndsFailed ==
    ASSUME pc' = "finish", mem'.status.phase = "Failed"
    PROVE  Planned' /\ Outcome'
BY DEF Planned, Outcome, Trusted, Resumable, Deleting

(* The end of a removal that failed. *)
LEMMA EndsRemoving ==
    ASSUME pc' = "finish", mem'.status.phase \in {"Failed", "Removing"}, obj'.deleting
    PROVE  Planned' /\ Outcome'
BY DEF Planned, Outcome, Trusted, Resumable, Deleting

(* A stored phase that is trusted with nothing. *)
LEMMA Untrusted ==
    ASSUME obj'.status.phase \in {"Deploying", "Failed", "Removing"}
    PROVE  Trusted(obj.status)'
BY DEF Trusted

-----------------------------------------------------------------------------
(* Without restarts and outages the first client stays *)

Connected == client /\ (pc # "idle" => hasClient)

LEMMA ConnectedStep ==
    ASSUME Quiet, Connected, [Next]_vars
    PROVE  Connected'
<1>1. client' = client
  BY QuietReads DEF Next, Work, TakeUp, Ignore, AddFinalizer, SidecarUnavailable, Terminal, StartReconcile,
     StartDeletion, Begin, reconcile, Found, LookupFails, PersistDeploying, preDeployCleanup,
     retryDeployAfterHelmRecovery, ClearAnnotation, UpdateStatus, PersistRemoving,
     RemoveFinalizer, Sidecar, DeploySucceeds, RemoveSucceeds, SidecarFails, DeployFails,
     RemoveFails, Users, Edit, Annotate, Delete, Write, WatchEvent, Crash, SetZarfClient, vars,
     Connected
<1>2. pc' = "idle" \/ hasClient' = client \/ (pc # "idle" /\ hasClient' = hasClient)
      \/ UNCHANGED <<pc, hasClient>>
  BY DEF Next, Work, TakeUp, Ignore, AddFinalizer, SidecarUnavailable, Terminal, StartReconcile,
     StartDeletion, Begin, reconcile, Found, LookupFails, PersistDeploying, preDeployCleanup,
     retryDeployAfterHelmRecovery, ClearAnnotation, UpdateStatus, PersistRemoving, Rest,
     RemoveFinalizer, Sidecar, DeploySucceeds, RemoveSucceeds, SidecarFails, DeployFails,
     RemoveFails, Deploying, Users, Edit, Annotate, Delete, Write, WatchEvent, Crash,
     SetZarfClient, vars, worker
<1> QED BY <1>1, <1>2 DEF Connected

-----------------------------------------------------------------------------
(* The object is taken up *)

LEMMA SyncTakeUp ==
    ASSUME Quiet, Typed, Connected, Sync, TakeUp
    PROVE  Sync'
<1>0. Read = obj /\ pc = "idle" /\ client
  BY QuietReads DEF TakeUp, Ignore, AddFinalizer, SidecarUnavailable, Terminal, StartReconcile,
     StartDeletion, Connected
<1>1. CASE Ignore
  <2>1. UNCHANGED <<obj, pc, mem, original, plan, sendsRV, fresh, cluster>>
    BY <1>1 DEF Ignore, worker
  <2> QED BY <2>1, SyncFrame
<1>2. CASE AddFinalizer
  <2>1. CASE UNCHANGED obj
    <3>1. UNCHANGED <<obj, pc, mem, original, plan, sendsRV, fresh, cluster>>
      BY <1>2, <2>1 DEF AddFinalizer, worker
    <3> QED BY <3>1, SyncFrame
  <2>2. CASE obj.exists /\ obj' = [obj EXCEPT !.finalizer = TRUE]
    <3>1. obj \in Objects
      BY <2>2, Existing DEF Typed
    <3>2. /\ obj'.exists = obj.exists /\ obj'.spec = obj.spec /\ obj'.status = obj.status
          /\ obj'.deleting = obj.deleting
      BY <2>2, <3>1 DEF Objects
    <3>3. UNCHANGED <<pc, sendsRV, cluster>>
      BY <1>2 DEF AddFinalizer, worker
    <3>4. Stored'
      BY <2>2, <3>2, <3>3 DEF Sync, Stored, Trusted, Resumable, Matches, DeploymentHash
    <3> QED BY <1>0, <3>3, <3>4 DEF Sync
  <2> QED BY <1>2, <2>1, <2>2 DEF AddFinalizer
<1>3. ASSUME NEW l, NEW st \in Statuses, Begin(l, st), obj.exists
      PROVE  /\ pc' = l /\ mem'.status = st /\ mem'.spec = obj.spec /\ original' = obj.status
             /\ UNCHANGED <<obj, cluster, plan, sendsRV, fresh>>
  <2>1. obj \in Objects
    BY <1>3, Existing DEF Typed
  <2> QED BY <1>0, <1>3, <2>1, WithStatus DEF Begin
<1>4. ASSUME NEW l, l # "idle", NEW st \in Statuses, Begin(l, st), obj.exists
      PROVE  Stored' /\ Current'
  <2>1. /\ pc' = l /\ mem'.spec = obj.spec /\ original' = obj.status
        /\ UNCHANGED <<obj, cluster, plan, sendsRV, fresh>>
    BY <1>3, <1>4
  <2>2. Stored' /\ ~sendsRV'
    BY <1>0, <1>4, <2>1 DEF Sync, Stored, Trusted, Matches
  <2> QED BY <2>1, <2>2 DEF Current
<1>5. obj.status \in Statuses
  BY Existing DEF Typed
<1>6. CASE Terminal
  <2>1. Begin("finish", obj.status) /\ obj.exists /\ obj.status.phase = "Failed"
    BY <1>0, <1>6 DEF Terminal, Active, isMaxRetriesTerminal
  <2>2. pc' = "finish" /\ mem'.status = obj.status
    BY <1>3, <1>5, <2>1
  <2>3. Planned' /\ Outcome'
    BY <2>1, <2>2, EndsFailed
  <2> QED BY <1>4, <1>5, <2>1, <2>3 DEF Sync
<1>7. CASE StartReconcile
  <2>1. Begin("reconcile", obj.status) /\ obj.exists /\ ~obj.deleting
    BY <1>0, <1>7 DEF StartReconcile, Active
  <2>2. pc' = "reconcile" /\ mem'.status = obj.status /\ UNCHANGED <<obj, cluster>>
    BY <1>3, <1>5, <2>1
  <2>3. Resumable(obj.status) /\ obj.status.phase # "Removing"
    BY <1>0, <2>1 DEF Sync, Stored
  <2>4. Planned'
    BY <2>2, <2>3 DEF Planned, Resumable, Matches, DeploymentHash
  <2>5. Outcome'
    BY <2>2 DEF Outcome, Deleting
  <2> QED BY <1>4, <1>5, <2>1, <2>4, <2>5 DEF Sync
<1>8. CASE StartDeletion
  <2> DEFINE st == [obj.status EXCEPT !.phase = "Removing"]
  <2>1. Begin("removing", st) /\ obj.exists /\ obj.deleting
    BY <1>0, <1>8 DEF StartDeletion
  <2>2. st \in Statuses /\ st.phase = "Removing" /\ st.hash = obj.status.hash
    BY <1>5 DEF Statuses, Phases
  <2> HIDE DEF st
  <2>3. pc' = "removing" /\ mem'.status = st /\ UNCHANGED obj
    BY <1>3, <2>1, <2>2
  <2>4. Planned' /\ Outcome'
    BY <2>1, <2>2, <2>3 DEF Planned, Outcome, Deleting
  <2> QED BY <1>4, <2>1, <2>2, <2>4 DEF Sync
<1> QED BY <1>0, <1>1, <1>2, <1>6, <1>7, <1>8 DEF TakeUp, SidecarUnavailable

-----------------------------------------------------------------------------
(* reconcile and deploy *)

LEMMA TrustKept ==
    ASSUME Sync, UNCHANGED <<obj, cluster>>
    PROVE  Trusted(obj.status)'
BY DEF Sync, Stored, Trusted, Matches

LEMMA NewestSource ==
    ASSUME NEW m \in Objects
    PROVE  deploymentSource(m) >= m.spec.source
<1>1. m.spec.source \in Sources /\ m.status.source \in Sources \cup {0}
  BY DEF Objects, Specs, Statuses
<1>2. m.spec.source \in Nat
  BY <1>1, Bounds
<1>4. CASE m.status.source = 0
  <2>1. ~(0 > m.spec.source) /\ m.spec.source >= m.spec.source
    BY <1>2
  <2> QED BY <1>4, <2>1 DEF deploymentSource
<1>5. CASE m.status.source \in Sources
  <2>1. m.status.source \in Nat
    BY <1>5, Bounds
  <2> QED BY <1>2, <2>1 DEF deploymentSource
<1> QED BY <1>1, <1>4, <1>5

(* What is deployed already, with the hash of the spec, is as the hash says. *)
LEMMA DeployedMatches ==
    ASSUME Typed, Sync, pc = "reconcile", obj.exists, NEW dep, NEW drift, ~needsDeploy(dep, drift)
    PROVE  mem.status.hash = DeploymentHash(mem.spec) /\ Matches(mem.status.hash)
<1>1. /\ mem.status.hash = DeploymentHash(mem.spec) /\ mem.status.phase # "Failed"
  BY DEF needsDeploy, deploymentSpecChanged
<1>2. /\ mem.status.phase = obj.status.phase /\ mem.status.hash = obj.status.hash
      /\ Resumable(obj.status) /\ obj.status.phase # "Removing" /\ mem.spec = obj.spec
      /\ Trusted(obj.status)
  BY DEF Sync, Stored, Current, Planned
<1>3. mem.status.phase \in {"", "Pending", "Deploying", "Deployed"}
  <2>1. obj.status \in Statuses
    BY Existing DEF Typed
  <2> QED BY <1>1, <1>2, <2>1 DEF Statuses, Phases
<1>4. obj.status.hash # NoHash
  BY <1>1, <1>2, HashIsSet
<1>5. CASE obj.status.phase = "Deploying"
  BY <1>1, <1>2, <1>5 DEF Resumable
<1>6. CASE obj.status.phase \in {"", "Pending", "Deployed"}
  BY <1>1, <1>2, <1>4, <1>6 DEF Trusted
<1> QED BY <1>1, <1>2, <1>3, <1>5, <1>6

LEMMA SyncDecide ==
    ASSUME Quiet, Typed, Sync, pc = "reconcile", obj.exists, NEW dep, NEW lookupFailed,
           Decide(dep, lookupFailed), UNCHANGED <<obj, cluster, original, sendsRV, fresh>>
    PROVE  Sync'
<1>1. mem \in Objects /\ mem.status \in Statuses
  BY DEF Typed, Objects
<1>2. Trusted(obj.status)'
  BY TrustKept
<1> DEFINE kept == [resetFailures(syncStatusFromDeployed(mem.status)) EXCEPT
                       !.phase = "Deployed", !.ready = "Deployed"]
           begun == [mem.status EXCEPT !.phase = "Deploying", !.ready = "Deploying"]
<1>3. PICK drift :
        \/ ~needsDeploy(dep, drift) /\ Goto("finish", kept)
        \/ /\ Goto("persist", begun)
           /\ plan' = [source |-> deploymentSource(mem), wasFailed |-> mem.status.phase = "Failed"]
  BY QuietReads DEF Decide
<1>4. kept \in Statuses /\ kept.phase = "Deployed" /\ kept.hash = mem.status.hash
  BY <1>1, Counted DEF resetFailures, syncStatusFromDeployed, Statuses, Phases, Reasons
<1>5. begun \in Statuses /\ begun.phase = "Deploying" /\ begun.hash = mem.status.hash
  BY <1>1 DEF Statuses, Phases, Reasons
<1> HIDE DEF kept, begun
<1>6. CASE ~needsDeploy(dep, drift) /\ Goto("finish", kept)
  <2>1. pc' = "finish" /\ mem'.status = kept
    BY <1>4, <1>6, MoveTyped
  <2>2. Matches(mem.status.hash)
    BY <1>6, DeployedMatches
  <2>3. Matches(mem.status.hash)'
    BY <1>4, <2>1, <2>2 DEF Matches
  <2>4. Planned'
    BY <2>1 DEF Planned
  <2>5. Outcome'
    BY <1>4, <2>1, <2>3 DEF Outcome, Trusted, Resumable, Deleting
  <2> QED BY <1>2, <1>4, <1>6, <2>4, <2>5, SyncInMemory
<1>7. CASE /\ Goto("persist", begun)
           /\ plan' = [source |-> deploymentSource(mem), wasFailed |-> mem.status.phase = "Failed"]
  <2>1. pc' = "persist" /\ mem'.status = begun /\ mem'.spec = mem.spec
    BY <1>1, <1>5, <1>7, WithStatus DEF Goto
  <2>2. plan'.source >= mem'.spec.source
    BY <1>1, <1>7, <2>1, NewestSource
  <2>3. mem.status.hash = obj.status.hash
    BY DEF Sync, Planned
  <2>4. Planned'
    BY <1>5, <2>1, <2>2, <2>3 DEF Planned
  <2>5. Outcome'
    BY <2>1 DEF Outcome, Deleting
  <2> QED BY <1>2, <1>5, <1>7, <2>4, <2>5, SyncInMemory
<1> QED BY <1>3, <1>6, <1>7

LEMMA SyncReconcile ==
    ASSUME Quiet, Typed, Held, Sync, reconcile
    PROVE  Sync'
<1>1. pc = "reconcile" /\ obj.exists /\ UNCHANGED <<obj, cluster, original, sendsRV, fresh>>
  BY DEF reconcile, Found, LookupFails, Held, Working
<1>2. CASE Decide(deployed, FALSE)
  BY <1>1, <1>2, SyncDecide
<1>3. CASE Decide(Absent, TRUE)
  BY <1>1, <1>3, SyncDecide
<1>4. CASE Goto("finish", SecretFailure(mem.status))
  <2>1. mem.status \in Statuses
    BY <1>1 DEF Typed, Objects
  <2>2. SecretFailure(mem.status) \in Statuses /\ SecretFailure(mem.status).phase = "Failed"
    BY <2>1, FailureTyped, CountedPhase
  <2>3. pc' = "finish" /\ mem'.status.phase = "Failed"
    BY <1>1, <1>4, <2>2, MoveTyped
  <2> QED BY <1>1, <1>4, <2>2, <2>3, EndsFailed, TrustKept, SyncInMemory
<1> QED BY <1>2, <1>3, <1>4 DEF reconcile, Found, LookupFails

(* What a patch stores, and what is read back, of the phase and the hash. *)
LEMMA MergedFields ==
    ASSUME NEW from \in Statuses, NEW to \in Statuses, NEW base \in Statuses,
           from.phase = base.phase, from.hash = base.hash
    PROVE  /\ MergePatch(from, to, base).phase = to.phase
           /\ MergePatch(from, to, base).hash = to.hash
<1>1. "phase" \in DOMAIN base /\ "hash" \in DOMAIN base
  BY DEF Statuses
<1> QED BY <1>1, MergedStatus

LEMMA DecodedFields ==
    ASSUME NEW m \in Objects, NEW o \in Objects
    PROVE  /\ Decode(m, o).spec = o.spec
           /\ Decode(m, o).status.phase
                 = IF o.status.phase = "" THEN m.status.phase ELSE o.status.phase
           /\ Decode(m, o).status.hash
                 = IF o.status.hash = NoHash THEN m.status.hash ELSE o.status.hash
<1>1. m.status \in Statuses /\ o.status \in Statuses
  BY DEF Objects
<1> DEFINE st == DecodeOver(ZeroStatus, m.status, o.status)
<1>2. /\ st.phase = IF o.status.phase = "" THEN m.status.phase ELSE o.status.phase
      /\ st.hash = IF o.status.hash = NoHash THEN m.status.hash ELSE o.status.hash
  BY <1>1, ZeroFields DEF DecodeOver, Statuses
<1>3. Decode(m, o).status = st /\ Decode(m, o).spec = o.spec
  BY DEF Decode, Objects
<1> QED BY <1>2, <1>3

LEMMA SyncPersistDeploying ==
    ASSUME Quiet, Typed, Held, Sync, PersistDeploying
    PROVE  Sync'
<1>1. /\ pc = "persist" /\ pc' = "prepare" /\ obj.exists /\ PatchStatus
      /\ UNCHANGED <<cluster, plan>>
  BY QuietReads DEF PersistDeploying, PatchFails, Held, Working
<1>2. /\ mem.status.phase = "Deploying" /\ mem.status.hash = obj.status.hash
      /\ plan.source >= mem.spec.source
      /\ mem.spec = obj.spec
      /\ original.phase = obj.status.phase /\ original.hash = obj.status.hash
  BY <1>1 DEF Sync, Current, Planned
<1>3. /\ obj' \in Objects /\ mem \in Objects
      /\ obj'.status = MergePatch(original, mem.status, obj.status)
      /\ obj'.spec = obj.spec /\ mem'.spec = obj.spec /\ obj'.exists
  BY <1>1, PatchTyped DEF Typed
<1>4. original \in Statuses /\ mem.status \in Statuses /\ obj.status \in Statuses
  BY <1>1, <1>3, Existing DEF Typed, TypeOK, Objects
<1>5. obj'.status.phase = "Deploying" /\ obj'.status.hash = obj.status.hash
  BY <1>2, <1>3, <1>4, MergedFields
<1>6. mem' = Decode(mem, obj') /\ original' = mem'.status /\ fresh'
  BY <1>1 DEF PatchStatus
<1>7. mem'.status.phase = "Deploying" /\ mem'.status.hash = obj'.status.hash
  BY <1>2, <1>3, <1>5, <1>6, DecodedFields
<1>8. Stored'
  BY <1>1, <1>3, <1>5, Untrusted DEF Stored
<1>9. Current'
  BY <1>3, <1>5, <1>6, <1>7 DEF Current
<1>10. Planned'
  BY <1>1, <1>2, <1>3, <1>5, <1>7 DEF Planned
<1>11. Outcome'
  BY <1>1 DEF Outcome, Deleting
<1> QED BY <1>8, <1>9, <1>10, <1>11 DEF Sync

LEMMA SyncCleanup ==
    ASSUME Typed, Held, Sync, preDeployCleanup
    PROVE  Sync'
<1>1. /\ pc = "prepare" /\ obj.exists /\ mem \in Objects /\ mem.status \in Statuses
      /\ UNCHANGED <<obj, original, plan, sendsRV, fresh>>
  BY DEF preDeployCleanup, Held, Working, Typed, Objects
<1>2. Trusted(obj.status)'
  BY <1>1, Untrusted DEF Sync, Planned
<1>3. CASE Goto("finish", SecretFailure(mem.status))
  <2>1. SecretFailure(mem.status) \in Statuses /\ SecretFailure(mem.status).phase = "Failed"
    BY <1>1, FailureTyped, CountedPhase
  <2>2. pc' = "finish" /\ mem'.status.phase = "Failed"
    BY <1>1, <1>3, <2>1, MoveTyped
  <2> QED BY <1>1, <1>2, <1>3, <2>1, <2>2, EndsFailed, SyncInMemory
<1>4. CASE Goto("deploy", mem.status)
  <2>1. pc' = "deploy" /\ mem'.status = mem.status /\ mem'.spec = mem.spec
    BY <1>1, <1>4, WithStatus DEF Goto
  <2>2. Planned'
    BY <1>1, <2>1 DEF Sync, Planned
  <2>3. Outcome'
    BY <2>1 DEF Outcome, Deleting
  <2> QED BY <1>1, <1>2, <1>4, <2>2, <2>3, SyncInMemory
<1> QED BY <1>3, <1>4 DEF preDeployCleanup

LEMMA SyncRetry ==
    ASSUME Held, Sync, retryDeployAfterHelmRecovery
    PROVE  Sync'
<1>1. /\ pc = "deploy" /\ pc' = "retry" /\ obj.exists
      /\ UNCHANGED <<obj, mem, original, plan, sendsRV, fresh>>
  BY DEF retryDeployAfterHelmRecovery, Held, Working
<1>2. Trusted(obj.status)'
  BY <1>1, Untrusted DEF Sync, Planned
<1>3. Stored'
  BY <1>1, <1>2 DEF Sync, Stored
<1>4. Current' /\ Planned'
  BY <1>1 DEF Sync, Current, Planned
<1>5. Outcome'
  BY <1>1 DEF Outcome, Deleting
<1> QED BY <1>3, <1>4, <1>5 DEF Sync

LEMMA SyncDeploySucceeds ==
    ASSUME Typed, Held, Sync, DeploySucceeds
    PROVE  Sync'
<1>1. /\ pc \in {"deploy", "retry"} /\ obj.exists /\ mem \in Objects /\ plan \in Plans
      /\ UNCHANGED <<obj, original, plan, sendsRV, fresh>>
  BY DEF DeploySucceeds, Deploying, Held, Working, Typed
<1>2. plan.source >= mem.spec.source /\ obj.status.phase = "Deploying"
  BY <1>1 DEF Sync, Planned
<1>3. Trusted(obj.status)'
  BY <1>1, <1>2, Untrusted
<1> DEFINE st == applyDeploySuccessStatus(mem, plan.source)
<1>4. st \in Statuses
  BY <1>1, SuccessTyped DEF Plans
<1>5. st.phase = "Deployed" /\ st.hash = DeploymentHash(mem.spec)
  BY <1>1 DEF applyDeploySuccessStatus, resetFailures, Objects, Statuses
<1>6. PICK l \in {"clear", "finish"} : Goto(l, st)
  BY DEF DeploySucceeds
<1> HIDE DEF st
<1>7. pc' = l /\ mem'.status = st /\ mem'.spec = mem.spec
  BY <1>1, <1>4, <1>6, WithStatus DEF Goto
<1>8. Matches(mem.status.hash)'
  <2>1. /\ cluster'.state = "healthy" /\ cluster'.values = mem.spec.values
        /\ cluster'.source = plan.source
    BY DEF DeploySucceeds, Attempted, Deployment
  <2>2. mem'.status.hash[1] = mem.spec.source /\ mem'.status.hash[2] = mem.spec.values
    BY <1>5, <1>7 DEF DeploymentHash
  <2> QED BY <1>2, <2>1, <2>2 DEF Matches
<1>9. mem'.status.hash = DeploymentHash(mem'.spec)
  BY <1>5, <1>7
<1>10. Planned'
  BY <1>1, <1>2, <1>7, <1>8, <1>9 DEF Planned
<1>11. Outcome'
  BY <1>5, <1>7, <1>8 DEF Outcome, Trusted, Resumable, Deleting
<1> QED BY <1>1, <1>3, <1>4, <1>6, <1>10, <1>11, SyncInMemory

LEMMA SyncDeployFails ==
    ASSUME Quiet, Typed, Held, Sync, NEW code \in SidecarCodes, DeployFails(code)
    PROVE  Sync'
<1>1. /\ pc \in {"deploy", "retry"} /\ obj.exists /\ mem.status \in Statuses
      /\ UNCHANGED <<obj, original, plan, sendsRV, fresh>>
  BY DEF DeployFails, Deploying, Held, Working, Typed, Objects
<1>2. Trusted(obj.status)'
  BY <1>1, Untrusted DEF Sync, Planned
<1>3. DeployFailed(mem.status) \in Statuses /\ DeployFailed(mem.status).phase = "Failed"
  BY <1>1, OutcomeTyped, CountedPhase
<1>4. /\ CountFailure(DeployFailed(mem.status)) \in Statuses
      /\ CountFailure(DeployFailed(mem.status)).phase = "Failed"
  BY <1>3, FailureTyped, CountedPhase
<1>5. \/ Goto("finish", DeployFailed(mem.status))
      \/ Goto("finish", CountFailure(DeployFailed(mem.status)))
  BY QuietReads DEF DeployFails
<1>6. PICK st \in Statuses : Goto("finish", st) /\ st.phase = "Failed"
  BY <1>3, <1>4, <1>5
<1>7. pc' = "finish" /\ mem'.status.phase = "Failed"
  BY <1>1, <1>6, MoveTyped
<1> QED BY <1>1, <1>2, <1>6, <1>7, EndsFailed, SyncInMemory

(* The reply to the cleared annotation puts the stored status in the place of
   the successful one: the phase Deploying with the old hash. *)
LEMMA SyncClearAnnotation ==
    ASSUME Quiet, Typed, Held, Sync, ClearAnnotation
    PROVE  Sync'
<1>1. /\ pc = "clear" /\ pc' = "finish" /\ obj.exists
      /\ obj' = [obj EXCEPT !.redeploy = FALSE]
      /\ mem' = Decode([mem EXCEPT !.redeploy = FALSE], obj')
      /\ fresh' /\ UNCHANGED <<cluster, original>>
  BY QuietReads DEF ClearAnnotation, PatchFails, Held, Working
<1>2. /\ obj.status.phase = "Deploying" /\ mem.spec = obj.spec
      /\ mem.status.hash = DeploymentHash(obj.spec) /\ Matches(mem.status.hash)
      /\ original.phase = obj.status.phase /\ original.hash = obj.status.hash
  BY <1>1 DEF Sync, Current, Planned
<1>3. /\ obj' \in Objects /\ obj'.exists /\ obj'.status = obj.status
      /\ obj'.deleting = obj.deleting
  BY <1>1, ClearTyped
<1>4. obj \in Objects /\ mem \in Objects
  BY <1>1, Existing DEF Typed
<1>5. obj'.spec = obj.spec
  BY <1>1, <1>4 DEF Objects
<1>6. /\ mem'.spec = obj'.spec /\ mem'.status.phase = "Deploying"
  <2> DEFINE sent == [mem EXCEPT !.redeploy = FALSE]
  <2>1. sent \in Objects /\ mem' = Decode(sent, obj')
    BY <1>1, <1>4 DEF Objects
  <2> HIDE DEF sent
  <2>2. obj'.status.phase = "Deploying"
    BY <1>2, <1>3
  <2> QED BY <1>3, <2>1, <2>2, DecodedFields
<1>7. Stored'
  BY <1>1, <1>2, <1>3, Untrusted DEF Stored
<1>8. Current'
  BY <1>1, <1>2, <1>3, <1>6 DEF Current
<1>9. Resumable(mem.status)'
  <2>1. Matches(DeploymentHash(obj.spec))
    BY <1>2
  <2>2. Matches(DeploymentHash(obj.spec))'
    BY <1>1, <1>5, <2>1 DEF Matches, DeploymentHash
  <2> QED BY <2>2 DEF Resumable
<1>10. Planned'
  BY <1>1 DEF Planned
<1>11. Outcome'
  BY <1>1, <1>6, <1>9 DEF Outcome, Trusted, Deleting
<1> QED BY <1>7, <1>8, <1>10, <1>11 DEF Sync

LEMMA SyncUpdateStatus ==
    ASSUME Quiet, Typed, Sync, UpdateStatus
    PROVE  Sync'
<1>1. pc = "finish" /\ pc' = "idle" /\ ~sendsRV' /\ UNCHANGED cluster
  BY DEF UpdateStatus, Rest
<1>2. CASE ~obj.exists
  <2>1. obj' = NoObject
    BY <1>2 DEF UpdateStatus, Sync, Stored
  <2> QED BY <1>1, <2>1, SyncGone
<1>3. CASE obj.exists /\ sendsRV /\ ~fresh /\ UNCHANGED obj
  <2>1. obj'.exists /\ obj'.deleting /\ (obj'.status.phase = "Removing" => obj'.deleting)
    BY <1>1, <1>3 DEF Sync, Current
  <2>2. Trusted(obj.status)'
    BY <1>1, <1>3, TrustKept
  <2> QED BY <1>1, <2>1, <2>2 DEF Sync, Stored
<1>4. CASE StatusWritten
  <2>1. /\ obj' \in Objects /\ obj'.exists /\ obj'.spec = obj.spec /\ obj'.deleting = obj.deleting
        /\ obj'.status = MergePatch(original, mem.status, obj.status)
    BY <1>1, <1>4, UpdateTyped DEF StatusWritten
  <2>2. original \in Statuses /\ mem.status \in Statuses /\ obj.status \in Statuses
    BY <1>1, Existing DEF Typed, TypeOK, Objects
  <2>3. /\ original.phase = obj.status.phase /\ original.hash = obj.status.hash
        /\ Trusted(mem.status) /\ (obj.deleting \/ Resumable(mem.status))
        /\ mem.status.phase = "Removing" => obj.deleting
    BY <1>1, <1>4 DEF Sync, Current, Outcome, StatusWritten
  <2>4. obj'.status.phase = mem.status.phase /\ obj'.status.hash = mem.status.hash
    BY <2>1, <2>2, <2>3, MergedFields
  <2>5. Trusted(obj.status)'
    BY <1>1, <2>3, <2>4 DEF Trusted, Matches
  <2>6. obj'.deleting \/ Resumable(obj.status)'
    BY <1>1, <2>1, <2>3, <2>4 DEF Resumable, Matches, DeploymentHash
  <2>7. Stored'
    BY <1>1, <2>1, <2>3, <2>4, <2>5, <2>6 DEF Stored
  <2> QED BY <1>1, <2>7 DEF Sync
<1> QED BY <1>2, <1>3, <1>4, QuietReads DEF UpdateStatus, PatchFails, StatusWritten

-----------------------------------------------------------------------------
(* handleDeletion *)

LEMMA SyncPersistRemoving ==
    ASSUME Quiet, Typed, Sync, PersistRemoving
    PROVE  Sync'
<1>1. pc = "removing" /\ UNCHANGED <<cluster, plan>>
  BY DEF PersistRemoving
<1>2. CASE ~obj.exists
  <2>1. obj' = NoObject /\ pc' = "remove"
    BY <1>2, QuietReads DEF PersistRemoving, Sync, Stored
  <2> QED BY <2>1, SyncGone
<1>3. CASE obj.exists
  <2>1. RemovingWritten /\ pc' = "remove" /\ original' = mem'.status /\ fresh'
    BY <1>3, QuietReads DEF PersistRemoving, RemovingWritten
  <2>2. /\ obj' \in Objects /\ obj'.exists = obj.exists /\ obj'.spec = obj.spec
        /\ obj'.deleting = obj.deleting
    BY <1>1, <2>1, RemovingTyped
  <2>3. mem.status.hash = obj.status.hash /\ obj.deleting
    BY <1>1, <1>3 DEF Sync, Outcome, Deleting
  <2>4. obj \in Objects /\ mem \in Objects
    BY <1>1, <1>3, Existing DEF Typed
  <2>5. obj'.status.phase = "Removing" /\ obj'.status.hash = obj.status.hash
    BY <2>1, <2>4 DEF RemovingWritten, Objects, Statuses
  <2>6. /\ mem'.spec = obj'.spec /\ mem'.status.phase = "Removing"
        /\ mem'.status.hash = obj'.status.hash
    <3>1. mem' = Decode(mem, obj')
      BY <2>1 DEF RemovingWritten
    <3>2. mem'.spec = obj'.spec /\ mem'.status.phase = "Removing"
      BY <2>2, <2>4, <2>5, <3>1, DecodedFields
    <3>3. mem'.status.hash = IF obj'.status.hash = NoHash THEN mem.status.hash ELSE obj'.status.hash
      BY <2>2, <2>4, <3>1, DecodedFields
    <3> QED BY <2>3, <2>5, <3>2, <3>3
  <2>7. Stored'
    BY <1>3, <2>1, <2>2, <2>3, <2>5, Untrusted DEF Stored
  <2>8. Current'
    BY <2>1, <2>5, <2>6 DEF Current
  <2>9. Planned'
    BY <2>1 DEF Planned
  <2>10. Outcome'
    BY <2>1, <2>2, <2>3, <2>5, <2>6 DEF Outcome, Deleting
  <2> QED BY <2>7, <2>8, <2>9, <2>10 DEF Sync
<1> QED BY <1>2, <1>3

(* The worker is in the middle of a removal. *)
LEMMA WhileRemoving ==
    ASSUME Typed, Sync, pc = "remove", UNCHANGED <<obj, original, sendsRV, fresh>>,
           NEW st \in Statuses, NEW l \in {"finish", "dropFinalizer"}, Goto(l, st),
           st.phase = "Removing" \/ (l = "finish" /\ st.phase = "Failed")
    PROVE  Sync'
<1>1. pc' = l /\ mem'.status = st
  BY MoveTyped
<1>2. CASE ~obj.exists
  <2>1. obj' = NoObject
    BY <1>2 DEF Sync, Stored
  <2> QED BY <1>1, <2>1, SyncGone
<1>3. CASE obj.exists
  <2>1. obj'.deleting /\ obj'.status.phase = "Removing"
    BY <1>3 DEF Sync, Outcome, Deleting
  <2>2. Trusted(obj.status)'
    BY <2>1, Untrusted
  <2>3. Planned' /\ Outcome'
    <3>1. CASE l = "finish"
      BY <1>1, <2>1, <3>1, EndsRemoving
    <3>2. CASE l = "dropFinalizer"
      BY <1>1, <2>1, <3>2 DEF Planned, Outcome, Deleting
    <3> QED BY <3>1, <3>2
  <2> QED BY <2>2, <2>3, SyncInMemory
<1> QED BY <1>2, <1>3

LEMMA SyncRemove ==
    ASSUME Typed, Sync, RemoveSucceeds \/ \E code : RemoveFails(code)
    PROVE  Sync'
<1>1. pc = "remove" /\ UNCHANGED <<obj, original, sendsRV, fresh>> /\ mem.status \in Statuses
  BY DEF RemoveSucceeds, RemoveFails, Typed, Objects
<1>2. CASE obj = NoObject
  <2>1. pc' # "idle"
    BY DEF RemoveSucceeds, RemoveFails, Goto
  <2> QED BY <1>1, <1>2, <2>1, SyncGone
<1>3. CASE obj # NoObject
  <2>1. mem.status.phase = "Removing"
    BY <1>1, <1>3 DEF Sync, Stored, Outcome, Deleting
  <2>2. resetFailures(mem.status) \in Statuses /\ resetFailures(mem.status).phase = "Removing"
    BY <1>1, <2>1, CountTyped, CountedPhase
  <2>3. SecretFailure(mem.status) \in Statuses /\ SecretFailure(mem.status).phase = "Failed"
    BY <1>1, FailureTyped, CountedPhase
  <2>4. RemoveFailed(mem.status) \in Statuses /\ RemoveFailed(mem.status).phase = "Removing"
    BY <1>1, <2>1, OutcomeTyped, CountedPhase
  <2>5. /\ CountFailure(RemoveFailed(mem.status)) \in Statuses
        /\ CountFailure(RemoveFailed(mem.status)).phase \in {"Failed", "Removing"}
    BY <2>4, FailureTyped, CountedPhase
  <2>6. \/ Goto("dropFinalizer", resetFailures(mem.status))
        \/ Goto("finish", SecretFailure(mem.status))
        \/ Goto("finish", mem.status)
        \/ Goto("finish", RemoveFailed(mem.status))
        \/ Goto("finish", CountFailure(RemoveFailed(mem.status)))
    BY DEF RemoveSucceeds, RemoveFails
  <2>7. PICK st \in Statuses, l \in {"finish", "dropFinalizer"} :
           Goto(l, st) /\ (st.phase = "Removing" \/ (l = "finish" /\ st.phase = "Failed"))
    BY <1>1, <2>1, <2>2, <2>3, <2>4, <2>5, <2>6
  <2> QED BY <1>1, <2>7, WhileRemoving
<1> QED BY <1>2, <1>3

LEMMA SyncRemoveFinalizer ==
    ASSUME Quiet, Sync, RemoveFinalizer
    PROVE  Sync'
<1>1. obj' = NoObject
  BY QuietReads DEF RemoveFinalizer, PatchFails, Sync, Stored
<1>2. pc' = "idle" => ~sendsRV'
  BY DEF RemoveFinalizer, Rest
<1> QED BY <1>1, <1>2, SyncGone

-----------------------------------------------------------------------------
(* Users *)

LEMMA SyncUsers ==
    ASSUME Quiet, Typed, Held, Sync, Users
    PROVE  Sync'
<1>1. /\ obj \in Objects /\ obj.exists
      /\ UNCHANGED <<pc, mem, original, plan, sendsRV, cluster>>
  BY Existing DEF Users, Edit, Annotate, Delete, Write, Typed
<1>2. ASSUME AtRest, obj'.exists, obj'.status = obj.status, obj'.deleting = obj.deleting
      PROVE  Sync'
  <2>1. pc = "idle" /\ obj.status.phase # "Deploying"
    BY <1>2 DEF AtRest
  <2>2. Stored'
    BY <1>1, <1>2, <2>1 DEF Sync, Stored, Trusted, Resumable, Matches
  <2> QED BY <1>1, <2>1, <2>2 DEF Sync
<1>3. ASSUME NEW spec \in Specs, Edit(spec) PROVE Sync'
  <2>1. AtRest /\ obj' = [obj EXCEPT !.spec = spec]
    BY <1>3 DEF Quiet, Edit, MayEdit, Write
  <2>2. obj'.exists = obj.exists /\ obj'.status = obj.status /\ obj'.deleting = obj.deleting
    BY <1>1, <2>1 DEF Objects
  <2> QED BY <1>1, <1>2, <2>1, <2>2
<1>4. CASE Annotate
  <2>1. AtRest /\ obj' = [obj EXCEPT !.redeploy = TRUE]
    BY <1>4 DEF Quiet, Annotate, MayEdit, Write
  <2>2. obj'.exists = obj.exists /\ obj'.status = obj.status /\ obj'.deleting = obj.deleting
    BY <1>1, <2>1 DEF Objects
  <2> QED BY <1>1, <1>2, <2>1, <2>2
<1>5. CASE Delete /\ obj.finalizer
  <2>1. obj' = [obj EXCEPT !.deleting = TRUE]
    BY <1>5 DEF Delete, Write
  <2>2. /\ obj'.exists = obj.exists /\ obj'.spec = obj.spec /\ obj'.status = obj.status
        /\ obj'.deleting
    BY <1>1, <2>1 DEF Objects
  <2>3. Stored'
    BY <1>1, <2>2 DEF Sync, Stored, Trusted, Matches
  <2>4. Current => Current'
    BY <1>1, <2>2 DEF Current
  <2>5. Planned => Planned'
    BY <1>1, <2>2 DEF Planned, Resumable, Matches, DeploymentHash
  <2>6. Outcome => Outcome'
    BY <1>1, <2>2 DEF Outcome, Trusted, Matches, Deleting
  <2> QED BY <1>1, <2>2, <2>3, <2>4, <2>5, <2>6 DEF Sync
<1>6. CASE Delete /\ ~obj.finalizer
  <2>1. obj' = NoObject
    BY <1>6 DEF Delete, Write
  <2>2. pc = "idle" /\ ~sendsRV
    BY <1>1, <1>6 DEF Held, Sync, Stored
  <2> QED BY <1>1, <2>1, <2>2, SyncGone
<1> QED BY <1>3, <1>4, <1>5, <1>6 DEF Users

-----------------------------------------------------------------------------
LEMMA SyncInit == Init => Sync
<1> SUFFICES ASSUME Init PROVE Sync
  OBVIOUS
<1>1. PICK spec \in Specs : obj = [NoObject EXCEPT !.exists = TRUE, !.spec = spec]
  BY DEF Init
<1>2. obj.exists /\ obj.status = ZeroStatus
  BY <1>1 DEF NoObject
<1>3. obj.status.phase = "" /\ obj.status.hash = NoHash
  BY <1>2, ZeroFields
<1>4. pc = "idle" /\ ~sendsRV
  BY DEF Init
<1> QED BY <1>2, <1>3, <1>4 DEF Sync, Stored, Trusted, Resumable

LEMMA SyncStep ==
    ASSUME Quiet, Typed, Held, Connected, Sync, [Next]_vars
    PROVE  Sync'
<1>1. ASSUME WatchEvent \/ UNCHANGED vars PROVE Sync'
  <2>1. UNCHANGED <<obj, pc, mem, original, plan, sendsRV, fresh, cluster>>
    BY <1>1 DEF WatchEvent, vars, worker
  <2> QED BY <2>1, SyncFrame
<1>2. CASE Work
  BY <1>2, SyncTakeUp, SyncReconcile, SyncPersistDeploying, SyncCleanup, SyncRetry,
     SyncClearAnnotation, SyncUpdateStatus, SyncPersistRemoving, SyncRemoveFinalizer DEF Work
<1>3. CASE Sidecar
  BY <1>3, SyncDeploySucceeds, SyncRemove DEF Sidecar
<1>4. CASE SidecarFails
  BY <1>4, SyncDeployFails, SyncRemove DEF SidecarFails
<1>5. CASE Users
  BY <1>5, SyncUsers
<1>6. ~Crash /\ ~SetZarfClient
  BY QuietReads DEF Connected, Crash, SetZarfClient
<1> QED BY <1>1, <1>2, <1>3, <1>4, <1>5, <1>6 DEF Next

(* InSync when users edit at rest, dependencies are met and no deploy is cut
   off: the hash that applyDeploySuccessStatus stores, and every status that
   carries it on (deploymentDecision, the patches, their replies), describes
   what Zarf has in the cluster. *)
THEOREM DeployedIsInSync ==
    ASSUME Quiet
    PROVE  SafetySpec => []InSync
<1>1. Init => Connected
  BY DEF Init, Connected
<1>2. Typed /\ Held /\ Connected /\ Sync /\ [Next]_vars => Connected' /\ Sync'
  BY ConnectedStep, SyncStep
<1>3. Typed /\ Sync => InSync
  <2> SUFFICES ASSUME Typed, Sync, pc = "idle", obj.status.phase = "Deployed",
                      obj.status.hash = DeploymentHash(obj.spec)
               PROVE  /\ cluster.state = "healthy" /\ cluster.values = obj.spec.values
                      /\ cluster.source >= obj.spec.source
    BY DEF InSync
  <2>1. obj.status.hash # NoHash
    BY HashIsSet
  <2>2. Matches(obj.status.hash)
    BY <2>1 DEF Sync, Stored, Trusted
  <2>3. obj.status.hash[1] = obj.spec.source /\ obj.status.hash[2] = obj.spec.values
    BY DEF DeploymentHash
  <2> QED BY <2>2, <2>3 DEF Matches
<1> QED BY <1>1, <1>2, <1>3, SyncInit, AlwaysTyped, AlwaysHeld, PTL DEF SafetySpec

=============================================================================
