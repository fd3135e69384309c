--------------------------- MODULE DeletionProofs ---------------------------
(***************************************************************************)
(* When deleting a ZarfPackage does remove its package.  The deletion goes *)
(* by status.packageName, which the first deploy leaves to the deferred    *)
(* status patch: DeletionRemovesPackage is a matter of that patch alone.   *)
(* Nothing is asked of what comes before the first deploy or of later      *)
(* ones, and of the deletion only that it is taken up with a client.       *)
(***************************************************************************)
EXTENDS ReconcilerProofs

(* From the end of the first status patch of a deploy to that of the deferred
   one, while the stored status does not name the package. *)
FirstDeploy == plan # NoPlan /\ pc # "persist" /\ ~obj.status.packageName

(* No user writes the object, the manager goes on, the sidecar deploys the
   package or refuses the call before anything is done, and the deferred patch
   is not lost. *)
Undisturbed ==
    /\ ~Users /\ ~Crash
    /\ \A code \in SidecarCodes : DeployFails(code) => code = "Busy" /\ pc = "deploy"
    /\ UpdateStatus /\ obj.exists /\ (sendsRV => fresh) => StatusWritten

FirstDeployUndisturbed == [][FirstDeploy => Undisturbed]_vars

(* Whatever outages and restarts there are, the connection monitor has set a
   client whenever a deletion is taken up. *)
DeletionsConnected == [][StartDeletion => client]_vars

-----------------------------------------------------------------------------
(* The name of the package in the status: stored, cached and in memory *)

(* The name is never taken back: where it was read, it is stored. *)
Recorded ==
    /\ "lag" \in Faults /\ cache.status.packageName /\ obj.exists => obj.status.packageName
    /\ pc # "idle" =>
          /\ original.packageName => mem.status.packageName
          /\ original.packageName /\ obj.exists => obj.status.packageName
          /\ pc \in {"reconcile", "persist", "removing"}
                => mem.status.packageName = original.packageName

LEMMA MergedName ==
    ASSUME NEW from \in Statuses, NEW to \in Statuses, NEW base \in Statuses
    PROVE  MergePatch(from, to, base).packageName
              = IF to.packageName # from.packageName THEN to.packageName ELSE base.packageName
<1>1. "packageName" \in DOMAIN base
  BY DEF Statuses
<1> QED BY <1>1, MergedStatus

LEMMA DecodedName ==
    ASSUME NEW m \in Objects, NEW o \in Objects
    PROVE  Decode(m, o).status.packageName = (o.status.packageName \/ m.status.packageName)
<1>1. m.status \in Statuses /\ o.status \in Statuses
  BY DEF Objects
<1> DEFINE st == DecodeOver(ZeroStatus, m.status, o.status)
<1>2. st.packageName = IF o.status.packageName = FALSE THEN m.status.packageName
                       ELSE o.status.packageName
  BY <1>1 DEF DecodeOver, Statuses, ZeroStatus
<1>3. Decode(m, o).status = st
  BY DEF Decode, Objects
<1>4. m.status.packageName \in BOOLEAN /\ o.status.packageName \in BOOLEAN
  BY <1>1 DEF Statuses
<1> QED BY <1>2, <1>3, <1>4

(* A step of the worker in memory keeps the name. *)
InMemory ==
    /\ pc \notin {"idle", "persist"} /\ pc' \notin {"idle", "reconcile", "removing"}
    /\ UNCHANGED <<obj, cache, original, sendsRV, fresh>>
    /\ UNCHANGED plan \/ pc = "reconcile"
    /\ mem.status.packageName => mem'.status.packageName
    /\ pc' = "persist" => /\ pc = "reconcile"
                          /\ mem'.status.packageName = mem.status.packageName

LEMMA WaitNamed ==
    ASSUME NEW st \in Statuses, NEW dep, NEW preserve
    PROVE  st.packageName => waitForDependencies(st, dep, preserve).packageName
BY DEF waitForDependencies, syncStatusFromDeployed, Statuses

LEMMA SuccessNamed ==
    ASSUME NEW m \in Objects, NEW source \in Sources
    PROVE  applyDeploySuccessStatus(m, source).packageName
<1>1. resetFailures(m.status) \in Statuses
  BY CountTyped DEF Objects
<1> DEFINE reset == resetFailures(m.status)
<1>2. "packageName" \in DOMAIN reset
  BY <1>1 DEF Statuses
<1> HIDE DEF reset
<1>3. [reset EXCEPT !.packageName = TRUE, !.source = source, !.attemptError = FALSE,
                    !.phase = "Deployed", !.ready = "Deployed",
                    !.hash = DeploymentHash(m.spec)].packageName
  BY <1>2
<1> QED BY <1>3 DEF applyDeploySuccessStatus, reset

LEMMA DecideInMemory ==
    ASSUME Typed, pc = "reconcile", NEW dep, NEW lookupFailed, Decide(dep, lookupFailed),
           UNCHANGED <<obj, cache, original, sendsRV, fresh>>
    PROVE  InMemory
<1>1. mem.status \in Statuses
  BY DEF Typed, Objects
<1> DEFINE kept == [resetFailures(syncStatusFromDeployed(mem.status)) EXCEPT
                       !.phase = "Deployed", !.ready = "Deployed"]
           begun == [mem.status EXCEPT !.phase = "Deploying", !.ready = "Deploying"]
           waits == waitForDependencies(mem.status, dep,
                        lookupFailed /\ canPreserveCurrentDeployment(mem.status))
<1>2. \/ Goto("finish", kept) \/ Goto("persist", begun) \/ Goto("finish", waits)
      \/ Goto("finish", mem.status)
  BY DEF Decide
<1>3. kept \in Statuses /\ kept.packageName
  BY <1>1, Counted DEF resetFailures, syncStatusFromDeployed, Statuses, Phases, Reasons
<1>4. begun \in Statuses /\ begun.packageName = mem.status.packageName
  BY <1>1 DEF Statuses, Phases, Reasons
<1>5. waits \in Statuses /\ (mem.status.packageName => waits.packageName)
  BY <1>1, WaitTyped, WaitNamed
<1> HIDE DEF kept, begun, waits
<1>6. CASE Goto("finish", kept)
  BY <1>3, <1>6, MoveTyped DEF InMemory
<1>7. CASE Goto("persist", begun)
  BY <1>4, <1>7, MoveTyped DEF InMemory
<1>8. CASE Goto("finish", waits)
  BY <1>5, <1>8, MoveTyped DEF InMemory
<1>9. CASE Goto("finish", mem.status)
  BY <1>1, <1>9, MoveTyped DEF InMemory
<1> QED BY <1>2, <1>6, <1>7, <1>8, <1>9

(* A step to l with a status that has the name, if the present one has it. *)
LEMMA GotoInMemory ==
    ASSUME Typed, pc \notin {"idle", "persist"}, NEW st \in Statuses,
           mem.status.packageName => st.packageName,
           NEW l \in {"deploy", "clear", "finish", "dropFinalizer"}, Goto(l, st),
           UNCHANGED <<obj, cache, original, sendsRV, fresh>>, UNCHANGED plan \/ pc = "reconcile"
    PROVE  InMemory /\ mem'.status = st
BY MoveTyped DEF InMemory

LEMMA SuccessInMemory ==
    ASSUME Typed, DeploySucceeds
    PROVE  InMemory /\ mem'.status.packageName
<1>1. pc \in {"deploy", "retry"} /\ UNCHANGED <<obj, cache, original, plan, sendsRV, fresh>>
  BY DEF DeploySucceeds, Deploying
<1>2. mem \in Objects /\ plan.source \in Sources
  BY <1>1 DEF Typed, Plans
<1>3. applyDeploySuccessStatus(mem, plan.source) \in Statuses
  BY <1>2, SuccessTyped
<1>4. applyDeploySuccessStatus(mem, plan.source).packageName
  BY <1>2, SuccessNamed
<1>5. PICK l \in {"clear", "finish"} : Goto(l, applyDeploySuccessStatus(mem, plan.source))
  BY DEF DeploySucceeds
<1> QED BY <1>1, <1>3, <1>4, <1>5, GotoInMemory

LEMMA WorkInMemory ==
    ASSUME Typed,
           \/ reconcile \/ preDeployCleanup \/ retryDeployAfterHelmRecovery
           \/ Sidecar \/ SidecarFails
    PROVE  InMemory
<1>1. CASE reconcile
  <2>1. pc = "reconcile" /\ UNCHANGED <<obj, cache, original, sendsRV, fresh>>
    BY <1>1 DEF reconcile, Found, LookupFails
  <2>2. mem.status \in Statuses
    BY <2>1 DEF Typed, Objects
  <2>3. CASE Goto("finish", SecretFailure(mem.status))
    BY <2>1, <2>2, <2>3, FailureTyped, GotoInMemory
  <2> QED BY <1>1, <2>1, <2>3, DecideInMemory DEF reconcile, Found, LookupFails
<1>2. CASE preDeployCleanup
  <2>1. pc = "prepare" /\ UNCHANGED <<obj, cache, original, plan, sendsRV, fresh>>
    BY <1>2 DEF preDeployCleanup
  <2>2. mem.status \in Statuses
    BY <2>1 DEF Typed, Objects
  <2>3. Goto("finish", SecretFailure(mem.status)) \/ Goto("deploy", mem.status)
    BY <1>2 DEF preDeployCleanup
  <2> QED BY <2>1, <2>2, <2>3, FailureTyped, GotoInMemory
<1>3. CASE retryDeployAfterHelmRecovery
  BY <1>3 DEF retryDeployAfterHelmRecovery, InMemory
<1>4. CASE DeploySucceeds
  BY <1>4, SuccessInMemory
<1>5. CASE RemoveSucceeds
  <2>1. /\ pc = "remove" /\ UNCHANGED <<obj, cache, original, plan, sendsRV, fresh>>
        /\ Goto("dropFinalizer", resetFailures(mem.status))
    BY <1>5 DEF RemoveSucceeds
  <2>2. mem.status \in Statuses
    BY <2>1 DEF Typed, Objects
  <2> QED BY <2>1, <2>2, CountTyped, GotoInMemory
<1>6. CASE SidecarFails
  <2>1. /\ pc \in {"deploy", "retry", "remove"}
        /\ UNCHANGED <<obj, cache, original, plan, sendsRV, fresh>>
    BY <1>6 DEF SidecarFails, DeployFails, RemoveFails, Deploying
  <2>2. mem.status \in Statuses
    BY <2>1 DEF Typed, Objects
  <2> DEFINE busy == [mem.status EXCEPT !.ready = "Deploying"]
  <2>3. busy \in Statuses /\ busy.packageName = mem.status.packageName
    BY <2>2 DEF Statuses, Reasons
  <2>4. \E st \in {mem.status, busy, DeployFailed(mem.status), RemoveFailed(mem.status),
                   SecretFailure(mem.status), CountFailure(DeployFailed(mem.status)),
                   CountFailure(RemoveFailed(mem.status))} : Goto("finish", st)
    BY <1>6 DEF SidecarFails, DeployFails, RemoveFails
  <2> HIDE DEF busy
  <2> QED BY <2>1, <2>2, <2>3, <2>4, OutcomeTyped, FailureTyped, GotoInMemory
<1> QED BY <1>1, <1>2, <1>3, <1>4, <1>5, <1>6 DEF Sidecar

(* What a patch of the worker leaves: the name that was stored, or in memory. *)
LEMMA PatchNamed ==
    ASSUME Typed, Recorded, pc = "persist", PatchStatus
    PROVE  /\ obj.status.packageName => obj'.status.packageName
           /\ mem'.status.packageName => obj'.status.packageName
           /\ original' = mem'.status /\ obj'.exists = obj.exists
<1>1. /\ obj' \in Objects /\ mem \in Objects /\ mem' = Decode(mem, obj')
      /\ obj'.status = MergePatch(original, mem.status, obj.status)
      /\ original' = mem'.status /\ obj'.exists = obj.exists /\ obj.exists
  BY PatchTyped DEF PatchStatus, Typed
<1>2. original \in Statuses /\ mem.status \in Statuses /\ obj.status \in Statuses
  BY <1>1, Existing DEF Typed, TypeOK, Objects
<1>3. /\ mem.status.packageName = original.packageName
      /\ original.packageName => obj.status.packageName
  BY <1>1 DEF Recorded
<1>4. obj'.status.packageName = obj.status.packageName
  BY <1>1, <1>2, <1>3, MergedName
<1>5. mem'.status.packageName = (obj'.status.packageName \/ mem.status.packageName)
  BY <1>1, DecodedName
<1> QED BY <1>1, <1>3, <1>4, <1>5

LEMMA ClearNamed ==
    ASSUME Typed, pc = "clear", obj.exists, obj' = [obj EXCEPT !.redeploy = FALSE],
           mem' = Decode([mem EXCEPT !.redeploy = FALSE], obj')
    PROVE  /\ obj'.status = obj.status /\ obj'.exists = obj.exists
           /\ mem.status.packageName => mem'.status.packageName
<1>1. obj' \in Objects /\ obj'.status = obj.status /\ obj'.exists = obj.exists
  BY ClearTyped
<1>2. [mem EXCEPT !.redeploy = FALSE] \in Objects
      /\ [mem EXCEPT !.redeploy = FALSE].status = mem.status
  BY DEF Typed, Objects
<1>3. mem'.status.packageName = (obj'.status.packageName \/ mem.status.packageName)
  BY <1>1, <1>2, DecodedName
<1> QED BY <1>1, <1>3

LEMMA UpdateNamed ==
    ASSUME Typed, Recorded, pc = "finish", StatusWritten
    PROVE  /\ obj'.status.packageName = (obj.status.packageName \/ mem.status.packageName)
           /\ obj'.exists = obj.exists
<1>1. /\ obj'.status = MergePatch(original, mem.status, obj.status)
      /\ obj'.exists = obj.exists /\ obj.exists
  BY UpdateTyped DEF StatusWritten
<1>2. original \in Statuses /\ mem.status \in Statuses /\ obj.status \in Statuses
  BY <1>1, Existing DEF Typed, TypeOK, Objects
<1>3. /\ original.packageName => mem.status.packageName
      /\ original.packageName => obj.status.packageName
  BY <1>1 DEF Recorded
<1>4. /\ original.packageName \in BOOLEAN /\ mem.status.packageName \in BOOLEAN
      /\ obj.status.packageName \in BOOLEAN
  BY <1>2 DEF Statuses
<1>5. obj'.status.packageName
         = IF mem.status.packageName # original.packageName THEN mem.status.packageName
           ELSE obj.status.packageName
  BY <1>1, <1>2, MergedName
<1> QED BY <1>1, <1>3, <1>4, <1>5

LEMMA RemovingNamed ==
    ASSUME Typed, Recorded, pc = "removing", RemovingWritten
    PROVE  /\ obj'.status.packageName = obj.status.packageName
           /\ mem'.status.packageName => obj'.status.packageName
           /\ obj'.exists = obj.exists
<1>1. /\ obj' \in Objects /\ mem \in Objects /\ mem' = Decode(mem, obj') /\ obj.exists
      /\ obj'.status.packageName = obj.status.packageName /\ obj'.exists = obj.exists
  BY RemovingTyped DEF RemovingWritten, Typed
<1>2. mem'.status.packageName = (obj'.status.packageName \/ mem.status.packageName)
  BY <1>1, DecodedName
<1>3. mem.status.packageName => obj.status.packageName
  BY <1>1 DEF Recorded
<1> QED BY <1>1, <1>2, <1>3

(* A reconcile begins with the name as it was read. *)
Begins ==
    /\ pc = "idle" /\ pc' # "idle"
    /\ UNCHANGED <<obj, cache, cluster, plan, sendsRV, fresh>>
    /\ original' = Read.status /\ mem'.status.packageName = Read.status.packageName

LEMMA TakeUpBegins ==
    ASSUME Typed, TakeUp
    PROVE  \/ Ignore \/ AddFinalizer \/ Begins
<1>1. SUFFICES ASSUME ~Ignore, ~AddFinalizer PROVE Begins
  OBVIOUS
<1>2. pc = "idle" /\ Read.exists
  BY <1>1 DEF TakeUp, SidecarUnavailable, Terminal, StartReconcile, StartDeletion, Active
<1>3. Read \in Objects /\ Read.status \in Statuses
  BY <1>2, Existing DEF Typed
<1> DEFINE waits == [Read.status EXCEPT !.phase = "Pending", !.ready = "Reconciling"]
           goes == [Read.status EXCEPT !.phase = "Removing"]
<1>4. /\ waits \in Statuses /\ waits.packageName = Read.status.packageName
      /\ goes \in Statuses /\ goes.packageName = Read.status.packageName
  BY <1>3 DEF Statuses, Phases, Reasons
<1>5. \/ Begin("finish", CountFailure(waits)) \/ Begin("finish", Read.status)
      \/ Begin("reconcile", Read.status) \/ Begin("removing", goes)
  BY <1>1 DEF TakeUp, SidecarUnavailable, Terminal, StartReconcile, StartDeletion
<1> HIDE DEF waits, goes
<1>6. CountFailure(waits) \in Statuses /\ CountFailure(waits).packageName = Read.status.packageName
  BY <1>4, FailureTyped
<1>7. ASSUME NEW l \in {"finish", "reconcile", "removing"}, NEW st \in Statuses, Begin(l, st),
             st.packageName = Read.status.packageName
      PROVE  Begins
  <2>1. mem'.status = st
    BY <1>3, <1>7, WithStatus DEF Begin
  <2> QED BY <1>2, <1>7, <2>1 DEF Begin, Begins
<1> QED BY <1>3, <1>4, <1>5, <1>6, <1>7

LEMMA RecordedInit == Init => Recorded
<1> SUFFICES ASSUME Init PROVE Recorded
  OBVIOUS
<1>1. PICK spec \in Specs : obj = [NoObject EXCEPT !.exists = TRUE, !.spec = spec]
  BY DEF Init
<1>2. obj.status = ZeroStatus /\ cache = obj /\ pc = "idle"
  BY <1>1 DEF NoObject, Init
<1> QED BY <1>2 DEF Recorded, ZeroStatus

LEMMA RecordedStep ==
    ASSUME Typed, Recorded, [Next]_vars
    PROVE  /\ Recorded'
           /\ obj.status.packageName /\ obj'.exists => obj'.status.packageName
<1>1. CASE InMemory
  BY <1>1 DEF InMemory, Recorded
<1>2. CASE UNCHANGED <<obj, cache, pc, mem, original>>
  BY <1>2 DEF Recorded
<1>3. CASE Begins
  <2>1. CASE "lag" \in Faults
    BY <1>3, <2>1 DEF Begins, Recorded, Read
  <2>2. CASE "lag" \notin Faults
    BY <1>3, <2>2 DEF Begins, Recorded, Read
  <2> QED BY <2>1, <2>2
<1>4. CASE /\ pc' = "idle" /\ cache' = cache
           /\ \/ obj' = obj \/ ~obj'.exists
              \/ obj'.exists /\ obj.exists /\ (obj.status.packageName => obj'.status.packageName)
  BY <1>4 DEF Recorded
<1>5. CASE AddFinalizer
  <2>1. pc' = "idle" /\ cache' = cache
    BY <1>5 DEF AddFinalizer, worker
  <2>2. CASE obj.exists /\ obj' = [obj EXCEPT !.finalizer = TRUE]
    <3>1. obj \in Objects
      BY <2>2, Existing DEF Typed
    <3>2. obj'.exists = obj.exists /\ obj'.status = obj.status
      BY <2>2, <3>1 DEF Objects
    <3> QED BY <1>4, <2>1, <3>2
  <2> QED BY <1>4, <1>5, <2>1, <2>2 DEF AddFinalizer
<1>6. CASE TakeUp
  BY <1>2, <1>3, <1>5, <1>6, TakeUpBegins DEF Ignore, worker
<1>7. CASE PersistDeploying
  <2>1. pc = "persist" /\ pc' = "prepare" /\ cache' = cache
    BY <1>7 DEF PersistDeploying
  <2>2. CASE PatchStatus
    BY <2>1, <2>2, PatchNamed DEF Recorded
  <2>3. CASE UNCHANGED <<obj, mem, original>>
    BY <2>1, <2>3 DEF Recorded
  <2> QED BY <1>7, <2>2, <2>3 DEF PersistDeploying
<1>8. CASE ClearAnnotation
  <2>1. pc = "clear" /\ pc' = "finish" /\ UNCHANGED <<cache, original>>
    BY <1>8 DEF ClearAnnotation
  <2>2. CASE /\ obj.exists /\ obj' = [obj EXCEPT !.redeploy = FALSE]
             /\ mem' = Decode([mem EXCEPT !.redeploy = FALSE], obj')
    BY <2>1, <2>2, ClearNamed DEF Recorded
  <2>3. CASE UNCHANGED <<obj, mem>>
    BY <2>1, <2>3 DEF Recorded
  <2> QED BY <1>8, <2>2, <2>3 DEF ClearAnnotation
<1>9. CASE UpdateStatus
  <2>1. pc = "finish" /\ pc' = "idle" /\ cache' = cache
    BY <1>9 DEF UpdateStatus, Rest
  <2>2. CASE StatusWritten
    BY <1>4, <2>1, <2>2, UpdateNamed
  <2> QED BY <1>4, <1>9, <2>1, <2>2 DEF UpdateStatus, StatusWritten
<1>10. CASE PersistRemoving
  <2>1. pc = "removing" /\ pc' \in {"remove", "finish"} /\ cache' = cache
    BY <1>10 DEF PersistRemoving
  <2>2. CASE RemovingWritten /\ original' = mem'.status
    BY <2>1, <2>2, RemovingNamed DEF Recorded
  <2>3. CASE /\ UNCHANGED <<obj, mem>>
             /\ original' = original \/ (~obj.exists /\ original' = mem.status)
    BY <2>1, <2>3 DEF Recorded
  <2> QED BY <1>10, <2>2, <2>3 DEF PersistRemoving, RemovingWritten
<1>11. CASE RemoveFinalizer
  <2>1. pc = "dropFinalizer" /\ cache' = cache
    BY <1>11 DEF RemoveFinalizer
  <2>2. CASE obj' = NoObject /\ Rest(FALSE)
    <3>1. pc' = "idle" /\ ~obj'.exists
      BY <2>2 DEF NoObject, Rest
    <3> QED BY <1>4, <2>1, <3>1
  <2>3. CASE pc' = "finish" /\ UNCHANGED <<obj, mem, original>>
    BY <2>1, <2>3 DEF Recorded
  <2> QED BY <1>11, <2>2, <2>3 DEF RemoveFinalizer
<1>12. CASE Users
  <2>1. UNCHANGED <<pc, cache, mem, original>> /\ obj.exists
    BY <1>12, UserWrites
  <2>2. CASE obj'.status = obj.status /\ obj'.exists
    BY <2>1, <2>2 DEF Recorded
  <2>3. CASE obj' = NoObject
    BY <2>1, <2>3 DEF Recorded, NoObject
  <2> QED BY <1>12, <2>1, <2>2, <2>3, UserWrites DEF SameObject
<1>13. CASE WatchEvent
  BY <1>13 DEF WatchEvent, worker, Recorded
<1>14. CASE Crash
  BY <1>14 DEF Crash, Rest, Recorded
<1> QED BY <1>1, <1>2, <1>6, <1>7, <1>8, <1>9, <1>10, <1>11, <1>12, <1>13, <1>14, WorkInMemory
        DEF Next, Work, SetZarfClient, vars, worker

-----------------------------------------------------------------------------
(* What is deployed and not named *)

(* The deferred patch of a first deploy is not refused. *)
Unrefused ==
    /\ FirstDeploy /\ sendsRV => fresh
    /\ pc \in {"idle", "reconcile", "persist"} => ~sendsRV

(* What Zarf has deployed is named in the status, or the worker is about to
   name it. *)
Placed ==
    cluster # Absent =>
        /\ obj.exists
        /\ \/ obj.status.packageName
           \/ pc = "retry"
           \/ pc \in {"clear", "finish"} /\ plan # NoPlan /\ mem.status.packageName

LEMMA UserChanges ==
    ASSUME Typed, Users
    PROVE  UNCHANGED <<pc, plan, sendsRV>> /\ obj.exists /\ obj' # obj
<1>1. obj \in Objects /\ obj.exists /\ ~obj.deleting /\ UNCHANGED <<pc, plan, sendsRV>>
  BY Existing DEF Users, Edit, Annotate, Delete, Write, Typed
<1>2. ASSUME NEW spec \in Specs, Edit(spec) PROVE obj' # obj
  BY <1>1, <1>2 DEF Edit, Write, Objects
<1>3. CASE Annotate
  BY <1>1, <1>3 DEF Annotate, Write, Objects
<1>4. CASE Delete
  BY <1>1, <1>4 DEF Delete, Write, Objects, NoObject
<1> QED BY <1>1, <1>2, <1>3, <1>4 DEF Users

LEMMA UnrefusedStep ==
    ASSUME Typed, Held, Unrefused, [Next]_vars, [FirstDeploy => Undisturbed]_vars
    PROVE  Unrefused'
<1>1. CASE InMemory
  BY <1>1 DEF InMemory, Unrefused, FirstDeploy
<1>2. CASE UNCHANGED <<obj, pc, plan, sendsRV, fresh>>
  BY <1>2 DEF Unrefused, FirstDeploy
<1>3. CASE ~sendsRV'
  BY <1>3 DEF Unrefused
<1>4. CASE fresh' /\ pc' \notin {"idle", "reconcile", "persist"}
  BY <1>4 DEF Unrefused
<1>5. CASE /\ pc # "persist" /\ pc' \notin {"idle", "reconcile", "persist"}
           /\ UNCHANGED <<obj, plan, sendsRV, fresh>>
  BY <1>5 DEF Unrefused, FirstDeploy
<1>6. CASE TakeUp
  <2>1. pc = "idle" /\ sendsRV' = sendsRV
    BY <1>6 DEF TakeUp, Ignore, AddFinalizer, SidecarUnavailable, Terminal, StartReconcile,
       StartDeletion, Begin, worker
  <2> QED BY <1>3, <2>1 DEF Unrefused
<1>7. CASE PersistDeploying
  <2>1. pc = "persist" /\ pc' = "prepare" /\ (fresh' \/ sendsRV' = sendsRV)
    BY <1>7 DEF PersistDeploying, PatchStatus
  <2> QED BY <1>3, <1>4, <2>1 DEF Unrefused
<1>8. CASE ClearAnnotation
  BY <1>4, <1>5, <1>8 DEF ClearAnnotation
<1>9. CASE PersistRemoving
  BY <1>4, <1>5, <1>9 DEF PersistRemoving
<1>10. CASE RemoveFinalizer
  BY <1>3, <1>5, <1>10 DEF RemoveFinalizer, Rest
<1>11. CASE UpdateStatus \/ Crash
  BY <1>3, <1>11 DEF UpdateStatus, Crash, Rest
<1>12. CASE Users
  <2>1. UNCHANGED <<pc, plan, sendsRV>> /\ obj.exists /\ obj' # obj
    BY <1>12, UserChanges
  <2>2. FirstDeploy => Undisturbed
    BY <2>1 DEF vars
  <2>3. ~FirstDeploy
    BY <1>12, <2>2 DEF Undisturbed
  <2>4. CASE obj'.status = obj.status
    BY <2>1, <2>3, <2>4 DEF Unrefused, FirstDeploy
  <2>5. CASE ~obj.finalizer
    <3>1. pc = "idle"
      BY <2>1, <2>5 DEF Held
    <3> QED BY <1>3, <2>1, <3>1 DEF Unrefused
  <2> QED BY <1>12, <2>4, <2>5, UserWrites
<1> QED BY <1>1, <1>2, <1>6, <1>7, <1>8, <1>9, <1>10, <1>11, <1>12, WorkInMemory
        DEF Next, Work, WatchEvent, SetZarfClient, vars, worker

(* What is deployed without a name belongs to a first deploy. *)
LEMMA UnnamedIsFirst ==
    ASSUME Typed, Placed, cluster # Absent, ~obj.status.packageName
    PROVE  FirstDeploy /\ obj.exists /\ pc \in {"retry", "clear", "finish"}
<1>1. NoPlan \notin Plans
  BY Bounds DEF NoPlan, Plans
<1> QED BY <1>1 DEF Placed, Typed, FirstDeploy

(* The deletions under way have the client they were taken up with. *)
Able == pc \in {"removing", "remove", "dropFinalizer"} => hasClient

LEMMA AbleStep ==
    ASSUME Able, [Next]_vars, [StartDeletion => client]_vars
    PROVE  Able'
<1>1. CASE StartDeletion
  BY <1>1 DEF StartDeletion, Begin, Able, vars, worker
<1>2. CASE UNCHANGED <<pc, hasClient>>
  BY <1>2 DEF Able
<1>3. CASE Ignore \/ AddFinalizer \/ SidecarUnavailable \/ Terminal \/ StartReconcile
  BY <1>3 DEF Ignore, AddFinalizer, SidecarUnavailable, Terminal, StartReconcile, Begin, worker,
     Able
<1>4. CASE PersistRemoving
  BY <1>4 DEF PersistRemoving, Able
<1>5. CASE RemoveSucceeds
  BY <1>5 DEF RemoveSucceeds, Goto, Able
<1>6. CASE RemoveFinalizer \/ UpdateStatus \/ Crash
  BY <1>6 DEF RemoveFinalizer, UpdateStatus, Crash, Rest, Able
<1>7. CASE \/ reconcile \/ PersistDeploying \/ preDeployCleanup
           \/ retryDeployAfterHelmRecovery \/ ClearAnnotation
  BY <1>7 DEF reconcile, Found, LookupFails, Decide, PersistDeploying, preDeployCleanup,
     retryDeployAfterHelmRecovery, ClearAnnotation, Rest, Goto, Able
<1>8. CASE DeploySucceeds \/ SidecarFails
  BY <1>8 DEF DeploySucceeds, SidecarFails, DeployFails, RemoveFails, Goto, Able
<1>9. CASE Users \/ WatchEvent \/ SetZarfClient \/ UNCHANGED vars
  BY <1>2, <1>9 DEF Users, Edit, Annotate, Delete, Write, WatchEvent, SetZarfClient, vars, worker
<1> QED BY <1>1, <1>3, <1>4, <1>5, <1>6, <1>7, <1>8, <1>9 DEF Next, Work, TakeUp, Sidecar

LEMMA PlacedStep ==
    ASSUME Typed, Held, Able, Released, Recorded, Unrefused, Placed, [Next]_vars,
           [FirstDeploy => Undisturbed]_vars
    PROVE  Placed'
<1>1. CASE obj.exists /\ obj.status.packageName
  <2>1. CASE obj'.exists
    BY <1>1, <2>1, RecordedStep DEF Placed
  <2>2. CASE ~obj'.exists
    BY <1>1, <2>2, ReleasedStep DEF Able, Placed
  <2> QED BY <2>1, <2>2
<1>2. CASE cluster' = Absent
  BY <1>2 DEF Placed
<1>3. CASE UNCHANGED <<obj, cluster, pc, plan, mem>>
  BY <1>3 DEF Placed
<1> SUFFICES ASSUME ~(obj.exists /\ obj.status.packageName), cluster' # Absent,
                    ~UNCHANGED <<obj, cluster, pc, plan, mem>>
             PROVE  Placed'
  BY <1>1, <1>2, <1>3
<1>4. FirstDeploy => Undisturbed
  BY DEF vars, worker
<1>5. cluster # Absent => /\ FirstDeploy /\ obj.exists /\ pc \in {"retry", "clear", "finish"}
                          /\ ~obj.status.packageName
  BY UnnamedIsFirst DEF Placed
<1>6. Deploying => obj.exists /\ FirstDeploy /\ plan # NoPlan
  <2>1. NoPlan \notin Plans
    BY Bounds DEF NoPlan, Plans
  <2> QED BY <2>1 DEF Deploying, Typed, Held, Working, FirstDeploy
<1>7. CASE cluster' = cluster /\ pc \notin {"retry", "clear", "finish"}
  BY <1>5, <1>7
<1>8. CASE \/ TakeUp \/ reconcile \/ PersistDeploying \/ PersistRemoving \/ RemoveFinalizer
  <2>1. cluster' = cluster /\ pc \notin {"retry", "clear", "finish"}
    BY <1>8 DEF TakeUp, Ignore, AddFinalizer, SidecarUnavailable, Terminal, StartReconcile,
       StartDeletion, Begin, reconcile, Found, LookupFails, PersistDeploying, PersistRemoving,
       RemoveFinalizer
  <2> QED BY <1>7, <2>1
<1>9. CASE preDeployCleanup
  BY <1>5, <1>9 DEF preDeployCleanup
<1>10. CASE retryDeployAfterHelmRecovery
  BY <1>6, <1>10 DEF retryDeployAfterHelmRecovery, Deploying, Placed
<1>11. CASE ClearAnnotation
  <2>1. pc = "clear" /\ pc' = "finish" /\ UNCHANGED <<cluster, plan>>
    BY <1>11 DEF ClearAnnotation
  <2>2. obj.exists /\ plan # NoPlan /\ mem.status.packageName
    BY <1>5, <2>1 DEF Placed
  <2>3. obj'.exists /\ mem'.status.packageName
    BY <1>11, <2>1, <2>2, ClearNamed DEF ClearAnnotation
  <2> QED BY <2>1, <2>2, <2>3 DEF Placed
<1>12. CASE UpdateStatus
  <2>1. pc = "finish" /\ cluster' = cluster
    BY <1>12 DEF UpdateStatus
  <2>2. obj.exists /\ mem.status.packageName /\ FirstDeploy
    BY <1>5, <2>1 DEF Placed
  <2>3. StatusWritten
    BY <1>4, <1>12, <2>2 DEF Undisturbed, Unrefused
  <2>4. obj'.status.packageName /\ obj'.exists
    BY <2>1, <2>2, <2>3, UpdateNamed
  <2> QED BY <2>4 DEF Placed
<1>13. CASE DeploySucceeds
  <2>1. Deploying /\ pc' \in {"clear", "finish"} /\ UNCHANGED <<obj, plan>>
    BY <1>13 DEF DeploySucceeds, Goto
  <2>2. mem'.status.packageName
    BY <1>13, SuccessInMemory
  <2> QED BY <1>6, <2>1, <2>2 DEF Placed
<1>14. CASE RemoveSucceeds \/ \E code \in SidecarCodes \cup {"Secret"} : RemoveFails(code)
  <2>1. pc = "remove"
    BY <1>14 DEF RemoveSucceeds, RemoveFails
  <2>2. cluster = Absent
    BY <1>5, <2>1
  <2> QED BY <1>14, <2>2 DEF RemoveSucceeds, RemoveFails, Removals
<1>15. ASSUME NEW code \in SidecarCodes, DeployFails(code) PROVE Placed'
  <2>1. code = "Busy" /\ pc = "deploy"
    BY <1>4, <1>6, <1>15 DEF DeployFails, Undisturbed
  <2>2. cluster' = cluster
    BY <1>15, <2>1 DEF DeployFails
  <2> QED BY <1>7, <2>1, <2>2
<1>16. CASE Users
  <2>1. cluster' = cluster
    BY <1>16, UserWrites
  <2> QED BY <1>4, <1>5, <1>16, <2>1 DEF Undisturbed
<1>17. CASE Crash
  <2>1. ~Deploying /\ cluster = Absent
    BY <1>4, <1>5, <1>6, <1>17 DEF Undisturbed
  <2> QED BY <1>17, <2>1 DEF Crash, Removals
<1>18. CASE SidecarFails
  BY <1>14, <1>15, <1>18 DEF SidecarFails
<1> QED BY <1>8, <1>9, <1>10, <1>11, <1>12, <1>13, <1>14, <1>16, <1>17, <1>18
        DEF Next, Work, Sidecar, WatchEvent, SetZarfClient, vars, worker

(* While handleDeletion always finds a client, a ZarfPackage that is gone has
   left nothing in the cluster, unless its first deploy was disturbed: by a
   user's write, a restart, an attempt that failed half way or a lost patch.
   Then handleDeletion finds no name in the status and calls nobody.  A deletion
   taken up without a client, in an outage or before a restarted manager has
   connected, calls nobody either. *)
THEOREM DeletionRemoves ==
    SafetySpec /\ FirstDeployUndisturbed /\ DeletionsConnected => []DeletionRemovesPackage
<1>1. Init => Able /\ Released /\ Recorded /\ Unrefused /\ Placed
  BY ReleasedInit, RecordedInit DEF Init, Able, Unrefused, FirstDeploy, Placed
<1>2. Able /\ [Next]_vars /\ [StartDeletion => client]_vars => Able'
  BY AbleStep
<1>3. Typed /\ Held /\ Released /\ [Next]_vars => Released'
  BY ReleasedStep
<1>4. Typed /\ Recorded /\ [Next]_vars => Recorded'
  BY RecordedStep
<1>5. Typed /\ Held /\ Unrefused /\ [Next]_vars /\ [FirstDeploy => Undisturbed]_vars => Unrefused'
  BY UnrefusedStep
<1>6. Typed /\ Held /\ Able /\ Released /\ Recorded /\ Unrefused /\ Placed
         /\ [Next]_vars /\ [FirstDeploy => Undisturbed]_vars => Placed'
  BY PlacedStep
<1>7. Placed => DeletionRemovesPackage
  BY DEF Placed, DeletionRemovesPackage
<1> QED BY <1>1, <1>2, <1>3, <1>4, <1>5, <1>6, <1>7, AlwaysTyped, AlwaysHeld, PTL
        DEF SafetySpec, FirstDeployUndisturbed, DeletionsConnected
=============================================================================
