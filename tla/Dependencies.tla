---------------------------- MODULE Dependencies ----------------------------
(***************************************************************************)
(* Several ZarfPackages that depend on one another (spec.dependsOn), the   *)
(* workers that reconcile them, the watch that wakes the dependents of a   *)
(* package, and the one operation slot of the sidecar they share           *)
(* (checkDependencies, waitForDependencies, SetupWithManager and           *)
(* requestsForDependents of                                                *)
(* src/internal/controller/zarfpackage_controller.go).                     *)
(*                                                                         *)
(* A reconcile reads the phases of the dependencies from the informer      *)
(* cache, which may be behind.  Its own object it reads as it is, and its  *)
(* status is stored without fail: module Reconciler is about that, and     *)
(* about reconciles without a client.  The slot does what SingleOperation  *)
(* says, which Sidecar implements.                                         *)
(***************************************************************************)
EXTENDS Naturals, FiniteSets

CONSTANTS Packages,    \* the names of ZarfPackages, existing or not
          Graphs,      \* the dependsOn of all of them, as functions
          MaxWorkers,  \* bound: MaxConcurrentReconciles
          NoOp,        \* the slot of the sidecar is empty
          MaxEvents    \* bound: what users do, failures, and failing reads

(* validateZarfPackageSpec refuses a package that depends on itself. *)
ASSUME DependenciesAssumption ==
    /\ Graphs \subseteq [Packages -> SUBSET Packages]
    /\ \A g \in Graphs : \A p \in Packages : p \notin g[p]
    /\ MaxWorkers \in Nat \ {0} /\ MaxEvents \in Nat
    /\ NoOp \notin [call : Packages, kind : {"deploy", "remove"}, stop : BOOLEAN]

VARIABLES dependsOn,  \* the graph
          workers,    \* MaxConcurrentReconciles
          phase,      \* Status.Phase; "none" when there is no such object, and
                      \* "Removing" while it is being deleted
          seen,       \* the phase in the informer cache
          unmet,      \* packages whose condition DependenciesMet is False
          deployed,   \* what Zarf has: nothing, an older spec, or the current one
          queue,      \* the work queue
          pc,         \* where the worker of a package stands
          slot,       \* the operation in the sidecar's slot
          suspended,  \* packages with spec.suspend
          exhausted,  \* packages marked by markMaxRetriesExceeded, not annotated
          delayed,    \* packages that only a timer brings back to the queue
          started,    \* history: packages a deploy of which was begun
          ever,       \* history: packages that were in the phase Deployed
          events      \* how many events from outside there were

graph == <<dependsOn, workers>>
stops == <<suspended, exhausted>>
vars == <<graph, phase, seen, unmet, deployed, queue, pc, slot, stops, delayed, started, ever,
          events>>

Slot == INSTANCE SingleOperation WITH Calls <- Packages, op <- slot

Phases == {"none", "", "Pending", "Deploying", "Deployed", "Failed", "Removing"}

(* The variables have their types; the slot holds a deploy or a remove. *)
TypeOK ==
    /\ dependsOn \in Graphs
    /\ workers \in 1..MaxWorkers
    /\ phase \in [Packages -> Phases] /\ seen \in [Packages -> Phases]
    /\ unmet \subseteq Packages
    /\ deployed \in [Packages -> {"no", "stale", "current"}]
    /\ queue \subseteq Packages
    /\ pc \in [Packages -> {"idle", "call", "wait", "run"}]
    /\ slot \in Slot!Operations \cup {NoOp}
    /\ suspended \subseteq Packages /\ exhausted \subseteq Packages /\ delayed \subseteq Packages
    /\ started \subseteq Packages /\ ever \subseteq Packages
    /\ events \in 0..MaxEvents

Init ==
    /\ dependsOn \in Graphs
    /\ workers \in 1..MaxWorkers
    /\ phase \in [Packages -> {"none", ""}]
    /\ seen = phase
    /\ unmet = {}
    /\ deployed = [p \in Packages |-> "no"]
    /\ queue = {p \in Packages : phase[p] # "none"}
    /\ pc = [p \in Packages |-> "idle"]
    /\ slot = NoOp
    /\ suspended = {} /\ exhausted = {} /\ delayed = {}
    /\ started = {} /\ ever = {}
    /\ events = 0

-----------------------------------------------------------------------------
(* A reconcile *)

(* The worker stores the phase; Deployed is remembered. *)
SetPhase(p, ph) ==
    /\ phase' = [phase EXCEPT ![p] = ph]
    /\ ever' = IF ph = "Deployed" THEN ever \cup {p} ELSE ever

(* A worker takes a key from the queue.  The queue gives a key to one worker
   at a time. *)
Take(p) ==
    /\ p \in queue /\ pc[p] = "idle"
    /\ Cardinality({q \in Packages : pc[q] # "idle"}) < workers
    /\ queue' = queue \ {p} /\ delayed' = delayed \ {p}
    /\ UNCHANGED <<graph, seen, deployed, slot, stops, events>>

(* The reconcile finds the object, and it is not being deleted. *)
Found(p) == seen[p] # "none" /\ phase[p] \notin {"none", "Removing"}

(* It is suspended, or was given up: nothing is done, and nothing is due. *)
Stopped(p) == p \in suspended \cup exhausted

Active(p) == Found(p) /\ ~Stopped(p)

(* Mutant: only the first dependency is looked at. *)
OneIsReady(p) == dependsOn[p] = {} \/ \E d \in dependsOn[p] : seen[d] = "Deployed"

(* What checkDependencies finds in the cache. *)
checkDependencies(p) == \A d \in dependsOn[p] : seen[d] = "Deployed"

needsDeploy(p) == deployed[p] # "current" \/ phase[p] = "Failed"

(* Mutant: waiting counts as keeping a deployment, whether there is one or not. *)
WaitsDeployed(p) ==
    /\ Take(p)
    /\ Active(p)
    /\ needsDeploy(p) /\ ~checkDependencies(p)
    /\ unmet' = unmet \cup {p}
    /\ SetPhase(p, IF phase[p] = "Failed" THEN "Failed" ELSE "Deployed")
    /\ UNCHANGED <<pc, started>>

(* The dependencies are looked at before the package's name is known, and
   later when there is something to deploy. *)
Waits(p) ==
    /\ Take(p)
    /\ Active(p)
    /\ needsDeploy(p) /\ ~checkDependencies(p)
    /\ unmet' = unmet \cup {p}
    /\ SetPhase(p, IF phase[p] = "Failed" \/ (phase[p] = "Deployed" /\ deployed[p] # "no")
                   THEN phase[p] ELSE "Pending")
    /\ UNCHANGED <<pc, started>>

InSync(p) ==
    /\ Take(p)
    /\ Active(p)
    /\ ~needsDeploy(p)
    /\ SetPhase(p, "Deployed")
    /\ UNCHANGED <<unmet, pc, started>>

StartDeploy(p) ==
    /\ Take(p)
    /\ Active(p)
    /\ needsDeploy(p) /\ checkDependencies(p)
    /\ unmet' = unmet \ {p}
    /\ SetPhase(p, "Deploying")
    /\ pc' = [pc EXCEPT ![p] = "call"]
    /\ started' = started \cup {p}

(* handleDeletion, which does not ask for dependents; there is nothing to call
   for a package that was never deployed. *)
StartRemove(p) ==
    /\ Take(p)
    /\ phase[p] = "Removing"
    /\ \/ /\ deployed[p] # "no"
          /\ pc' = [pc EXCEPT ![p] = "call"]
          /\ UNCHANGED <<phase, ever>>
       \/ deployed[p] = "no" /\ SetPhase(p, "none") /\ UNCHANGED pc
    /\ UNCHANGED <<unmet, started>>

(* The object is gone, or it is to be left alone. *)
Ignore(p) ==
    /\ Take(p)
    /\ phase[p] = "none" \/ seen[p] = "none" \/ (Found(p) /\ Stopped(p))
    /\ UNCHANGED <<phase, ever, unmet, pc, started>>

-----------------------------------------------------------------------------
(* The call to the sidecar *)

(* Mutant: the operation is named after the phase. *)
PhaseOf(p) == phase[p]

opKind(p) == IF phase[p] = "Removing" THEN "remove" ELSE "deploy"

Enter(p) ==
    /\ Slot!Start(p, opKind(p))
    /\ pc' = [pc EXCEPT ![p] = "run"]
    /\ UNCHANGED queue

(* Mutant: a refused call is left for the next event. *)
RefusedForGood(p) ==
    /\ pc' = [pc EXCEPT ![p] = "idle"]
    /\ UNCHANGED <<queue, slot>>

(* ResourceExhausted: the key is requeued. *)
Refused(p) ==
    /\ pc' = [pc EXCEPT ![p] = "idle"]
    /\ queue' = queue \cup {p}
    /\ UNCHANGED slot

Happens == events < MaxEvents /\ events' = events + 1

(* The resolve functions miss a Secret: the call is not made, and the key is
   requeued, however many failures there were. *)
SecretMissing(p) ==
    /\ Happens
    /\ pc[p] = "call" /\ Refused(p)
    /\ SetPhase(p, IF phase[p] = "Removing" THEN "Removing" ELSE "Failed")
    /\ UNCHANGED <<graph, seen, unmet, deployed, stops, delayed, started>>

Call(p) ==
    /\ pc[p] = "call"
    /\ \/ Enter(p)
       \/ /\ slot # NoOp
          /\ \E q \in Packages : Slot!Preempt(q)
          /\ pc' = [pc EXCEPT ![p] = "wait"]
          /\ UNCHANGED queue
       \/ slot # NoOp /\ slot.kind = "remove" /\ Refused(p)
    /\ UNCHANGED <<graph, phase, seen, unmet, deployed, stops, delayed, started, ever, events>>

Wait(p) ==
    /\ pc[p] = "wait"
    /\ Enter(p) \/ (slot # NoOp /\ Refused(p))
    /\ UNCHANGED <<graph, phase, seen, unmet, deployed, stops, delayed, started, ever, events>>

(* Mutant: nothing is requeued. *)
FinishForGood(p, ph, dep, again) ==
    /\ pc[p] = "run"
    /\ Slot!Finish(p)
    /\ pc' = [pc EXCEPT ![p] = "idle"]
    /\ SetPhase(p, ph)
    /\ deployed' = [deployed EXCEPT ![p] = dep]
    /\ UNCHANGED <<graph, seen, unmet, suspended, started, queue>>

(* The operation ends and its package is told; the key is requeued when it is
   to be tried again. *)
Finish(p, ph, dep, again) ==
    /\ pc[p] = "run"
    /\ Slot!Finish(p)
    /\ pc' = [pc EXCEPT ![p] = "idle"]
    /\ SetPhase(p, ph)
    /\ deployed' = [deployed EXCEPT ![p] = dep]
    /\ queue' = IF again THEN queue \cup {p} ELSE queue
    /\ UNCHANGED <<graph, seen, unmet, suspended, started>>

Runs(p, kind) == pc[p] = "run" /\ slot # NoOp /\ slot.kind = kind

(* A deploy that was asked to stop may be done already. *)
DeploySucceeds(p) ==
    /\ Runs(p, "deploy")
    /\ phase[p] = "Deploying" /\ Finish(p, "Deployed", "current", FALSE)
    /\ UNCHANGED <<exhausted, delayed, events>>

(* The failure is retried, or left to the user and looked at again after
   RequeueInterval, or it was the last one of maxRetries. *)
DeployFails(p) ==
    /\ Happens
    /\ Runs(p, "deploy") /\ ~slot.stop
    /\ phase[p] = "Deploying"
    /\ \/ Finish(p, "Failed", deployed[p], TRUE) /\ UNCHANGED <<exhausted, delayed>>
       \/ /\ Finish(p, "Failed", deployed[p], FALSE)
          /\ delayed' = delayed \cup {p} /\ UNCHANGED exhausted
       \/ /\ Finish(p, "Failed", deployed[p], FALSE)
          /\ exhausted' = exhausted \cup {p} /\ UNCHANGED delayed

DeployCanceled(p) ==
    /\ Runs(p, "deploy") /\ slot.stop
    /\ phase[p] = "Deploying" /\ Finish(p, "Deploying", deployed[p], TRUE)
    /\ UNCHANGED <<exhausted, delayed, events>>

RemoveSucceeds(p) ==
    /\ Runs(p, "remove")
    /\ Finish(p, "none", "no", FALSE)
    /\ UNCHANGED <<exhausted, delayed, events>>

(* A removal is never given up: at maxRetries too it is tried again after
   RequeueInterval. *)
RemoveFails(p) ==
    /\ Happens
    /\ Runs(p, "remove")
    /\ \/ Finish(p, "Removing", deployed[p], TRUE) /\ UNCHANGED delayed
       \/ Finish(p, "Removing", deployed[p], FALSE) /\ delayed' = delayed \cup {p}
    /\ UNCHANGED exhausted

-----------------------------------------------------------------------------
(* Around the workers *)

(* Mutant: only the deletion of a package wakes its dependents. *)
WakesOnDelete(old, new) == new = "none"

(* The watch on packages: Create events are the package's own business. *)
dependencyPhasePredicate(old, new) == old # "none" /\ new # old

(* The dependents that the cache knows of. *)
requestsForDependents(d) == {p \in Packages \ {d} : d \in dependsOn[p] /\ seen[p] # "none"}

(* A watch event reaches the cache; it wakes the package itself when it is new
   or gone, and its dependents when the phase changed.  When they cannot be
   listed the event is lost to them. *)
WatchEvent(p) ==
    /\ seen[p] # phase[p]
    /\ seen' = [seen EXCEPT ![p] = phase[p]]
    /\ LET self == IF "none" \in {seen[p], phase[p]} THEN {p} ELSE {}
           dependents == IF dependencyPhasePredicate(seen[p], phase[p])
                         THEN requestsForDependents(p) ELSE {}
       IN  \/ queue' = queue \cup self \cup dependents /\ UNCHANGED <<delayed, events>>
           \/ /\ Happens
              /\ queue' = queue \cup self /\ delayed' = delayed \cup dependents
    /\ UNCHANGED <<graph, phase, unmet, deployed, pc, slot, stops, started, ever>>

(* A timer fires: dependencyRequeue, or RequeueInterval. *)
Requeue(p) ==
    /\ seen[p] # "none" /\ p \notin queue
    /\ queue' = queue \cup {p}
    /\ UNCHANGED <<graph, phase, seen, unmet, deployed, pc, slot, stops, delayed, started, ever,
                   events>>

Create(p) ==
    /\ Happens
    /\ phase[p] = "none" /\ pc[p] = "idle" /\ seen[p] = "none"
    /\ phase' = [phase EXCEPT ![p] = ""]
    /\ unmet' = unmet \ {p} /\ suspended' = suspended \ {p} /\ exhausted' = exhausted \ {p}
    /\ UNCHANGED <<graph, seen, deployed, queue, pc, slot, delayed, started, ever>>

(* Users edit, suspend, resume and delete packages that are not being
   reconciled.  The generation changes, and the watch queues the package. *)
Edit(p) ==
    /\ Happens
    /\ phase[p] # "none" /\ deployed[p] # "no" /\ pc[p] = "idle"
    /\ deployed' = [deployed EXCEPT ![p] = IF @ = "current" THEN "stale" ELSE "current"]
    /\ queue' = queue \cup {p}
    /\ UNCHANGED <<graph, phase, seen, unmet, pc, slot, stops, delayed, started, ever>>

Suspend(p) ==
    /\ Happens
    /\ Found(p) /\ pc[p] = "idle"
    /\ suspended' = IF p \in suspended THEN suspended \ {p} ELSE suspended \cup {p}
    /\ queue' = queue \cup {p}
    /\ UNCHANGED <<graph, phase, seen, unmet, deployed, pc, slot, exhausted, delayed, started, ever>>

(* The annotation asks for a package that was given up. *)
Annotate(p) ==
    /\ Happens
    /\ Found(p) /\ pc[p] = "idle" /\ p \in exhausted
    /\ exhausted' = exhausted \ {p}
    /\ queue' = queue \cup {p}
    /\ UNCHANGED <<graph, phase, seen, unmet, deployed, pc, slot, suspended, delayed, started, ever>>

Delete(p) ==
    /\ Happens
    /\ phase[p] \notin {"none", "Removing"} /\ pc[p] = "idle" /\ seen[p] # "none"
    /\ phase' = [phase EXCEPT ![p] = "Removing"]
    /\ queue' = queue \cup {p}
    /\ UNCHANGED <<graph, seen, unmet, deployed, pc, slot, stops, delayed, started, ever>>

-----------------------------------------------------------------------------
Reconcile(p) == Waits(p) \/ InSync(p) \/ StartDeploy(p) \/ StartRemove(p) \/ Ignore(p)
Operate(p) == Call(p) \/ Wait(p) \/ DeploySucceeds(p) \/ DeployCanceled(p) \/ RemoveSucceeds(p)

Fails(p) == DeployFails(p) \/ RemoveFails(p) \/ SecretMissing(p)
Users(p) == Create(p) \/ Edit(p) \/ Suspend(p) \/ Annotate(p) \/ Delete(p)

Next == \E p \in Packages :
            Reconcile(p) \/ Operate(p) \/ Fails(p) \/ WatchEvent(p) \/ Requeue(p) \/ Users(p)

SafetySpec == Init /\ [][Next]_vars

(* The queue is first in, first out, the sidecar answers, and the cache catches
   up: no key stays in the queue, no worker in a call and no event on its way
   for ever.  Every step that leads there is enabled until it is taken, so this
   says what strong fairness of Reconcile and weak fairness of Operate and
   WatchEvent say.  The timers are relied on for the delayed keys only: nothing
   is asked of the one waitForDependencies sets, unless an event was lost. *)
Fairness == \A p \in Packages :
                /\ []<>(p \notin queue) /\ []<>(p \notin delayed)
                /\ []<>(pc[p] = "idle") /\ []<>(seen[p] = phase[p])

Spec == SafetySpec /\ Fairness

-----------------------------------------------------------------------------
(* Properties *)

(* The sidecar is asked to deploy a package only after each of its
   dependencies has been in the phase Deployed, although the phases are read
   from a cache. *)
DependenciesFirst == \A p \in started : dependsOn[p] \subseteq ever

(* A set of packages each of which depends on one of them. *)
Knotted(S) == \A p \in S : dependsOn[p] \cap S # {}

(* Nothing looks for cycles: none of the packages of one is ever deployed, in
   whatever order they are created, edited and deleted. *)
CyclesNeverDeploy == \A S \in SUBSET Packages : Knotted(S) => S \cap started = {}

(* A package that waits for its dependencies and is not in the queue has one
   that the cache does not show as Deployed, so that the watch is yet to wake
   it: the check and the event do not miss each other, unless the dependents
   could not be listed. *)
NoLostWakeup ==
    \A p \in unmet \ delayed :
        Active(p) /\ needsDeploy(p) /\ pc[p] = "idle" /\ p \notin queue
            => \E d \in dependsOn[p] : seen[d] # "Deployed"

(* A set of packages with all they depend on, and without a cycle. *)
Complete(S) ==
    /\ \A p \in S : dependsOn[p] \subseteq S
    /\ \A T \in SUBSET S : T # {} => ~Knotted(T)

(* No key is queued, no worker is busy and no event is on its way. *)
Quiet == queue = {} /\ \A p \in Packages : pc[p] = "idle" /\ seen[p] = phase[p]

(* When everything has come to rest, a package is deployed with its current
   spec if it and all it depends on are there, without a cycle, not suspended,
   not given up and not left to a timer: no refusal, cancellation, retried
   failure, edit or event, in whatever order and with however many workers,
   leaves it behind, and packages that do stay behind hold up no others than
   their dependents. *)
QuietMeansDeployed ==
    Quiet => \A S \in SUBSET Packages :
        Complete(S) /\ (\A p \in S : phase[p] # "none" /\ ~Stopped(p) /\ p \notin delayed)
            => \A p \in S : phase[p] = "Deployed" /\ deployed[p] = "current"

(* With one worker at a time, a package gets deployed once it and all it depends
   on are there to stay, without a cycle, neither suspended nor given up. *)
AllGetDeployed ==
    workers = 1 => \A S \in SUBSET Packages :
        Complete(S) /\ <>[](\A p \in S : phase[p] \notin {"none", "Removing"} /\ ~Stopped(p))
            => \A p \in S : []<>(phase[p] = "Deployed")
=============================================================================
