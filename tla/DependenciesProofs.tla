------------------------- MODULE DependenciesProofs -------------------------
(***************************************************************************)
(* The safety of Dependencies, for any packages, graphs and workers.       *)
(*                                                                         *)
(* A reconcile decides on phases it reads from a cache.  What makes that   *)
(* sound is that the phase Deployed, stored or cached, is a fact about the *)
(* past that stays true (Remembered), that nothing gets there without a    *)
(* call to Deploy (NothingFromNothing), and that a package is reconciled   *)
(* only once it is in the cache (CacheFirst), so that no change to         *)
(* Deployed reaches the cache as a Create event, which wakes nobody.       *)
(***************************************************************************)
EXTENDS Dependencies, TLAPS

Remembered ==
    \A p \in Packages : (phase[p] = "Deployed" \/ seen[p] = "Deployed") => p \in ever

NothingFromNothing ==
    /\ ever \subseteq started
    /\ \A p \in Packages : (deployed[p] # "no" \/ phase[p] = "Deploying") => p \in started

CacheFirst ==
    \A p \in Packages :
        /\ phase[p] = "none" => pc[p] = "idle"
        /\ seen[p] = "none" => pc[p] = "idle" /\ phase[p] \in {"none", ""}

(* The bounds on their own, which is all that arithmetic is needed for. *)
LEMMA Bounds ==
    /\ MaxEvents \in Nat
    /\ 0 \in 0..MaxEvents
    /\ \A e \in 0..MaxEvents : e < MaxEvents => e + 1 \in 0..MaxEvents
<1>1. MaxEvents \in Nat
  BY DependenciesAssumption
<1> QED BY <1>1

(* The worker of a package learns how its operation ended. *)
Ends(p) ==
    \/ DeploySucceeds(p) \/ DeployFails(p) \/ DeployCanceled(p)
    \/ RemoveSucceeds(p) \/ RemoveFails(p)

(* The variables keep their types: in particular the slot, which is handed to
   SingleOperation, only ever holds its operations. *)
THEOREM TypeCorrect == SafetySpec => []TypeOK
<1>1. Init => TypeOK
  <2> SUFFICES ASSUME Init PROVE TypeOK
    OBVIOUS
  <2>1. events = 0
    BY DEF Init
  <2>2. events \in 0..MaxEvents
    BY <2>1, Bounds
  <2> QED BY <2>2 DEF Init, TypeOK, Phases
<1>2. TypeOK /\ [Next]_vars => TypeOK'
  <2> SUFFICES ASSUME TypeOK, [Next]_vars PROVE TypeOK'
    OBVIOUS
  <2> USE DEF TypeOK, Phases, graph, stops
  <2>1. CASE UNCHANGED vars
    BY <2>1 DEF vars
  <2>2. ASSUME NEW p \in Packages, Reconcile(p) PROVE TypeOK'
    <3>1. CASE Waits(p)
      BY <3>1 DEF Waits, Take, SetPhase
    <3>2. CASE InSync(p)
      BY <3>2 DEF InSync, Take, SetPhase
    <3>3. CASE StartDeploy(p)
      BY <3>3 DEF StartDeploy, Take, SetPhase
    <3>4. CASE StartRemove(p)
      BY <3>4 DEF StartRemove, Take, SetPhase
    <3>5. CASE Ignore(p)
      BY <3>5 DEF Ignore, Take
    <3> QED BY <2>2, <3>1, <3>2, <3>3, <3>4, <3>5 DEF Reconcile
  <2>3. ASSUME NEW p \in Packages, Call(p) \/ Wait(p) PROVE TypeOK'
    <3>1. ASSUME Enter(p) PROVE slot' \in Slot!Operations \cup {NoOp}
      BY <3>1 DEF Enter, Slot!Start, Slot!Operations, Slot!OpKinds, opKind
    <3>2. ASSUME NEW q \in Packages, Slot!Preempt(q) PROVE slot' \in Slot!Operations \cup {NoOp}
      BY <3>2 DEF Slot!Preempt, Slot!Operations, Slot!OpKinds
    <3> QED BY <2>3, <3>1, <3>2 DEF Call, Wait, Enter, Refused
  <2>4. ASSUME events' = events \/ Happens PROVE events' \in 0..MaxEvents
    BY <2>4, Bounds DEF Happens
  <2>5. ASSUME NEW p \in Packages, NEW ph \in Phases, NEW dep \in {"no", "stale", "current"},
               NEW again, Finish(p, ph, dep, again), events' = events \/ Happens,
               exhausted' \subseteq Packages, delayed' \subseteq Packages
        PROVE  TypeOK'
    BY <2>4, <2>5 DEF Finish, SetPhase, Slot!Finish
  <2>6. ASSUME NEW p \in Packages, Ends(p) PROVE TypeOK'
    <3>1. exhausted' \subseteq Packages /\ delayed' \subseteq Packages
          /\ (events' = events \/ Happens)
      BY <2>6 DEF Ends, DeploySucceeds, DeployFails, DeployCanceled, RemoveSucceeds, RemoveFails
    <3> QED BY <2>5, <2>6, <3>1 DEF Ends, DeploySucceeds, DeployFails, DeployCanceled,
               RemoveSucceeds, RemoveFails
  <2>7. ASSUME NEW p \in Packages, SecretMissing(p) PROVE TypeOK'
    BY <2>4, <2>7 DEF SecretMissing, Refused, SetPhase
  <2>8. ASSUME NEW p \in Packages, WatchEvent(p) \/ Requeue(p) PROVE TypeOK'
    <3>1. requestsForDependents(p) \subseteq Packages
      BY DEF requestsForDependents
    <3> QED BY <2>4, <2>8, <3>1 DEF WatchEvent, Requeue
  <2>9. ASSUME NEW p \in Packages, Users(p) PROVE TypeOK'
    BY <2>4, <2>9 DEF Users, Create, Edit, Suspend, Annotate, Delete
  <2> QED BY <2>1, <2>2, <2>3, <2>6, <2>7, <2>8, <2>9 DEF Next, Operate, Fails, Ends
<1> QED BY <1>1, <1>2, PTL DEF SafetySpec

-----------------------------------------------------------------------------
(* Deployed in the cache means deployed once *)

LEMMA RememberedStep == TypeOK /\ Remembered /\ [Next]_vars => Remembered'
<1> SUFFICES ASSUME TypeOK, Remembered, [Next]_vars PROVE Remembered'
  OBVIOUS
<1> USE DEF TypeOK, Remembered
<1>1. CASE UNCHANGED vars
  BY <1>1 DEF vars
<1>2. ASSUME NEW p \in Packages, NEW ph, SetPhase(p, ph), seen' = seen PROVE Remembered'
  BY <1>2 DEF SetPhase
<1>3. ASSUME phase' = phase, ever' = ever, seen' = seen PROVE Remembered'
  BY <1>3
<1>4. ASSUME NEW p \in Packages, Reconcile(p) PROVE Remembered'
  BY <1>2, <1>3, <1>4 DEF Reconcile, Waits, InSync, StartDeploy, StartRemove, Ignore, Take
<1>5. ASSUME NEW p \in Packages, Operate(p) \/ Fails(p) PROVE Remembered'
  BY <1>2, <1>3, <1>5 DEF Operate, Fails, Call, Wait, DeploySucceeds, DeployFails, DeployCanceled,
                          RemoveSucceeds, RemoveFails, SecretMissing, Finish
<1>6. ASSUME NEW p \in Packages, WatchEvent(p) PROVE Remembered'
  BY <1>6 DEF WatchEvent
<1>7. ASSUME NEW p \in Packages, Requeue(p) \/ Users(p) PROVE Remembered'
  BY <1>7 DEF Requeue, Users, Create, Edit, Suspend, Annotate, Delete
<1> QED BY <1>1, <1>4, <1>5, <1>6, <1>7 DEF Next

(* The sidecar is asked to deploy a package only after each dependency has
   been deployed, for every graph and any number of workers: the cache that
   checkDependencies reads may be behind, but what it shows as Deployed has
   been. *)
THEOREM DependenciesComeFirst == SafetySpec => []DependenciesFirst
<1>1. Init => Remembered /\ DependenciesFirst
  BY DEF Init, Remembered, DependenciesFirst
<1>2. TypeOK /\ Remembered /\ DependenciesFirst /\ [Next]_vars => (Remembered /\ DependenciesFirst)'
  <2> SUFFICES ASSUME TypeOK, Remembered, DependenciesFirst, [Next]_vars PROVE DependenciesFirst'
    BY RememberedStep
  <2> USE DEF DependenciesFirst
  <2>1. ASSUME ever \subseteq ever', dependsOn' = dependsOn, started' = started PROVE DependenciesFirst'
    BY <2>1
  <2>2. CASE UNCHANGED vars
    BY <2>1, <2>2 DEF vars, graph
  <2>3. ASSUME NEW p, NEW ph, SetPhase(p, ph) PROVE ever \subseteq ever'
    BY <2>3 DEF SetPhase
  <2>4. ASSUME NEW p \in Packages, StartDeploy(p) PROVE DependenciesFirst'
    <3>1. ever \subseteq ever' /\ dependsOn' = dependsOn /\ started' = started \cup {p}
      BY <2>3, <2>4 DEF StartDeploy, Take, graph
    <3>2. dependsOn[p] \subseteq ever
      BY <2>4, DependenciesAssumption DEF StartDeploy, checkDependencies, Remembered, TypeOK
    <3> QED BY <3>1, <3>2
  <2>5. ASSUME NEW p \in Packages, Waits(p) \/ InSync(p) \/ StartRemove(p) \/ Ignore(p)
        PROVE  DependenciesFirst'
    BY <2>1, <2>3, <2>5 DEF Waits, InSync, StartRemove, Ignore, Take, graph
  <2>6. ASSUME NEW p \in Packages, Operate(p) \/ Fails(p) PROVE DependenciesFirst'
    BY <2>1, <2>3, <2>6 DEF Operate, Fails, Call, Wait, DeploySucceeds, DeployFails,
       DeployCanceled, RemoveSucceeds, RemoveFails, SecretMissing, Finish, graph
  <2>7. ASSUME NEW p \in Packages, WatchEvent(p) \/ Requeue(p) \/ Users(p)
        PROVE  DependenciesFirst'
    BY <2>1, <2>7 DEF WatchEvent, Requeue, Users, Create, Edit, Suspend, Annotate, Delete, graph
  <2> QED BY <2>2, <2>4, <2>5, <2>6, <2>7 DEF Next, Reconcile
<1> QED BY <1>1, <1>2, TypeCorrect, PTL DEF SafetySpec

-----------------------------------------------------------------------------
(* Cycles *)

LEMMA NothingFromNothingStep ==
    TypeOK /\ Remembered /\ NothingFromNothing /\ [Next]_vars => NothingFromNothing'
<1> SUFFICES ASSUME TypeOK, Remembered, NothingFromNothing, [Next]_vars PROVE NothingFromNothing'
  OBVIOUS
<1> USE DEF TypeOK, NothingFromNothing
<1>1. CASE UNCHANGED vars
  BY <1>1 DEF vars
<1>2. ASSUME NEW p \in Packages, NEW ph, SetPhase(p, ph), started \subseteq started',
             ph \in {"Deployed", "Deploying"} => p \in started', deployed' = deployed
      PROVE  NothingFromNothing'
  BY <1>2 DEF SetPhase
<1>3. ASSUME phase' = phase, ever' = ever, deployed' = deployed, started' = started
      PROVE  NothingFromNothing'
  BY <1>3
<1>4. ASSUME NEW p \in Packages, Waits(p) PROVE NothingFromNothing'
  BY <1>2, <1>4 DEF Waits, Take
<1>5. ASSUME NEW p \in Packages, InSync(p) PROVE NothingFromNothing'
  BY <1>2, <1>5 DEF InSync, Take, needsDeploy
<1>6. ASSUME NEW p \in Packages, StartDeploy(p) PROVE NothingFromNothing'
  BY <1>2, <1>6 DEF StartDeploy, Take
<1>7. ASSUME NEW p \in Packages, StartRemove(p) \/ Ignore(p) PROVE NothingFromNothing'
  BY <1>2, <1>3, <1>7 DEF StartRemove, Ignore, Take
<1>8. ASSUME NEW p \in Packages, Call(p) \/ Wait(p) PROVE NothingFromNothing'
  BY <1>3, <1>8 DEF Call, Wait
<1>9. ASSUME NEW p \in Packages, NEW ph, NEW dep, NEW again, Finish(p, ph, dep, again),
             \/ phase[p] = "Deploying"
             \/ ph \in {"none", "Removing"} /\ dep \in {"no", deployed[p]}
      PROVE  NothingFromNothing'
  BY <1>9 DEF Finish, SetPhase
<1>10. ASSUME NEW p \in Packages, Ends(p) PROVE NothingFromNothing'
  BY <1>9, <1>10 DEF Ends, DeploySucceeds, DeployFails, DeployCanceled, RemoveSucceeds, RemoveFails
<1>11. ASSUME NEW p \in Packages, SecretMissing(p) PROVE NothingFromNothing'
  BY <1>2, <1>11 DEF SecretMissing
<1>12. ASSUME NEW p \in Packages, WatchEvent(p) \/ Requeue(p) \/ Users(p)
       PROVE  NothingFromNothing'
  BY <1>3, <1>12 DEF WatchEvent, Requeue, Users, Create, Edit, Suspend, Annotate, Delete
<1> QED BY <1>1, <1>4, <1>5, <1>6, <1>7, <1>8, <1>10, <1>11, <1>12
        DEF Next, Reconcile, Operate, Fails, Ends

(* No package of a cycle, nor any that depends on one, is ever deployed: the
   first of them to be deployed would have seen another one Deployed.  The
   code does not look for cycles; they only wait. *)
THEOREM CyclesWait == SafetySpec => []CyclesNeverDeploy
<1> DEFINE IInv == Remembered /\ NothingFromNothing /\ CyclesNeverDeploy
<1>1. Init => IInv
  BY DEF Init, Remembered, NothingFromNothing, CyclesNeverDeploy
<1>2. TypeOK /\ IInv /\ [Next]_vars => IInv'
  <2> SUFFICES ASSUME TypeOK, IInv, [Next]_vars PROVE CyclesNeverDeploy'
    BY RememberedStep, NothingFromNothingStep
  <2> USE DEF CyclesNeverDeploy, Knotted
  <2>1. ASSUME dependsOn' = dependsOn, started' = started PROVE CyclesNeverDeploy'
    BY <2>1
  <2>2. CASE UNCHANGED vars
    BY <2>1, <2>2 DEF vars, graph
  <2>3. ASSUME NEW p \in Packages, StartDeploy(p) PROVE CyclesNeverDeploy'
    <3> SUFFICES ASSUME NEW S \in SUBSET Packages, Knotted(S), p \in S PROVE FALSE
      BY <2>3 DEF StartDeploy, Take, graph
    <3>1. PICK d \in dependsOn[p] \cap S : TRUE
      OBVIOUS
    <3>2. seen[d] = "Deployed"
      BY <2>3, <3>1 DEF StartDeploy, checkDependencies
    <3>3. d \in started
      BY <3>1, <3>2 DEF Remembered, NothingFromNothing
    <3> QED BY <3>1, <3>3
  <2>4. ASSUME NEW p \in Packages, Waits(p) \/ InSync(p) \/ StartRemove(p) \/ Ignore(p)
        PROVE  CyclesNeverDeploy'
    BY <2>1, <2>4 DEF Waits, InSync, StartRemove, Ignore, Take, graph
  <2>5. ASSUME NEW p \in Packages, Operate(p) \/ Fails(p) PROVE CyclesNeverDeploy'
    BY <2>1, <2>5 DEF Operate, Fails, Call, Wait, DeploySucceeds, DeployFails, DeployCanceled,
                      RemoveSucceeds, RemoveFails, SecretMissing, Finish, graph
  <2>6. ASSUME NEW p \in Packages, WatchEvent(p) \/ Requeue(p) \/ Users(p)
        PROVE  CyclesNeverDeploy'
    BY <2>1, <2>6 DEF WatchEvent, Requeue, Users, Create, Edit, Suspend, Annotate, Delete, graph
  <2> QED BY <2>2, <2>3, <2>4, <2>5, <2>6 DEF Next, Reconcile
<1> QED BY <1>1, <1>2, TypeCorrect, PTL DEF SafetySpec

-----------------------------------------------------------------------------
(* Waking *)

LEMMA CacheFirstStep == TypeOK /\ CacheFirst /\ [Next]_vars => CacheFirst'
<1> SUFFICES ASSUME TypeOK, CacheFirst, [Next]_vars PROVE CacheFirst'
  OBVIOUS
<1> USE DEF TypeOK, CacheFirst
<1>1. CASE UNCHANGED vars
  BY <1>1 DEF vars
<1>4. ASSUME NEW p \in Packages, Waits(p) \/ InSync(p) \/ StartDeploy(p) PROVE CacheFirst'
  BY <1>4 DEF Waits, InSync, StartDeploy, Take, Active, Found, SetPhase
<1>5. ASSUME NEW p \in Packages, StartRemove(p) \/ Ignore(p) PROVE CacheFirst'
  BY <1>5 DEF StartRemove, Ignore, Take, SetPhase
<1>6. ASSUME NEW p \in Packages, Call(p) \/ Wait(p) PROVE CacheFirst'
  BY <1>6 DEF Call, Wait, Enter, Refused
<1>7. ASSUME NEW p \in Packages, NEW ph, NEW dep, NEW again, Finish(p, ph, dep, again)
      PROVE  CacheFirst'
  BY <1>7 DEF Finish, SetPhase
<1>8. ASSUME NEW p \in Packages, Ends(p) \/ SecretMissing(p) PROVE CacheFirst'
  BY <1>7, <1>8 DEF Ends, DeploySucceeds, DeployFails, DeployCanceled, RemoveSucceeds,
     RemoveFails, SecretMissing, Refused, SetPhase
<1>9. ASSUME NEW p \in Packages, WatchEvent(p) PROVE CacheFirst'
  BY <1>9 DEF WatchEvent
<1>10. ASSUME NEW p \in Packages, Requeue(p) \/ Users(p) PROVE CacheFirst'
  BY <1>10 DEF Requeue, Users, Create, Edit, Suspend, Annotate, Delete
<1> QED BY <1>1, <1>4, <1>5, <1>6, <1>8, <1>9, <1>10
        DEF Next, Reconcile, Operate, Fails, Ends

(* A step of the worker of one package keeps the others waiting as they were. *)
OneMoves(p) ==
    /\ dependsOn' = dependsOn /\ seen' = seen
    /\ unmet' \subseteq unmet \cup {p} /\ queue \ {p} \subseteq queue'
    /\ delayed \ {p} \subseteq delayed'
    /\ suspended' \ {p} = suspended \ {p} /\ exhausted' \ {p} = exhausted \ {p}
    /\ \A q \in Packages \ {p} :
          phase'[q] = phase[q] /\ pc'[q] = pc[q] /\ deployed'[q] = deployed[q]

LEMMA OneWakeup ==
    ASSUME TypeOK, NoLostWakeup, NEW p \in Packages, OneMoves(p),
           \/ p \notin unmet' \/ pc'[p] # "idle" \/ p \in queue' \/ p \in delayed'
           \/ ~Active(p)' \/ ~needsDeploy(p)' \/ ~checkDependencies(p)
    PROVE  NoLostWakeup'
<1> SUFFICES ASSUME NEW q \in unmet' \ delayed', Active(q)' /\ needsDeploy(q)' /\ pc'[q] = "idle",
                    q \notin queue'
             PROVE  \E d \in dependsOn[q] : seen[d] # "Deployed"
  BY DEF NoLostWakeup, OneMoves
<1>1. CASE q = p
  BY <1>1 DEF checkDependencies
<1>2. CASE q # p
  <2>1. q \in unmet \ delayed /\ q \in Packages /\ q \notin queue
    BY <1>2 DEF OneMoves, TypeOK
  <2>2. Active(q) /\ needsDeploy(q) /\ pc[q] = "idle"
    BY <1>2, <2>1 DEF OneMoves, Active, Found, Stopped, needsDeploy
  <2> QED BY <2>1, <2>2 DEF NoLostWakeup
<1> QED BY <1>1, <1>2

(* A package that waits is woken: when the cache shows the last of its
   dependencies as Deployed, the watch has put the package in the queue, or it
   is being reconciled.  The check of a worker and the event cannot miss each
   other, whatever happens in between, as long as requestsForDependents can
   list the dependents. *)
THEOREM WaitersAreWoken == SafetySpec => []NoLostWakeup
<1>1. Init => CacheFirst /\ NoLostWakeup
  BY DEF Init, CacheFirst, NoLostWakeup
<1>2. TypeOK /\ CacheFirst /\ NoLostWakeup /\ [Next]_vars => (CacheFirst /\ NoLostWakeup)'
  <2> SUFFICES ASSUME TypeOK, CacheFirst, NoLostWakeup, [Next]_vars PROVE NoLostWakeup'
    BY CacheFirstStep
  <2> USE DEF TypeOK, NoLostWakeup, Active, Found, Stopped, needsDeploy
  <2>1. CASE UNCHANGED vars
    BY <2>1 DEF vars, graph, stops
  <2>2. ASSUME NEW p \in Packages, Waits(p) PROVE NoLostWakeup'
    <3>1. OneMoves(p) /\ ~checkDependencies(p)
      BY <2>2 DEF Waits, Take, SetPhase, graph, stops, OneMoves
    <3> QED BY <3>1, OneWakeup
  <2>3. ASSUME NEW p \in Packages, InSync(p) PROVE NoLostWakeup'
    <3>1. OneMoves(p)
      BY <2>3 DEF InSync, Take, SetPhase, graph, stops, OneMoves
    <3>2. ~needsDeploy(p)'
      BY <2>3 DEF InSync, Take, SetPhase
    <3> QED BY <3>1, <3>2, OneWakeup
  <2>4. ASSUME NEW p \in Packages, StartDeploy(p) PROVE NoLostWakeup'
    <3>1. OneMoves(p) /\ p \notin unmet'
      BY <2>4 DEF StartDeploy, Take, SetPhase, graph, stops, OneMoves
    <3> QED BY <3>1, OneWakeup
  <2>5. ASSUME NEW p \in Packages, StartRemove(p) \/ Ignore(p) PROVE NoLostWakeup'
    <3>1. OneMoves(p)
      BY <2>5 DEF StartRemove, Ignore, Take, SetPhase, graph, stops, OneMoves
    <3>2. ~Active(p)'
      BY <2>5 DEF StartRemove, Ignore, Take, SetPhase, stops
    <3> QED BY <3>1, <3>2, OneWakeup
  <2>6. ASSUME NEW p \in Packages, Call(p) \/ Wait(p) PROVE NoLostWakeup'
    <3>1. OneMoves(p)
      BY <2>6 DEF Call, Wait, Enter, Refused, graph, stops, OneMoves
    <3>2. pc'[p] # "idle" \/ p \in queue'
      BY <2>6 DEF Call, Wait, Enter, Refused
    <3> QED BY <3>1, <3>2, OneWakeup
  <2>7. ASSUME NEW p \in Packages, Ends(p) PROVE NoLostWakeup'
    <3>1. ASSUME NEW ph, NEW dep, NEW again, Finish(p, ph, dep, again),
                 delayed \subseteq delayed', exhausted' \ {p} = exhausted \ {p}
          PROVE  OneMoves(p) /\ phase'[p] = ph /\ deployed'[p] = dep /\ (again => p \in queue')
      BY <3>1 DEF Finish, SetPhase, graph, OneMoves
    <3>2. CASE DeploySucceeds(p) \/ DeployCanceled(p) \/ RemoveSucceeds(p)
      <4>1. OneMoves(p)
        BY <3>1, <3>2 DEF DeploySucceeds, DeployCanceled, RemoveSucceeds
      <4>2. \/ phase'[p] = "Deployed" /\ deployed'[p] = "current"
            \/ p \in queue' \/ phase'[p] = "none"
        BY <3>1, <3>2 DEF DeploySucceeds, DeployCanceled, RemoveSucceeds
      <4> QED BY <4>1, <4>2, OneWakeup
    <3>3. CASE DeployFails(p) \/ RemoveFails(p)
      <4>1. OneMoves(p)
        BY <3>1, <3>3 DEF DeployFails, RemoveFails
      <4>2. p \in queue' \/ p \in delayed' \/ p \in exhausted'
        BY <3>1, <3>3 DEF DeployFails, RemoveFails
      <4> QED BY <4>1, <4>2, OneWakeup
    <3> QED BY <2>7, <3>2, <3>3 DEF Ends
  <2>8. ASSUME NEW p \in Packages, SecretMissing(p) PROVE NoLostWakeup'
    <3>1. OneMoves(p) /\ p \in queue'
      BY <2>8 DEF SecretMissing, Refused, SetPhase, graph, stops, OneMoves
    <3> QED BY <3>1, OneWakeup
  <2>9. ASSUME NEW p \in Packages, WatchEvent(p) PROVE NoLostWakeup'
    <3>1. phase[p] = "Deployed" => dependencyPhasePredicate(seen[p], phase[p])
      BY <2>9 DEF WatchEvent, CacheFirst, dependencyPhasePredicate
    <3>2. phase[p] = "Deployed" => requestsForDependents(p) \subseteq queue' \cup delayed'
      BY <2>9, <3>1 DEF WatchEvent
    <3>3. \A q \in Packages : q \notin dependsOn[q] /\ dependsOn[q] \subseteq Packages
      BY DependenciesAssumption
    <3>4. /\ dependsOn' = dependsOn /\ phase' = phase /\ pc' = pc /\ unmet' = unmet
          /\ deployed' = deployed /\ UNCHANGED stops
          /\ queue \subseteq queue' /\ delayed \subseteq delayed'
          /\ \A q \in Packages \ {p} : seen'[q] = seen[q]
          /\ seen'[p] = phase[p]
          /\ seen[p] = "none" => p \in queue'
      BY <2>9 DEF WatchEvent, graph
    <3> SUFFICES ASSUME NEW q \in unmet \ delayed', Active(q)', needsDeploy(q), pc[q] = "idle",
                        q \notin queue'
                 PROVE  \E d \in dependsOn[q] : seen'[d] # "Deployed"
      BY <3>4
    <3>5. Active(q) /\ seen[q] # "none"
      BY <3>4 DEF stops
    <3>6. PICK d \in dependsOn[q] : seen[d] # "Deployed"
      BY <3>4, <3>5
    <3>7. seen'[d] # "Deployed"
      BY <3>2, <3>3, <3>4, <3>5, <3>6 DEF requestsForDependents
    <3> QED BY <3>6, <3>7
  <2>10. ASSUME NEW p \in Packages, Requeue(p) PROVE NoLostWakeup'
    BY <2>10 DEF Requeue, graph, stops
  <2>11. ASSUME NEW p \in Packages, Users(p) PROVE NoLostWakeup'
    <3>1. OneMoves(p)
      BY <2>11 DEF Users, Create, Edit, Suspend, Annotate, Delete, graph, stops, OneMoves
    <3>2. p \in queue' \/ p \notin unmet'
      BY <2>11 DEF Users, Create, Edit, Suspend, Annotate, Delete
    <3> QED BY <3>1, <3>2, OneWakeup
  <2> QED BY <2>1, <2>2, <2>3, <2>4, <2>5, <2>6, <2>7, <2>8, <2>9, <2>10, <2>11
             DEF Next, Reconcile, Operate, Fails, Ends
<1> QED BY <1>1, <1>2, TypeCorrect, PTL DEF SafetySpec

-----------------------------------------------------------------------------
(* Coming to rest *)

(* A package at rest, which the cache knows, is left to a timer; or it is not
   being removed, and suspended, given up, up to date, or known to wait for its
   dependencies. *)
Attended ==
    \A p \in Packages :
        pc[p] = "idle" /\ p \notin queue /\ p \notin delayed
              /\ seen[p] # "none" /\ phase[p] # "none"
            => /\ phase[p] # "Removing"
               /\ \/ Stopped(p)
                  \/ phase[p] = "Deployed" /\ deployed[p] = "current"
                  \/ p \in unmet /\ needsDeploy(p)

LEMMA AttendedStep == TypeOK /\ CacheFirst /\ Attended /\ [Next]_vars => Attended'
<1> SUFFICES ASSUME TypeOK, CacheFirst, Attended, [Next]_vars PROVE Attended'
  OBVIOUS
<1> USE DEF TypeOK, Attended, needsDeploy, Stopped
<1>1. CASE UNCHANGED vars
  BY <1>1 DEF vars, stops
<1>2. ASSUME NEW p \in Packages, Waits(p) PROVE Attended'
  BY <1>2 DEF Waits, Take, stops, Active, Found, SetPhase
<1>3. ASSUME NEW p \in Packages, InSync(p) PROVE Attended'
  BY <1>3 DEF InSync, Take, stops, Active, Found, SetPhase
<1>4. ASSUME NEW p \in Packages, StartDeploy(p) PROVE Attended'
  BY <1>4 DEF StartDeploy, Take, stops, SetPhase
<1>5. ASSUME NEW p \in Packages, StartRemove(p) PROVE Attended'
  BY <1>5 DEF StartRemove, Take, stops, SetPhase
<1>6. ASSUME NEW p \in Packages, Ignore(p) PROVE Attended'
  BY <1>6 DEF Ignore, Take, stops, Found
<1>7. ASSUME NEW p \in Packages, Call(p) \/ Wait(p) PROVE Attended'
  BY <1>7 DEF Call, Wait, Enter, Refused, stops
<1>8. ASSUME NEW p \in Packages, NEW ph \in Phases, NEW dep, NEW again, Finish(p, ph, dep, again),
             delayed \subseteq delayed', exhausted \subseteq exhausted',
             \/ again \/ p \in delayed' \/ ph = "none"
             \/ ph # "Removing" /\ p \in exhausted'
             \/ ph = "Deployed" /\ dep = "current"
      PROVE  Attended'
  BY <1>8 DEF Finish, SetPhase
<1>9. ASSUME NEW p \in Packages, Ends(p) PROVE Attended'
  BY <1>8, <1>9 DEF Ends, DeploySucceeds, DeployFails, DeployCanceled, RemoveSucceeds,
     RemoveFails, Phases
<1>10. ASSUME NEW p \in Packages, SecretMissing(p) PROVE Attended'
  BY <1>10 DEF SecretMissing, Refused, SetPhase, stops
<1>11. ASSUME NEW p \in Packages, WatchEvent(p) PROVE Attended'
  BY <1>11 DEF WatchEvent, stops
<1>12. ASSUME NEW p \in Packages, Requeue(p) PROVE Attended'
  BY <1>12 DEF Requeue, stops
<1>13. ASSUME NEW p \in Packages, Create(p) PROVE Attended'
  BY <1>13 DEF Create
<1>14. ASSUME NEW p \in Packages, Edit(p) PROVE Attended'
  BY <1>14 DEF Edit, stops
<1>15. ASSUME NEW p \in Packages, Suspend(p) PROVE Attended'
  BY <1>15 DEF Suspend
<1>16. ASSUME NEW p \in Packages, Annotate(p) PROVE Attended'
  BY <1>16 DEF Annotate
<1>17. ASSUME NEW p \in Packages, Delete(p) PROVE Attended'
  BY <1>17 DEF Delete, stops
<1> QED BY <1>1, <1>2, <1>3, <1>4, <1>5, <1>6, <1>7, <1>9, <1>10, <1>11, <1>12, <1>13, <1>14,
           <1>15, <1>16, <1>17
           DEF Next, Reconcile, Operate, Fails, Ends, Users

(* Whatever was refused, cancelled, retried, edited or deleted on the way, the
   system does not come to rest before a package is deployed whose dependencies,
   and theirs, are all there without a cycle, unless one of them is suspended,
   given up at maxRetries or waiting for RequeueInterval (or for the timer that
   replaces a lost event): for any packages, graphs and workers. *)
THEOREM RestMeansDeployed == SafetySpec => []QuietMeansDeployed
<1>1. Init => CacheFirst /\ Attended
  BY DEF Init, CacheFirst, Attended, needsDeploy
<1>2. TypeOK /\ Attended /\ NoLostWakeup => QuietMeansDeployed
  <2> SUFFICES ASSUME TypeOK, Attended, NoLostWakeup, Quiet,
                      NEW S \in SUBSET Packages, Complete(S),
                      \A p \in S : phase[p] # "none" /\ ~Stopped(p) /\ p \notin delayed
               PROVE  \A p \in S : phase[p] = "Deployed" /\ deployed[p] = "current"
    BY DEF QuietMeansDeployed
  <2> DEFINE UpToDate(p) == phase[p] = "Deployed" /\ deployed[p] = "current"
             Behind == {p \in S : ~UpToDate(p)}
  <2>1. ASSUME NEW p \in Behind PROVE dependsOn[p] \cap Behind # {}
    <3>1. p \in unmet \ delayed /\ needsDeploy(p) /\ Active(p)
      BY <2>1 DEF Attended, Quiet, Active, Found
    <3>2. PICK d \in dependsOn[p] : seen[d] # "Deployed"
      BY <3>1, Zenon DEF NoLostWakeup, Quiet
    <3>3. d \in S
      BY <3>2 DEF Complete
    <3> QED BY <3>2, <3>3 DEF Quiet
  <2>2. Behind = {}
    BY <2>1 DEF Complete, Knotted
  <2> QED BY <2>2
<1> QED BY <1>1, <1>2, CacheFirstStep, AttendedStep, WaitersAreWoken, TypeCorrect, PTL DEF SafetySpec
=============================================================================
