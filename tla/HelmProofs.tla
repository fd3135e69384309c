----------------------------- MODULE HelmProofs -----------------------------
(***************************************************************************)
(* For any number of charts and of faults, the manager repairs only        *)
(* releases that are stuck.  The manager works on Helm past the sidecar's  *)
(* slot, so the argument is about who may be in the slot: wherever a       *)
(* cleanup can begin, the slot is empty (SlotFree).                        *)
(***************************************************************************)
EXTENDS Helm, TLAPS

(* A cleanup begins in two places.  After a reply of Helm, whose operation is
   over with it; and at a reconcile of a package stored as Failed.  The latter
   is safe as long as Failed is stored only when no operation is left (late says
   when it was not), and because Deploying is stored before the next one begins. *)
SlotFree ==
    /\ pc \in {"cleanup", "fix"} => op.kind = "none"
    /\ pc = "idle" /\ stored.phase = "Failed" => op.kind = "none"
    /\ pc # "idle" => stored.phase # "Failed"
    /\ pc \notin {"idle", "finish"} => mem.phase # "Failed"
    /\ pc = "finish" /\ mem.phase = "Failed" => op.kind = "none"
    /\ pc = "fix" => seen \in Pending /\ release[at] = seen

AtChart == pc = "fix" => at \in Charts

Inv == TypeOK /\ AtChart /\ (late \/ SlotFree)

LEMMA Bounds == NCharts \in Nat \ {0} /\ MaxFaults \in Nat
BY HelmAssumption

LEMMA First == 1 \in 1..(NCharts + 1) /\ 1 \in Charts /\ 0 \in 0..MaxFaults
BY Bounds DEF Charts

LEMMA Counted ==
    ASSUME NEW f, faults \in 0..MaxFaults, NoFault \/ Fault(f)
    PROVE  faults' \in 0..MaxFaults
BY Bounds DEF NoFault, Fault

(* Records built from records. *)
LEMMA FailedTyped ==
    ASSUME NEW st \in Statuses, NEW f \in Failures(st)
    PROVE  f \in Statuses /\ f.phase = "Failed"
BY DEF Failures, Failed, Statuses

LEMMA FailedIsFailure ==
    ASSUME NEW st
    PROVE  Failed(st) \in Failures(st)
BY DEF Failures

LEMMA MarkTyped ==
    ASSUME NEW st \in Statuses, NEW c \in Charts
    PROVE  markFailedComponentStatus(c, st) \in Statuses
<1> DEFINE e == IF st.charts[c] # "none" THEN st.charts[c]
                ELSE IF spec.namespace THEN "known" ELSE "blank"
<1>1. st.charts \in Evidence
    BY DEF Statuses
<1>2. e \in {"none", "blank", "known"}
    BY <1>1 DEF Evidence
<1>3. [st.charts EXCEPT ![c] = e] \in Evidence
    BY <1>1, <1>2 DEF Evidence
<1>4. markFailedComponentStatus(c, st) = [st EXCEPT !.charts = [st.charts EXCEPT ![c] = e]]
    BY <1>1 DEF markFailedComponentStatus, Statuses, Evidence
<1> HIDE DEF e
<1> QED
    BY <1>3, <1>4 DEF Statuses

LEMMA DeployingTyped ==
    ASSUME stored \in Statuses, NEW unread
    PROVE  Deploying(unread) \in Statuses /\ Deploying(unread).phase = "Deploying"
<1>1. driftInfo(unread) \in BOOLEAN
    BY DEF driftInfo, Statuses
<1> QED
    BY <1>1 DEF Deploying, Statuses

LEMMA ForgetTyped ==
    ASSUME Forget, stored' \in Statuses
    PROVE  /\ mem' \in Statuses /\ pc' \in PCs /\ at' \in 1..(NCharts + 1)
           /\ seen' \in ReleaseStates /\ repaired' \in BOOLEAN /\ retried' \in BOOLEAN
           /\ failing' \in Charts
BY First DEF Forget, Goto, PCs, ReleaseStates

LEMMA SuccessTyped ==
    applyDeploySuccessStatus \in Statuses /\ applyDeploySuccessStatus.phase = "Deployed"
BY DEF applyDeploySuccessStatus, Statuses, Evidence, convertComponentStatuses

LEMMA NoOpTyped == NoOp \in Operations /\ NoOp.kind = "none"
BY Bounds DEF NoOp, Operations, Charts

LEMMA StartTyped ==
    ASSUME NEW k \in {"deploy", "remove"}
    PROVE  [NoOp EXCEPT !.kind = k] \in Operations
BY NoOpTyped DEF Operations

LEMMA AbandonTyped ==
    ASSUME op \in Operations, Abandon
    PROVE  op' \in Operations /\ op'.kind = op.kind
BY DEF Abandon, Operations

(* What a step of Zarf makes the worker do keeps its variables typed. *)
LEMMA ReplyTyped ==
    ASSUME TypeOK, NEW code, NEW c \in Charts, Reply(code, c)
    PROVE  /\ mem' \in Statuses /\ pc' \in PCs /\ at' \in 1..(NCharts + 1)
           /\ seen' \in ReleaseStates /\ repaired' \in BOOLEAN /\ retried' \in BOOLEAN
           /\ failing' \in Charts
<1>1. CASE pc # "deploying"
    BY <1>1 DEF Reply, worker, TypeOK
<1>2. CASE pc = "deploying"
    <2>1. mem \in Statuses /\ 1 \in 1..(NCharts + 1)
        BY First DEF TypeOK
    <2>2. mem' \in Statuses
        BY <1>2, <2>1, SuccessTyped, MarkTyped, FailedTyped DEF Reply
    <2>3. pc' \in PCs
        BY <1>2 DEF Reply, Goto, PCs
    <2> QED
        BY <1>2, <2>1, <2>2, <2>3 DEF Reply, TypeOK
<1> QED BY <1>1, <1>2

(* The same, of SlotFree: the operation is over, and a reply that is a failure
   is recorded with the slot empty. *)
LEMMA ReplySlotFree ==
    ASSUME TypeOK, SlotFree, NEW code, NEW c \in Charts, Reply(code, c),
           op'.kind = "none", stored' = stored, release' = release \/ pc # "fix"
    PROVE  SlotFree'
<1>1. CASE pc # "deploying"
    BY <1>1 DEF Reply, worker, SlotFree
<1>2. CASE pc = "deploying"
    <2>1. pc' \in {"finish", "cleanup"}
        BY <1>2 DEF Reply, Goto
    <2>2. pc' = "cleanup" => mem' = mem
        BY <1>2 DEF Reply, Goto
    <2> QED
        BY <1>2, <2>1, <2>2 DEF SlotFree
<1> QED BY <1>1, <1>2

-----------------------------------------------------------------------------
(* Type correctness *)

LEMMA TypeInit == Init => TypeOK
<1> SUFFICES ASSUME Init PROVE TypeOK
    OBVIOUS
<1>1. stored \in Statuses /\ mem \in Statuses
    BY DEF Init, Statuses, Evidence, NoEvidence
<1>2. op \in Operations
    BY NoOpTyped DEF Init
<1>3. pkg \in Packages
    BY DEF Init, Packages, NoPackage
<1>4. release \in [Charts -> ReleaseStates]
    BY DEF Init, ReleaseStates
<1>5. at \in 1..(NCharts + 1) /\ failing \in Charts /\ faults \in 0..MaxFaults
    BY First DEF Init
<1> QED
    BY <1>1, <1>2, <1>3, <1>4, <1>5 DEF Init, TypeOK, PCs, ReleaseStates

(* What the manager stores or holds in memory. *)
LEMMA TypeManager ==
    ASSUME TypeOK, AtChart, Manager
    PROVE  TypeOK'
<1> USE DEF Goto
<1>0. /\ stored \in Statuses /\ mem \in Statuses /\ pkg \in Packages
      /\ release \in [Charts -> ReleaseStates] /\ faults \in 0..MaxFaults
      /\ at \in 1..(NCharts + 1) /\ op \in Operations
    BY DEF TypeOK
<1>1. CASE InSync
    <2>1. PICK unread : /\ Unread(unread)
                        /\ stored' = [phase |-> "Deployed", terminal |-> FALSE,
                                      packageName |-> TRUE,
                                      charts |-> convertComponentStatuses(pkg.charts),
                                      drift |-> driftInfo(unread)]
        BY <1>1 DEF InSync
    <2>2. faults' \in 0..MaxFaults
        BY <1>0, <2>1, Counted DEF Unread
    <2>3. driftInfo(unread) \in BOOLEAN
        BY <1>0 DEF driftInfo, Statuses
    <2>4. convertComponentStatuses(pkg.charts) \in Evidence
        BY DEF convertComponentStatuses, Evidence
    <2>5. stored' \in Statuses
        BY <2>1, <2>3, <2>4 DEF Statuses
    <2> QED
        BY <1>1, <2>2, <2>5, ForgetTyped DEF InSync, TypeOK
<1>2. CASE StartDeploy
    <2>1. PICK unread : /\ mem' = Deploying(unread)
                        /\ \/ stored' = mem' /\ Unread(unread)
                           \/ UNCHANGED stored /\ Fault("patch")
        BY <1>2 DEF StartDeploy
    <2>2. mem' \in Statuses /\ stored' \in Statuses
        BY <1>0, <2>1, DeployingTyped
    <2>3. faults' \in 0..MaxFaults
        BY <1>0, <2>1, Counted DEF Unread
    <2>4. late' \in BOOLEAN
        BY <1>2 DEF StartDeploy
    <2>5. pc' \in PCs
        BY <1>2 DEF StartDeploy, PCs
    <2> QED
        BY <1>2, <2>2, <2>3, <2>4, <2>5 DEF StartDeploy, TypeOK
<1>3. CASE SkipRelease
    <2>1. faults' \in 0..MaxFaults
        BY <1>0, <1>3, Counted DEF SkipRelease
    <2>2. at' \in 1..(NCharts + 1)
        BY <1>0, <1>3, Bounds DEF SkipRelease, Looping
    <2> QED
        BY <1>3, <2>1, <2>2 DEF SkipRelease, TypeOK
<1>4. CASE FindStuck
    <2>1. seen' \in ReleaseStates
        BY <1>0, <1>4 DEF FindStuck, isStuckHelmStatus, ReleaseStates
    <2> QED
        BY <1>4, <2>1 DEF FindStuck, TypeOK, PCs, NoFault
<1>5. CASE fixStuckHelmRelease
    <2>0. at \in Charts
        BY <1>5 DEF fixStuckHelmRelease, AtChart
    <2>1. faults' \in 0..MaxFaults
        BY <1>0, <1>5, Counted DEF fixStuckHelmRelease
    <2>2. Fixed \in ReleaseStates /\ FixFails \subseteq ReleaseStates
        BY <1>0, <2>0 DEF Fixed, FixFails, ReleaseStates
    <2>3. release' \in [Charts -> ReleaseStates]
        BY <1>0, <1>5, <2>0, <2>2 DEF fixStuckHelmRelease
    <2>4. at' \in 1..(NCharts + 1)
        BY <1>5, <2>0, Bounds DEF fixStuckHelmRelease, Charts
    <2>5. seen' \in ReleaseStates /\ repaired' \in BOOLEAN
        BY <1>5 DEF fixStuckHelmRelease, ReleaseStates, TypeOK
    <2> QED
        BY <1>5, <2>1, <2>3, <2>4, <2>5 DEF fixStuckHelmRelease, TypeOK, PCs
<1>6. CASE CleanupDone
    <2>1. mem' \in Statuses
        BY <1>0, <1>6, MarkTyped, FailedTyped DEF CleanupDone, TypeOK
    <2>2. pc' \in PCs
        BY <1>6 DEF CleanupDone, PCs
    <2>3. faults' \in 0..MaxFaults
        BY <1>0, <1>6, Counted DEF CleanupDone
    <2>4. at' \in 1..(NCharts + 1) /\ failing' \in Charts /\ repaired' \in BOOLEAN
        BY <1>6, First DEF CleanupDone
    <2> QED
        BY <1>6, <2>1, <2>2, <2>3, <2>4 DEF CleanupDone, TypeOK
<1>7. CASE CallRemove
    <2>1. op' \in Operations
        BY <1>0, <1>7, StartTyped DEF CallRemove, StartOp
    <2>2. faults' \in 0..MaxFaults
        BY <1>0, <1>7, Counted DEF CallRemove, StartOp, SlotTaken
    <2>3. pc' \in PCs
        BY <1>7 DEF CallRemove, PCs
    <2> QED
        BY <1>7, <2>1, <2>2, <2>3 DEF CallRemove, TypeOK
<1>8. CASE CallDeploy
    <2>1. op' \in Operations
        BY <1>0, <1>8, StartTyped DEF CallDeploy, StartOp
    <2>2. faults' \in 0..MaxFaults
        BY <1>0, <1>8, Counted DEF CallDeploy, StartOp, SlotTaken
    <2>3. pc' \in PCs
        BY <1>8 DEF CallDeploy, PCs
    <2> QED
        BY <1>8, <2>1, <2>2, <2>3 DEF CallDeploy, TypeOK
<1>9. CASE Finish
    <2>1. stored' \in Statuses
        BY <1>0, <1>9 DEF Finish
    <2>2. faults' \in 0..MaxFaults
        BY <1>0, <1>9, Counted DEF Finish
    <2>3. dirty' \in {"no", "spec", "redeploy"}
        BY <1>9 DEF Finish, TypeOK
    <2> QED
        BY <1>9, <2>1, <2>2, <2>3, ForgetTyped DEF Finish, TypeOK
<1> QED
    BY <1>1, <1>2, <1>3, <1>4, <1>5, <1>6, <1>7, <1>8, <1>9 DEF Manager

LEMMA TypeZarf ==
    ASSUME TypeOK, Zarf
    PROVE  TypeOK'
<1> USE DEF EndOp
<1>0. /\ op \in Operations /\ pkg \in Packages /\ faults \in 0..MaxFaults
      /\ release \in [Charts -> ReleaseStates] /\ NoOp \in Operations
    BY NoOpTyped DEF TypeOK
<1>c. op.chart \in Charts
    BY <1>0 DEF Operations
<1>1. CASE HelmRefuses
    <2>1. pkg' \in Packages
        BY <1>0, <1>c, <1>1 DEF HelmRefuses, Packages
    <2>2. Reply("InProgress", op.chart)
        BY <1>1 DEF HelmRefuses
    <2> QED
        BY <1>0, <1>c, <1>1, <2>1, <2>2, ReplyTyped DEF HelmRefuses, TypeOK, NoFault
<1>2. CASE HelmStarts
    <2>1. pkg' \in Packages
        BY <1>0, <1>c, <1>2 DEF HelmStarts, Packages
    <2>2. op' \in Operations
        BY <1>0, <1>2 DEF HelmStarts, Operations
    <2>3. release' \in [Charts -> ReleaseStates]
        BY <1>0, <1>c, <1>2 DEF HelmStarts, ReleaseStates, Pending
    <2> QED
        BY <1>2, <2>1, <2>2, <2>3 DEF HelmStarts, TypeOK, NoFault, worker
<1>3. CASE HelmEnds
    <2>1. pkg' \in Packages
        BY <1>0, <1>c, <1>3 DEF HelmEnds, Packages
    <2>2. op.chart # NCharts => op.chart + 1 \in Charts
        BY <1>c, Bounds DEF Charts
    <2>3. op' \in Operations
        BY <1>0, <1>3, <2>2 DEF HelmEnds, Operations
    <2>4. release' \in [Charts -> ReleaseStates]
        BY <1>0, <1>c, <1>3 DEF HelmEnds, ReleaseStates
    <2>5. Reply("OK", op.chart) \/ UNCHANGED worker
        BY <1>3 DEF HelmEnds
    <2>6. /\ mem' \in Statuses /\ pc' \in PCs /\ at' \in 1..(NCharts + 1)
          /\ seen' \in ReleaseStates /\ repaired' \in BOOLEAN /\ retried' \in BOOLEAN
          /\ failing' \in Charts
        <3>1. CASE Reply("OK", op.chart)
            BY <1>c, <3>1, ReplyTyped
        <3>2. CASE UNCHANGED worker
            BY <3>2 DEF worker, TypeOK
        <3> QED BY <2>5, <3>1, <3>2
    <2> QED
        BY <1>3, <2>1, <2>3, <2>4, <2>6 DEF HelmEnds, TypeOK, NoFault
<1>4. CASE HelmFails
    <2>1. pkg' \in Packages
        BY <1>0, <1>c, <1>4 DEF HelmFails, Packages
    <2>2. release' \in [Charts -> ReleaseStates]
        BY <1>0, <1>c, <1>4 DEF HelmFails, ReleaseStates
    <2>3. faults' \in 0..MaxFaults
        BY <1>0, <1>4, Counted DEF HelmFails
    <2>4. Reply("Error", op.chart) /\ op' \in Operations
        BY <1>0, <1>4 DEF HelmFails
    <2> QED
        BY <1>c, <1>4, <2>1, <2>2, <2>3, <2>4, ReplyTyped DEF HelmFails, TypeOK
<1>5. CASE DeployStops
    <2>1. pkg' \in Packages
        BY <1>0, <1>c, <1>5 DEF DeployStops, Packages
    <2>2. release' \in [Charts -> ReleaseStates]
        BY <1>0, <1>c, <1>5 DEF DeployStops, ReleaseStates
    <2>3. Reply("Canceled", op.chart) /\ op' \in Operations
        BY <1>0, <1>5 DEF DeployStops
    <2> QED
        BY <1>c, <1>5, <2>1, <2>2, <2>3, ReplyTyped DEF DeployStops, TypeOK, NoFault
<1>6. CASE RemoveEnds
    <2>1. PICK gone \in SUBSET pkg.charts :
              /\ release' = [c \in Charts |-> IF c \in gone THEN "absent" ELSE release[c]]
              /\ \/ gone = pkg.charts /\ pkg' = NoPackage /\ NoFault
                 \/ /\ pkg' = [pkg EXCEPT !.charts = @ \ gone]
                    /\ IF op.stop THEN NoFault ELSE Fault("chart")
        BY <1>6 DEF RemoveEnds
    <2>2. release' \in [Charts -> ReleaseStates]
        BY <1>0, <2>1 DEF ReleaseStates
    <2>3. pkg' \in Packages
        <3>1. NoPackage \in Packages
            BY DEF NoPackage, Packages
        <3>2. [pkg EXCEPT !.charts = @ \ gone] \in Packages
            BY <1>0 DEF Packages
        <3> QED
            BY <2>1, <3>1, <3>2
    <2>4. faults' \in 0..MaxFaults
        BY <1>0, <2>1, Counted
    <2>5. pc' \in PCs
        BY <1>6 DEF RemoveEnds, Removed, Goto, PCs, TypeOK
    <2> QED
        BY <1>0, <1>6, <2>2, <2>3, <2>4, <2>5 DEF RemoveEnds, TypeOK
<1> QED
    BY <1>1, <1>2, <1>3, <1>4, <1>5, <1>6 DEF Zarf

Around ==
    \/ SecretMissing \/ Die \/ Outage \/ Unavailable \/ Deadline \/ Crash \/ Preempt \/ Edit
    \/ \E c \in Charts : Uninstall(c)

LEMMA TypeAround ==
    ASSUME TypeOK, AtChart, Around
    PROVE  TypeOK'
<1> USE DEF Goto
<1>0. /\ op \in Operations /\ stored \in Statuses /\ mem \in Statuses
      /\ faults \in 0..MaxFaults /\ NoOp \in Operations
      /\ release \in [Charts -> ReleaseStates]
    BY NoOpTyped DEF TypeOK
<1>1. CASE Die
    <2>1. faults' \in 0..MaxFaults
        BY <1>0, <1>1, Counted DEF Die
    <2>2. mem' \in Statuses /\ pc' \in PCs
        BY <1>0, <1>1, FailedTyped DEF Die, PCs, TypeOK
    <2> QED
        BY <1>0, <1>1, <2>1, <2>2 DEF Die, EndOp, TypeOK
<1>2. CASE Outage
    <2>1. faults' \in 0..MaxFaults
        BY <1>0, <1>2, Counted DEF Outage
    <2>2. op' \in Operations
        BY <1>0, <1>2, AbandonTyped DEF Outage
    <2> QED
        BY <1>2, <2>1, <2>2 DEF Outage, TypeOK, PCs
<1>3. CASE Unavailable
    <2>1. faults' \in 0..MaxFaults
        BY <1>0, <1>3, Counted DEF Unavailable
    <2>2. stored' \in Statuses
        <3>1. [stored EXCEPT !.phase = "Pending"] \in Statuses
            BY <1>0 DEF Statuses
        <3> QED
            BY <1>0, <1>3, <3>1, FailedTyped DEF Unavailable
    <2>3. late' \in BOOLEAN
        BY <1>3 DEF Unavailable, Overlaps, TypeOK
    <2> QED
        BY <1>3, <2>1, <2>2, <2>3, ForgetTyped DEF Unavailable, TypeOK
<1>4. CASE Deadline
    <2>1. faults' \in 0..MaxFaults
        BY <1>0, <1>4, Counted DEF Deadline
    <2>2. mem' \in Statuses /\ pc' \in PCs
        BY <1>0, <1>4, FailedTyped DEF Deadline, PCs, TypeOK
    <2>3. op' \in Operations
        BY <1>0, <1>4, AbandonTyped DEF Deadline
    <2>4. late' \in BOOLEAN
        BY <1>4 DEF Deadline, Overlaps, TypeOK
    <2> QED
        BY <1>4, <2>1, <2>2, <2>3, <2>4 DEF Deadline, TypeOK
<1>5. CASE Crash
    <2>1. faults' \in 0..MaxFaults
        BY <1>0, <1>5, Counted DEF Crash
    <2>2. op' \in Operations
        BY <1>0, <1>5, AbandonTyped DEF Crash
    <2>3. release' \in [Charts -> ReleaseStates]
        BY <1>0, <1>5 DEF Crash, AtChart, ReleaseStates, Pending
    <2> QED
        BY <1>0, <1>5, <2>1, <2>2, <2>3, ForgetTyped DEF Crash, TypeOK
<1>6. CASE Preempt
    <2>1. faults' \in 0..MaxFaults
        BY <1>0, <1>6, Counted DEF Preempt
    <2>2. op' \in Operations
        BY <1>0, <1>6 DEF Preempt, Operations
    <2> QED
        BY <1>6, <2>1, <2>2 DEF Preempt, TypeOK, worker
<1>7. CASE Edit
    <2>1. faults' \in 0..MaxFaults
        BY <1>0, <1>7, Counted DEF Edit
    <2> QED
        BY <1>7, <2>1 DEF Edit, TypeOK, worker
<1>8. ASSUME NEW c \in Charts, Uninstall(c) PROVE TypeOK'
    <2>1. faults' \in 0..MaxFaults
        BY <1>0, <1>8, Counted DEF Uninstall
    <2>2. release' \in [Charts -> ReleaseStates]
        BY <1>0, <1>8 DEF Uninstall, ReleaseStates
    <2> QED
        BY <1>8, <2>1, <2>2 DEF Uninstall, TypeOK, worker
<1>9. CASE SecretMissing
    <2>1. faults' \in 0..MaxFaults
        BY <1>0, <1>9, Counted DEF SecretMissing
    <2>2. late' \in BOOLEAN
        BY <1>9 DEF SecretMissing, Overlaps
    <2>3. CASE stored' = Failed(stored) /\ Forget
        <3>1. stored' \in Statuses
            BY <1>0, <2>3, FailedTyped, FailedIsFailure
        <3> QED
            BY <1>9, <2>1, <2>2, <2>3, <3>1, ForgetTyped DEF SecretMissing, TypeOK
    <2>4. CASE /\ stored' = Deploying({}) /\ mem' = Failed(stored') /\ pc' = "finish"
               /\ UNCHANGED <<at, seen, repaired, retried, failing>>
        <3>1. stored' \in Statuses
            BY <1>0, <2>4, DeployingTyped
        <3>2. mem' \in Statuses
            BY <2>4, <3>1, FailedTyped, FailedIsFailure
        <3> QED
            BY <1>9, <2>1, <2>2, <2>4, <3>1, <3>2 DEF SecretMissing, TypeOK, PCs
    <2> QED
        BY <1>9, <2>3, <2>4 DEF SecretMissing
<1> QED
    BY <1>1, <1>2, <1>3, <1>4, <1>5, <1>6, <1>7, <1>8, <1>9 DEF Around

-----------------------------------------------------------------------------
(* The slot *)

LEMMA AtChartStep ==
    ASSUME TypeOK, AtChart, Next
    PROVE  AtChart'
<1>0. at \in 1..(NCharts + 1)
    BY DEF TypeOK
<1>1. CASE FindStuck
    BY <1>0, <1>1 DEF FindStuck, uniqueChartRefs, AtChart
<1>2. CASE Manager /\ ~FindStuck
    BY <1>2 DEF Manager, AtChart, Goto, InSync, StartDeploy, SkipRelease, fixStuckHelmRelease,
                CleanupDone, CallRemove, CallDeploy, Finish, Forget, worker, Looping
<1>3. CASE Zarf
    BY <1>3 DEF Zarf, HelmRefuses, HelmStarts, HelmEnds, HelmFails, DeployStops, RemoveEnds,
                Reply, Removed, worker, Goto, AtChart
<1>4. CASE Around
    BY <1>4 DEF Around, SecretMissing, Die, Outage, Unavailable, Deadline, Crash, Preempt, Edit,
                Uninstall, Forget, worker, Goto, AtChart
<1> QED
    BY <1>1, <1>2, <1>3, <1>4 DEF Next, Around

(* Whatever came before, a deploy that begins with the slot empty, and stores
   that it does, is safe. *)
LEMMA BeginSlotFree ==
    ASSUME TypeOK, late \/ SlotFree, StartDeploy
    PROVE  late' \/ SlotFree'
<1>0. stored \in Statuses
    BY DEF TypeOK
<1>1. pc = "idle" /\ op' = op /\ pc' \in {"cleanup", "deploy"}
      /\ (pc' = "cleanup" => stored.phase = "Failed")
    BY DEF StartDeploy, Goto
<1>2. PICK unread : /\ mem' = Deploying(unread)
                    /\ \/ stored' = mem' /\ late' = (late /\ op.kind # "none")
                       \/ /\ UNCHANGED stored
                          /\ late' = ((late /\ op.kind # "none") \/ stored.phase = "Failed")
    BY DEF StartDeploy
<1>3. mem'.phase = "Deploying"
    BY <1>0, <1>2, DeployingTyped
<1>4. CASE op.kind = "none"
    BY <1>1, <1>2, <1>3, <1>4 DEF SlotFree
<1>5. CASE op.kind # "none" /\ ~late
    BY <1>1, <1>2, <1>3, <1>5 DEF SlotFree
<1>6. CASE op.kind # "none" /\ late
    BY <1>2, <1>6
<1> QED BY <1>4, <1>5, <1>6

LEMMA SlotManager ==
    ASSUME TypeOK, AtChart, ~late, SlotFree, Manager
    PROVE  late' \/ SlotFree'
<1> USE DEF Goto
<1>0. stored \in Statuses /\ mem \in Statuses /\ op \in Operations
    BY DEF TypeOK
<1>1. CASE InSync
    <2>1. stored'.phase = "Deployed" /\ pc' = "idle"
        BY <1>1 DEF InSync, Forget
    <2> QED
        BY <2>1 DEF SlotFree
<1>2. CASE StartDeploy
    BY <1>0, <1>2, BeginSlotFree
<1>3. CASE SkipRelease
    BY <1>3 DEF SkipRelease, Looping, SlotFree
<1>4. CASE FindStuck
    BY <1>4 DEF FindStuck, Looping, SlotFree, isStuckHelmStatus, helmReleaseStatus, Pending
<1>5. CASE fixStuckHelmRelease
    BY <1>5 DEF fixStuckHelmRelease, SlotFree
<1>6. CASE CleanupDone
    BY <1>6 DEF CleanupDone, SlotFree
<1>7. CASE CallRemove
    BY <1>7 DEF CallRemove, SlotFree
<1>8. CASE CallDeploy
    BY <1>8 DEF CallDeploy, SlotFree
<1>9. CASE Finish
    BY <1>9 DEF Finish, Forget, SlotFree
<1> QED
    BY <1>1, <1>2, <1>3, <1>4, <1>5, <1>6, <1>7, <1>8, <1>9 DEF Manager

LEMMA SlotZarf ==
    ASSUME TypeOK, SlotFree, Zarf
    PROVE  SlotFree'
<1> USE NoOpTyped DEF EndOp
<1>0. op \in Operations /\ op.chart \in Charts /\ op.kind # "none"
    BY DEF TypeOK, Operations, Zarf, HelmRefuses, HelmStarts, HelmEnds, HelmFails, DeployStops,
           RemoveEnds
<1>f. pc # "fix" /\ pc # "cleanup"
    BY <1>0 DEF SlotFree
<1>1. CASE HelmRefuses
    BY <1>0, <1>f, <1>1, ReplySlotFree DEF HelmRefuses
<1>2. CASE HelmStarts
    <2>1. op'.kind = op.kind
        BY <1>0, <1>2 DEF HelmStarts, Operations
    <2> QED
        BY <1>f, <1>2, <2>1 DEF HelmStarts, SlotFree, worker
<1>3. CASE HelmEnds
    <2>1. CASE op.chart = NCharts
        BY <1>0, <1>f, <1>3, <2>1, ReplySlotFree DEF HelmEnds
    <2>2. CASE op.chart # NCharts
        <3>1. op'.kind = op.kind
            BY <1>0, <1>3, <2>2 DEF HelmEnds, Operations
        <3> QED
            BY <1>f, <1>3, <2>2, <3>1 DEF HelmEnds, SlotFree, worker
    <2> QED BY <2>1, <2>2
<1>4. CASE HelmFails
    BY <1>0, <1>f, <1>4, ReplySlotFree DEF HelmFails
<1>5. CASE DeployStops
    BY <1>0, <1>f, <1>5, ReplySlotFree DEF DeployStops
<1>6. CASE RemoveEnds
    BY <1>f, <1>6 DEF RemoveEnds, Removed, Goto, SlotFree
<1> QED
    BY <1>1, <1>2, <1>3, <1>4, <1>5, <1>6 DEF Zarf

LEMMA SlotAround ==
    ASSUME TypeOK, AtChart, ~late, SlotFree, Around
    PROVE  late' \/ SlotFree'
<1> USE DEF Goto
<1>0. stored \in Statuses /\ op \in Operations /\ release \in [Charts -> ReleaseStates]
    BY DEF TypeOK
<1>1. CASE Die
    BY <1>1, NoOpTyped DEF Die, EndOp, SlotFree
<1>2. CASE Outage
    BY <1>0, <1>2, AbandonTyped DEF Outage, Waits, SlotFree
<1>3. CASE Unavailable
    <2>1. stored'.phase = "Pending" \/ late' \/ op.kind = "none"
        BY <1>0, <1>3 DEF Unavailable, Overlaps, Statuses
    <2>2. pc' = "idle" /\ op' = op
        BY <1>3 DEF Unavailable, Forget
    <2> QED
        BY <2>1, <2>2 DEF SlotFree
<1>4. CASE Deadline
    <2>1. CASE pc = "deploying"
        <3>1. late' \/ op.kind = "none"
            BY <1>4, <2>1 DEF Deadline, Overlaps
        <3> QED
            BY <1>0, <1>4, <2>1, <3>1, AbandonTyped DEF Deadline, SlotFree
    <2>2. CASE pc # "deploying"
        BY <1>0, <1>4, <2>2, AbandonTyped DEF Deadline, Waits, SlotFree
    <2> QED BY <2>1, <2>2
<1>5. CASE Crash
    BY <1>0, <1>5, AbandonTyped DEF Crash, Forget, SlotFree
<1>6. CASE Preempt
    BY <1>6 DEF Preempt, SlotFree, worker, Operations, TypeOK
<1>7. CASE Edit
    BY <1>7 DEF Edit, SlotFree, worker
<1>8. ASSUME NEW c \in Charts, Uninstall(c) PROVE SlotFree'
    <2>1. pc = "fix" => c # at
        BY <1>8 DEF Uninstall, SlotFree, Pending
    <2> QED
        BY <1>0, <1>8, <2>1 DEF Uninstall, SlotFree, worker, AtChart
<1>9. CASE SecretMissing
    <2>1. late' \/ op.kind = "none"
        BY <1>9 DEF SecretMissing, Overlaps
    <2>2. op' = op /\ pc' \in {"idle", "finish"}
        BY <1>9 DEF SecretMissing, Forget
    <2>3. pc' = "finish" => stored'.phase = "Deploying"
        BY <1>0, <1>9, DeployingTyped DEF SecretMissing, Forget
    <2> QED
        BY <2>1, <2>2, <2>3 DEF SlotFree
<1> QED
    BY <1>1, <1>2, <1>3, <1>4, <1>5, <1>6, <1>7, <1>8, <1>9 DEF Around

LEMMA Latched ==
    ASSUME late = TRUE, Next, ~StartDeploy
    PROVE  late' = TRUE
BY DEF Next, Manager, Zarf, InSync, SkipRelease, FindStuck, fixStuckHelmRelease,
       CleanupDone, CallRemove, CallDeploy, Finish, HelmRefuses, HelmStarts, HelmEnds, HelmFails,
       DeployStops, RemoveEnds, SecretMissing, Die, Outage, Unavailable, Deadline, Crash, Preempt,
       Edit, Uninstall, Overlaps

LEMMA Inductive == SafetySpec => []Inv
<1>1. Init => Inv
    <2> SUFFICES ASSUME Init PROVE Inv
        OBVIOUS
    <2>1. pc = "idle" /\ op.kind = "none"
        BY NoOpTyped DEF Init
    <2> QED
        BY <2>1, TypeInit DEF Inv, AtChart, SlotFree
<1>2. Inv /\ [Next]_vars => Inv'
    <2> SUFFICES ASSUME Inv, [Next]_vars PROVE Inv'
        OBVIOUS
    <2>1. CASE Next
        <3>1. TypeOK'
            BY <2>1, TypeManager, TypeZarf, TypeAround DEF Next, Around, Inv
        <3>2. AtChart'
            BY <2>1, AtChartStep DEF Inv
        <3>3. CASE late = TRUE
            BY <2>1, <3>1, <3>2, <3>3, Latched, BeginSlotFree DEF Inv
        <3>4. CASE ~late
            BY <2>1, <3>1, <3>2, <3>4, SlotManager, SlotZarf, SlotAround DEF Next, Around, Inv
        <3> QED
            BY <3>3, <3>4 DEF Inv, TypeOK
    <2>2. CASE UNCHANGED vars
        BY <2>2 DEF vars, worker, Inv, AtChart, SlotFree, TypeOK
    <2> QED BY <2>1, <2>2
<1> QED
    BY <1>1, <1>2, PTL DEF SafetySpec

(* The variables keep their types, and cleanupStuckHelmReleases never indexes
   past the last chart. *)
THEOREM TypeCorrect == SafetySpec => []TypeOK
<1>1. Inv => TypeOK
    BY DEF Inv
<1> QED
    BY <1>1, Inductive, PTL

(* fixStuckHelmRelease is called only on a release that is stuck, and in the
   state in which cleanupStuckHelmReleases found it. *)
THEOREM OnlyStuckReleasesAreRepaired == SafetySpec => []RepairsOnlyStuck
<1>1. Inv => RepairsOnlyStuck
    BY DEF Inv, SlotFree, RepairsOnlyStuck, Stuck, Live
<1> QED
    BY <1>1, Inductive, PTL

-----------------------------------------------------------------------------
(* The cleanup *)

LEMMA FaultCounts ==
    ASSUME NEW f, TypeOK, Fault(f)
    PROVE  faults' # faults
BY Bounds DEF Fault, TypeOK

(* While it cleans up with nothing going wrong, only the manager takes steps. *)
LEMMA CleanupIsAlone ==
    ASSUME TypeOK, SlotFree, pc \in {"cleanup", "fix"}, faults' = faults, Next
    PROVE  SkipRelease \/ FindStuck \/ fixStuckHelmRelease \/ CleanupDone
<1>1. op.kind = "none"
    BY DEF SlotFree
<1>2. ~Zarf
    BY <1>1 DEF Zarf, HelmRefuses, HelmStarts, HelmEnds, HelmFails, DeployStops, RemoveEnds
<1>3. ~Around
    BY FaultCounts DEF Around, SecretMissing, Die, Outage, Unavailable, Deadline, Crash, Preempt, Edit, Uninstall
<1>4. ~(InSync \/ StartDeploy \/ CallRemove \/ CallDeploy \/ Finish)
    BY DEF InSync, StartDeploy, CallRemove, CallDeploy, Finish
<1> QED
    BY <1>2, <1>3, <1>4 DEF Next, Manager, Around

Cleaned(c) ==
    /\ Stuck(c)' => Stuck(c)
    /\ c = at /\ at' = at + 1 /\ mem.charts[c] = "known" => ~Stuck(c)'

LEMMA CleanupStep ==
    ASSUME TypeOK, AtChart, SlotFree, Next, pc \in {"cleanup", "fix"}, ~spec.remote,
           faults' = faults, NEW c \in Charts
    PROVE  Cleaned(c)
<1>0. release \in [Charts -> ReleaseStates] /\ at \in 1..(NCharts + 1) /\ op.kind = "none"
    BY DEF TypeOK, SlotFree
<1>1. CASE SkipRelease
    <2>1. release' = release /\ op' = op /\ at' = at + 1
        BY <1>1 DEF SkipRelease
    <2>2. at \notin uniqueChartRefs(mem) \/ ~isStuckHelmStatus(helmReleaseStatus(at))
        BY <1>1, FaultCounts DEF SkipRelease
    <2>3. c = at /\ mem.charts[c] = "known" => release[c] \notin Pending
        BY <2>2 DEF uniqueChartRefs, isStuckHelmStatus, helmReleaseStatus, Pending
    <2> QED
        BY <2>1, <2>3 DEF Cleaned, Stuck, Live
<1>2. CASE FindStuck \/ CleanupDone
    <2>1. release' = release /\ op' = op /\ at' \in {at, 1}
        BY <1>2 DEF FindStuck, CleanupDone
    <2>2. at' # at + 1
        BY <1>0, <2>1
    <2> QED
        BY <2>1, <2>2 DEF Cleaned, Stuck, Live
<1>3. CASE fixStuckHelmRelease
    <2>1. release' = [release EXCEPT ![at] = Fixed] /\ op' = op
        BY <1>3, FaultCounts DEF fixStuckHelmRelease
    <2>2. Fixed \notin Pending /\ at \in Charts
        BY <1>3 DEF Fixed, Pending, AtChart, fixStuckHelmRelease
    <2> QED
        BY <1>0, <2>1, <2>2 DEF Cleaned, Stuck, Live
<1> QED
    BY <1>1, <1>2, <1>3, CleanupIsAlone

(* cleanupStuckHelmReleases goes past no release that the status knows and that
   is stuck, and nothing gets stuck while it is at work. *)
THEOREM CleanupLeavesNothingStuck == SafetySpec => CleanupIsThorough
<1> DEFINE A == ~late /\ pc \in {"cleanup", "fix"} /\ ~spec.remote /\ faults' = faults
                    => \A c \in Charts :
                          /\ Stuck(c)' => Stuck(c)
                          /\ c = at /\ at' = at + 1 /\ mem.charts[c] = "known" => ~Stuck(c)'
<1>1. Inv /\ [Next]_vars => [A]_vars
    <2> SUFFICES ASSUME Inv, Next PROVE A
        OBVIOUS
    <2> QED
        BY CleanupStep DEF Inv, Cleaned
<1>2. CleanupIsThorough <=> [][A]_vars
    BY DEF CleanupIsThorough
<1> QED
    BY <1>1, <1>2, Inductive, PTL DEF SafetySpec
=============================================================================
