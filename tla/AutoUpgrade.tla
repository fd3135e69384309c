---------------------------- MODULE AutoUpgrade ----------------------------
(***************************************************************************)
(* spec.upgradePolicy: how ZarfPackageReconciler finds a newer tag of the  *)
(* package's OCI repository, remembers it as status.availableSource, and   *)
(* deploys it (deploymentDecision and evaluateAutoUpgrade of               *)
(* src/internal/controller/zarfpackage_controller.go, and                  *)
(* src/internal/controller/oci_upgrade.go).                                *)
(*                                                                         *)
(* One reconcile at a time, cut where it calls the API server, the         *)
(* registry or the sidecar.  In between users edit the object, tags are    *)
(* pushed and withdrawn, and the manager may crash.  Of the status only    *)
(* what decides on the source is kept; maxRetries is 0 (unlimited), there  *)
(* are no dependencies and no deletion: module Reconciler has those.       *)
(***************************************************************************)
EXTENDS Naturals, Patches

CONSTANTS Sources,     \* what spec.source may be; "" is none of them
          Semver,      \* those with an explicit tag that is a full version
          Repository,  \* of those, the repository (parseOCISourceForTagList),
          Rank,        \*   the place of the version in the order of versions,
          Prerelease,  \*   and whether it is a prerelease
          Pins,        \* the sources users write in spec.source
          Constraints, \* semverConstraint, as the set of ranks it admits
          Faults,      \* what may go wrong around the reconciler
          MaxEvents    \* bound: edits, tags pushed or withdrawn, faults

NoSource == ""

ASSUME AutoUpgradeAssumption ==
    /\ NoSource \notin Sources /\ Semver \subseteq Sources /\ Pins \subseteq Sources
    /\ Rank \in [Semver -> Nat] /\ Prerelease \in [Semver -> BOOLEAN]
    /\ DOMAIN Repository = Semver
    /\ \A c \in Constraints : c \subseteq Nat
    /\ Faults \subseteq {"crash", "cancel", "error", "list", "drift", "race", "annotate", "remove"}
    /\ MaxEvents \in Nat

VARIABLES obj,       \* the object in the API server
          registry,  \* the sources that can be pulled
          cluster,   \* what Zarf has deployed under the package's name
          pc,        \* where the reconcile stands
          mem,       \* zarfPkg: the copy being worked on
          original,  \* original.Status
          plan,      \* what deploy was decided on, and from what
          sendsRV,   \* the next status patch carries a resourceVersion
          fresh,     \* which is still the stored one
          events     \* how many events from outside there were

worker == <<pc, mem, original, plan, sendsRV, fresh>>
vars == <<obj, registry, cluster, worker, events>>

-----------------------------------------------------------------------------
(* The object *)

Specs == [source : Pins, enabled : BOOLEAN, constraint : Constraints]

(* LastUpgradeCheckTime: never set, less than the interval ago, or longer. *)
Checks == {"never", "recent", "due"}

Statuses == [phase : {"", "Deploying", "Deployed", "Failed"}, packageName : BOOLEAN,
             source : Sources \cup {NoSource}, hash : Sources \cup {NoSource},
             attempted : Sources \cup {NoSource}, attemptError : BOOLEAN,
             available : Sources \cup {NoSource}, checked : Checks,
             observed : Nat]

ZeroStatus == [phase |-> "", packageName |-> FALSE, source |-> NoSource, hash |-> NoSource,
               attempted |-> NoSource, attemptError |-> FALSE,
               available |-> NoSource, checked |-> "never", observed |-> 0]

Objects == [spec : Specs, redeploy : BOOLEAN, generation : Nat, status : Statuses]

Absent == [source |-> NoSource, state |-> "absent"]

(* The only deployment-affecting field here is the source. *)
DeploymentHash(spec) == spec.source

-----------------------------------------------------------------------------
(* Sources *)

(* One tag is a newer version of the other's repository. *)
Newer(s, t) ==
    /\ s \in Semver /\ t \in Semver
    /\ Repository[s] = Repository[t]
    /\ Rank[s] > Rank[t]

currentSemverSource(m) ==
    IF Newer(m.status.source, m.spec.source) THEN m.status.source ELSE m.spec.source

(* pendingAvailableSemverSource; without it, what was discovered violates the
   current policy. *)
pendingAvailable(m) ==
    /\ Newer(m.status.available, currentSemverSource(m))
    /\ Rank[m.status.available] \in m.spec.constraint

availableSourceViolatesCurrentPolicy(m) ==
    m.status.available # NoSource /\ ~pendingAvailable(m)

(* Mutant: without a policy the source of the spec is deployed. *)
SpecWhenDisabled(m) ==
    IF ~m.spec.enabled THEN m.spec.source
    ELSE IF pendingAvailable(m) THEN m.status.available ELSE currentSemverSource(m)

deploymentSource(m) ==
    IF ~m.spec.enabled
    THEN IF m.redeploy THEN m.spec.source ELSE currentSemverSource(m)
    ELSE IF pendingAvailable(m) THEN m.status.available ELSE currentSemverSource(m)

(* Mutant: the constraint is not asked about a tag. *)
UnconstrainedCandidates(m) == {s \in registry : Newer(s, currentSemverSource(m)) /\ ~Prerelease[s]}

(* What the loop of selectLatestSemverUpgrade does not skip. *)
Candidates(m) ==
    {s \in registry : /\ Newer(s, currentSemverSource(m)) /\ ~Prerelease[s]
                      /\ Rank[s] \in m.spec.constraint}

(* The tag the loop ends with: the first of the newest, and the registry lists
   tags in any order. *)
selectLatestSemverUpgrade(m) ==
    LET found == Candidates(m)
    IN IF found = {} THEN {NoSource}
       ELSE {s \in found : \A t \in found : Rank[t] <= Rank[s]}

-----------------------------------------------------------------------------
(* deploymentDecision *)

clearAvailableUpgrade(st) == [st EXCEPT !.available = NoSource]

pruneAutoUpgradeStatus(m) ==
    [m EXCEPT !.status =
        IF ~m.spec.enabled THEN [clearAvailableUpgrade(@) EXCEPT !.checked = "never"]
        ELSE IF availableSourceViolatesCurrentPolicy(m) THEN clearAvailableUpgrade(@) ELSE @]

(* Mutant: a failed upgrade is never looked at again. *)
NeverRefreshes(st, source) == FALSE

shouldRefreshFailedPendingUpgrade(st, source) ==
    /\ source # NoSource
    /\ source = st.available /\ source = st.attempted
    /\ st.attemptError \/ st.phase = "Failed"
    /\ st.checked # "recent"

(* found is the answer of the registry, failed that there was none.  A source
   that is not eligible for the check counts as a failure of it. *)
evaluateAutoUpgrade(m, found, failed) ==
    LET st == m.status
        Answer(status, source) == [status |-> status, source |-> source]
    IN IF ~m.spec.enabled THEN Answer(st, NoSource)
       ELSE IF availableSourceViolatesCurrentPolicy(m) THEN Answer(clearAvailableUpgrade(st), NoSource)
       ELSE IF pendingAvailable(m) /\ ~shouldRefreshFailedPendingUpgrade(st, st.available)
            THEN Answer(st, st.available)
       ELSE IF st.checked = "recent" /\ st.observed = m.generation THEN Answer(st, NoSource)
       ELSE IF failed \/ currentSemverSource(m) \notin Semver THEN Answer(st, NoSource)
       ELSE Answer([st EXCEPT !.checked = "recent", !.available = found], found)

(* refreshFailedPendingAutoUpgrade *)
Refreshed(m, answer) ==
    IF answer.source # NoSource THEN answer.source
    ELSE IF answer.status.available = NoSource
         THEN currentSemverSource([m EXCEPT !.status = answer.status])
    ELSE deploymentSource(m)

(* deploymentDecision for what Zarf reports (dep); drift is what checkHelmDrift
   finds under the policy Remediate. *)
deploymentDecision(unpruned, dep, found, failed, drift) ==
    LET m == pruneAutoUpgradeStatus(unpruned)
        source == deploymentSource(m)
        answer == evaluateAutoUpgrade(m, found, failed)
        retry == \/ dep = Absent
                 \/ ~m.redeploy /\ (dep.state = "failed" \/ m.status.phase = "Failed")
    IN IF retry /\ m.spec.enabled /\ shouldRefreshFailedPendingUpgrade(m.status, source)
       THEN [needsDeploy |-> TRUE, status |-> answer.status, source |-> Refreshed(m, answer)]
       ELSE IF retry \/ m.redeploy \/ m.status.hash # DeploymentHash(m.spec)
       THEN [needsDeploy |-> TRUE, status |-> m.status, source |-> source]
       ELSE [needsDeploy |-> answer.source # NoSource \/ drift, status |-> answer.status,
             source |-> IF answer.source # NoSource THEN answer.source ELSE source]

-----------------------------------------------------------------------------
(* A reconcile *)

NoPlan == [source |-> NoSource, wasFailed |-> FALSE, redeploy |-> FALSE,
           spec |-> [source |-> NoSource, enabled |-> FALSE, constraint |-> {}],
           recorded |-> NoSource]

(* An object without a status; its source is published, perhaps with others. *)
Init ==
    /\ \E spec \in Specs :
          /\ spec.enabled => spec.source \in Semver
          /\ obj = [spec |-> spec, redeploy |-> FALSE, generation |-> 1, status |-> ZeroStatus]
          /\ registry \in {Sources, {spec.source}}
    /\ cluster = Absent
    /\ pc = "idle"
    /\ mem = obj
    /\ original = obj.status
    /\ plan = NoPlan
    /\ sendsRV = FALSE
    /\ fresh = FALSE
    /\ events = 0

Goto(l, st) == pc' = l /\ mem' = [mem EXCEPT !.status = st]

(* The worker reads the object.  Its timers and the watch make it do so again
   and again. *)
Start ==
    /\ pc = "idle"
    /\ pc' = "decide"
    /\ mem' = obj
    /\ original' = obj.status
    /\ sendsRV' = FALSE /\ fresh' = TRUE
    /\ UNCHANGED <<obj, registry, cluster, plan, events>>

Happens == events < MaxEvents /\ events' = events + 1
Fault(f) == f \in Faults /\ Happens

Decide(found, failed, drift) ==
    LET dep == IF mem.status.packageName THEN cluster ELSE Absent
        decision == deploymentDecision(mem, dep, found, failed, drift)
    IN /\ pc = "decide"
       /\ \/ /\ decision.needsDeploy
             /\ Goto("persist", [decision.status EXCEPT !.phase = "Deploying",
                                                        !.attempted = decision.source])
             /\ plan' = [source |-> decision.source, wasFailed |-> mem.status.phase = "Failed",
                         redeploy |-> mem.redeploy,
                         spec |-> mem.spec, recorded |-> mem.status.source]
          \/ /\ ~decision.needsDeploy
             /\ Goto("finish", [decision.status EXCEPT !.phase = "Deployed"])
             /\ UNCHANGED plan
       /\ UNCHANGED <<obj, registry, cluster, original, sendsRV, fresh>>

reconcile ==
    \E found \in selectLatestSemverUpgrade(pruneAutoUpgradeStatus(mem)) :
        \/ Decide(found, FALSE, FALSE) /\ UNCHANGED events
        \/ Decide(found, TRUE, FALSE) /\ Fault("list")
        \/ Decide(found, FALSE, TRUE) /\ Fault("drift")

(* The phase Deploying is stored. *)
PersistDeploying ==
    /\ pc = "persist"
    /\ pc' = "prepare"
    /\ obj' = [obj EXCEPT !.status = MergePatch(original, mem.status, @)]
    /\ mem' = [obj' EXCEPT !.status = DecodeOver(ZeroStatus, mem.status, @)]
    /\ original' = mem'.status
    /\ sendsRV' = TRUE /\ fresh' = TRUE
    /\ UNCHANGED <<registry, cluster, plan, events>>

(* What a failed attempt left behind is removed.  The deploy goes on when it
   cannot be looked up, or is removed in part or not at all. *)
Cleans == plan.wasFailed /\ mem.status.packageName

preDeployCleanup ==
    /\ pc = "prepare"
    /\ pc' = "deploy"
    /\ \/ ~Cleans /\ UNCHANGED <<cluster, events>>
       \/ Cleans /\ cluster' = Absent /\ UNCHANGED events
       \/ /\ Cleans /\ cluster # Absent /\ Fault("remove")
          /\ cluster' \in {cluster, [cluster EXCEPT !.state = "partial"]}
    /\ UNCHANGED <<obj, registry, mem, original, plan, sendsRV, fresh>>

(* Mutant: the source that was recorded before. *)
AttemptedRecorded(state) == [source |-> mem.status.source, state |-> state]

Attempted(state) == [source |-> plan.source, state |-> state]

applyDeploySuccessStatus(m, source) ==
    LET st == [m.status EXCEPT !.packageName = TRUE, !.source = source, !.attempted = source,
                               !.attemptError = FALSE, !.phase = "Deployed",
                               !.hash = DeploymentHash(m.spec)]
    IN IF st.available = source THEN clearAvailableUpgrade(st) ELSE st

(* Zarf pulls the source and deploys it. *)
DeploySucceeds ==
    /\ pc = "deploy"
    /\ plan.source \in registry
    /\ cluster' = Attempted("healthy")
    /\ Goto(IF mem.redeploy THEN "clear" ELSE "finish",
            applyDeploySuccessStatus(mem, plan.source))
    /\ UNCHANGED <<obj, registry, original, plan, sendsRV, fresh, events>>

(* The source is not there, or the deploy fails: before, in the middle, or
   after it when the images are verified. *)
DeployFails ==
    /\ pc = "deploy"
    /\ \/ plan.source \notin registry /\ UNCHANGED <<cluster, events>>
       \/ /\ plan.source \in registry /\ Fault("error")
          /\ cluster' \in {cluster, Attempted("failed"), Attempted("healthy")}
    /\ Goto("finish", [mem.status EXCEPT !.phase = "Failed", !.attemptError = TRUE])
    /\ UNCHANGED <<obj, registry, original, plan, sendsRV, fresh>>

(* Another operation takes the sidecar over, or the connection is closed and
   the deploy ends unseen. *)
DeployCanceled ==
    /\ pc = "deploy"
    /\ Fault("cancel")
    /\ plan.source \in registry
    /\ cluster' \in {cluster, Attempted("partial"), Attempted("healthy")}
    /\ pc' = "finish"
    /\ UNCHANGED <<obj, registry, mem, original, plan, sendsRV, fresh>>

(* The annotation is cleared by a patch of the object itself: the status in
   the reply is the stored one. *)
ClearAnnotation ==
    /\ pc = "clear"
    /\ pc' = "finish"
    /\ obj' = [obj EXCEPT !.redeploy = FALSE]
    /\ mem' = [obj' EXCEPT !.status = DecodeOver(ZeroStatus, mem.status, @)]
    /\ sendsRV' = TRUE /\ fresh' = TRUE
    /\ UNCHANGED <<registry, cluster, original, plan, events>>

(* The deferred status patch: only when the status changed, and refused when
   it carries an old resourceVersion. *)
UpdateStatus ==
    /\ pc = "finish"
    /\ pc' = "idle"
    /\ obj' = IF mem.status = original \/ (sendsRV /\ ~fresh) THEN obj
              ELSE [obj EXCEPT !.status =
                       MergePatch(original, [mem.status EXCEPT !.observed = mem.generation], @)]
    /\ mem' = obj' /\ original' = obj'.status /\ plan' = NoPlan
    /\ sendsRV' = FALSE /\ fresh' = FALSE
    /\ UNCHANGED <<registry, cluster, events>>

-----------------------------------------------------------------------------
(* Around the reconciler *)

(* The interval of the policy runs out. *)
Elapse ==
    /\ pc = "idle" /\ obj.status.checked = "recent"
    /\ obj' = [obj EXCEPT !.status.checked = "due"]
    /\ UNCHANGED <<registry, cluster, worker, events>>

(* An enabled policy needs a source it can work with. *)
validateUpgradePolicy(spec) == spec.enabled => spec.source \in Semver

ValidateUpdate(spec) ==
    /\ validateUpgradePolicy(spec)
    /\ obj.status.phase = "Deploying" => spec.source = obj.spec.source

AtRest == pc = "idle" /\ obj.status.phase # "Deploying"

Edit(spec) ==
    /\ Happens
    /\ "race" \in Faults \/ AtRest
    /\ spec # obj.spec /\ ValidateUpdate(spec)
    /\ obj' = [obj EXCEPT !.spec = spec, !.generation = @ + 1]
    /\ fresh' = FALSE
    /\ UNCHANGED <<registry, cluster, pc, mem, original, plan, sendsRV>>

Annotate ==
    /\ Fault("annotate")
    /\ "race" \in Faults \/ AtRest
    /\ ~obj.redeploy
    /\ obj' = [obj EXCEPT !.redeploy = TRUE]
    /\ fresh' = FALSE
    /\ UNCHANGED <<registry, cluster, pc, mem, original, plan, sendsRV>>

(* A tag is pushed or withdrawn. *)
Publish(s) ==
    /\ Happens
    /\ registry' = IF s \in registry THEN registry \ {s} ELSE registry \cup {s}
    /\ UNCHANGED <<obj, cluster, worker>>

(* The manager restarts; a deploy that was running ends somehow. *)
Crash ==
    /\ Fault("crash")
    /\ pc # "idle" /\ pc' = "idle"
    /\ cluster' \in IF pc = "deploy" /\ plan.source \in registry
                    THEN {cluster, Attempted("partial"), Attempted("healthy")} ELSE {cluster}
    /\ mem' = obj /\ original' = obj.status /\ plan' = NoPlan
    /\ sendsRV' = FALSE /\ fresh' = FALSE
    /\ UNCHANGED <<obj, registry>>

-----------------------------------------------------------------------------
Work == Start \/ reconcile \/ PersistDeploying \/ preDeployCleanup \/ DeployFails
        \/ ClearAnnotation \/ UpdateStatus

Outside == (\E spec \in Specs : Edit(spec)) \/ Annotate \/ (\E s \in Sources : Publish(s)) \/ Crash

Next == Work \/ DeploySucceeds \/ DeployCanceled \/ Elapse \/ Outside

SafetySpec == Init /\ [][Next]_vars

(* Every step of the worker moves pc: the timers start it again and again, and
   its calls return.  The intervals run out while it waits. *)
Spec == SafetySpec /\ []<>(pc = "idle") /\ []<>(pc # "idle") /\ SF_vars(Elapse)

-----------------------------------------------------------------------------
(* Properties *)

(* The values the object, its copies and the worker's locals can take. *)
TypeOK ==
    /\ obj \in Objects /\ mem \in Objects /\ original \in Statuses
    /\ registry \subseteq Sources
    /\ cluster \in [source : Sources, state : {"partial", "failed", "healthy"}] \cup {Absent}
    /\ pc \in {"idle", "decide", "persist", "prepare", "deploy", "clear", "finish"}
    /\ plan \in [source : Sources, wasFailed : BOOLEAN, redeploy : BOOLEAN, spec : Specs,
                 recorded : Sources \cup {NoSource}] \cup {NoPlan}
    /\ sendsRV \in BOOLEAN /\ fresh \in BOOLEAN
    /\ events \in 0..MaxEvents

(* What is deployed is the source of the spec, the source already recorded as
   deployed, or a stable tag that is newer than both and inside the constraint
   of the policy the decision was made under: however old the discovery is that
   the status remembers. *)
UpgradesWithinPolicy ==
    plan # NoPlan /\ plan.source \notin {plan.spec.source, plan.recorded}
        => /\ plan.spec.enabled
           /\ Rank[plan.source] \in plan.spec.constraint /\ ~Prerelease[plan.source]
           /\ Newer(plan.source, plan.spec.source)
           /\ ~Newer(plan.recorded, plan.source)

(* A deployment the status records is replaced by an older version of the same
   repository only when a redeploy was asked for: neither by a new check, nor by
   a drift, nor by a policy that was disabled. *)
RecordedIsNotDowngraded ==
    [][pc = "deploy" /\ cluster # Absent /\ obj.status.source = cluster.source
          /\ ~plan.redeploy => ~Newer(cluster.source, cluster'.source)]_vars

(* Nothing newer is left to deploy. *)
UpToDate ==
    /\ obj.status.phase = "Deployed"
    /\ Candidates(obj) = {}

(* As long as the policy is enabled and the current source can be pulled, the
   newest tag the policy admits gets deployed: a tag that failed and was
   withdrawn does not stand in the way of another one. *)
CatchesUp ==
    <>[](obj.spec.enabled /\ currentSemverSource(obj) \in registry) => []<>UpToDate
=============================================================================
