-------------------------------- MODULE Helm --------------------------------
(***************************************************************************)
(* The Helm releases of one package: the operator's repair of stuck        *)
(* releases and its drift check (src/internal/controller/                  *)
(* zarfpackage_controller.go).                                             *)
(*                                                                         *)
(* Zarf, in the sidecar, installs the charts one after the other.  When it *)
(* is cut off in the middle of one, the release stays pending and Helm     *)
(* refuses every later operation on it.  The manager then uninstalls it or *)
(* rolls it back through Helm directly, past the sidecar and its single    *)
(* operation slot, for the charts the package's status has evidence of.    *)
(*                                                                         *)
(* One reconcile of the package is in progress at a time.  An operation of *)
(* the sidecar outlives a call that was given up: op is what Zarf is doing,*)
(* pc where the manager stands.                                            *)
(***************************************************************************)
EXTENDS Naturals

CONSTANTS NCharts,    \* charts of the package, in the order Zarf deploys them
          Faults,     \* what may go wrong
          MaxFaults   \* bound: how often something goes wrong

ASSUME HelmAssumption ==
    /\ NCharts \in Nat \ {0} /\ MaxFaults \in Nat
    /\ Faults \subseteq {"die", "crash", "outage", "preempt", "busy", "chart", "helm",
                         "uninstall", "edit", "deadline", "patch", "secret", "lookup", "retries"}

VARIABLES spec,     \* what matters of the spec: namespace set, remote, syncPolicy
          dirty,    \* the hash of the spec differs, or a redeploy is asked for
          release,  \* [Charts -> ReleaseStates] the releases on the package's cluster
          pkg,      \* what Zarf has recorded of the package
          op,       \* the operation in the sidecar's slot
          stored,   \* the status in the API server
          mem,      \* the status in memory
          pc,       \* where the reconcile stands
          at,       \* the chart cleanupStuckHelmReleases is at
          seen,     \* the state helmReleaseStatus returned
          repaired, \* cleaned > 0
          retried,  \* the cleanup, or the deploy, is the one after an error
          failing,  \* the chart that error names
          late,     \* history: recorded as Failed over an operation that may still run
          faults    \* how often something went wrong

worker == <<mem, pc, at, seen, repaired, retried, failing>>
vars == <<spec, dirty, release, pkg, op, stored, worker, late, faults>>

Charts == 1..NCharts

Pending == {"pending-install", "pending-upgrade", "pending-rollback"}
ReleaseStates == Pending \cup {"absent", "deployed", "failed"}

(* Mutant: a rollback that was cut off is not recognised. *)
StuckUnlessRollback(s) == s \in Pending \ {"pending-rollback"}

isStuckHelmStatus(s) == s \in Pending

(* What Status.ComponentStatuses says of a chart: nothing, its name without a
   namespace, or both. *)
Evidence == [Charts -> {"none", "blank", "known"}]
NoEvidence == [c \in Charts |-> "none"]

(* terminal: the Ready condition has the reason MaxRetriesExceeded. *)
Statuses == [phase : {"", "Pending", "Deploying", "Deployed", "Failed"}, terminal : BOOLEAN,
             packageName : BOOLEAN, charts : Evidence, drift : BOOLEAN]

(* Zarf's record of a package: the charts it finished, and those that failed. *)
Packages == [exists : BOOLEAN, charts : SUBSET Charts, failed : SUBSET Charts]
NoPackage == [exists |-> FALSE, charts |-> {}, failed |-> {}]

(* chart is the one Zarf is at; busy while Helm works on it; stop once the
   operation's context is cancelled. *)
Operations == [kind : {"none", "deploy", "remove"}, chart : Charts, busy : BOOLEAN,
               stop : BOOLEAN]
NoOp == [kind |-> "none", chart |-> 1, busy |-> FALSE, stop |-> FALSE]

PCs == {"idle", "cleanup", "fix", "remove", "removing", "deploy", "deploying", "finish"}

Init ==
    /\ spec \in [namespace : BOOLEAN, remote : BOOLEAN,
                 syncPolicy : {"Ignore", "Detect", "Remediate"}]
    /\ dirty = "no"
    /\ release = [c \in Charts |-> "absent"]
    /\ pkg = NoPackage
    /\ op = NoOp
    /\ stored = [phase |-> "", terminal |-> FALSE, packageName |-> FALSE,
                 charts |-> NoEvidence, drift |-> FALSE]
    /\ mem = stored
    /\ pc = "idle"
    /\ at = 1
    /\ seen = "absent"
    /\ repaired = FALSE
    /\ retried = FALSE
    /\ failing = 1
    /\ late = FALSE
    /\ faults = 0

Goto(l) == pc' = l

(* A reconcile is over, and its variables with it. *)
Forget ==
    /\ Goto("idle")
    /\ mem' = stored'
    /\ at' = 1 /\ seen' = "absent" /\ repaired' = FALSE /\ retried' = FALSE /\ failing' = 1

(* Something goes wrong. *)
Fault(f) == f \in Faults /\ faults < MaxFaults /\ faults' = faults + 1
NoFault == UNCHANGED faults

(* Helm in the manager works on the manager's own cluster. *)
helmReleaseStatus(c) == IF spec.remote THEN "absent" ELSE release[c]

-----------------------------------------------------------------------------
(* reconcile and deploymentDecision *)

(* uniqueChartRefs: the charts with a name and a namespace. *)
uniqueChartRefs(st) == {c \in Charts : st.charts[c] = "known"}

(* Mutant: the status of the chart in the place of its namespace. *)
StatusAsNamespace(charts) == [c \in Charts |-> IF c \in charts THEN "deployed" ELSE "none"]

(* convertComponentStatuses of what Zarf has recorded. *)
convertComponentStatuses(charts) == [c \in Charts |-> IF c \in charts THEN "known" ELSE "none"]

Deployed == stored.packageName /\ pkg.exists

(* checkHelmDrift: a release that cannot be read counts as missing. *)
missingReleases(unread) ==
    {c \in pkg.charts : c \in unread \/ helmReleaseStatus(c) = "absent"}

checksDrift ==
    spec.syncPolicy # "Ignore" /\ dirty = "no" /\ pkg.failed = {} /\ stored.phase # "Failed"

(* Mutant: drift is reported and never acted upon. *)
DetectsOnly(unread) ==
    \/ ~Deployed
    \/ dirty # "no" \/ pkg.failed # {} \/ stored.phase = "Failed"

needsDeploy(unread) ==
    \/ ~Deployed
    \/ dirty # "no" \/ pkg.failed # {} \/ stored.phase = "Failed"
    \/ spec.syncPolicy = "Remediate" /\ missingReleases(unread) # {}

(* DriftInfo: set and cleared by the drift check, otherwise left alone. *)
driftInfo(unread) ==
    IF Deployed /\ checksDrift THEN missingReleases(unread) # {} ELSE stored.drift

(* The releases the drift check cannot read. *)
Unread(cs) == IF cs = {} THEN NoFault ELSE Fault("helm")

(* isMaxRetriesTerminal: such a package is looked at again only when a redeploy
   is asked for. *)
Stopped == stored.terminal /\ dirty # "redeploy"

(* The package is in sync. *)
InSync ==
    /\ pc = "idle" /\ ~Stopped
    /\ \E unread \in SUBSET pkg.charts :
          /\ Unread(unread)
          /\ ~needsDeploy(unread)
          /\ stored' = [phase |-> "Deployed", terminal |-> FALSE, packageName |-> TRUE,
                        charts |-> convertComponentStatuses(pkg.charts),
                        drift |-> driftInfo(unread)]
    /\ Forget
    /\ UNCHANGED <<late, spec, dirty, release, pkg, op>>

(* The status of a failed attempt.  One that is counted may be the last. *)
Failed(st) == [st EXCEPT !.phase = "Failed", !.terminal = FALSE]
Failures(st) ==
    {Failed(st)} \cup
        IF "retries" \in Faults THEN {[st EXCEPT !.phase = "Failed", !.terminal = TRUE]} ELSE {}

(* An operation that was given up may still run when Failed is recorded. *)
Overlaps == late' = (late \/ op.kind # "none")

Deploying(unread) ==
    [stored EXCEPT !.phase = "Deploying", !.terminal = FALSE, !.drift = driftInfo(unread)]

(* deploy: the phase is stored, and what a failed attempt left is cleaned up
   first.  A failure to store it is only logged. *)
StartDeploy ==
    /\ pc = "idle" /\ ~Stopped
    /\ \E unread \in SUBSET pkg.charts :
          /\ needsDeploy(unread)
          /\ mem' = Deploying(unread)
          /\ \/ /\ stored' = mem' /\ Unread(unread)
                /\ late' = (late /\ op.kind # "none")
             \/ /\ unread = {} /\ UNCHANGED stored /\ Fault("patch")
                /\ late' = ((late /\ op.kind # "none") \/ stored.phase = "Failed")
    /\ Goto(IF stored.phase = "Failed" THEN "cleanup" ELSE "deploy")
    /\ UNCHANGED <<spec, dirty, release, pkg, op, at, seen, repaired, retried, failing>>

(* A Secret of the spec cannot be used: the one of the cluster when the package
   is looked up, or any of them in deploy, once Deploying is stored.  These
   failures are counted and never the last. *)
SecretMissing ==
    /\ Fault("secret")
    /\ pc = "idle" /\ ~Stopped
    /\ \/ /\ stored.packageName /\ spec.remote
          /\ stored' = Failed(stored)
          /\ Forget
       \/ /\ needsDeploy({})
          /\ stored' = Deploying({}) /\ mem' = Failed(stored')
          /\ Goto("finish")
          /\ UNCHANGED <<at, seen, repaired, retried, failing>>
    /\ Overlaps
    /\ UNCHANGED <<spec, dirty, release, pkg, op>>

-----------------------------------------------------------------------------
(* cleanupStuckHelmReleases, in preDeployCleanup (before the deploy) and in
   retryDeployAfterHelmRecovery (after it, retried) *)

Looping == pc = "cleanup" /\ at <= NCharts

(* A chart without a namespace is not looked at.  A release that cannot be
   read, is not stuck, or is not there, is left alone. *)
SkipRelease ==
    /\ Looping
    /\ \/ at \notin uniqueChartRefs(mem) /\ NoFault
       \/ ~isStuckHelmStatus(helmReleaseStatus(at)) /\ NoFault
       \/ Fault("helm")
    /\ at' = at + 1
    /\ UNCHANGED <<late, spec, dirty, release, pkg, op, stored, mem, pc, seen, repaired, retried, failing>>

FindStuck ==
    /\ Looping
    /\ at \in uniqueChartRefs(mem)
    /\ isStuckHelmStatus(helmReleaseStatus(at))
    /\ seen' = helmReleaseStatus(at)
    /\ Goto("fix")
    /\ NoFault
    /\ UNCHANGED <<late, spec, dirty, release, pkg, op, stored, mem, at, repaired, retried, failing>>

(* fixStuckHelmRelease: a pending install is uninstalled, anything else is
   rolled back; a rollback that fails leaves the release failed. *)
Fixed == IF seen = "pending-install" THEN "absent" ELSE "deployed"
FixFails == IF seen = "pending-install" THEN {release[at]} ELSE {release[at], "failed"}

fixStuckHelmRelease ==
    /\ pc = "fix"
    /\ Goto("cleanup")
    /\ at' = at + 1
    /\ seen' = "absent"
    /\ \/ release' = [release EXCEPT ![at] = Fixed] /\ repaired' = TRUE /\ NoFault
       \/ /\ Fault("helm")
          /\ release' \in {[release EXCEPT ![at] = s] : s \in FixFails}
          /\ UNCHANGED repaired
    /\ UNCHANGED <<late, spec, dirty, pkg, op, stored, mem, retried, failing>>

(* Mutant: the status does not name the chart that failed. *)
FailedUnnamed(c, st) == st

(* The error of a chart names it (parseDeployError), and the status gets it with
   spec.namespace; a chart that was known keeps its namespace
   (mergeFailedChartEvidence). *)
markFailedComponentStatus(c, st) ==
    [st EXCEPT !.charts[c] = IF @ # "none" THEN @
                             ELSE IF spec.namespace THEN "known" ELSE "blank"]

(* The loop is over: on to the removal of the package, unless it is not there or
   cannot be looked up; or to the second deploy when a release was repaired;
   otherwise the error of the first stands. *)
CleanupDone ==
    /\ pc = "cleanup" /\ at > NCharts
    /\ \/ ~retried /\ Goto(IF mem.packageName /\ pkg.exists THEN "remove" ELSE "deploy")
          /\ NoFault /\ UNCHANGED mem
       \/ ~retried /\ mem.packageName /\ Goto("deploy") /\ Fault("lookup") /\ UNCHANGED mem
       \/ retried /\ repaired /\ Goto("deploy") /\ NoFault /\ UNCHANGED mem
       \/ retried /\ ~repaired /\ Goto("finish") /\ NoFault
          /\ mem' \in Failures(markFailedComponentStatus(failing, mem))
    /\ at' = 1 /\ repaired' = FALSE /\ failing' = 1
    /\ UNCHANGED <<late, spec, dirty, release, pkg, op, stored, seen, retried>>

-----------------------------------------------------------------------------
(* The calls of the sidecar.  Its slot refuses a call (Busy) while another
   operation is there that does not go away in time, or for another package. *)

SlotTaken ==
    \/ op.kind # "none" /\ NoFault
    \/ Fault("busy")

StartOp(k) == op.kind = "none" /\ op' = [NoOp EXCEPT !.kind = k] /\ NoFault

CallRemove ==
    /\ pc = "remove"
    /\ \/ StartOp("remove") /\ Goto("removing")
       \/ SlotTaken /\ Goto("deploy") /\ UNCHANGED op
    /\ UNCHANGED <<late, spec, dirty, release, pkg, stored, mem, at, seen, repaired, retried, failing>>

CallDeploy ==
    /\ pc = "deploy"
    /\ \/ StartOp("deploy") /\ Goto("deploying")
       \/ SlotTaken /\ Goto("finish") /\ UNCHANGED op
    /\ UNCHANGED <<late, spec, dirty, release, pkg, stored, mem, at, seen, repaired, retried, failing>>

(* The deferred status patch. *)
Finish ==
    /\ pc = "finish"
    /\ \/ stored' = mem /\ NoFault
          /\ dirty' = IF mem.phase = "Deployed" THEN "no" ELSE dirty
       \/ UNCHANGED <<stored, dirty>> /\ Fault("patch")
    /\ Forget
    /\ UNCHANGED <<late, spec, release, pkg, op>>

applyDeploySuccessStatus ==
    [phase |-> "Deployed", terminal |-> FALSE, packageName |-> TRUE, drift |-> FALSE,
     charts |-> convertComponentStatuses(Charts)]

(* What the manager makes of the end of a deploy.  It hears nothing of one it
   no longer waits for. *)
Reply(code, c) ==
    IF pc # "deploying" THEN UNCHANGED worker
    ELSE /\ UNCHANGED <<at, seen, repaired>>
         /\ \/ /\ code = "OK"
               /\ mem' = applyDeploySuccessStatus /\ Goto("finish")
               /\ UNCHANGED <<retried, failing>>
            \/ /\ code = "Canceled"
               /\ Goto("finish") /\ UNCHANGED <<mem, retried, failing>>
            \/ /\ code = "InProgress" /\ ~retried
               /\ Goto("cleanup") /\ retried' = TRUE /\ failing' = c /\ UNCHANGED mem
            \/ /\ code = "Error" \/ (code = "InProgress" /\ retried)
               /\ mem' \in Failures(markFailedComponentStatus(c, mem)) /\ Goto("finish")
               /\ UNCHANGED <<retried, failing>>

-----------------------------------------------------------------------------
(* Zarf and Helm in the sidecar *)

EndOp == op' = NoOp

(* Helm refuses a pending release, and Zarf marks the component failed. *)
HelmRefuses ==
    LET c == op.chart IN
    /\ op.kind = "deploy" /\ ~op.busy
    /\ release[c] \in Pending
    /\ EndOp
    /\ pkg' = [pkg EXCEPT !.exists = TRUE, !.failed = @ \cup {c}]
    /\ Reply("InProgress", c)
    /\ NoFault
    /\ UNCHANGED <<late, spec, dirty, release, stored>>

HelmStarts ==
    LET c == op.chart IN
    /\ op.kind = "deploy" /\ ~op.busy
    /\ release[c] \notin Pending
    /\ op' = [op EXCEPT !.busy = TRUE]
    /\ release' = [release EXCEPT ![c] = IF @ = "absent" THEN "pending-install" ELSE "pending-upgrade"]
    /\ pkg' = [pkg EXCEPT !.exists = TRUE, !.failed = @ \ {c}]
    /\ NoFault
    /\ UNCHANGED <<late, spec, dirty, stored, worker>>

HelmEnds ==
    LET c == op.chart IN
    /\ op.kind = "deploy" /\ op.busy
    /\ release' = [release EXCEPT ![c] = "deployed"]
    /\ pkg' = [pkg EXCEPT !.charts = @ \cup {c}]
    /\ IF c = NCharts
       THEN EndOp /\ Reply("OK", c)
       ELSE op' = [op EXCEPT !.chart = c + 1, !.busy = FALSE] /\ UNCHANGED worker
    /\ NoFault
    /\ UNCHANGED <<late, spec, dirty, stored>>

HelmFails ==
    LET c == op.chart IN
    /\ op.kind = "deploy" /\ op.busy
    /\ release' = [release EXCEPT ![c] = "failed"]
    /\ pkg' = [pkg EXCEPT !.failed = @ \cup {c}]
    /\ EndOp /\ Reply("Error", c)
    /\ Fault("chart")
    /\ UNCHANGED <<late, spec, dirty, stored>>

(* A cancelled deploy stops somewhere; the release it was at may stay pending,
   and the record of the failure may not be written. *)
DeployStops ==
    LET c == op.chart IN
    /\ op.kind = "deploy" /\ op.stop
    /\ release' \in IF op.busy THEN {release, [release EXCEPT ![c] = "failed"]} ELSE {release}
    /\ pkg' \in IF op.busy THEN {pkg, [pkg EXCEPT !.failed = @ \cup {c}]} ELSE {pkg}
    /\ EndOp /\ Reply("Canceled", c)
    /\ NoFault
    /\ UNCHANGED <<late, spec, dirty, stored>>

(* The manager goes on to the deploy whatever comes of the removal. *)
Removed == IF pc = "removing" THEN Goto("deploy") ELSE UNCHANGED pc

RemoveEnds ==
    /\ op.kind = "remove"
    /\ EndOp /\ Removed
    /\ \E gone \in SUBSET pkg.charts :
          /\ release' = [c \in Charts |-> IF c \in gone THEN "absent" ELSE release[c]]
          /\ \/ gone = pkg.charts /\ pkg' = NoPackage /\ NoFault
             \/ /\ pkg' = [pkg EXCEPT !.charts = @ \ gone]
                /\ IF op.stop THEN NoFault ELSE Fault("chart")
    /\ UNCHANGED <<late, spec, dirty, stored, mem, at, seen, repaired, retried, failing>>

-----------------------------------------------------------------------------
(* What goes wrong around them *)

Waits == pc \in {"deploying", "removing"}

(* The sidecar restarts: what Helm was doing stays as it is. *)
Die ==
    /\ Fault("die")
    /\ op.kind # "none"
    /\ EndOp
    /\ CASE pc = "deploying" -> Goto("finish") /\ mem' \in Failures(mem)
         [] pc = "removing" -> Goto("deploy") /\ UNCHANGED mem
         [] OTHER -> UNCHANGED <<pc, mem>>
    /\ UNCHANGED <<late, spec, dirty, release, pkg, stored, at, seen, repaired, retried, failing>>

(* The call is given up, and the operation goes on until it notices. *)
Abandon == op' = [op EXCEPT !.stop = (op.kind # "none")]

(* Mutant: Canceled counts as a failure. *)
OutageFails ==
    /\ Fault("outage")
    /\ Waits
    /\ Abandon /\ Goto("finish") /\ mem' = Failed(mem)
    /\ UNCHANGED <<late, spec, dirty, release, pkg, stored, at, seen, repaired, retried, failing>>

(* The connection monitor closes the connection: the call ends Canceled, and
   so does a deploy after a removal. *)
Outage ==
    /\ Fault("outage")
    /\ Waits
    /\ Abandon /\ Goto("finish")
    /\ UNCHANGED <<late, spec, dirty, release, pkg, stored, mem, at, seen, repaired, retried, failing>>

(* A reconcile without a client counts as a failure, and may be the last; of a
   package that was stopped it is once more. *)
Unavailable ==
    /\ Fault("outage")
    /\ pc = "idle"
    /\ \/ /\ ~stored.terminal
          /\ stored' = [stored EXCEPT !.phase = "Pending"]
          /\ UNCHANGED late
       \/ /\ stored' \in Failures(stored) \ {Failed(stored)}
          /\ Overlaps
    /\ Forget
    /\ UNCHANGED <<spec, dirty, release, pkg, op>>

(* The deadline of the call passes. *)
Deadline ==
    /\ Fault("deadline")
    /\ Waits
    /\ Abandon
    /\ IF pc = "deploying" THEN Goto("finish") /\ mem' \in Failures(mem) /\ Overlaps
       ELSE Goto("deploy") /\ UNCHANGED <<mem, late>>
    /\ UNCHANGED <<spec, dirty, release, pkg, stored, at, seen, repaired, retried, failing>>

(* The manager restarts, maybe in the middle of a rollback. *)
Crash ==
    /\ Fault("crash")
    /\ Abandon
    /\ release' \in IF pc = "fix" /\ seen # "pending-install"
                    THEN {release, [release EXCEPT ![at] = "pending-rollback"]} ELSE {release}
    /\ UNCHANGED <<late, spec, dirty, pkg, stored>>
    /\ Forget

(* A newer request of another package takes the slot. *)
Preempt ==
    /\ Fault("preempt")
    /\ op.kind = "deploy" /\ ~op.stop
    /\ op' = [op EXCEPT !.stop = TRUE]
    /\ UNCHANGED <<late, spec, dirty, release, pkg, stored, worker>>

(* Somebody uninstalls a release. *)
Uninstall(c) ==
    /\ Fault("uninstall")
    /\ release[c] = "deployed"
    /\ release' = [release EXCEPT ![c] = "absent"]
    /\ UNCHANGED <<late, spec, dirty, pkg, op, stored, worker>>

(* A user edits the spec, or asks for a redeploy. *)
Edit ==
    /\ Fault("edit")
    /\ pc = "idle" /\ dirty # "redeploy"
    /\ dirty' \in {"spec", "redeploy"} \ {dirty}
    /\ UNCHANGED <<late, spec, release, pkg, op, stored, worker>>

-----------------------------------------------------------------------------
Manager ==
    \/ InSync \/ StartDeploy \/ SkipRelease \/ FindStuck \/ fixStuckHelmRelease
    \/ CleanupDone \/ CallRemove \/ CallDeploy \/ Finish

Zarf == HelmRefuses \/ HelmStarts \/ HelmEnds \/ HelmFails \/ DeployStops \/ RemoveEnds

Next ==
    \/ Manager \/ Zarf
    \/ SecretMissing \/ Die \/ Outage \/ Unavailable \/ Deadline \/ Crash \/ Preempt \/ Edit
    \/ \E c \in Charts : Uninstall(c)

SafetySpec == Init /\ [][Next]_vars

(* The worker and the sidecar go on.  Things go wrong a bounded number of times. *)
Fairness == WF_vars(Manager) /\ WF_vars(Zarf)

Spec == SafetySpec /\ Fairness

-----------------------------------------------------------------------------
(* Properties *)

(* The values of the variables. *)
TypeOK ==
    /\ spec \in [namespace : BOOLEAN, remote : BOOLEAN,
                 syncPolicy : {"Ignore", "Detect", "Remediate"}]
    /\ dirty \in {"no", "spec", "redeploy"}
    /\ release \in [Charts -> ReleaseStates]
    /\ pkg \in Packages
    /\ op \in Operations
    /\ stored \in Statuses /\ mem \in Statuses
    /\ pc \in PCs
    /\ at \in 1..(NCharts + 1)
    /\ seen \in ReleaseStates
    /\ repaired \in BOOLEAN /\ retried \in BOOLEAN
    /\ failing \in Charts
    /\ late \in BOOLEAN
    /\ faults \in 0..MaxFaults

(* Helm is working on the release. *)
Live(c) == op.kind = "deploy" /\ op.busy /\ op.chart = c

Stuck(c) == release[c] \in Pending /\ ~Live(c)

(* The release fixStuckHelmRelease is about to uninstall or roll back is stuck:
   although the manager calls Helm outside the sidecar's slot, Zarf is not at
   work on it and has not finished it since its state was read.  It may be at work
   on it when the package was recorded as Failed over an operation that had been
   given up and still ran: at a deadline, when a Secret is missing or the retries
   run out afterwards, or when the phase Deploying could not be stored.  That lasts
   until a deploy begins with the slot empty. *)
RepairsOnlyStuck ==
    pc = "fix" /\ ~late => Stuck(at) /\ release[at] = seen

(* A cleanup leaves no stuck release behind that the status knows: the one it
   goes past is not stuck, and none gets stuck behind its back, while no call of
   Helm fails.  Again an operation that was given up may spoil that. *)
CleanupIsThorough ==
    [][~late /\ pc \in {"cleanup", "fix"} /\ ~spec.remote /\ faults' = faults
         => \A c \in Charts :
               /\ Stuck(c)' => Stuck(c)
               /\ c = at /\ at' = at + 1 /\ mem.charts[c] = "known" => ~Stuck(c)']_vars

(* A stuck release whose namespace the status knows, or can learn from the
   spec, does not stay stuck unless the package is reported as deployed: one of
   the two cleanups gets to it, whatever crashed or was cut off before, unless
   the package has a maxRetries (the default is none) and ran out of them. *)
StuckIsRepaired ==
    \A c \in Charts :
        Stuck(c) /\ ~spec.remote /\ (spec.namespace \/ stored.charts[c] = "known")
            ~> ~Stuck(c) \/ stored.phase = "Deployed" \/ Stopped

(* Nothing more goes wrong, and no operation is left that was given up. *)
Settled == faults = MaxFaults /\ op.kind = "none"

Remediates == spec.syncPolicy = "Remediate" /\ ~spec.remote /\ spec.namespace

(* With syncPolicy Remediate a release of Zarf's record that is missing is deployed
   again, whatever state the status, the record and the other releases were left
   in: that it is being installed, or that the install failed, is not enough.  This
   holds once nothing more goes wrong and no operation runs that was given up: what a
   deploy or a removal leaves that is cut off can be less than the package and be
   reported as Deployed, because checkHelmDrift takes a release in any state for
   present and does not ask for one that is out of the record. *)
MissingComesBack ==
    \A c \in Charts :
        Remediates /\ c \in pkg.charts /\ release[c] = "absent" /\ Settled
            ~> release[c] = "deployed" \/ Stopped
=============================================================================
