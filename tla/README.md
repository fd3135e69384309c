# Formal models of zarf-operator

TLA+ specifications of the operator's two processes, checked with TLC on small
instances; what matters most is proved with TLAPS for every instance.

## The system

One pod runs two processes.

* The **manager** (`src/cmd/main.go`) runs a controller-runtime reconciler over
  `ZarfPackage` objects. The work queue hands a key to one worker at a time;
  several packages are reconciled concurrently.
* The **sidecar** (`src/cmd/sidecar`) is a gRPC server around the Zarf library.
  All packages of all workers share it.

| Part | State | Operations | Hard behaviour |
|---|---|---|---|
| Sidecar server (`server.go`) | `active`, `kubeconfigMu`, `KUBECONFIG`, `DOCKER_CONFIG` | Deploy, Remove, GetDeployedPackage, ListDeployedPackages, Health | preemption, waiters and timeouts, callers that go away, cleanups in reverse order, process-wide variables |
| Reconciler (`zarfpackage_controller.go`) | the object, its cached copy, the copy in memory, the work queue | Reconcile, deploy, handleDeletion, status patches | racing edits, stale reads, conflicts, crashes, calls whose reply is lost, retries |
| Automatic upgrades (`oci_upgrade.go`, controller) | `availableSource`, `lastUpgradeCheckTime` | evaluateAutoUpgrade | discoveries that are old when used, failed pending upgrades |
| Dependencies (controller) | phases of other packages | checkDependencies, requestsForDependents | cycles, stale phases, lost wake-ups |
| Helm releases (controller) | releases, drift | cleanupStuckHelmReleases, checkHelmDrift | work outside the sidecar's slot, operations that outlive their call |
| Connection monitor (`main.go`) | the client | ensureConnection, closeClient | calls in flight when the client is replaced |
| Webhooks (`zarfpackage_webhook.go`) | none | Default, Validate* | source edits during a deployment |
| Log capture, image verification, secrets | local | pure functions | limits |

They meet at the gRPC codes (`ResourceExhausted` and `Canceled` are requeued
without counting, the user-recoverable codes wait, the others count as
failures), at the client pointer the monitor sets, and at the stored status,
which is all the reconciler remembers between two runs.

## Modules

| Module | Models |
|---|---|
| `SingleOperation` | what the operation slot of the sidecar promises |
| `Sidecar`, `SidecarProofs` | the handlers of `server.go` as goroutines; that they implement `SingleOperation` |
| `Patches` | merge patches of the client library (external) |
| `Reconciler`, `ReconcilerProofs`, `InSyncProofs`, `DeletionProofs` | the life of one `ZarfPackage` |
| `AutoUpgrade`, `MCAutoUpgrade`, `AutoUpgradeProofs` | `spec.upgradePolicy` |
| `Dependencies`, `MCDependencies`, `DependenciesProofs` | several packages with `spec.dependsOn`, composed with `SingleOperation` |
| `Helm`, `HelmProofs` | the Helm releases of one package, their repair and drift |
| `Connection`, `ConnectionProofs` | the connection monitor and the workers that use the client |

Definitions marked *Mutant* are forms of a later definition with a plausible
bug. They are not part of any specification; each shows that a property would
notice that bug.

### Sidecar

A call is one handler goroutine. `pc[c]` is where it stands; every critical
section of `ZarfServer.mu` is one step because nothing in it blocks, while the
two steps of `acquireOp`'s cleanup (empty the slot, then close `done`) are
separate. `current[c]` is the operation whose `done` channel the call waits
on; it becomes nil when that channel is closed. Deferred cleanups are steps in
the order Go runs them: registry credentials, kubeconfig and its mutex, slot.
`ctxErr` tells a context cancelled by a newer request ("Preempted") from one
whose caller went away. Zarf's own work succeeds or fails at any time; what is
kept of it is which `KUBECONFIG` a `cluster.New` read (`target`).
GetPackageMetadata touches none of this state.

### Reconciler

`obj` is the stored object, `cache` what the informer saw of it, `mem` the copy
a reconcile works on, `original` the status it is compared with, and `cluster`
what Zarf has deployed. A reconcile is cut into steps where it calls the API
server or the sidecar:

    StartReconcile (read) -> reconcile (lookup, decision) -> PersistDeploying
      -> preDeployCleanup (secrets, cleanup) -> Deploy* -> ClearAnnotation
      -> UpdateStatus (the deferred patch)
    StartDeletion -> PersistRemoving -> Remove* -> RemoveFinalizer

Three facts about the client library shape the model, as the code uses it:

* a patch sends only the fields that differ from the object it was made from
  (`MergePatch`), a status patch touches only the status and a patch of the
  object leaves the status alone;
* the reply is decoded over the object in memory (`Decode`): `mem` takes the
  stored spec, and a stored status replaces what was set in memory, except
  that empty fields are omitted from the reply and keep their value;
* after a first patch `mem` has a newer `resourceVersion` than `original`, the
  next patch made from `original` carries it (`sendsRV`), and it is refused
  when somebody wrote the object in between (`fresh` is FALSE).

Of the spec, `source` (an ordered version of one repository), `values` (the
other hashed fields) and `suspend` are kept; of the status, what the reconciler
reads back. Of the conditions, only Ready is kept, by its reason. A merge patch
sends the whole list of conditions when any of them changes; the model sends
Ready when Ready changes, which differs only when the reconciler reads its own
writes late. "partial" is a deployment or removal that was cut off: Zarf
reports no failed component for it. The package has no `upgradePolicy`.

`Faults` chooses what may go wrong: "crash" (the manager restarts without a
client, until the monitor sets one; a call that was running in the sidecar ends
in any way it could), "patch" (the API server refuses a write), "lag" (reads
come from a cache that is behind), "secret", "lookup" (GetDeployedPackage
fails), "dependency", "drift" and "outage" (the monitor takes the client away). `SidecarCodes` chooses how Deploy and Remove
may fail. Users edit, annotate and delete at most `MaxEdits` times. Deletes
come at any time; so do the others with `EditsRace`, and otherwise only when no
reconcile is in progress and no deployment is stored as in progress.

### AutoUpgrade

The same cut of a reconcile, for a package with a policy. Sources are tags with
a repository, a rank in the order of versions and a prerelease flag; a
constraint is the set of ranks it admits; `registry` holds the tags that can be
pulled. `deploymentDecision` is an operator over the object in memory, what Zarf
reports and the registry's answer, built from the functions of the same names in
the code (`pruneAutoUpgradeStatus`, `evaluateAutoUpgrade`,
`shouldRefreshFailedPendingUpgrade`, `selectLatestSemverUpgrade`).
`lastUpgradeCheckTime` is "never", "recent" or "due"; `Elapse` lets the interval
run out. The cleanup before a deploy may fail and leave the package, or a part
of it, and the deploy goes on. `plan` remembers from which spec and which
recorded source a decision was made, for the properties.

### Dependencies

One graph `dependsOn` is chosen at the start; edits of `dependsOn` are not
modelled. Each package has its stored phase, the phase in the informer cache
(`seen`), a place in the work queue and perhaps a worker. A reconcile without a
call to the sidecar is one step; one with a call goes through the slot, which is
an instance of `SingleOperation`: deploys preempt deploys, a remove is never
preempted, what is refused is requeued. A failure is retried, waits for
RequeueInterval because the user has to act (`delayed`), or is the last one of
maxRetries (`exhausted`); a missing secret is always retried. A package that is
`suspended` or `exhausted` is left alone until it is resumed, annotated or
deleted. `WatchEvent` brings the cache up to date and wakes the dependents
(`requestsForDependents`); when they cannot be listed, the wake-up is lost and
only their timers remain (`delayed`). `started` and `ever` are history variables.

### Helm

`op` is what Zarf is doing in the sidecar, chart by chart, and `pc` where the
manager stands: an operation outlives a call that was given up. `release` holds
Helm's own states. The repair (`FindStuck`, `fixStuckHelmRelease`) reads and
writes releases from the manager, for the charts whose namespace the status
knows (`uniqueChartRefs`), in the manager's own cluster.

The phase Failed, on which the cleanup before a deploy depends, has several
sources: a deploy that failed, a secret that is missing before the deploy
(`SecretMissing`), the last of maxRetries (`Failures`), reached by a deploy or by
reconciles without a client (`Unavailable`), and a deadline. A secret, a
reconcile without a client and a deadline can record Failed while an operation
that was given up still runs. An old Failed also stays when Deploying cannot be
stored over it. `late` is the history variable that says so; it lasts until a
deploy begins with the sidecar's slot empty. A package that ran out of retries
(`Stopped`) rests until a redeploy is asked for.

### Connection

The monitor's client and the reconciler's are two variables written one after
the other (`closeClient`, `TakeAway`, `Store`, `HandOver`), with workers running
in between. A health check and what the monitor does about it are two steps
(`Ensure`, `Lose`): the sidecar may be healthy again when its connection is closed.
A worker takes the client once and keeps it to the end of its reconcile (`held`).
What it makes of a call over a closed connection is the subject of `Reconciler`. A
connection nobody refers to may be used again, so that reconnects need no bound.

## What the runs check

| Run | Instance | Properties |
|---|---|---|
| `sidecar` | 2 calls that return and are made again, all RPCs, 1 remote cluster, 1 set of credentials, callers that give up; fair | `TypeOK`, `OneOperationAtATime`, `OnlyDeploysArePreempted`, `WaitersAreOwedAWakeup`, `CanceledMeansCancelled`, `OwnEnvironment`, `EnvironmentRestored`, `ConnectsWhereAsked`, `NoCircularWait`, `EveryCallReturns`, `ImplementsSingleOperation` |
| `reconciler` | racing edits, restarts, failing patches, missing secrets, Busy, Canceled and Error from the sidecar, the webhook | `TypeOK`, `RetriesStop`, `SourceFixedWhileDeploying`, `ReleasedAfterRemoval` |
| `reconciler_stale` | stale cache, outages, crashes, unmet dependencies | `NoDeployForGone`, `NeverForgotten` |
| `reconciler_live` | edits at rest and deletes at any time, failing lookups and deploys, drift; fair | `InSync`, `Converges`, `DeletionCompletes` |
| `upgrade` | 3 versions and a prerelease, with and without a constraint, 3 events out of edits, tags pushed or withdrawn and eight faults; fair | `TypeOK`, `UpgradesWithinPolicy`, `RecordedIsNotDowngraded`, `CatchesUp` |
| `dependencies` | 3 packages, either a chain whose last one depends on both others or a cycle with a dependent, 1 or 2 workers, 2 events out of creations, edits, suspensions, deletions, failures and lost wake-ups; fair | `TypeOK`, `DependenciesFirst`, `CyclesNeverDeploy`, `NoLostWakeup`, `QuietMeansDeployed`, `AllGetDeployed` |
| `connection` | 2 workers, 4 connections; fair | `NothingLeaks`, `ReconcilerFollows`, `Reconnects` |
| `helm` | 2 charts, 3 faults out of fourteen kinds; fair | `TypeOK`, `RepairsOnlyStuck`, `CleanupIsThorough`, `StuckIsRepaired`, `MissingComesBack` |

Bounds. A call that has returned may be made again, so that two calls give the
slot's three roles: the operation in it, a waiter, and a newcomer between the
two. Two versions and two values tell an old deployment from a new one, two
edits give a change and its reversal, or a change and a delete, and
`FailureCount` is told apart up to `MaxRetries`. Four tags give an older, a
newer, an excluded and a prerelease one. Three packages give a chain with an
inner node, a package with two dependencies that become ready at different
times, and a cycle with a package that depends on it. Four connections let one
be dialled while each worker still holds an older one. Two charts tell a
finished release from the one Zarf is at. `Reconciler`,
`Dependencies` and `Helm` are not checked for deadlock: once every object is
gone and the queue is empty, or the package has run out of retries, the system
rightly stops.

Four further runs expect a violation. Each shows the code doing something else
than a comment, a document or a test says, with the line quoted under
`findings` in `PROJECT.json`:

| Run | What happens |
|---|---|
| `override_observed` | Health and ListDeployedPackages see another call's `KUBECONFIG` |
| `racing_edit` | an edit that arrives before the phase Deploying is stored is recorded as deployed and is not |
| `orphan` | a delete during the first deploy makes the final status patch conflict: the package's name is lost and the package stays |
| `pinned` | clearing the redeploy annotation discards the success status, and the next reconcile returns to the newer version |

The passing runs have to be read with these in mind.

* `InSync` holds for edits at rest, up-to-date reads, met dependencies and no
  Busy or Canceled. It is refuted by racing edits (`racing_edit`); by Canceled
  together with a failing lookup (the redeploy of an unchanged spec is cut off
  half-way and the next reconcile reports the package as deployed); and by unmet
  dependencies after a redeploy by annotation. The discarded success of `pinned`
  leaves the old hash, the wait turns the phase into Pending, and when the spec
  is edited back the package is reported as deployed with values it no longer
  has. That takes three edits. Waiting for dependencies is the subject of
  `Dependencies`.
* `ReleasedAfterRemoval` is the part of `DeletionRemovesPackage` that survives
  conflicts. It speaks of packages whose name has been stored and of removals
  decided with a client. Without a client handleDeletion drops the finalizer and
  does not call Remove. A manager that was restarted has none until the monitor
  has connected, so that a deletion it takes up first leaves the package behind.
* `DeletionCompletes` makes no claim about suspended packages. The code removes
  them when they are deleted, because Reconcile looks at the deletion (line 234)
  before it looks at `suspend` (line 248). The documentation of the field says
  "The controller will not perform any deploy, remove, or drift check operations."
  (`src/api/v1alpha1/zarfpackage_types.go:295`), and `src/README.md:116` "Pause all
  reconciliation". The two disagree, and the model follows the code.
* `RetriesStop` holds for reads that are up to date: a stale one can start one
  more deploy. It is about the terminal mark. Failures to find a secret are
  counted and never set it, so such a package is retried for ever.
* A missing secret also sets the phase Failed, after which the cleanup before
  the next deploy removes a package that is healthy. The model does so, as the
  code does.
* `RecordedIsNotDowngraded` speaks of deployments the status records. A status
  refused as a conflict records nothing, and the next decision is made from the
  older version.
* `CatchesUp` is for packages without a maxRetries, which is the default: the
  model of upgrades has no terminal mark.
* `DependenciesFirst` says that every dependency was Deployed at some time
  before. It may have left that phase since; the code reads phases from the
  cache, and a deploy that has begun is not called off.
* `NoLostWakeup` and `QuietMeansDeployed` except the packages whose wake-up was
  lost by a failing List, and the latter those that wait for RequeueInterval: for
  these the code relies on its timers. Packages that are suspended or out of
  retries stay as they are, and hold up the packages that depend on them and no
  others.
* `AllGetDeployed` is stated for one worker. With two, deploys that are called
  again after Canceled can preempt each other for ever.
* `RepairsOnlyStuck` and `CleanupIsThorough` except the time in which `late`
  holds: an operation that was given up may then be at work on the release that
  is repaired, and the model reaches that.
* `StuckIsRepaired` is about releases whose namespace is known, in the manager's
  own cluster. It is discharged when the package is reported as deployed or has
  run out of retries, so that for the default, no maxRetries, the release is
  repaired.
* `MissingComesBack` is about the policy Remediate, and about the time after the
  last fault. Before it, less than the package may be reported as Deployed: a
  crash in the middle of an install leaves a pending release, a cancelled deploy
  a failed one, and `checkHelmDrift` takes both for present; a removal that was
  cut off takes a chart out of Zarf's record, and nothing asks for it again.
* `NeverForgotten` is about reads from the cache ("lag"), where every change
  reaches the queue as a watch event of its own.
* A reconcile that starts without a client counts a failure, and maxRetries of
  them make the package terminal (`SidecarUnavailable`). A call cut off in
  the middle is not counted.

### Fairness

* `Sidecar`: every handler step is weakly fair, since goroutines are scheduled,
  Zarf's calls end by their timeouts and `cancelWaitTimeout` fires.
  `applyKubeconfig` is strongly fair because `sync.Mutex` hands the lock to a
  starving waiter.
* `Reconciler`: what is queued is taken up, a reconcile comes to its end and the
  cache catches up. That a lookup, a deploy or a remove that is asked for again
  and again succeeds one day is strong fairness on its success: an assumption
  about the sidecar and the secrets, not something the reconciler brings about.
* `AutoUpgrade`: reconciles begin and end again and again (the timers of every
  return), and the interval of the policy runs out.
* `Dependencies`: a key does not stay in the queue, a worker comes back, the cache
  catches up and RequeueInterval ends. No fairness for the timer of a package that
  waits for its dependencies, unless its wake-up was lost: the wake-ups must do.
* `Helm`: the manager's steps and Zarf's are weakly fair; faults are bounded.
  A package that has run out of retries takes no step of its own.
* `Connection`: the monitor's steps and each worker's are weakly fair.

## What is proved

Every theorem holds for all values of the constants under the assumption named
in its module (`ReconcilerAssumption` and so on: the types of the constants).
The inductive invariants:

* `SidecarProofs`: `TypeCorrect`, `MutualExclusion`, `Isolation`
  (`OwnEnvironment`), `Restoration` (`EnvironmentRestored`), `NoLostWakeup`
  (`WaitersAreOwedAWakeup`), `Preemption` (`OnlyDeploysArePreempted`),
  `GenuineCancellation` (`CanceledMeansCancelled`) and `Refinement` (the safety
  part of `SingleOperation`) rest on `IInv`. Mutual exclusion alone is
  not inductive: it does not say that a call past `acquireOp` is the one
  `active` points to. `IInv` says of each handler (`HandlerOK`) that it owns the
  slot exactly between `acquireOp` and its cleanup, `kubeconfigMu` exactly
  between `applyKubeconfig` and its cleanup, and will restore what the process
  started with; of the free mutex, that nobody's environment is in force; of the
  waiters, that the operation they wait for still owes them a wake-up. A step
  moves one handler: `OneHandler` reduces preservation to the one that moved.
  On top of it, `EachReachesItsCluster` (`ConnectsWhereAsked`): what a call
  connected to is what its request names. `DeadlockFree` (`NoCircularWait`):
  a call that waits is ranked above the one it waits for, and the one that
  holds the mutex waits for nobody. `HandlersOnlyAdvance`
  (`HandlersAdvance`): the stage of a handler only grows. The two are the safety
  core of `EveryCallReturns`: no call is blocked for ever, and none goes round.
* `ReconcilerProofs`: `TypeCorrect` from `Typed`. `NothingForTheGone`
  (`NoDeployForGone`) from `Held`: a finalizer the worker, or the cache, has
  seen is there as long as the object, and a deletion that was seen goes on, so
  that an object seen alive cannot vanish before the worker itself reads its
  deletion. `RetriesAreBounded` (`RetriesStop`) from `Undone`: until the phase
  Deploying is stored, the stored status is the one that was read; and
  `SourceIsGuarded` (`SourceFixedWhileDeploying`) from `Guarded`, which has to
  start at the read, since the patch may fail and leave an older Deploying
  stored. Both assume no "lag". `ReleasedOnlyAfterRemoval`
  (`ReleasedAfterRemoval`) from `Released`: a name is stored under the finalizer,
  and the worker that drops it has seen the name and, if it had a client, removed
  the package. It needs no assumption: patches fail, reads are stale, the client
  goes away and the manager restarts at any time.
  `NothingIsForgotten` (`NeverForgotten`, the safety core of `Converges` and
  `DeletionCompletes`) from `Watched`: for an object outside the queue, either
  there is nothing to do or an event that `annotationPredicate` lets through is
  still to come. It assumes "lag", so that reads come from the cache.
* `InSyncProofs`: `DeployedIsInSync` (`InSync`) from `Sync`, on top of `Typed`,
  `Held` and `Connected`, assuming `Quiet`: edits at rest, no Busy or Canceled,
  and of the faults only "lookup", "secret" and "drift". A stored hash describes
  the cluster while the phase is empty, Pending or Deployed (`Trusted`). The
  hash next to a phase Deploying may be an old one, or one the cluster matches
  (`Resumable`), because clearing the annotation puts the stored status in the
  place of the successful one. In between, the invariant follows what the worker
  has in memory from the read to the patch (`Current`, `Planned`, `Outcome`).
* `DeletionProofs`: `DeletionRemoves` (`DeletionRemovesPackage`) says when what
  the run `orphan` shows cannot happen. It assumes `DeletionsConnected`, that
  there is a client whenever a deletion is taken up (outages and restarts are
  allowed), and `FirstDeployUndisturbed`: from the patch of the phase Deploying
  to the deferred patch of a deploy of a package without a stored name, no user
  writes the object, the manager does not restart, the deploy succeeds or is
  refused as Busy at once, and the deferred patch is written. Everything else
  may go wrong, and after the first deploy all of these may too. The invariant:
  a name that was read is stored (`Recorded`), the first deploy's patch is not
  refused (`Unrefused`), the worker that removes has a client (`Able`), and what
  is in the cluster has its name stored, or belongs to the worker about to store
  it (`Placed`).
* `AutoUpgradeProofs`: `UpgradesStayWithinPolicy` and `RecordedStays` from
  `IInv`: the discovery the status remembers is a stable tag (`Discovered`), the
  recorded source does not move between the read and the deploy (`Unmoved`),
  and the plan is within the policy it was made under (`Planned`). The decision
  itself is a lemma about `deploymentDecision`. `TypeCorrect` follows the same
  cut.
* `DependenciesProofs`: `TypeCorrect`; `DependenciesComeFirst` from `Remembered`
  (a phase Deployed, stored or cached, is in `ever`); `CyclesWait` adds
  `NothingFromNothing` (nothing is Deployed without a call to Deploy), so that
  no package of a cycle can be the first; `WaitersAreWoken` (`NoLostWakeup`)
  rests on `CacheFirst` (a package is reconciled only once it is in the cache);
  `RestMeansDeployed` (`QuietMeansDeployed`, the safety core of `AllGetDeployed`)
  adds `Attended`: a package outside the queue that no timer is due for is stopped,
  up to date, or known to wait. A wait ends with the dependencies', so that among
  packages at rest only those of a cycle wait, or those with a dependency that is
  stopped, delayed or missing.
* `ConnectionProofs`: `TypeCorrect`, `ConnectionsAreClosed` and `HandedOver` from
  `References`, which says for each place of the monitor which references are
  set.
* `HelmProofs`: `TypeCorrect`; `OnlyStuckReleasesAreRepaired` from
  `late \/ SlotFree`: where a cleanup can begin, nothing is in the sidecar's slot,
  unless Failed was recorded over an operation that still ran. Each source of the
  phase Failed either finds the slot empty or sets `late`, and a deploy that
  begins with the slot empty may reset it (`BeginSlotFree`).
  `CleanupLeavesNothingStuck` (`CleanupIsThorough`) follows: as long as nothing
  fails the manager is alone, and the release it goes past was not stuck or has
  been repaired.

The theorems that assume more than `SafetySpec` mark where the code stops
keeping a promise. TLC finds `InSync` violated when "patch", "crash", "lag",
"dependency", Busy or Canceled is allowed besides what `Quiet` allows, and
`DeletionRemovesPackage` when any one of the four conjuncts of `Undisturbed` is
dropped. `OnlyProbesObserve` (`OverrideNotObserved`) assumes that nobody calls
Health or ListDeployedPackages, and `override_observed` shows what happens when
they do.

Only model-checked: all liveness (`EveryCallReturns`, `Converges`,
`DeletionCompletes`, `CatchesUp`, `AllGetDeployed`, `Reconnects`,
`StuckIsRepaired`, `MissingComesBack`, the fairness part of
`ImplementsSingleOperation`), because fairness and ENABLED are beyond the
prover.

## Not modelled

Zarf, Helm, the API server, registries and gRPC are external and appear as
outcomes. Left out, because no property depends on them:

* the ring buffer of log lines (`log_capture.go`), which no decision reads, and
  the summary of logs in the status;
* which images the verification checks (string processing over a manifest); the
  step itself and its replies are part of `Sidecar`;
* interceptors, metrics, events, tracing, flags and generated code;
* the parsing of OCI references, versions and secrets: an order of tags, and
  found or not found, remain;
* the webhook's defaulting and its checks of single fields;
* the watch on Secrets, which only adds a key to the queue, and the length of
  the backoff: timers fire at any time;
* `ReadyzCheck`, which reads the client;
* the cluster a cleanup's Remove reaches: each model has one target cluster per
  package.

`PROJECT.json` lists every part with the reason, and the hazards no property
covers.
