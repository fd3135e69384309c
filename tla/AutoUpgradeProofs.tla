------------------------- MODULE AutoUpgradeProofs -------------------------
(***************************************************************************)
(* What AutoUpgrade deploys, for any set of tags, constraints and faults.  *)
(*                                                                         *)
(* The decision is about versions in the status: a discovery that may be   *)
(* old, and the version recorded by the last deploy that was stored.  The  *)
(* proofs go through what one decision does (DecisionWithinPolicy), the    *)
(* fact that every discovery in any copy of the status is a stable tag     *)
(* (Discovered), and the fact that from the decision to the deploy the     *)
(* recorded version does not change (Unmoved).                             *)
(***************************************************************************)
EXTENDS AutoUpgrade, TLAPS

-----------------------------------------------------------------------------
(* The order of versions *)

LEMMA NewerIsAnOrder ==
    /\ \A s, t : Newer(s, t) => ~Newer(t, s)
    /\ \A s, t, u : Newer(s, t) /\ Newer(t, u) => Newer(s, u)
<1>1. \A s \in Semver : Rank[s] \in Nat
  BY AutoUpgradeAssumption
<1> QED BY <1>1 DEF Newer

LEMMA NewerIsSemver == \A s, t : Newer(s, t) => s \in Semver /\ t \in Semver
BY DEF Newer

(* What may be deployed for a spec and a recorded source. *)
WithinPolicy(spec, recorded, source) ==
    source \notin {spec.source, recorded}
        => /\ spec.enabled
           /\ Rank[source] \in spec.constraint /\ ~Prerelease[source]
           /\ Newer(source, spec.source)
           /\ ~Newer(recorded, source)

(* A discovery is a stable tag. *)
Stable(st) == st.available # NoSource => st.available \in Semver /\ ~Prerelease[st.available]

(* Any tag above the current source is above the spec and the record. *)
LEMMA AboveCurrent ==
    ASSUME NEW m, NEW s
    PROVE  /\ currentSemverSource(m) \in {m.spec.source, m.status.source}
           /\ ~Newer(m.status.source, currentSemverSource(m))
           /\ Newer(s, currentSemverSource(m))
                 => Newer(s, m.spec.source) /\ ~Newer(m.status.source, s)
BY NewerIsAnOrder DEF currentSemverSource

(* The source of a deploy that does not ask the registry. *)
LEMMA SourceWithinPolicy ==
    ASSUME NEW m, Stable(m.status)
    PROVE  /\ WithinPolicy(m.spec, m.status.source, deploymentSource(m))
           /\ ~m.redeploy => ~Newer(m.status.source, deploymentSource(m))
<1>1. CASE deploymentSource(m) \in {m.spec.source, currentSemverSource(m)}
      /\ (deploymentSource(m) = currentSemverSource(m) \/ m.redeploy)
  BY <1>1, AboveCurrent DEF WithinPolicy
<1>2. CASE m.spec.enabled /\ pendingAvailable(m) /\ deploymentSource(m) = m.status.available
  <2>1. m.status.available \in Semver /\ m.status.available # NoSource
    BY <1>2, NewerIsSemver, AutoUpgradeAssumption DEF pendingAvailable
  <2> QED BY <1>2, <2>1, AboveCurrent DEF pendingAvailable, WithinPolicy, Stable
<1> QED BY <1>1, <1>2 DEF deploymentSource

-----------------------------------------------------------------------------
(* One decision *)

LEMMA ElapsedStatus ==
    ASSUME NEW st \in Statuses
    PROVE  /\ [st EXCEPT !.checked = "due"] \in Statuses
           /\ [st EXCEPT !.checked = "due"].available = st.available
BY DEF Statuses, Checks

LEMMA ClearedStatus ==
    ASSUME NEW st \in Statuses
    PROVE  /\ clearAvailableUpgrade(st) \in Statuses
           /\ Stable(clearAvailableUpgrade(st))
           /\ clearAvailableUpgrade(st).source = st.source
BY DEF clearAvailableUpgrade, Statuses, Stable

LEMMA PrunedStatus ==
    ASSUME NEW m \in Objects, Stable(m.status)
    PROVE  /\ pruneAutoUpgradeStatus(m) \in Objects
           /\ Stable(pruneAutoUpgradeStatus(m).status)
           /\ pruneAutoUpgradeStatus(m).spec = m.spec
           /\ pruneAutoUpgradeStatus(m).redeploy = m.redeploy
           /\ pruneAutoUpgradeStatus(m).status.source = m.status.source
<1> DEFINE never == [clearAvailableUpgrade(m.status) EXCEPT !.checked = "never"]
           p == pruneAutoUpgradeStatus(m)
<1>1. m.status \in Statuses
  BY DEF Objects
<1>2. /\ clearAvailableUpgrade(m.status) \in Statuses
      /\ Stable(clearAvailableUpgrade(m.status))
      /\ clearAvailableUpgrade(m.status).source = m.status.source
  BY <1>1, ClearedStatus
<1>3. never \in Statuses /\ Stable(never) /\ never.source = m.status.source
  BY <1>2 DEF Statuses, Stable, Checks
<1>4. \E st \in {never, clearAvailableUpgrade(m.status), m.status} : p = [m EXCEPT !.status = st]
  BY DEF pruneAutoUpgradeStatus
<1>5. PICK st \in {never, clearAvailableUpgrade(m.status), m.status} : p = [m EXCEPT !.status = st]
  BY <1>4
<1>6. st \in Statuses /\ Stable(st) /\ st.source = m.status.source
  BY <1>1, <1>2, <1>3
<1>7. p \in Objects /\ p.spec = m.spec /\ p.redeploy = m.redeploy /\ p.status = st
  BY <1>5, <1>6 DEF Objects
<1> QED BY <1>6, <1>7

(* What evaluateAutoUpgrade answers, when the registry answered with a tag the
   loop of selectLatestSemverUpgrade can end with. *)
LEMMA AnswerWithinPolicy ==
    ASSUME NEW m \in Objects, Stable(m.status), registry \subseteq Sources,
           NEW found \in selectLatestSemverUpgrade(m), NEW failed
    PROVE  LET answer == evaluateAutoUpgrade(m, found, failed)
           IN /\ answer.status \in Statuses /\ Stable(answer.status)
              /\ answer.status.source = m.status.source
              /\ answer.source # NoSource
                    => /\ WithinPolicy(m.spec, m.status.source, answer.source)
                       /\ ~Newer(m.status.source, answer.source)
                       /\ answer.source \in Sources
<1> DEFINE st == m.status
           checked == [st EXCEPT !.checked = "recent", !.available = found]
           answer == evaluateAutoUpgrade(m, found, failed)
<1>1. st \in Statuses
  BY DEF Objects
<1>2. found = NoSource \/ found \in Candidates(m)
  BY DEF selectLatestSemverUpgrade
<1>3. found # NoSource => /\ found \in Sources /\ Newer(found, currentSemverSource(m))
                          /\ ~Prerelease[found] /\ Rank[found] \in m.spec.constraint
  BY <1>2 DEF Candidates
<1>4. checked \in Statuses /\ Stable(checked) /\ checked.source = st.source
  BY <1>1, <1>3, NewerIsSemver DEF Statuses, Stable, Checks
<1>5. \/ answer = [status |-> st, source |-> NoSource]
      \/ answer = [status |-> clearAvailableUpgrade(st), source |-> NoSource]
      \/ m.spec.enabled /\ pendingAvailable(m) /\ answer = [status |-> st, source |-> st.available]
      \/ m.spec.enabled /\ answer = [status |-> checked, source |-> found]
  BY DEF evaluateAutoUpgrade
<1>6. answer.status \in Statuses /\ Stable(answer.status) /\ answer.status.source = st.source
  <2>1. answer.status \in {st, clearAvailableUpgrade(st), checked}
    BY <1>5
  <2> QED BY <1>1, <1>4, <2>1, ClearedStatus
<1>7. ASSUME answer.source # NoSource
      PROVE  /\ m.spec.enabled /\ answer.source \in Sources
             /\ Newer(answer.source, currentSemverSource(m))
             /\ ~Prerelease[answer.source] /\ Rank[answer.source] \in m.spec.constraint
  <2>1. CASE m.spec.enabled /\ pendingAvailable(m) /\ answer.source = st.available
    BY <2>1, NewerIsSemver, AutoUpgradeAssumption DEF pendingAvailable, Stable
  <2>2. CASE m.spec.enabled /\ answer.source = found /\ found # NoSource
    BY <1>3, <2>2
  <2> QED BY <1>5, <1>7, <2>1, <2>2
<1>8. ASSUME answer.source # NoSource
      PROVE  Newer(answer.source, m.spec.source) /\ ~Newer(st.source, answer.source)
  BY <1>7, <1>8, AboveCurrent
<1> QED BY <1>6, <1>7, <1>8 DEF WithinPolicy

(* Whatever Zarf reports and the registry answers, a decision to deploy stays
   within the policy; unless a redeploy is asked for it is never for a version
   older than the recorded one. *)
LEMMA DecisionWithinPolicy ==
    ASSUME NEW m \in Objects, Stable(m.status), registry \subseteq Sources,
           NEW found \in selectLatestSemverUpgrade(pruneAutoUpgradeStatus(m)),
           NEW dep, NEW failed, NEW drift
    PROVE  LET decision == deploymentDecision(m, dep, found, failed, drift)
           IN /\ decision.status \in Statuses /\ Stable(decision.status)
              /\ decision.status.source = m.status.source
              /\ WithinPolicy(m.spec, m.status.source, decision.source)
              /\ ~m.redeploy => ~Newer(m.status.source, decision.source)
<1> DEFINE p == pruneAutoUpgradeStatus(m)
           answer == evaluateAutoUpgrade(p, found, failed)
           decision == deploymentDecision(m, dep, found, failed, drift)
<1>1. /\ p \in Objects /\ Stable(p.status) /\ p.spec = m.spec /\ p.redeploy = m.redeploy
      /\ p.status.source = m.status.source
  BY PrunedStatus
<1>2. /\ WithinPolicy(m.spec, m.status.source, deploymentSource(p))
      /\ ~m.redeploy => ~Newer(m.status.source, deploymentSource(p))
  BY <1>1, SourceWithinPolicy
<1>3. /\ answer.status \in Statuses /\ Stable(answer.status)
      /\ answer.status.source = m.status.source
      /\ answer.source # NoSource
            => /\ WithinPolicy(m.spec, m.status.source, answer.source)
               /\ ~Newer(m.status.source, answer.source)
  BY <1>1, AnswerWithinPolicy
<1>4. /\ WithinPolicy(m.spec, m.status.source, Refreshed(p, answer))
      /\ ~m.redeploy => ~Newer(m.status.source, Refreshed(p, answer))
  <2> DEFINE q == [p EXCEPT !.status = answer.status]
  <2>1. q.spec = m.spec /\ q.status.source = m.status.source
    BY <1>1, <1>3 DEF Objects
  <2>2. /\ currentSemverSource(q) \in {m.spec.source, m.status.source}
        /\ ~Newer(m.status.source, currentSemverSource(q))
    BY <2>1, AboveCurrent
  <2>3. \/ Refreshed(p, answer) = answer.source /\ answer.source # NoSource
        \/ Refreshed(p, answer) \in {currentSemverSource(q), deploymentSource(p)}
    BY DEF Refreshed
  <2> QED BY <1>2, <1>3, <2>2, <2>3 DEF WithinPolicy
<1>5. \/ decision.status = answer.status /\ decision.source = Refreshed(p, answer)
      \/ decision.status = p.status /\ decision.source = deploymentSource(p)
      \/ decision.status = answer.status /\ decision.source = deploymentSource(p)
      \/ decision.status = answer.status /\ decision.source = answer.source /\ answer.source # NoSource
  BY DEF deploymentDecision
<1>6. p.status \in Statuses
  BY <1>1 DEF Objects
<1> QED BY <1>1, <1>2, <1>3, <1>4, <1>5, <1>6

-----------------------------------------------------------------------------
(* Patches keep all this *)

(* A status is its fields. *)
LEMMA StatusFields ==
    ASSUME NEW st \in Statuses, NEW r, DOMAIN r = DOMAIN st, r = [f \in DOMAIN r |-> r[f]],
           r.phase \in {"", "Deploying", "Deployed", "Failed"}, r.packageName \in BOOLEAN,
           r.source \in Sources \cup {NoSource}, r.hash \in Sources \cup {NoSource},
           r.attempted \in Sources \cup {NoSource}, r.attemptError \in BOOLEAN,
           r.available \in Sources \cup {NoSource}, r.checked \in Checks, r.observed \in Nat
    PROVE  r \in Statuses
<1>1. DOMAIN st = {"phase", "packageName", "source", "hash", "attempted", "attemptError",
                   "available", "checked", "observed"}
  BY DEF Statuses
<1>2. r = [phase |-> r.phase, packageName |-> r.packageName, source |-> r.source,
           hash |-> r.hash, attempted |-> r.attempted, attemptError |-> r.attemptError,
           available |-> r.available, checked |-> r.checked, observed |-> r.observed]
  BY <1>1
<1> QED BY <1>2 DEF Statuses

LEMMA MergedStatus ==
    ASSUME NEW from \in Statuses, NEW to \in Statuses, NEW base \in Statuses,
           Stable(to), Stable(base)
    PROVE  /\ MergePatch(from, to, base) \in Statuses
           /\ Stable(MergePatch(from, to, base))
           /\ to.source = from.source => MergePatch(from, to, base).source = base.source
<1> DEFINE merged == MergePatch(from, to, base)
<1>1. merged \in Statuses
  <2>1. DOMAIN merged = DOMAIN base /\ merged = [f \in DOMAIN merged |-> merged[f]]
    BY DEF MergePatch
  <2>2. /\ merged.phase \in {"", "Deploying", "Deployed", "Failed"}
        /\ merged.packageName \in BOOLEAN /\ merged.attemptError \in BOOLEAN
    BY DEF MergePatch, Statuses
  <2>3. /\ merged.source \in Sources \cup {NoSource} /\ merged.hash \in Sources \cup {NoSource}
        /\ merged.attempted \in Sources \cup {NoSource}
        /\ merged.available \in Sources \cup {NoSource}
    BY DEF MergePatch, Statuses
  <2>4. merged.checked \in Checks /\ merged.observed \in Nat
    BY DEF MergePatch, Statuses
  <2> HIDE DEF merged
  <2> QED BY <2>1, <2>2, <2>3, <2>4, StatusFields
<1>2. merged.available \in {to.available, base.available}
  BY DEF MergePatch, Statuses
<1>3. to.source = from.source => merged.source = base.source
  BY DEF MergePatch, Statuses
<1> QED BY <1>1, <1>2, <1>3 DEF Stable

LEMMA DecodedStatus ==
    ASSUME NEW sent \in Statuses, NEW reply \in Statuses, Stable(sent), Stable(reply)
    PROVE  /\ DecodeOver(ZeroStatus, sent, reply) \in Statuses
           /\ Stable(DecodeOver(ZeroStatus, sent, reply))
           /\ sent.source = reply.source
                 => DecodeOver(ZeroStatus, sent, reply).source = reply.source
<1> DEFINE decoded == DecodeOver(ZeroStatus, sent, reply)
<1>1. decoded \in Statuses
  <2>1. DOMAIN decoded = DOMAIN reply /\ decoded = [f \in DOMAIN decoded |-> decoded[f]]
    BY DEF DecodeOver
  <2>2. /\ decoded.phase \in {"", "Deploying", "Deployed", "Failed"}
        /\ decoded.packageName \in BOOLEAN /\ decoded.attemptError \in BOOLEAN
    BY DEF DecodeOver, Statuses
  <2>3. /\ decoded.source \in Sources \cup {NoSource} /\ decoded.hash \in Sources \cup {NoSource}
        /\ decoded.attempted \in Sources \cup {NoSource}
        /\ decoded.available \in Sources \cup {NoSource}
    BY DEF DecodeOver, Statuses
  <2>4. decoded.checked \in Checks /\ decoded.observed \in Nat
    BY DEF DecodeOver, Statuses
  <2> HIDE DEF decoded
  <2> QED BY <2>1, <2>2, <2>3, <2>4, StatusFields
<1>2. decoded.available \in {sent.available, reply.available}
  BY DEF DecodeOver, Statuses
<1>3. decoded.source \in {sent.source, reply.source}
  BY DEF DecodeOver, Statuses
<1> QED BY <1>1, <1>2, <1>3 DEF Stable

-----------------------------------------------------------------------------
(* The inductive invariant *)

Typed ==
    /\ obj \in Objects /\ mem \in Objects /\ original \in Statuses
    /\ registry \subseteq Sources
    /\ plan.source \in Sources \cup {NoSource}

Discovered == Stable(obj.status) /\ Stable(mem.status)

(* The status is the worker's own: from the read to the deploy the recorded
   source stays what it was. *)
Unmoved ==
    pc \in {"decide", "persist", "prepare", "deploy"}
        => /\ mem.status.source = obj.status.source
           /\ original.source = obj.status.source

Planned ==
    /\ plan # NoPlan => WithinPolicy(plan.spec, plan.recorded, plan.source)
    /\ pc \in {"persist", "prepare", "deploy"}
          => /\ plan.recorded = mem.status.source
             /\ ~plan.redeploy => ~Newer(plan.recorded, plan.source)

IInv == Typed /\ Discovered /\ Unmoved /\ Planned

LEMMA IInvInit == Init => IInv
<1> SUFFICES ASSUME Init PROVE IInv
  OBVIOUS
<1>1. PICK spec \in Specs :
          /\ obj = [spec |-> spec, redeploy |-> FALSE, generation |-> 1, status |-> ZeroStatus]
          /\ registry \in {Sources, {spec.source}}
  BY DEF Init
<1>2. ZeroStatus \in Statuses /\ Stable(ZeroStatus)
  BY DEF ZeroStatus, Statuses, Stable, Checks
<1>3. obj \in Objects /\ obj.status = ZeroStatus
  BY <1>1, <1>2 DEF Objects
<1>4. registry \subseteq Sources
  BY <1>1, AutoUpgradeAssumption DEF Specs
<1>5. mem = obj /\ original = obj.status /\ plan = NoPlan /\ pc = "idle"
  BY DEF Init
<1>6. plan.source = NoSource
  BY <1>5 DEF NoPlan
<1> QED BY <1>2, <1>3, <1>4, <1>5, <1>6 DEF IInv, Typed, Discovered, Unmoved, Planned

LEMMA IInvStep == IInv /\ [Next]_vars => IInv'
<1> SUFFICES ASSUME IInv, [Next]_vars PROVE IInv'
  OBVIOUS
<1> USE DEF IInv
<1>1. CASE UNCHANGED vars
  BY <1>1 DEF vars, worker, Typed, Discovered, Unmoved, Planned
<1>a. /\ obj \in Objects /\ mem \in Objects /\ original \in Statuses
      /\ obj.status \in Statuses /\ mem.status \in Statuses
      /\ Stable(obj.status) /\ Stable(mem.status)
  BY DEF Typed, Discovered, Objects
<1>b. ASSUME NEW m \in Objects, NEW st \in Statuses
      PROVE  /\ [m EXCEPT !.status = st] \in Objects
             /\ [m EXCEPT !.status = st].status = st
  BY DEF Objects
<1>c. ASSUME NEW st \in Statuses, Stable(st), NEW l, Goto(l, st), UNCHANGED <<obj, registry, original>>
      PROVE  /\ obj' \in Objects /\ mem' \in Objects /\ original' \in Statuses
             /\ registry' \subseteq Sources
             /\ Discovered' /\ mem'.status = st /\ pc' = l
  BY <1>a, <1>b, <1>c DEF Goto, Typed, Discovered
<1>2. CASE Start
  BY <1>2, <1>a DEF Start, Typed, Discovered, Unmoved, Planned
<1>3. CASE reconcile
  <2>1. PICK found \in selectLatestSemverUpgrade(pruneAutoUpgradeStatus(mem)), failed \in BOOLEAN,
             drift \in BOOLEAN : Decide(found, failed, drift)
    BY <1>3 DEF reconcile
  <2> DEFINE dep == IF mem.status.packageName THEN cluster ELSE Absent
             decision == deploymentDecision(mem, dep, found, failed, drift)
             deploying == [decision.status EXCEPT !.phase = "Deploying", !.attempted = decision.source]
             inSync == [decision.status EXCEPT !.phase = "Deployed"]
  <2>2. /\ decision.status \in Statuses /\ Stable(decision.status)
        /\ decision.status.source = mem.status.source
        /\ WithinPolicy(mem.spec, mem.status.source, decision.source)
        /\ ~mem.redeploy => ~Newer(mem.status.source, decision.source)
    <3>1. registry \subseteq Sources
      BY DEF Typed
    <3> HIDE DEF dep
    <3> QED BY <1>a, <3>1, DecisionWithinPolicy
  <2>3. pc = "decide" /\ UNCHANGED <<obj, registry, original>>
    BY <2>1 DEF Decide
  <2>4. decision.source \in Sources \cup {NoSource}
    <3>1. mem.spec.source \in Sources /\ mem.status.source \in Sources \cup {NoSource}
      BY <1>a, AutoUpgradeAssumption DEF Objects, Specs, Statuses
    <3>2. Newer(decision.source, mem.spec.source) => decision.source \in Sources
      BY NewerIsSemver, AutoUpgradeAssumption
    <3> QED BY <2>2, <3>1, <3>2 DEF WithinPolicy
  <2>5. deploying \in Statuses /\ Stable(deploying) /\ deploying.source = mem.status.source
    <3> HIDE DEF decision
    <3> QED BY <2>2, <2>4 DEF Statuses, Stable
  <2>6. inSync \in Statuses /\ Stable(inSync)
    <3> HIDE DEF decision
    <3> QED BY <2>2 DEF Statuses, Stable
  <2>7. CASE /\ Goto("persist", deploying)
             /\ plan' = [source |-> decision.source, wasFailed |-> mem.status.phase = "Failed",
                         redeploy |-> mem.redeploy, spec |-> mem.spec,
                         recorded |-> mem.status.source]
    <3> HIDE DEF decision, deploying
    <3>1. /\ obj' \in Objects /\ mem' \in Objects /\ original' \in Statuses
          /\ registry' \subseteq Sources
          /\ Discovered' /\ mem'.status = deploying /\ pc' = "persist"
      BY <1>c, <2>3, <2>5, <2>7
    <3>2. /\ plan'.source = decision.source /\ plan'.spec = mem.spec
          /\ plan'.recorded = mem.status.source /\ plan'.redeploy = mem.redeploy
      BY <2>7
    <3>3. mem.status.source = obj.status.source /\ original.source = obj.status.source
      BY <2>3 DEF Unmoved
    <3> QED BY <2>2, <2>3, <2>4, <2>5, <3>1, <3>2, <3>3 DEF Typed, Unmoved, Planned
  <2>8. CASE Goto("finish", inSync) /\ UNCHANGED plan
    <3> HIDE DEF decision, inSync
    <3>1. /\ obj' \in Objects /\ mem' \in Objects /\ original' \in Statuses
          /\ registry' \subseteq Sources
          /\ Discovered' /\ pc' = "finish"
      BY <1>c, <2>3, <2>6, <2>8
    <3> QED BY <2>8, <3>1 DEF Typed, Unmoved, Planned
  <2> QED BY <2>1, <2>7, <2>8 DEF Decide
<1>4. CASE PersistDeploying
  <2> DEFINE merged == MergePatch(original, mem.status, obj.status)
             decoded == DecodeOver(ZeroStatus, mem.status, merged)
  <2>1. mem.status.source = obj.status.source /\ original.source = obj.status.source
    BY <1>4 DEF PersistDeploying, Unmoved
  <2>2. merged \in Statuses /\ Stable(merged) /\ merged.source = obj.status.source
    BY <1>a, <2>1, MergedStatus
  <2>3. decoded \in Statuses /\ Stable(decoded) /\ decoded.source = obj.status.source
    BY <1>a, <2>1, <2>2, DecodedStatus
  <2> HIDE DEF merged
  <2>4. obj' = [obj EXCEPT !.status = merged]
    BY <1>4 DEF PersistDeploying, merged
  <2>5. obj' \in Objects /\ obj'.status = merged
    BY <1>a, <1>b, <2>2, <2>4
  <2>6. mem' = [obj' EXCEPT !.status = decoded]
    BY <1>4, <2>5 DEF PersistDeploying
  <2> HIDE DEF decoded
  <2>7. mem' \in Objects /\ mem'.status = decoded
    BY <1>b, <2>3, <2>5, <2>6
  <2> QED BY <1>4, <2>1, <2>2, <2>3, <2>5, <2>7
             DEF PersistDeploying, Typed, Discovered, Unmoved, Planned
<1>5. CASE preDeployCleanup
  BY <1>5 DEF preDeployCleanup, Typed, Discovered, Unmoved, Planned
<1>6. CASE DeploySucceeds
  <2> DEFINE st == applyDeploySuccessStatus(mem, plan.source)
  <2>1. mem.spec.source \in Sources /\ plan.source \in Sources \cup {NoSource}
    BY <1>a, AutoUpgradeAssumption DEF Objects, Specs, Typed
  <2>2. st \in Statuses /\ Stable(st)
    BY <1>a, <2>1 DEF applyDeploySuccessStatus, clearAvailableUpgrade, DeploymentHash, Statuses, Stable
  <2> HIDE DEF st
  <2>3. PICK l \in {"clear", "finish"} : Goto(l, st)
    BY <1>6 DEF DeploySucceeds, st
  <2>4. UNCHANGED <<obj, registry, original, plan>>
    BY <1>6 DEF DeploySucceeds
  <2> QED BY <1>c, <2>2, <2>3, <2>4 DEF Typed, Unmoved, Planned
<1>7. CASE DeployFails \/ DeployCanceled
  <2> DEFINE st == [mem.status EXCEPT !.phase = "Failed", !.attemptError = TRUE]
  <2>1. st \in Statuses /\ Stable(st)
    BY <1>a DEF Statuses, Stable
  <2> HIDE DEF st
  <2>2. CASE DeployFails
    <3>1. Goto("finish", st) /\ UNCHANGED <<obj, registry, original, plan>>
      BY <2>2 DEF DeployFails, st
    <3> QED BY <1>c, <2>1, <3>1 DEF Typed, Unmoved, Planned
  <2>3. CASE DeployCanceled
    <3>1. UNCHANGED <<obj, registry, mem, original, plan>>
      BY <2>3 DEF DeployCanceled
    <3>2. pc' = "finish"
      BY <2>3 DEF DeployCanceled
    <3> QED BY <3>1, <3>2 DEF Typed, Discovered, Unmoved, Planned
  <2> QED BY <1>7, <2>2, <2>3
<1>8. CASE ClearAnnotation
  <2> DEFINE decoded == DecodeOver(ZeroStatus, mem.status, obj.status)
  <2>1. decoded \in Statuses /\ Stable(decoded)
    BY <1>a, DecodedStatus
  <2>2. obj' \in Objects /\ obj'.status = obj.status
    BY <1>8, <1>a DEF ClearAnnotation, Objects
  <2>3. mem' = [obj' EXCEPT !.status = decoded]
    BY <1>8, <2>2 DEF ClearAnnotation
  <2> HIDE DEF decoded
  <2>4. mem' \in Objects /\ mem'.status = decoded
    BY <1>b, <2>1, <2>2, <2>3
  <2> QED BY <1>8, <1>a, <2>1, <2>2, <2>4 DEF ClearAnnotation, Typed, Discovered, Unmoved, Planned
<1>9. CASE UpdateStatus
  <2> DEFINE to == [mem.status EXCEPT !.observed = mem.generation]
             merged == MergePatch(original, to, obj.status)
  <2>1. to \in Statuses /\ Stable(to)
    BY <1>a DEF Statuses, Stable, Objects
  <2> HIDE DEF to
  <2>2. merged \in Statuses /\ Stable(merged)
    BY <1>a, <2>1, MergedStatus
  <2> HIDE DEF merged
  <2>3. obj' = obj \/ obj' = [obj EXCEPT !.status = merged]
    BY <1>9 DEF UpdateStatus, merged, to
  <2>4. obj' \in Objects /\ obj'.status \in Statuses /\ Stable(obj'.status)
    <3>1. CASE obj' = obj
      BY <1>a, <3>1
    <3>2. CASE obj' = [obj EXCEPT !.status = merged]
      <4>1. obj' \in Objects /\ obj'.status = merged
        BY <1>a, <1>b, <2>2, <3>2
      <4> QED BY <2>2, <4>1
    <3> QED BY <2>3, <3>1, <3>2
  <2>5. NoPlan.source = NoSource
    BY DEF NoPlan
  <2> QED BY <1>9, <2>4, <2>5 DEF UpdateStatus, Typed, Discovered, Unmoved, Planned
<1>10. CASE Elapse
  <2>1. obj' \in Objects /\ obj'.status.available = obj.status.available
    <3> DEFINE st == [obj.status EXCEPT !.checked = "due"]
    <3>1. st \in Statuses /\ st.available = obj.status.available
      BY <1>a, ElapsedStatus
    <3>2. obj' = [obj EXCEPT !.status = st]
      BY <1>10 DEF Elapse
    <3> HIDE DEF st
    <3> QED BY <1>a, <1>b, <3>1, <3>2
  <2> QED BY <1>10, <2>1 DEF Elapse, worker, Typed, Discovered, Unmoved, Planned, Stable
<1>11. ASSUME NEW spec \in Specs, Edit(spec) PROVE IInv'
  <2>1. obj' \in Objects /\ obj'.status = obj.status
    <3>1. obj.generation + 1 \in Nat
      BY <1>a DEF Objects
    <3>2. obj' = [obj EXCEPT !.spec = spec, !.generation = obj.generation + 1]
      BY <1>11 DEF Edit
    <3> QED BY <1>a, <3>1, <3>2 DEF Objects
  <2> QED BY <1>11, <2>1 DEF Edit, Typed, Discovered, Unmoved, Planned
<1>12. CASE Annotate
  <2>1. obj' \in Objects /\ obj'.status = obj.status
    BY <1>12, <1>a DEF Annotate, Objects
  <2> QED BY <1>12, <2>1 DEF Annotate, Typed, Discovered, Unmoved, Planned
<1>13. ASSUME NEW s \in Sources, Publish(s) PROVE IInv'
  BY <1>13 DEF Publish, worker, Typed, Discovered, Unmoved, Planned
<1>14. CASE Crash
  <2>1. NoPlan.source = NoSource
    BY DEF NoPlan
  <2> QED BY <1>14, <1>a, <2>1 DEF Crash, Typed, Discovered, Unmoved, Planned
<1> QED BY <1>1, <1>2, <1>3, <1>4, <1>5, <1>6, <1>7, <1>8, <1>9, <1>10, <1>11, <1>12, <1>13, <1>14
           DEF Next, Work, Outside

-----------------------------------------------------------------------------
(* The theorems *)

(* Whatever is deployed is the source of the spec, the recorded one, or a
   stable tag above both that the constraint of the policy admits, for every
   set of tags and under every fault: however old the discovery is. *)
THEOREM UpgradesStayWithinPolicy == SafetySpec => []UpgradesWithinPolicy
<1>1. IInv => UpgradesWithinPolicy
  BY DEF IInv, Planned, WithinPolicy, UpgradesWithinPolicy
<1> QED BY <1>1, IInvInit, IInvStep, PTL DEF SafetySpec

(* A recorded deployment is never replaced by an older version of the same
   repository unless a redeploy was asked for. *)
THEOREM RecordedStays == SafetySpec => RecordedIsNotDowngraded
<1> DEFINE A == pc = "deploy" /\ cluster # Absent /\ obj.status.source = cluster.source
                   /\ ~plan.redeploy => ~Newer(cluster.source, cluster'.source)
<1>1. IInv /\ [Next]_vars => A
  <2> SUFFICES ASSUME IInv, [Next]_vars, pc = "deploy", obj.status.source = cluster.source,
                      ~plan.redeploy
               PROVE  ~Newer(cluster.source, cluster'.source)
    OBVIOUS
  <2>1. ~Newer(cluster.source, plan.source)
    BY DEF IInv, Unmoved, Planned
  <2>2. ~Newer(cluster.source, cluster.source)
    BY NewerIsAnOrder
  <2>3. \A state : Attempted(state).source = plan.source
    BY DEF Attempted
  <2>4. cluster' = cluster \/ \E state : cluster' = Attempted(state)
    <3>1. CASE DeploySucceeds \/ DeployFails \/ DeployCanceled \/ Crash
      BY <3>1 DEF DeploySucceeds, DeployFails, DeployCanceled, Crash
    <3>2. CASE UNCHANGED vars \/ Start \/ reconcile \/ PersistDeploying \/ ClearAnnotation
               \/ UpdateStatus \/ Elapse
      BY <3>2 DEF vars, Start, reconcile, Decide, PersistDeploying, ClearAnnotation,
                  UpdateStatus, Elapse
    <3>3. CASE (\E spec \in Specs : Edit(spec)) \/ Annotate \/ \E s \in Sources : Publish(s)
      BY <3>3 DEF Edit, Annotate, Publish
    <3>4. ~preDeployCleanup
      BY DEF preDeployCleanup
    <3> QED BY <3>1, <3>2, <3>3, <3>4 DEF Next, Work, Outside
  <2> QED BY <2>1, <2>2, <2>3, <2>4
<1>2. IInv /\ [Next]_vars => [A]_vars
  BY <1>1
<1> QED BY <1>2, IInvInit, IInvStep, PTL DEF SafetySpec, RecordedIsNotDowngraded

-----------------------------------------------------------------------------
(* Types *)

(* There is always a source to deploy. *)
LEMMA CurrentIsASource ==
    ASSUME NEW m \in Objects
    PROVE  currentSemverSource(m) \in Sources /\ deploymentSource(m) \in Sources
<1>1. m.spec.source \in Sources
  BY AutoUpgradeAssumption DEF Objects, Specs
<1>2. currentSemverSource(m) \in Sources
  BY <1>1, NewerIsSemver, AutoUpgradeAssumption DEF currentSemverSource
<1>3. pendingAvailable(m) => m.status.available \in Sources
  BY NewerIsSemver, AutoUpgradeAssumption DEF pendingAvailable
<1> QED BY <1>1, <1>2, <1>3 DEF deploymentSource

LEMMA DecisionIsASource ==
    ASSUME NEW m \in Objects, Stable(m.status), registry \subseteq Sources,
           NEW found \in selectLatestSemverUpgrade(pruneAutoUpgradeStatus(m)),
           NEW dep, NEW failed, NEW drift
    PROVE  deploymentDecision(m, dep, found, failed, drift).source \in Sources
<1> DEFINE p == pruneAutoUpgradeStatus(m)
           answer == evaluateAutoUpgrade(p, found, failed)
           decision == deploymentDecision(m, dep, found, failed, drift)
<1>1. p \in Objects /\ Stable(p.status)
  BY PrunedStatus
<1>2. /\ answer.status \in Statuses
      /\ answer.source # NoSource => answer.source \in Sources
  BY <1>1, AnswerWithinPolicy
<1>3. deploymentSource(p) \in Sources
  BY <1>1, CurrentIsASource
<1>4. Refreshed(p, answer) \in Sources
  <2> DEFINE q == [p EXCEPT !.status = answer.status]
  <2> HIDE DEF p, answer
  <2>1. q \in Objects
    BY <1>1, <1>2 DEF Objects
  <2>2. currentSemverSource(q) \in Sources
    BY <2>1, CurrentIsASource
  <2> QED BY <1>2, <1>3, <2>2 DEF Refreshed
<1>5. \/ decision.source = Refreshed(p, answer)
      \/ decision.source = deploymentSource(p)
      \/ decision.source = answer.source /\ answer.source # NoSource
  BY DEF deploymentDecision
<1> QED BY <1>2, <1>3, <1>4, <1>5

Plans == [source : Sources, wasFailed : BOOLEAN, redeploy : BOOLEAN, spec : Specs,
          recorded : Sources \cup {NoSource}]

Deployments == [source : Sources, state : {"partial", "failed", "healthy"}] \cup {Absent}

(* What the type invariant says beyond Typed: a worker on its way to a deploy
   has a plan. *)
Equipped ==
    /\ cluster \in Deployments
    /\ pc \in {"idle", "decide", "persist", "prepare", "deploy", "clear", "finish"}
    /\ plan \in Plans \cup {NoPlan}
    /\ pc \in {"persist", "prepare", "deploy"} => plan.source \in Sources
    /\ sendsRV \in BOOLEAN /\ fresh \in BOOLEAN

Counted == events \in 0..MaxEvents

LEMMA CountedStep == Counted /\ [Next]_vars => Counted'
<1> SUFFICES ASSUME Counted, [Next]_vars PROVE Counted'
  OBVIOUS
<1>1. MaxEvents \in Nat
  BY AutoUpgradeAssumption
<1>2. ASSUME Happens PROVE Counted'
  BY <1>1, <1>2 DEF Happens, Counted
<1>3. ASSUME events' = events PROVE Counted'
  BY <1>3 DEF Counted
<1>4. CASE Work
  BY <1>2, <1>3, <1>4 DEF Work, Start, reconcile, PersistDeploying, preDeployCleanup, DeployFails,
                          ClearAnnotation, UpdateStatus, Fault
<1>5. CASE Outside
  BY <1>2, <1>5 DEF Outside, Edit, Annotate, Publish, Crash, Fault
<1>6. CASE DeploySucceeds \/ DeployCanceled \/ Elapse \/ UNCHANGED vars
  BY <1>2, <1>3, <1>6 DEF DeploySucceeds, DeployCanceled, Elapse, Fault, vars
<1> QED BY <1>4, <1>5, <1>6 DEF Next

LEMMA EquippedStep == IInv /\ Equipped /\ [Next]_vars => Equipped'
<1> SUFFICES ASSUME IInv, Equipped, [Next]_vars PROVE Equipped'
  OBVIOUS
<1>1. \A state \in {"partial", "failed", "healthy"} :
          plan.source \in Sources => Attempted(state) \in Deployments
  BY DEF Attempted, Deployments
<1>2. Absent \in Deployments /\ NoPlan \in Plans \cup {NoPlan}
  BY DEF Deployments
<1>3. CASE reconcile
  <2>1. PICK found \in selectLatestSemverUpgrade(pruneAutoUpgradeStatus(mem)), failed \in BOOLEAN,
             drift \in BOOLEAN : Decide(found, failed, drift)
    BY <1>3 DEF reconcile
  <2> DEFINE dep == IF mem.status.packageName THEN cluster ELSE Absent
             decision == deploymentDecision(mem, dep, found, failed, drift)
             chosen == [source |-> decision.source, wasFailed |-> mem.status.phase = "Failed",
                        redeploy |-> mem.redeploy, spec |-> mem.spec,
                        recorded |-> mem.status.source]
  <2>2. mem \in Objects /\ Stable(mem.status) /\ registry \subseteq Sources
    BY DEF IInv, Typed, Discovered
  <2>3. decision.source \in Sources
    BY <2>2, DecisionIsASource
  <2>4. /\ mem.redeploy \in BOOLEAN /\ mem.spec \in Specs
        /\ mem.status.source \in Sources \cup {NoSource}
    BY <2>2 DEF Objects, Statuses
  <2>5. UNCHANGED <<cluster, sendsRV, fresh>>
    BY <2>1 DEF Decide
  <2>6. (pc' = "persist" /\ plan' = chosen) \/ (pc' = "finish" /\ plan' = plan)
    BY <2>1 DEF Decide, Goto
  <2>7. chosen \in Plans /\ chosen.source \in Sources
    <3> HIDE DEF decision
    <3> QED BY <2>3, <2>4 DEF Plans
  <2> HIDE DEF chosen
  <2> QED BY <2>5, <2>6, <2>7 DEF Equipped
<1>4. CASE Start \/ PersistDeploying \/ ClearAnnotation \/ UpdateStatus \/ Elapse \/ UNCHANGED vars
  BY <1>2, <1>4 DEF Start, PersistDeploying, ClearAnnotation, UpdateStatus, Elapse, vars, worker,
                    Equipped
<1>5. CASE preDeployCleanup
  <2>1. cluster # Absent => [cluster EXCEPT !.state = "partial"] \in Deployments
    BY DEF Equipped, Deployments
  <2> QED BY <1>2, <1>5, <2>1 DEF preDeployCleanup, Equipped
<1>6. CASE DeploySucceeds
  BY <1>1, <1>6 DEF DeploySucceeds, Goto, Equipped
<1>7. CASE DeployFails \/ DeployCanceled
  BY <1>1, <1>7 DEF DeployFails, DeployCanceled, Goto, Equipped
<1>8. CASE (\E spec \in Specs : Edit(spec)) \/ Annotate \/ (\E s \in Sources : Publish(s))
  BY <1>8 DEF Edit, Annotate, Publish, worker, Equipped
<1>9. CASE Crash
  BY <1>1, <1>2, <1>9 DEF Crash, Equipped
<1> QED BY <1>3, <1>4, <1>5, <1>6, <1>7, <1>8, <1>9 DEF Next, Work, Outside

(* The object, its copies, the worker's plan and the deployment keep their
   types, for any tags, constraints and faults: in particular a deploy always
   has a source, and what Zarf has deployed was deployed from one. *)
THEOREM TypeCorrect == SafetySpec => []TypeOK
<1>1. Init => Equipped /\ Counted
  <2> SUFFICES ASSUME Init PROVE Equipped /\ Counted
    OBVIOUS
  <2>1. Counted
    <3>1. events = 0
      BY DEF Init
    <3> QED BY <3>1, AutoUpgradeAssumption DEF Counted
  <2>2. Equipped
    BY DEF Init, Equipped, Deployments
  <2> QED BY <2>1, <2>2
<1>2. IInv /\ Equipped /\ Counted => TypeOK
  BY Zenon DEF IInv, Typed, Equipped, Counted, Deployments, Plans, TypeOK
<1> QED BY <1>1, <1>2, IInvInit, IInvStep, EquippedStep, CountedStep, PTL DEF SafetySpec
=============================================================================
