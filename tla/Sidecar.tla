------------------------------ MODULE Sidecar ------------------------------
(***************************************************************************)
(* The gRPC sidecar (src/cmd/sidecar/server/server.go): concurrent handler *)
(* goroutines share one operation slot (ZarfServer.active), the package    *)
(* mutex kubeconfigMu and two process-wide environment variables.          *)
(*                                                                         *)
(* A call is one handler goroutine; pc[c] is where it stands, and the      *)
(* deferred cleanups are steps of their own, in the order Go runs them     *)
(* (last deferred first).  ZarfServer.mu guards critical sections that do  *)
(* not block, so each is one step.  What Zarf does inside a step (load,    *)
(* deploy, verify, remove) is external: it succeeds or fails at any time.  *)
(***************************************************************************)
EXTENDS Naturals

CONSTANTS Calls,          \* handler goroutines
          Methods,        \* the kinds of RPC the clients make
          CallerErrors,   \* how a caller's context may end before the reply
          Kubeconfigs,    \* kubeconfigs of remote clusters a request may carry
          InCluster,      \* no kubeconfig: the KUBECONFIG the process started with
          Credentials,    \* docker configs a deploy may carry
          NoCredentials,  \* no docker config: the DOCKER_CONFIG of the process
          NoCall          \* nil

ASSUME NilAssumption ==
    NoCall \notin Calls /\ InCluster \notin Kubeconfigs /\ NoCredentials \notin Credentials

ASSUME ClientAssumption ==
    /\ Methods \subseteq {"deploy", "remove", "get", "probe"}
    /\ CallerErrors \subseteq {"Canceled", "DeadlineExceeded"}

VARIABLES pc,            \* [Calls -> PCs] where the handler stands
          request,       \* [Calls -> Requests] what it was called with
          ctxErr,        \* ctx.Err() of the context the handler works with
          current,       \* the operation whose done channel acquireOp waits on
          active,        \* ZarfServer.active: the call that owns the slot, or nil
          kubeconfigMu,  \* holder of the mutex, or nil
          KUBECONFIG,    \* the environment variable
          DOCKER_CONFIG, \* the environment variable
          origKube,      \* origKubeconfig of applyKubeconfig
          origDocker,    \* origDockerConfig of applyRegistryCredentials
          target,        \* the KUBECONFIG the call's cluster.New last read
          reply          \* the status the handler returns

slotVars == <<active, current>>
kubeVars == <<kubeconfigMu, KUBECONFIG, origKube>>
dockerVars == <<DOCKER_CONFIG, origDocker>>
vars == <<pc, request, ctxErr, slotVars, kubeVars, dockerVars, target, reply>>

OpKinds == {"deploy", "remove"}
Kinds == OpKinds \cup {"get", "probe"}

Requests == [kind : Kinds,
             kubeconfig : Kubeconfigs \cup {InCluster},
             credentials : Credentials \cup {NoCredentials}]

(* A "probe" is Health or ListDeployedPackages, which carry no kubeconfig;
   only Deploy carries registry credentials. *)
WellFormed(r) ==
    /\ r.kind = "probe" => r.kubeconfig = InCluster
    /\ r.kind # "deploy" => r.credentials = NoCredentials

(* What is left of a request once its handler has returned. *)
NoRequest == [kind |-> "probe", kubeconfig |-> InCluster, credentials |-> NoCredentials]

PCs == {"idle", "acquire", "wait", "reacquire", "kubeconfig", "credentials",
        "load", "deploy", "verify", "connect", "remove", "lookup", "probe",
        "query", "restoreDocker", "restoreKube", "release", "close",
        "returned"}

(* "Preempted" is context.Canceled caused by a newer request in acquireOp,
   "Canceled" the same error caused by the caller going away. *)
CtxErrs == {"none", "Preempted", "Canceled", "DeadlineExceeded"}

(* gRPC codes by what the controller does with them: "Rejected" stands for
   InvalidArgument, PermissionDenied and Unauthenticated, "Error" for the
   codes it retries with backoff, and for an unhealthy Health response. *)
Replies == {"none", "OK", "Canceled", "ResourceExhausted", "NotFound",
            "Rejected", "Error"}

kind(c) == request[c].kind
IsCanceled(c) == ctxErr[c] \in {"Preempted", "Canceled"}

Init ==
    /\ pc = [c \in Calls |-> "idle"]
    /\ request = [c \in Calls |-> NoRequest]
    /\ ctxErr = [c \in Calls |-> "none"]
    /\ current = [c \in Calls |-> NoCall]
    /\ active = NoCall
    /\ kubeconfigMu = NoCall
    /\ KUBECONFIG = InCluster
    /\ DOCKER_CONFIG = NoCredentials
    /\ origKube = [c \in Calls |-> InCluster]
    /\ origDocker = [c \in Calls |-> NoCredentials]
    /\ target = [c \in Calls |-> NoCall]
    /\ reply = [c \in Calls |-> "none"]

Goto(c, l) == pc' = [pc EXCEPT ![c] = l]
Answer(c, code, l) == Goto(c, l) /\ reply' = [reply EXCEPT ![c] = code]

(* The handler returns and its locals are gone; the caller has the reply. *)
Return(c) ==
    /\ Goto(c, "returned")
    /\ request' = [request EXCEPT ![c] = NoRequest]
    /\ target' = [target EXCEPT ![c] = NoCall]

-----------------------------------------------------------------------------
(* A call arrives.  A blank source or package name is refused at once. *)
Receive(c, r) ==
    /\ pc[c] \in {"idle", "returned"}
    /\ WellFormed(r)
    /\ ctxErr' = [ctxErr EXCEPT ![c] = "none"]
    /\ \/ /\ r.kind \in OpKinds
          /\ Answer(c, "Rejected", "returned")
          /\ UNCHANGED request
       \/ /\ Answer(c, "none", CASE r.kind \in OpKinds -> "acquire"
                                 [] r.kind = "get" -> "kubeconfig"
                                 [] OTHER -> "probe")
          /\ request' = [request EXCEPT ![c] = r]
    /\ UNCHANGED <<slotVars, kubeVars, dockerVars, target>>

(* The caller's deadline passes or its connection goes away. *)
CallerGone(c, e) ==
    /\ pc[c] \notin {"idle", "returned"}
    /\ ctxErr[c] = "none"
    /\ ctxErr' = [ctxErr EXCEPT ![c] = e]
    /\ UNCHANGED <<pc, request, slotVars, kubeVars, dockerVars, target, reply>>

-----------------------------------------------------------------------------
(* acquireOp *)

(* Mutant: the architecture of the cluster is detected before applyKubeconfig. *)
ConnectBeforeLock(c) ==
    /\ active = NoCall
    /\ active' = c
    /\ Goto(c, "kubeconfig")
    /\ current' = [current EXCEPT ![c] = NoCall]
    /\ target' = [target EXCEPT ![c] = KUBECONFIG]
    /\ UNCHANGED <<ctxErr, request, reply>>

TakeSlot(c) ==
    /\ active = NoCall
    /\ active' = c
    /\ Goto(c, "kubeconfig")
    /\ current' = [current EXCEPT ![c] = NoCall]
    /\ UNCHANGED <<ctxErr, request, target, reply>>

RefuseSlot(c, code) ==
    /\ Return(c)
    /\ reply' = [reply EXCEPT ![c] = code]
    /\ current' = [current EXCEPT ![c] = NoCall]
    /\ UNCHANGED <<active, ctxErr>>

(* Mutant: the newcomer waits without calling cancel. *)
PreemptWithoutCancel(c) ==
    /\ active \in Calls
    /\ kind(active) # "remove"
    /\ current' = [current EXCEPT ![c] = active]
    /\ Goto(c, "wait")
    /\ UNCHANGED <<active, ctxErr, request, target, reply>>

(* Mutant: a remove is cancelled like a deploy. *)
PreemptAnything(c) ==
    /\ active \in Calls
    /\ ctxErr' = [ctxErr EXCEPT ![active] = IF @ = "none" THEN "Preempted" ELSE @]
    /\ current' = [current EXCEPT ![c] = active]
    /\ Goto(c, "wait")
    /\ UNCHANGED <<active, request, target, reply>>

(* Mutant: the slot is the newcomer's at once. *)
PreemptTakesOver(c) ==
    /\ active \in Calls
    /\ kind(active) # "remove"
    /\ ctxErr' = [ctxErr EXCEPT ![active] = IF @ = "none" THEN "Preempted" ELSE @]
    /\ active' = c
    /\ current' = [current EXCEPT ![c] = active]
    /\ Goto(c, "wait")
    /\ UNCHANGED <<request, target, reply>>

(* Cancelling a context that already has an error changes nothing. *)
PreemptActive(c) ==
    /\ active \in Calls
    /\ kind(active) # "remove"
    /\ ctxErr' = [ctxErr EXCEPT ![active] = IF @ = "none" THEN "Preempted" ELSE @]
    /\ current' = [current EXCEPT ![c] = active]
    /\ Goto(c, "wait")
    /\ UNCHANGED <<active, request, target, reply>>

acquireOp(c) ==
    /\ pc[c] = "acquire"
    /\ \/ TakeSlot(c)
       \/ /\ active \in Calls
          /\ kind(active) = "remove"
          /\ RefuseSlot(c, "ResourceExhausted")
       \/ PreemptActive(c)
    /\ UNCHANGED <<kubeVars, dockerVars>>

(* Mutant: when the timer fires the call tries again instead of giving up. *)
WaitRetries(c) ==
    /\ pc[c] = "wait"
    /\ \/ /\ current[c] = NoCall
          /\ Goto(c, "reacquire")
          /\ UNCHANGED current
       \/ Goto(c, "acquire") /\ current' = [current EXCEPT ![c] = NoCall]
    /\ UNCHANGED <<active, ctxErr, request, target, reply, kubeVars, dockerVars>>

(* The select: done closed, cancelWaitTimeout, or the caller's context.  The
   done channel of an operation is closed once nobody points to it. *)
waitForCancel(c) ==
    /\ pc[c] = "wait"
    /\ \/ /\ current[c] = NoCall
          /\ Goto(c, "reacquire")
          /\ UNCHANGED <<slotVars, ctxErr, request, target, reply>>
       \/ RefuseSlot(c, "ResourceExhausted")
       \/ /\ ctxErr[c] # "none"
          /\ RefuseSlot(c, IF IsCanceled(c) THEN "Canceled" ELSE "Error")
    /\ UNCHANGED <<kubeVars, dockerVars>>

(* Mutant: the slot is not looked at again after the wait. *)
ReacquireUnchecked(c) ==
    /\ pc[c] = "reacquire"
    /\ active' = c
    /\ Goto(c, "kubeconfig")
    /\ UNCHANGED <<ctxErr, request, current, target, reply, kubeVars, dockerVars>>

reacquireOp(c) ==
    /\ pc[c] = "reacquire"
    /\ \/ TakeSlot(c)
       \/ active # NoCall /\ RefuseSlot(c, "ResourceExhausted")
    /\ UNCHANGED <<kubeVars, dockerVars>>

(* cleanup: the slot is emptied first, the waiters are woken after. *)
releaseOp(c) ==
    /\ pc[c] = "release"
    /\ active' = NoCall
    /\ Goto(c, "close")
    /\ UNCHANGED <<request, ctxErr, current, kubeVars, dockerVars, target, reply>>

closeDone(c) ==
    /\ pc[c] = "close"
    /\ current' = [w \in Calls |-> IF current[w] = c THEN NoCall ELSE current[w]]
    /\ Return(c)
    /\ UNCHANGED <<ctxErr, active, kubeVars, dockerVars, reply>>

-----------------------------------------------------------------------------
(* applyKubeconfig and its cleanup *)

(* kubeconfigMu is free again: an operation still has the slot to release. *)
LeaveMutex(c) ==
    \/ kind(c) \in OpKinds /\ Goto(c, "release") /\ UNCHANGED <<request, target>>
    \/ kind(c) \notin OpKinds /\ Return(c)

(* Mutant: kubeconfigMu is locked only when there is a kubeconfig to apply. *)
ApplyWithoutLock(c) ==
    /\ pc[c] = "kubeconfig"
    /\ IF request[c].kubeconfig = InCluster THEN UNCHANGED <<kubeconfigMu, KUBECONFIG>>
       ELSE /\ kubeconfigMu = NoCall
            /\ kubeconfigMu' = c
            /\ KUBECONFIG' = request[c].kubeconfig
    /\ origKube' = [origKube EXCEPT ![c] = KUBECONFIG]
    /\ Goto(c, CASE kind(c) = "deploy" -> "credentials"
                 [] kind(c) = "remove" -> "connect"
                 [] OTHER -> "lookup")
    /\ UNCHANGED <<request, target, reply, ctxErr, slotVars, dockerVars>>

applyKubeconfig(c) ==
    /\ pc[c] = "kubeconfig"
    /\ kubeconfigMu = NoCall
    /\ \/ /\ kubeconfigMu' = c
          /\ origKube' = [origKube EXCEPT ![c] = KUBECONFIG]
          /\ KUBECONFIG' = IF request[c].kubeconfig = InCluster
                           THEN KUBECONFIG ELSE request[c].kubeconfig
          /\ Goto(c, CASE kind(c) = "deploy" -> "credentials"
                       [] kind(c) = "remove" -> "connect"
                       [] OTHER -> "lookup")
          /\ UNCHANGED <<request, target, reply>>
       \/ /\ request[c].kubeconfig # InCluster    \* the temp file: unlock, fail
          /\ LeaveMutex(c)
          /\ reply' = [reply EXCEPT ![c] = "Error"]
          /\ UNCHANGED kubeVars
    /\ UNCHANGED <<ctxErr, slotVars, dockerVars>>

(* Mutant: the environment is restored but the mutex is not unlocked. *)
CleanupKeepsLock(c) ==
    /\ pc[c] = "restoreKube"
    /\ KUBECONFIG' = IF request[c].kubeconfig = InCluster
                     THEN KUBECONFIG ELSE origKube[c]
    /\ LeaveMutex(c)
    /\ UNCHANGED <<ctxErr, slotVars, kubeconfigMu, origKube, dockerVars, reply>>

kubeconfigCleanup(c) ==
    /\ pc[c] = "restoreKube"
    /\ KUBECONFIG' = IF request[c].kubeconfig = InCluster
                     THEN KUBECONFIG ELSE origKube[c]
    /\ kubeconfigMu' = NoCall
    /\ LeaveMutex(c)
    /\ UNCHANGED <<ctxErr, slotVars, origKube, dockerVars, reply>>

(* cluster.New reads KUBECONFIG when it is called. *)
ConnectCluster(c) == target' = [target EXCEPT ![c] = KUBECONFIG]

-----------------------------------------------------------------------------
(* Deploy: architecture detection, then applyRegistryCredentials *)
applyRegistryCredentials(c) ==
    /\ pc[c] = "credentials"
    /\ ConnectCluster(c) \/ UNCHANGED target    \* unless the request has one
    /\ \/ /\ origDocker' = [origDocker EXCEPT ![c] = DOCKER_CONFIG]
          /\ DOCKER_CONFIG' = IF request[c].credentials = NoCredentials
                              THEN DOCKER_CONFIG ELSE request[c].credentials
          /\ Goto(c, "load")
          /\ UNCHANGED reply
       \/ /\ request[c].credentials # NoCredentials
          /\ Answer(c, "Error", "restoreKube")
          /\ UNCHANGED dockerVars
    /\ UNCHANGED <<request, ctxErr, slotVars, kubeVars>>

(* Mutant: the docker config directory is removed, the variable stays. *)
CleanupForgetsVariable(c) ==
    /\ pc[c] = "restoreDocker"
    /\ Goto(c, "restoreKube")
    /\ UNCHANGED <<request, ctxErr, slotVars, kubeVars, dockerVars, target, reply>>

registryCleanup(c) ==
    /\ pc[c] = "restoreDocker"
    /\ DOCKER_CONFIG' = IF request[c].credentials = NoCredentials
                        THEN DOCKER_CONFIG ELSE origDocker[c]
    /\ Goto(c, "restoreKube")
    /\ UNCHANGED <<request, ctxErr, slotVars, kubeVars, origDocker, target, reply>>

classifyOCIError == {"NotFound", "Rejected", "Error"}
classifyDeployError == {"Error"}

(* Mutants: ctx.Err() is returned as it is; any ctx.Err() counts as Canceled. *)
ContextErrorItself(c, codes) == IF IsCanceled(c) THEN {ctxErr[c]} ELSE codes
AnyContextError(c, codes) == IF ctxErr[c] # "none" THEN {"Canceled"} ELSE codes

(* A failing load or deploy reports Canceled when its context was cancelled. *)
FailureCode(c, codes) == IF IsCanceled(c) THEN {"Canceled"} ELSE codes

loadPkg(c) ==
    /\ pc[c] = "load"
    /\ \/ Goto(c, "deploy") /\ UNCHANGED reply
       \/ \E code \in FailureCode(c, classifyOCIError) : Answer(c, code, "restoreDocker")
       \/ Answer(c, "Rejected", "restoreDocker")    \* the component filter
    /\ UNCHANGED <<request, ctxErr, slotVars, kubeVars, dockerVars, target>>

deployPkg(c) ==
    /\ pc[c] = "deploy"
    /\ ConnectCluster(c)
    /\ \/ Goto(c, "verify") /\ UNCHANGED reply
       \/ \E code \in FailureCode(c, classifyDeployError) : Answer(c, code, "restoreDocker")
    /\ UNCHANGED <<request, ctxErr, slotVars, kubeVars, dockerVars>>

(* The verification does not look at the context: a cancelled one fails with
   whatever classifyOCIError makes of the error. *)
verifyImgs(c) ==
    /\ pc[c] = "verify"
    /\ ConnectCluster(c)
    /\ \E code \in {"OK"} \cup classifyOCIError : Answer(c, code, "restoreDocker")
    /\ UNCHANGED <<request, ctxErr, slotVars, kubeVars, dockerVars>>

-----------------------------------------------------------------------------
(* Remove: connect and look the package up, then remove it *)
Connect(c) ==
    /\ pc[c] = "connect"
    /\ ConnectCluster(c)
    /\ \/ Goto(c, "remove") /\ UNCHANGED reply
       \/ \E code \in {"NotFound", "Error"} : Answer(c, code, "restoreKube")
    /\ UNCHANGED <<request, ctxErr, slotVars, kubeVars, dockerVars>>

Remove(c) ==
    /\ pc[c] = "remove"
    /\ \/ Answer(c, "OK", "restoreKube")
       \/ \E code \in FailureCode(c, {"Error"}) : Answer(c, code, "restoreKube")
    /\ UNCHANGED <<request, ctxErr, slotVars, kubeVars, dockerVars, target>>

GetDeployedPackage(c) ==
    /\ pc[c] = "lookup"
    /\ ConnectCluster(c)
    /\ \E code \in {"OK", "NotFound", "Error"} : Answer(c, code, "restoreKube")
    /\ UNCHANGED <<request, ctxErr, slotVars, kubeVars, dockerVars>>

(* Health and ListDeployedPackages connect without taking kubeconfigMu. *)
Probe(c) ==
    /\ pc[c] = "probe"
    /\ ConnectCluster(c)
    /\ Goto(c, "query")
    /\ UNCHANGED <<request, ctxErr, slotVars, kubeVars, dockerVars, reply>>

Query(c) ==
    /\ pc[c] = "query"
    /\ Return(c)
    /\ \E code \in {"OK", "Error"} : reply' = [reply EXCEPT ![c] = code]
    /\ UNCHANGED <<ctxErr, slotVars, kubeVars, dockerVars>>

-----------------------------------------------------------------------------
(* One step of the handler itself, kubeconfigMu.Lock excepted. *)
Handle(c) ==
    \/ acquireOp(c) \/ waitForCancel(c) \/ reacquireOp(c)
    \/ applyRegistryCredentials(c) \/ loadPkg(c) \/ deployPkg(c) \/ verifyImgs(c)
    \/ Connect(c) \/ Remove(c) \/ GetDeployedPackage(c)
    \/ Probe(c) \/ Query(c)
    \/ registryCleanup(c) \/ kubeconfigCleanup(c) \/ releaseOp(c) \/ closeDone(c)

Next == \E c \in Calls :
    \/ \E r \in Requests : r.kind \in Methods /\ Receive(c, r)
    \/ \E e \in CallerErrors : CallerGone(c, e)
    \/ applyKubeconfig(c)
    \/ Handle(c)

(* The goroutines are scheduled, Zarf's work is bounded by its timeouts, the
   timer of acquireOp fires, and sync.Mutex starves no waiter. *)
Fairness == \A c \in Calls : WF_vars(Handle(c)) /\ SF_vars(applyKubeconfig(c))

SafetySpec == Init /\ [][Next]_vars
Spec == SafetySpec /\ Fairness

-----------------------------------------------------------------------------
(* Properties *)

(* The values the variables of the handlers and of the process can take. *)
TypeOK ==
    /\ pc \in [Calls -> PCs]
    /\ request \in [Calls -> Requests]
    /\ ctxErr \in [Calls -> CtxErrs]
    /\ current \in [Calls -> Calls \cup {NoCall}]
    /\ active \in Calls \cup {NoCall}
    /\ kubeconfigMu \in Calls \cup {NoCall}
    /\ KUBECONFIG \in Kubeconfigs \cup {InCluster}
    /\ DOCKER_CONFIG \in Credentials \cup {NoCredentials}
    /\ origKube \in [Calls -> Kubeconfigs \cup {InCluster}]
    /\ origDocker \in [Calls -> Credentials \cup {NoCredentials}]
    /\ target \in [Calls -> Kubeconfigs \cup {InCluster, NoCall}]
    /\ reply \in [Calls -> Replies]

(* The handler is past acquireOp and before the slot's cleanup. *)
InOperation(c) ==
    /\ kind(c) \in OpKinds
    /\ pc[c] \in {"kubeconfig", "credentials", "load", "deploy", "verify",
                  "connect", "remove", "restoreDocker", "restoreKube", "release"}

(* The handler is between applyKubeconfig and its cleanup. *)
UnderMutex(c) ==
    pc[c] \in {"credentials", "load", "deploy", "verify", "connect", "remove",
               "lookup", "restoreDocker", "restoreKube"}

(* The handler is between applyRegistryCredentials and its cleanup. *)
UnderCredentials(c) == pc[c] \in {"load", "deploy", "verify", "restoreDocker"}

(* Zarf never runs two deploys or removes at once, however acquireOp's
   waiters, timeouts and newcomers interleave with the cleanup that empties
   the slot before it wakes them. *)
OneOperationAtATime ==
    \A c, d \in Calls : InOperation(c) /\ InOperation(d) => c = d

(* Deploy, Remove and GetDeployedPackage work on the cluster their request
   names, and Deploy with its own registry credentials, although both are
   passed through process-wide environment variables. *)
OwnEnvironment ==
    \A c \in Calls :
        /\ UnderMutex(c) => KUBECONFIG = request[c].kubeconfig
        /\ UnderCredentials(c) => DOCKER_CONFIG = request[c].credentials

(* Every cluster that Deploy, Remove or GetDeployedPackage connected to, at
   whichever of their cluster.New calls, is the one their request names:
   Health and ListDeployedPackages are the only readers of KUBECONFIG that a
   concurrent override can mislead. *)
ConnectsWhereAsked ==
    \A c \in Calls :
        kind(c) # "probe" /\ target[c] # NoCall => target[c] = request[c].kubeconfig

(* Once no handler is between applyKubeconfig and its cleanup, the process
   has the environment it started with, whatever failed on the way. *)
EnvironmentRestored ==
    (\A c \in Calls : ~UnderMutex(c)) =>
        KUBECONFIG = InCluster /\ DOCKER_CONFIG = NoCredentials

(* A call that waits in acquireOp waits for a deploy which has been told to
   stop and which has yet to close its done channel: no lost wake-up. *)
WaitersAreOwedAWakeup ==
    \A w \in Calls :
        pc[w] = "wait" /\ current[w] # NoCall =>
            LET c == current[w] IN
                /\ kind(c) = "deploy"
                /\ ctxErr[c] # "none"
                /\ InOperation(c) \/ pc[c] = "close"

(* acquireOp refuses, and never cancels, while a remove is in progress: only
   deploys lose their context to a newer request, and only in the slot. *)
OnlyDeploysArePreempted ==
    \A c \in Calls :
        ctxErr[c] = "Preempted" /\ pc[c] # "returned" =>
            kind(c) = "deploy" /\ (InOperation(c) \/ pc[c] = "close")

(* A handler reports Canceled, which the controller requeues without counting
   a failure, only when its context really was cancelled. *)
CanceledMeansCancelled ==
    \A c \in Calls : reply[c] = "Canceled" => IsCanceled(c)

(* The handler without whose step c cannot take its own: the operation whose
   done channel acquireOp selects on, or the holder of kubeconfigMu. *)
Blocker(c) ==
    CASE pc[c] = "wait" -> current[c]
      [] pc[c] = "kubeconfig" -> kubeconfigMu
      [] OTHER -> NoCall

(* The slot is waited for before kubeconfigMu is locked and released after it
   is unlocked: no set of handlers waits for one another in a circle. *)
NoCircularWait ==
    \A S \in SUBSET Calls : S # {} => \E c \in S : Blocker(c) \notin S

(* Every call that arrives returns: no set of handlers blocks on the slot and
   on kubeconfigMu for ever. *)
EveryCallReturns ==
    \A c \in Calls : pc[c] # "idle" ~> pc[c] = "returned"

(* The operation in the slot, as the abstract specification sees it. *)
slotOp ==
    IF active = NoCall THEN NoCall
    ELSE [call |-> active, kind |-> kind(active), stop |-> ctxErr[active] = "Preempted"]

Slot == INSTANCE SingleOperation WITH NoOp <- NoCall, op <- slotOp

(* The slot starts, preempts and finishes operations as SingleOperation
   allows, and finishes each of them. *)
ImplementsSingleOperation == Slot!Spec

(* What the comment on kubeconfigMu says: a concurrent RPC with no kubeconfig
   cannot observe another RPC's temporary KUBECONFIG override. *)
OverrideNotObserved ==
    \A c \in Calls :
        request[c].kubeconfig = InCluster /\ target[c] # NoCall => target[c] = InCluster
=============================================================================
