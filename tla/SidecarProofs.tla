--------------------------- MODULE SidecarProofs ---------------------------
(***************************************************************************)
(* Safety of the sidecar for any number of handlers, kubeconfigs and       *)
(* credentials: the inductive invariant, the properties it implies, and    *)
(* the refinement of SingleOperation (its safety part).                    *)
(***************************************************************************)
EXTENDS Sidecar, TLAPS

(* The position of a handler agrees with the kind of its request. *)
PositionFitsKind(c) ==
    /\ pc[c] \in {"acquire", "wait", "reacquire", "release", "close"} => kind(c) \in OpKinds
    /\ pc[c] \in {"credentials", "load", "deploy", "verify", "restoreDocker"} =>
          kind(c) = "deploy"
    /\ pc[c] \in {"connect", "remove"} => kind(c) = "remove"
    /\ pc[c] = "lookup" => kind(c) = "get"
    /\ pc[c] \in {"kubeconfig", "restoreKube"} => kind(c) \in OpKinds \cup {"get"}

(* What the mutex protects while c holds it, and what c will restore. *)
OwnsEnvironment(c) ==
    /\ UnderMutex(c) => KUBECONFIG = request[c].kubeconfig /\ origKube[c] = InCluster
    /\ UnderCredentials(c) =>
          DOCKER_CONFIG = request[c].credentials /\ origDocker[c] = NoCredentials
    /\ UnderMutex(c) /\ ~UnderCredentials(c) => DOCKER_CONFIG = NoCredentials

(* What holds of each handler: it owns the slot exactly between acquireOp and
   its cleanup, and the mutex exactly between applyKubeconfig and its cleanup;
   it waits on an operation only in the select of acquireOp. *)
HandlerOK(c) ==
    /\ PositionFitsKind(c)
    /\ InOperation(c) <=> active = c
    /\ UnderMutex(c) <=> kubeconfigMu = c
    /\ OwnsEnvironment(c)
    /\ current[c] # NoCall => pc[c] = "wait"
    /\ ctxErr[c] = "Preempted" /\ pc[c] # "returned" =>
          kind(c) = "deploy" /\ (InOperation(c) \/ pc[c] = "close")
    /\ reply[c] = "Canceled" => IsCanceled(c)

(* Nobody's environment is in force while the mutex is free. *)
FreeMutexIsClean ==
    kubeconfigMu = NoCall => KUBECONFIG = InCluster /\ DOCKER_CONFIG = NoCredentials

(* Handler d is a deploy that was told to stop and has yet to close done. *)
Owes(d) ==
    /\ kind(d) = "deploy"
    /\ ctxErr[d] # "none"
    /\ InOperation(d) \/ pc[d] = "close"

WaitersAreOwed ==
    \A w \in Calls : pc[w] = "wait" /\ current[w] # NoCall => Owes(current[w])

IInv ==
    /\ TypeOK
    /\ \A c \in Calls : HandlerOK(c)
    /\ FreeMutexIsClean
    /\ WaitersAreOwed

-----------------------------------------------------------------------------
(* The request record left behind by a returned handler is well typed. *)
LEMMA NoRequestType == NoRequest \in Requests
BY DEF NoRequest, Requests, Kinds, OpKinds

(* The server starts with an empty slot, a free mutex and its own environment. *)
LEMMA InitIInv == Init => IInv
BY NilAssumption, NoRequestType DEF Init, IInv, TypeOK, HandlerOK, PositionFitsKind,
   OwnsEnvironment, FreeMutexIsClean, WaitersAreOwed, InOperation, UnderMutex,
   UnderCredentials, PCs, CtxErrs, Replies

(* Every step of a handler keeps the variables in their types. *)
LEMMA TypeStep == TypeOK /\ [Next]_vars => TypeOK'
  <1> SUFFICES ASSUME TypeOK, [Next]_vars PROVE TypeOK'
    OBVIOUS
  <1> USE NilAssumption, ClientAssumption, NoRequestType
      DEF TypeOK, slotVars, kubeVars, dockerVars, PCs, CtxErrs, Replies
  <1>1. ASSUME NEW c \in Calls, NEW r \in Requests, Receive(c, r) PROVE TypeOK'
    BY <1>1 DEF Receive, Answer, Goto, WellFormed
  <1>2. ASSUME NEW c \in Calls, NEW e \in CallerErrors, CallerGone(c, e) PROVE TypeOK'
    BY <1>2 DEF CallerGone
  <1>3. ASSUME NEW c \in Calls, acquireOp(c) PROVE TypeOK'
    BY <1>3 DEF acquireOp, TakeSlot, RefuseSlot, PreemptActive, Return, Goto
  <1>4. ASSUME NEW c \in Calls, waitForCancel(c) PROVE TypeOK'
    BY <1>4 DEF waitForCancel, RefuseSlot, Return, Goto
  <1>5. ASSUME NEW c \in Calls, reacquireOp(c) PROVE TypeOK'
    BY <1>5 DEF reacquireOp, TakeSlot, RefuseSlot, Return, Goto
  <1>6. ASSUME NEW c \in Calls, releaseOp(c) PROVE TypeOK'
    BY <1>6 DEF releaseOp, Goto
  <1>7. ASSUME NEW c \in Calls, closeDone(c) PROVE TypeOK'
    BY <1>7 DEF closeDone, Return, Goto
  <1>8. ASSUME NEW c \in Calls, applyKubeconfig(c) PROVE TypeOK'
    <2>1. request[c].kubeconfig \in Kubeconfigs \cup {InCluster}
      BY <1>8 DEF Requests
    <2> QED
      BY <1>8, <2>1 DEF applyKubeconfig, LeaveMutex, Return, Goto
  <1>9. ASSUME NEW c \in Calls, kubeconfigCleanup(c) PROVE TypeOK'
    BY <1>9 DEF kubeconfigCleanup, LeaveMutex, Return, Goto
  <1>10. ASSUME NEW c \in Calls, applyRegistryCredentials(c) PROVE TypeOK'
    <2>1. request[c].credentials \in Credentials \cup {NoCredentials}
      BY <1>10 DEF Requests
    <2> QED
      BY <1>10, <2>1 DEF applyRegistryCredentials, ConnectCluster, Answer, Goto
  <1>11. ASSUME NEW c \in Calls, registryCleanup(c) PROVE TypeOK'
    BY <1>11 DEF registryCleanup, Goto
  <1>12. ASSUME NEW c \in Calls, loadPkg(c) PROVE TypeOK'
    BY <1>12 DEF loadPkg, FailureCode, classifyOCIError, Answer, Goto
  <1>13. ASSUME NEW c \in Calls, deployPkg(c) PROVE TypeOK'
    BY <1>13 DEF deployPkg, ConnectCluster, FailureCode, classifyDeployError, Answer, Goto
  <1>14. ASSUME NEW c \in Calls, verifyImgs(c) PROVE TypeOK'
    BY <1>14 DEF verifyImgs, ConnectCluster, classifyOCIError, Answer, Goto
  <1>15. ASSUME NEW c \in Calls, Connect(c) PROVE TypeOK'
    BY <1>15 DEF Connect, ConnectCluster, Answer, Goto
  <1>16. ASSUME NEW c \in Calls, Remove(c) PROVE TypeOK'
    BY <1>16 DEF Remove, FailureCode, Answer, Goto
  <1>17. ASSUME NEW c \in Calls, GetDeployedPackage(c) PROVE TypeOK'
    BY <1>17 DEF GetDeployedPackage, ConnectCluster, Answer, Goto
  <1>18. ASSUME NEW c \in Calls, Probe(c) PROVE TypeOK'
    BY <1>18 DEF Probe, ConnectCluster, Goto
  <1>19. ASSUME NEW c \in Calls, Query(c) PROVE TypeOK'
    BY <1>19 DEF Query, Return, Goto
  <1>20. CASE UNCHANGED vars
    BY <1>20 DEF vars
  <1> QED
    BY <1>1, <1>2, <1>3, <1>4, <1>5, <1>6, <1>7, <1>8, <1>9, <1>10, <1>11, <1>12,
       <1>13, <1>14, <1>15, <1>16, <1>17, <1>18, <1>19, <1>20 DEF Next, Handle

(* Handler d does not move: it keeps what it has, at most the operation it
   waits for is over, and so does the environment if d holds the mutex. *)
Still(d) ==
    /\ pc'[d] = pc[d] /\ request'[d] = request[d] /\ reply'[d] = reply[d]
    /\ ctxErr'[d] = ctxErr[d]
    /\ origKube'[d] = origKube[d] /\ origDocker'[d] = origDocker[d]
    /\ current'[d] \in {current[d], NoCall}
    /\ active' = d <=> active = d
    /\ kubeconfigMu' = d <=> kubeconfigMu = d
    /\ kubeconfigMu = d => UNCHANGED <<KUBECONFIG, DOCKER_CONFIG>>

OnlyMoves(c) == \A d \in Calls \ {c} : Still(d)

(* The invariant of a handler that did not move is not disturbed. *)
LEMMA StillOK ==
    ASSUME NEW d \in Calls, Still(d), HandlerOK(d)
    PROVE  HandlerOK(d)' /\ (Owes(d) => Owes(d)')
  <1>1. /\ PositionFitsKind(d)' <=> PositionFitsKind(d)
        /\ InOperation(d)' <=> InOperation(d)
        /\ UnderMutex(d)' <=> UnderMutex(d)
        /\ UnderCredentials(d)' <=> UnderCredentials(d)
        /\ IsCanceled(d)' <=> IsCanceled(d)
        /\ kind(d)' = kind(d)
    BY DEF Still, PositionFitsKind, InOperation, UnderMutex, UnderCredentials, IsCanceled, kind
  <1>2. UnderCredentials(d) => UnderMutex(d)
    BY DEF UnderCredentials, UnderMutex
  <1>3. OwnsEnvironment(d)'
    BY <1>1, <1>2 DEF Still, HandlerOK, OwnsEnvironment
  <1>4. Owes(d) => Owes(d)'
    BY <1>1 DEF Still, Owes
  <1> QED
    BY <1>1, <1>3, <1>4 DEF Still, HandlerOK

(* The waiters of acquireOp stay owed their wake-up by a step of c that makes
   no new waiter, if c still owes what it owed or nobody waits for c. *)
LEMMA WaitersKept ==
    ASSUME TypeOK, WaitersAreOwed, NEW c \in Calls, OnlyMoves(c),
           pc'[c] = "wait" => pc[c] = "wait" /\ current'[c] \in {current[c], NoCall},
           (Owes(c) => Owes(c)') \/ \A w \in Calls : current'[w] # c
    PROVE  WaitersAreOwed'
  <1>1. \A d \in Calls : Owes(d) => Owes(d)' \/ \A w \in Calls : current'[w] # d
    BY DEF OnlyMoves, Still, Owes, kind, InOperation
  <1> SUFFICES ASSUME NEW w \in Calls, pc'[w] = "wait", current'[w] # NoCall
               PROVE  Owes(current[w])'
    BY DEF WaitersAreOwed
  <1>2. pc[w] = "wait" /\ current'[w] = current[w]
    BY DEF OnlyMoves, Still
  <1>3. PICK d \in Calls : d = current[w] /\ d = current'[w] /\ Owes(d)
    BY <1>2 DEF TypeOK, WaitersAreOwed
  <1> QED
    BY <1>1, <1>3 DEF Owes, kind, InOperation

(* A step of one handler preserves the invariant if it leaves that handler, the
   free mutex and the waiters as they should be. *)
LEMMA OneHandler ==
    ASSUME IInv, TypeOK', NEW c \in Calls, OnlyMoves(c), HandlerOK(c)', FreeMutexIsClean',
           pc'[c] = "wait" => pc[c] = "wait" /\ current'[c] \in {current[c], NoCall},
           (Owes(c) => Owes(c)') \/ \A w \in Calls : current'[w] # c
    PROVE  IInv'
  <1>1. \A d \in Calls : HandlerOK(d)'
    BY StillOK DEF IInv, OnlyMoves
  <1>2. WaitersAreOwed'
    BY WaitersKept DEF IInv
  <1> QED
    BY <1>1, <1>2 DEF IInv

(* Every step of a handler preserves the inductive invariant. *)
LEMMA NextIInv == IInv /\ [Next]_vars => IInv'
  <1> SUFFICES ASSUME IInv, [Next]_vars PROVE IInv'
    OBVIOUS
  <1>0. TypeOK /\ TypeOK' /\ FreeMutexIsClean /\ \A c \in Calls : HandlerOK(c)
    BY TypeStep DEF IInv
  <1> USE NilAssumption, ClientAssumption
  <1>1. ASSUME NEW c \in Calls, NEW r \in Requests, Receive(c, r) PROVE IInv'
    <2> USE <1>1 DEF Receive, Answer, Goto, WellFormed, TypeOK, slotVars, kubeVars, dockerVars
    <2>1. HandlerOK(c) /\ TypeOK /\ FreeMutexIsClean
      BY <1>0
    <2>2. OnlyMoves(c)
      BY <2>1 DEF OnlyMoves, Still, HandlerOK, UnderMutex
    <2>3. PositionFitsKind(c)'
      BY <2>1 DEF HandlerOK, PositionFitsKind, kind, OpKinds
    <2>4. OwnsEnvironment(c)' /\ FreeMutexIsClean'
      BY <2>1 DEF HandlerOK, PositionFitsKind, OwnsEnvironment, FreeMutexIsClean, UnderMutex,
         UnderCredentials
    <2>5. HandlerOK(c)'
      BY <2>1, <2>3, <2>4 DEF HandlerOK, PositionFitsKind, kind, OpKinds, InOperation,
         UnderMutex, IsCanceled
    <2>6. pc'[c] = "wait" => pc[c] = "wait" /\ current'[c] \in {current[c], NoCall}
      BY <2>1
    <2>7. Owes(c) => Owes(c)'
      BY <2>1 DEF HandlerOK, PositionFitsKind, Owes, kind, OpKinds, InOperation
    <2> QED
      BY <1>0, <2>2, <2>4, <2>5, <2>6, <2>7, OneHandler, Zenon
  <1>2. ASSUME NEW c \in Calls, NEW e \in CallerErrors, CallerGone(c, e) PROVE IInv'
    <2> USE <1>2 DEF CallerGone, TypeOK, slotVars, kubeVars, dockerVars
    <2>1. HandlerOK(c) /\ TypeOK /\ FreeMutexIsClean
      BY <1>0
    <2>2. OnlyMoves(c)
      BY <2>1 DEF OnlyMoves, Still, HandlerOK, UnderMutex
    <2>3. PositionFitsKind(c)'
      BY <2>1 DEF HandlerOK, PositionFitsKind, kind, OpKinds
    <2>4. OwnsEnvironment(c)' /\ FreeMutexIsClean'
      BY <2>1 DEF HandlerOK, PositionFitsKind, OwnsEnvironment, FreeMutexIsClean, UnderMutex,
         UnderCredentials
    <2>5. HandlerOK(c)'
      BY <2>1, <2>3, <2>4 DEF HandlerOK, PositionFitsKind, kind, OpKinds, InOperation,
         UnderMutex, IsCanceled
    <2>6. pc'[c] = "wait" => pc[c] = "wait" /\ current'[c] \in {current[c], NoCall}
      BY <2>1
    <2>7. Owes(c) => Owes(c)'
      BY <2>1 DEF HandlerOK, PositionFitsKind, Owes, kind, OpKinds, InOperation
    <2> QED
      BY <1>0, <2>2, <2>4, <2>5, <2>6, <2>7, OneHandler, Zenon
  <1>3. ASSUME NEW c \in Calls, pc[c] = "acquire" \/ pc[c] = "reacquire", TakeSlot(c),
               UNCHANGED <<kubeVars, dockerVars>>
        PROVE IInv'
    <2> USE <1>3 DEF TakeSlot, Goto, TypeOK,
           slotVars, kubeVars, dockerVars
    <2>1. HandlerOK(c) /\ TypeOK /\ FreeMutexIsClean
      BY <1>0
    <2>2. OnlyMoves(c)
      BY <2>1 DEF OnlyMoves, Still, HandlerOK, UnderMutex
    <2>3. PositionFitsKind(c)'
      BY <2>1 DEF HandlerOK, PositionFitsKind, kind, OpKinds
    <2>4. OwnsEnvironment(c)' /\ FreeMutexIsClean'
      BY <2>1 DEF HandlerOK, PositionFitsKind, OwnsEnvironment, FreeMutexIsClean, UnderMutex,
         UnderCredentials
    <2>5. HandlerOK(c)'
      BY <2>1, <2>3, <2>4 DEF HandlerOK, PositionFitsKind, kind, OpKinds, InOperation,
         UnderMutex, IsCanceled
    <2>6. pc'[c] = "wait" => pc[c] = "wait" /\ current'[c] \in {current[c], NoCall}
      BY <2>1
    <2>7. Owes(c) => Owes(c)'
      BY <2>1 DEF HandlerOK, PositionFitsKind, Owes, kind, OpKinds, InOperation
    <2> QED
      BY <1>0, <2>2, <2>4, <2>5, <2>6, <2>7, OneHandler, Zenon
  <1>4. ASSUME NEW c \in Calls, NEW code \in Replies, pc[c] \in {"acquire", "wait", "reacquire"},
               RefuseSlot(c, code),
               code = "Canceled" => IsCanceled(c), UNCHANGED <<kubeVars, dockerVars>>
        PROVE IInv'
    <2> USE <1>4 DEF RefuseSlot, Return, Goto, NoRequest, TypeOK,
           slotVars, kubeVars, dockerVars
    <2>1. HandlerOK(c) /\ TypeOK /\ FreeMutexIsClean
      BY <1>0
    <2>2. OnlyMoves(c)
      BY <2>1 DEF OnlyMoves, Still, HandlerOK, UnderMutex
    <2>3. PositionFitsKind(c)'
      BY <2>1 DEF HandlerOK, PositionFitsKind, kind, OpKinds
    <2>4. OwnsEnvironment(c)' /\ FreeMutexIsClean'
      BY <2>1 DEF HandlerOK, PositionFitsKind, OwnsEnvironment, FreeMutexIsClean, UnderMutex,
         UnderCredentials
    <2>5. HandlerOK(c)'
      BY <2>1, <2>3, <2>4 DEF HandlerOK, PositionFitsKind, kind, OpKinds, InOperation,
         UnderMutex, IsCanceled
    <2>6. pc'[c] = "wait" => pc[c] = "wait" /\ current'[c] \in {current[c], NoCall}
      BY <2>1
    <2>7. Owes(c) => Owes(c)'
      BY <2>1 DEF HandlerOK, PositionFitsKind, Owes, kind, OpKinds, InOperation
    <2> QED
      BY <1>0, <2>2, <2>4, <2>5, <2>6, <2>7, OneHandler, Zenon
  <1>5. ASSUME NEW c \in Calls, pc[c] = "acquire", PreemptActive(c),
               UNCHANGED <<kubeVars, dockerVars>>
        PROVE IInv'
    <2>1. PICK a \in Calls : a = active /\ HandlerOK(a) /\ a # c
      BY <1>0, <1>5 DEF PreemptActive, HandlerOK, InOperation
    <2>2. /\ kind(a) = "deploy" /\ InOperation(a) /\ current' = [current EXCEPT ![c] = a]
          /\ pc' = [pc EXCEPT ![c] = "wait"] /\ active' = a
          /\ ctxErr' = [ctxErr EXCEPT ![a] = IF @ = "none" THEN "Preempted" ELSE @]
          /\ UNCHANGED <<request, reply, kubeVars, dockerVars>>
      BY <1>5, <2>1 DEF PreemptActive, Goto, HandlerOK, InOperation, OpKinds
    <2>3. HandlerOK(c)'
      <3>1. HandlerOK(c)
        BY <1>0
      <3>2. /\ pc'[c] = "wait" /\ request'[c] = request[c] /\ ctxErr'[c] = ctxErr[c]
            /\ reply'[c] = reply[c]
        BY <1>0, <2>1, <2>2 DEF TypeOK
      <3> QED
        BY <1>5, <2>1, <2>2, <3>1, <3>2 DEF kubeVars, HandlerOK, PositionFitsKind,
           OwnsEnvironment, kind, OpKinds, InOperation, UnderMutex, UnderCredentials, IsCanceled
    <2>4. HandlerOK(a)' /\ Owes(a)'
      <3>1. /\ pc'[a] = pc[a] /\ request'[a] = request[a] /\ reply'[a] = reply[a]
            /\ current'[a] = current[a]
            /\ ctxErr'[a] = IF ctxErr[a] = "none" THEN "Preempted" ELSE ctxErr[a]
        BY <1>0, <2>1, <2>2 DEF TypeOK
      <3>2. PositionFitsKind(a)' /\ OwnsEnvironment(a)'
        BY <2>1, <2>2, <3>1 DEF HandlerOK, PositionFitsKind, OwnsEnvironment, kind, UnderMutex,
           UnderCredentials, kubeVars, dockerVars
      <3>3. /\ kind(a)' = kind(a) /\ InOperation(a)' /\ ctxErr'[a] # "none"
            /\ UnderMutex(a)' <=> UnderMutex(a)
            /\ IsCanceled(a) => IsCanceled(a)'
        BY <2>2, <3>1 DEF kind, InOperation, UnderMutex, IsCanceled
      <3> QED
        BY <2>1, <2>2, <3>1, <3>2, <3>3, Zenon DEF kubeVars, HandlerOK, Owes
    <2>5. \A d \in Calls \ {a, c} : HandlerOK(d)' /\ (Owes(d) => Owes(d)')
      <3>1. \A d \in Calls \ {a, c} : Still(d)
        BY <1>0, <2>1, <2>2 DEF TypeOK, Still, kubeVars, dockerVars
      <3> QED
        BY <1>0, <3>1, StillOK
    <2>6. FreeMutexIsClean'
      BY <1>0, <2>2 DEF FreeMutexIsClean, kubeVars, dockerVars
    <2>7. WaitersAreOwed'
      <3> SUFFICES ASSUME NEW w \in Calls, pc'[w] = "wait", current'[w] # NoCall
                   PROVE  Owes(current[w])'
        BY DEF WaitersAreOwed
      <3>1. CASE current'[w] = a
        BY <2>4, <3>1 DEF Owes, kind, InOperation
      <3>2. CASE current'[w] # a
        <4>1. w # c /\ pc[w] = "wait" /\ current[w] # NoCall /\ current'[w] = current[w]
          BY <1>0, <2>2, <3>2 DEF TypeOK
        <4>2. PICK d \in Calls : d = current[w] /\ d = current'[w] /\ Owes(d) /\ d # a
          BY <3>2, <4>1 DEF IInv, TypeOK, WaitersAreOwed
        <4>3. d # c
          BY <1>5, <4>2 DEF Owes, InOperation
        <4> QED
          BY <2>5, <4>2, <4>3 DEF Owes, kind, InOperation
      <3> QED
        BY <3>1, <3>2
    <2> QED
      BY <1>0, <2>3, <2>4, <2>5, <2>6, <2>7 DEF IInv
  <1>6. ASSUME NEW c \in Calls, pc[c] = "wait", current[c] = NoCall, Goto(c, "reacquire"),
               UNCHANGED <<slotVars, ctxErr, request, target, reply, kubeVars, dockerVars>>
        PROVE IInv'
    <2> USE <1>6 DEF Goto, TypeOK, slotVars, kubeVars, dockerVars
    <2>1. HandlerOK(c) /\ TypeOK /\ FreeMutexIsClean
      BY <1>0
    <2>2. OnlyMoves(c)
      BY <2>1 DEF OnlyMoves, Still, HandlerOK, UnderMutex
    <2>3. PositionFitsKind(c)'
      BY <2>1 DEF HandlerOK, PositionFitsKind, kind, OpKinds
    <2>4. OwnsEnvironment(c)' /\ FreeMutexIsClean'
      BY <2>1 DEF HandlerOK, PositionFitsKind, OwnsEnvironment, FreeMutexIsClean, UnderMutex,
         UnderCredentials
    <2>5. HandlerOK(c)'
      BY <2>1, <2>3, <2>4 DEF HandlerOK, PositionFitsKind, kind, OpKinds, InOperation,
         UnderMutex, IsCanceled
    <2>6. pc'[c] = "wait" => pc[c] = "wait" /\ current'[c] \in {current[c], NoCall}
      BY <2>1
    <2>7. Owes(c) => Owes(c)'
      BY <2>1 DEF HandlerOK, PositionFitsKind, Owes, kind, OpKinds, InOperation
    <2> QED
      BY <1>0, <2>2, <2>4, <2>5, <2>6, <2>7, OneHandler, Zenon
  <1>7. ASSUME NEW c \in Calls, releaseOp(c) PROVE IInv'
    <2> USE <1>7 DEF releaseOp, Goto, TypeOK,
           slotVars, kubeVars, dockerVars
    <2>1. HandlerOK(c) /\ TypeOK /\ FreeMutexIsClean
      BY <1>0
    <2>2. OnlyMoves(c)
      BY <2>1 DEF OnlyMoves, Still, HandlerOK, UnderMutex, PositionFitsKind, InOperation, OpKinds
    <2>3. PositionFitsKind(c)'
      BY <2>1 DEF HandlerOK, PositionFitsKind, kind, OpKinds
    <2>4. OwnsEnvironment(c)' /\ FreeMutexIsClean'
      BY <2>1 DEF HandlerOK, PositionFitsKind, OwnsEnvironment, FreeMutexIsClean, UnderMutex,
         UnderCredentials
    <2>5. HandlerOK(c)'
      BY <2>1, <2>3, <2>4 DEF HandlerOK, PositionFitsKind, kind, OpKinds, InOperation,
         UnderMutex, IsCanceled
    <2>6. pc'[c] = "wait" => pc[c] = "wait" /\ current'[c] \in {current[c], NoCall}
      BY <2>1
    <2>7. Owes(c) => Owes(c)'
      BY <2>1 DEF HandlerOK, PositionFitsKind, Owes, kind, OpKinds, InOperation
    <2> QED
      BY <1>0, <2>2, <2>4, <2>5, <2>6, <2>7, OneHandler, Zenon
  <1>8. ASSUME NEW c \in Calls, closeDone(c) PROVE IInv'
    <2> USE <1>8 DEF closeDone, Return, Goto, NoRequest, TypeOK,
           slotVars, kubeVars, dockerVars
    <2>1. HandlerOK(c) /\ TypeOK /\ FreeMutexIsClean
      BY <1>0
    <2>2. OnlyMoves(c)
      BY <2>1 DEF OnlyMoves, Still, HandlerOK, UnderMutex
    <2>3. PositionFitsKind(c)'
      BY <2>1 DEF HandlerOK, PositionFitsKind, kind, OpKinds
    <2>4. OwnsEnvironment(c)' /\ FreeMutexIsClean'
      BY <2>1 DEF HandlerOK, PositionFitsKind, OwnsEnvironment, FreeMutexIsClean, UnderMutex,
         UnderCredentials
    <2>5. HandlerOK(c)'
      BY <2>1, <2>3, <2>4 DEF HandlerOK, PositionFitsKind, kind, OpKinds, InOperation,
         UnderMutex, IsCanceled
    <2>6. pc'[c] = "wait" => pc[c] = "wait" /\ current'[c] \in {current[c], NoCall}
      BY <2>1
    <2>7. \A w \in Calls : current'[w] # c
      BY <2>1 DEF HandlerOK, PositionFitsKind, Owes, kind, OpKinds, InOperation
    <2> QED
      BY <1>0, <2>2, <2>4, <2>5, <2>6, <2>7, OneHandler, Zenon
  <1>9. ASSUME NEW c \in Calls, applyKubeconfig(c) PROVE IInv'
    <2> USE <1>9 DEF applyKubeconfig, LeaveMutex, Return, Goto, NoRequest, TypeOK,
           slotVars, kubeVars, dockerVars
    <2>1. HandlerOK(c) /\ TypeOK /\ FreeMutexIsClean
      BY <1>0
    <2>2. OnlyMoves(c)
      BY <2>1 DEF OnlyMoves, Still, HandlerOK, UnderMutex
    <2>3. PositionFitsKind(c)'
      BY <2>1 DEF HandlerOK, PositionFitsKind, kind, OpKinds
    <2>4. OwnsEnvironment(c)' /\ FreeMutexIsClean'
      BY <2>1 DEF HandlerOK, PositionFitsKind, OwnsEnvironment, FreeMutexIsClean, UnderMutex,
         UnderCredentials
    <2>5. HandlerOK(c)'
      BY <2>1, <2>3, <2>4 DEF HandlerOK, PositionFitsKind, kind, OpKinds, InOperation,
         UnderMutex, IsCanceled
    <2>6. pc'[c] = "wait" => pc[c] = "wait" /\ current'[c] \in {current[c], NoCall}
      BY <2>1
    <2>7. Owes(c) => Owes(c)'
      BY <2>1 DEF HandlerOK, PositionFitsKind, Owes, kind, OpKinds, InOperation
    <2> QED
      BY <1>0, <2>2, <2>4, <2>5, <2>6, <2>7, OneHandler, Zenon
  <1>10. ASSUME NEW c \in Calls, kubeconfigCleanup(c) PROVE IInv'
    <2>1. HandlerOK(c) /\ TypeOK /\ FreeMutexIsClean
      BY <1>0
    <2>2. /\ pc[c] = "restoreKube" /\ kubeconfigMu = c /\ kubeconfigMu' = NoCall
          /\ UNCHANGED <<active, current, ctxErr, reply, origKube, DOCKER_CONFIG, origDocker>>
      BY <1>10, <2>1 DEF kubeconfigCleanup, slotVars, dockerVars, HandlerOK, UnderMutex
    <2>3. KUBECONFIG' = InCluster /\ DOCKER_CONFIG' = NoCredentials
      BY <1>10, <2>1, <2>2 DEF kubeconfigCleanup, HandlerOK, OwnsEnvironment, UnderMutex,
         UnderCredentials
    <2>4. \/ kind(c) \in OpKinds /\ pc'[c] = "release" /\ request' = request
          \/ kind(c) \notin OpKinds /\ pc'[c] = "returned"
      BY <1>10, <2>1 DEF kubeconfigCleanup, LeaveMutex, Return, Goto, TypeOK
    <2>5. OnlyMoves(c)
      BY <1>10, <2>1, <2>2 DEF OnlyMoves, Still, kubeconfigCleanup, LeaveMutex, Return, Goto, TypeOK
    <2>6. OwnsEnvironment(c)' /\ FreeMutexIsClean'
      BY <2>3, <2>4 DEF OwnsEnvironment, FreeMutexIsClean, UnderMutex, UnderCredentials
    <2>7. HandlerOK(c)'
      BY <2>1, <2>2, <2>4, <2>6 DEF HandlerOK, PositionFitsKind, kind, OpKinds, InOperation,
         UnderMutex, IsCanceled
    <2>8. Owes(c) => Owes(c)'
      BY <2>2, <2>4 DEF Owes, kind, OpKinds, InOperation
    <2> QED
      BY <1>0, <2>4, <2>5, <2>6, <2>7, <2>8, OneHandler, Zenon
  <1>11. ASSUME NEW c \in Calls, applyRegistryCredentials(c) PROVE IInv'
    <2>1. HandlerOK(c) /\ TypeOK /\ FreeMutexIsClean
      BY <1>0
    <2>2. /\ pc[c] = "credentials" /\ kubeconfigMu = c
          /\ UNCHANGED <<request, ctxErr, active, current, kubeconfigMu, KUBECONFIG, origKube>>
      BY <1>11, <2>1 DEF applyRegistryCredentials, slotVars, kubeVars, HandlerOK, UnderMutex
    <2>3. \/ /\ pc'[c] = "load" /\ reply'[c] = reply[c]
             /\ DOCKER_CONFIG' = request[c].credentials /\ origDocker'[c] = NoCredentials
          \/ /\ pc'[c] = "restoreKube" /\ reply'[c] = "Error"
             /\ DOCKER_CONFIG' = NoCredentials
      BY <1>11, <2>1, <2>2 DEF applyRegistryCredentials, Answer, Goto, TypeOK, dockerVars,
         HandlerOK, OwnsEnvironment, UnderMutex, UnderCredentials
    <2>4. OnlyMoves(c)
      BY <1>11, <2>1, <2>2 DEF OnlyMoves, Still, applyRegistryCredentials, Answer, Goto, TypeOK,
         dockerVars
    <2>5. OwnsEnvironment(c)' /\ FreeMutexIsClean'
      BY <2>1, <2>2, <2>3 DEF HandlerOK, OwnsEnvironment, FreeMutexIsClean, UnderMutex,
         UnderCredentials
    <2>6. HandlerOK(c)'
      BY <2>1, <2>2, <2>3, <2>5 DEF HandlerOK, PositionFitsKind, kind, OpKinds, InOperation,
         UnderMutex, IsCanceled
    <2>7. Owes(c) => Owes(c)'
      BY <2>2, <2>3 DEF Owes, kind, InOperation
    <2> QED
      BY <1>0, <2>3, <2>4, <2>5, <2>6, <2>7, OneHandler, Zenon
  <1>12. ASSUME NEW c \in Calls, registryCleanup(c) PROVE IInv'
    <2> USE <1>12 DEF registryCleanup, Goto, TypeOK,
           slotVars, kubeVars, dockerVars
    <2>1. HandlerOK(c) /\ TypeOK /\ FreeMutexIsClean
      BY <1>0
    <2>2. OnlyMoves(c)
      BY <2>1 DEF OnlyMoves, Still, HandlerOK, UnderMutex
    <2>3. PositionFitsKind(c)'
      BY <2>1 DEF HandlerOK, PositionFitsKind, kind, OpKinds
    <2>4. OwnsEnvironment(c)' /\ FreeMutexIsClean'
      BY <2>1 DEF HandlerOK, PositionFitsKind, OwnsEnvironment, FreeMutexIsClean, UnderMutex,
         UnderCredentials
    <2>5. HandlerOK(c)'
      BY <2>1, <2>3, <2>4 DEF HandlerOK, PositionFitsKind, kind, OpKinds, InOperation,
         UnderMutex, IsCanceled
    <2>6. pc'[c] = "wait" => pc[c] = "wait" /\ current'[c] \in {current[c], NoCall}
      BY <2>1
    <2>7. Owes(c) => Owes(c)'
      BY <2>1 DEF HandlerOK, PositionFitsKind, Owes, kind, OpKinds, InOperation
    <2> QED
      BY <1>0, <2>2, <2>4, <2>5, <2>6, <2>7, OneHandler, Zenon
  <1>13. ASSUME NEW c \in Calls, loadPkg(c) PROVE IInv'
    <2> USE <1>13 DEF loadPkg, FailureCode, classifyOCIError, Answer, Goto, TypeOK,
           slotVars, kubeVars, dockerVars
    <2>1. HandlerOK(c) /\ TypeOK /\ FreeMutexIsClean
      BY <1>0
    <2>2. OnlyMoves(c)
      BY <2>1 DEF OnlyMoves, Still, HandlerOK, UnderMutex
    <2>3. PositionFitsKind(c)'
      BY <2>1 DEF HandlerOK, PositionFitsKind, kind, OpKinds
    <2>4. OwnsEnvironment(c)' /\ FreeMutexIsClean'
      BY <2>1 DEF HandlerOK, PositionFitsKind, OwnsEnvironment, FreeMutexIsClean, UnderMutex,
         UnderCredentials
    <2>5. HandlerOK(c)'
      BY <2>1, <2>3, <2>4 DEF HandlerOK, PositionFitsKind, kind, OpKinds, InOperation,
         UnderMutex, IsCanceled
    <2>6. pc'[c] = "wait" => pc[c] = "wait" /\ current'[c] \in {current[c], NoCall}
      BY <2>1
    <2>7. Owes(c) => Owes(c)'
      BY <2>1 DEF HandlerOK, PositionFitsKind, Owes, kind, OpKinds, InOperation
    <2> QED
      BY <1>0, <2>2, <2>4, <2>5, <2>6, <2>7, OneHandler, Zenon
  <1>14. ASSUME NEW c \in Calls, deployPkg(c) PROVE IInv'
    <2> USE <1>14 DEF deployPkg, FailureCode, classifyDeployError, Answer, Goto, TypeOK,
           slotVars, kubeVars, dockerVars
    <2>1. HandlerOK(c) /\ TypeOK /\ FreeMutexIsClean
      BY <1>0
    <2>2. OnlyMoves(c)
      BY <2>1 DEF OnlyMoves, Still, HandlerOK, UnderMutex
    <2>3. PositionFitsKind(c)'
      BY <2>1 DEF HandlerOK, PositionFitsKind, kind, OpKinds
    <2>4. OwnsEnvironment(c)' /\ FreeMutexIsClean'
      BY <2>1 DEF HandlerOK, PositionFitsKind, OwnsEnvironment, FreeMutexIsClean, UnderMutex,
         UnderCredentials
    <2>5. HandlerOK(c)'
      BY <2>1, <2>3, <2>4 DEF HandlerOK, PositionFitsKind, kind, OpKinds, InOperation,
         UnderMutex, IsCanceled
    <2>6. pc'[c] = "wait" => pc[c] = "wait" /\ current'[c] \in {current[c], NoCall}
      BY <2>1
    <2>7. Owes(c) => Owes(c)'
      BY <2>1 DEF HandlerOK, PositionFitsKind, Owes, kind, OpKinds, InOperation
    <2> QED
      BY <1>0, <2>2, <2>4, <2>5, <2>6, <2>7, OneHandler, Zenon
  <1>15. ASSUME NEW c \in Calls, verifyImgs(c) PROVE IInv'
    <2> USE <1>15 DEF verifyImgs, classifyOCIError, Answer, Goto, TypeOK,
           slotVars, kubeVars, dockerVars
    <2>1. HandlerOK(c) /\ TypeOK /\ FreeMutexIsClean
      BY <1>0
    <2>2. OnlyMoves(c)
      BY <2>1 DEF OnlyMoves, Still, HandlerOK, UnderMutex
    <2>3. PositionFitsKind(c)'
      BY <2>1 DEF HandlerOK, PositionFitsKind, kind, OpKinds
    <2>4. OwnsEnvironment(c)' /\ FreeMutexIsClean'
      BY <2>1 DEF HandlerOK, PositionFitsKind, OwnsEnvironment, FreeMutexIsClean, UnderMutex,
         UnderCredentials
    <2>5. HandlerOK(c)'
      BY <2>1, <2>3, <2>4 DEF HandlerOK, PositionFitsKind, kind, OpKinds, InOperation,
         UnderMutex, IsCanceled
    <2>6. pc'[c] = "wait" => pc[c] = "wait" /\ current'[c] \in {current[c], NoCall}
      BY <2>1
    <2>7. Owes(c) => Owes(c)'
      BY <2>1 DEF HandlerOK, PositionFitsKind, Owes, kind, OpKinds, InOperation
    <2> QED
      BY <1>0, <2>2, <2>4, <2>5, <2>6, <2>7, OneHandler, Zenon
  <1>16. ASSUME NEW c \in Calls, Connect(c) PROVE IInv'
    <2> USE <1>16 DEF Connect, Answer, Goto, TypeOK,
           slotVars, kubeVars, dockerVars
    <2>1. HandlerOK(c) /\ TypeOK /\ FreeMutexIsClean
      BY <1>0
    <2>2. OnlyMoves(c)
      BY <2>1 DEF OnlyMoves, Still, HandlerOK, UnderMutex
    <2>3. PositionFitsKind(c)'
      BY <2>1 DEF HandlerOK, PositionFitsKind, kind, OpKinds
    <2>4. OwnsEnvironment(c)' /\ FreeMutexIsClean'
      BY <2>1 DEF HandlerOK, PositionFitsKind, OwnsEnvironment, FreeMutexIsClean, UnderMutex,
         UnderCredentials
    <2>5. HandlerOK(c)'
      BY <2>1, <2>3, <2>4 DEF HandlerOK, PositionFitsKind, kind, OpKinds, InOperation,
         UnderMutex, IsCanceled
    <2>6. pc'[c] = "wait" => pc[c] = "wait" /\ current'[c] \in {current[c], NoCall}
      BY <2>1
    <2>7. Owes(c) => Owes(c)'
      BY <2>1 DEF HandlerOK, PositionFitsKind, Owes, kind, OpKinds, InOperation
    <2> QED
      BY <1>0, <2>2, <2>4, <2>5, <2>6, <2>7, OneHandler, Zenon
  <1>17. ASSUME NEW c \in Calls, Remove(c) PROVE IInv'
    <2> USE <1>17 DEF Remove, FailureCode, Answer, Goto, TypeOK,
           slotVars, kubeVars, dockerVars
    <2>1. HandlerOK(c) /\ TypeOK /\ FreeMutexIsClean
      BY <1>0
    <2>2. OnlyMoves(c)
      BY <2>1 DEF OnlyMoves, Still, HandlerOK, UnderMutex
    <2>3. PositionFitsKind(c)'
      BY <2>1 DEF HandlerOK, PositionFitsKind, kind, OpKinds
    <2>4. OwnsEnvironment(c)' /\ FreeMutexIsClean'
      BY <2>1 DEF HandlerOK, PositionFitsKind, OwnsEnvironment, FreeMutexIsClean, UnderMutex,
         UnderCredentials
    <2>5. HandlerOK(c)'
      BY <2>1, <2>3, <2>4 DEF HandlerOK, PositionFitsKind, kind, OpKinds, InOperation,
         UnderMutex, IsCanceled
    <2>6. pc'[c] = "wait" => pc[c] = "wait" /\ current'[c] \in {current[c], NoCall}
      BY <2>1
    <2>7. Owes(c) => Owes(c)'
      BY <2>1 DEF HandlerOK, PositionFitsKind, Owes, kind, OpKinds, InOperation
    <2> QED
      BY <1>0, <2>2, <2>4, <2>5, <2>6, <2>7, OneHandler, Zenon
  <1>18. ASSUME NEW c \in Calls, GetDeployedPackage(c) PROVE IInv'
    <2> USE <1>18 DEF GetDeployedPackage, Answer, Goto, TypeOK,
           slotVars, kubeVars, dockerVars
    <2>1. HandlerOK(c) /\ TypeOK /\ FreeMutexIsClean
      BY <1>0
    <2>2. OnlyMoves(c)
      BY <2>1 DEF OnlyMoves, Still, HandlerOK, UnderMutex
    <2>3. PositionFitsKind(c)'
      BY <2>1 DEF HandlerOK, PositionFitsKind, kind, OpKinds
    <2>4. OwnsEnvironment(c)' /\ FreeMutexIsClean'
      BY <2>1 DEF HandlerOK, PositionFitsKind, OwnsEnvironment, FreeMutexIsClean, UnderMutex,
         UnderCredentials
    <2>5. HandlerOK(c)'
      BY <2>1, <2>3, <2>4 DEF HandlerOK, PositionFitsKind, kind, OpKinds, InOperation,
         UnderMutex, IsCanceled
    <2>6. pc'[c] = "wait" => pc[c] = "wait" /\ current'[c] \in {current[c], NoCall}
      BY <2>1
    <2>7. Owes(c) => Owes(c)'
      BY <2>1 DEF HandlerOK, PositionFitsKind, Owes, kind, OpKinds, InOperation
    <2> QED
      BY <1>0, <2>2, <2>4, <2>5, <2>6, <2>7, OneHandler, Zenon
  <1>19. ASSUME NEW c \in Calls, Probe(c) PROVE IInv'
    <2> USE <1>19 DEF Probe, Goto, TypeOK,
           slotVars, kubeVars, dockerVars
    <2>1. HandlerOK(c) /\ TypeOK /\ FreeMutexIsClean
      BY <1>0
    <2>2. OnlyMoves(c)
      BY <2>1 DEF OnlyMoves, Still, HandlerOK, UnderMutex
    <2>3. PositionFitsKind(c)'
      BY <2>1 DEF HandlerOK, PositionFitsKind, kind, OpKinds
    <2>4. OwnsEnvironment(c)' /\ FreeMutexIsClean'
      BY <2>1 DEF HandlerOK, PositionFitsKind, OwnsEnvironment, FreeMutexIsClean, UnderMutex,
         UnderCredentials
    <2>5. HandlerOK(c)'
      BY <2>1, <2>3, <2>4 DEF HandlerOK, PositionFitsKind, kind, OpKinds, InOperation,
         UnderMutex, IsCanceled
    <2>6. pc'[c] = "wait" => pc[c] = "wait" /\ current'[c] \in {current[c], NoCall}
      BY <2>1
    <2>7. Owes(c) => Owes(c)'
      BY <2>1 DEF HandlerOK, PositionFitsKind, Owes, kind, OpKinds, InOperation
    <2> QED
      BY <1>0, <2>2, <2>4, <2>5, <2>6, <2>7, OneHandler, Zenon
  <1>20. ASSUME NEW c \in Calls, Query(c) PROVE IInv'
    <2> USE <1>20 DEF Query, Return, Goto, NoRequest, TypeOK,
           slotVars, kubeVars, dockerVars
    <2>1. HandlerOK(c) /\ TypeOK /\ FreeMutexIsClean
      BY <1>0
    <2>2. OnlyMoves(c)
      BY <2>1 DEF OnlyMoves, Still, HandlerOK, UnderMutex
    <2>3. PositionFitsKind(c)'
      BY <2>1 DEF HandlerOK, PositionFitsKind, kind, OpKinds
    <2>4. OwnsEnvironment(c)' /\ FreeMutexIsClean'
      BY <2>1 DEF HandlerOK, PositionFitsKind, OwnsEnvironment, FreeMutexIsClean, UnderMutex,
         UnderCredentials
    <2>5. HandlerOK(c)'
      BY <2>1, <2>3, <2>4 DEF HandlerOK, PositionFitsKind, kind, OpKinds, InOperation,
         UnderMutex, IsCanceled
    <2>6. pc'[c] = "wait" => pc[c] = "wait" /\ current'[c] \in {current[c], NoCall}
      BY <2>1
    <2>7. Owes(c) => Owes(c)'
      BY <2>1 DEF HandlerOK, PositionFitsKind, Owes, kind, OpKinds, InOperation
    <2> QED
      BY <1>0, <2>2, <2>4, <2>5, <2>6, <2>7, OneHandler, Zenon
  <1>21. ASSUME NEW c \in Calls, acquireOp(c) \/ waitForCancel(c) \/ reacquireOp(c)
         PROVE IInv'
    BY <1>3, <1>4, <1>5, <1>6, <1>21, Zenon DEF acquireOp, waitForCancel, reacquireOp, Replies
  <1>22. CASE UNCHANGED vars
    <2>1. \A d \in Calls : Still(d)
      BY <1>22 DEF vars, slotVars, kubeVars, dockerVars, Still
    <2>2. FreeMutexIsClean'
      BY <1>0, <1>22 DEF vars, kubeVars, dockerVars, FreeMutexIsClean
    <2>3. WaitersAreOwed'
      BY <1>22 DEF IInv, vars, slotVars, WaitersAreOwed, Owes, kind, InOperation
    <2> QED
      BY <1>0, <2>1, <2>2, <2>3, StillOK DEF IInv
  <1> QED
    BY <1>1, <1>2, <1>7, <1>8, <1>9, <1>10, <1>11, <1>12, <1>13, <1>14, <1>15, <1>16, <1>17,
       <1>18, <1>19, <1>20, <1>21, <1>22 DEF Next, Handle

-----------------------------------------------------------------------------
(* The invariant holds in every reachable state. *)
THEOREM Invariance == SafetySpec => []IInv
  BY InitIInv, NextIInv, PTL DEF SafetySpec

(* The variables of the sidecar keep their types. *)
THEOREM TypeCorrect == SafetySpec => []TypeOK
  BY Invariance, PTL DEF IInv

(* At most one deploy or remove is in progress, for any number of callers:
   the critical sections of acquireOp and of its cleanup are enough. *)
THEOREM MutualExclusion == SafetySpec => []OneOperationAtATime
  <1>1. IInv => OneOperationAtATime
    BY DEF IInv, HandlerOK, OneOperationAtATime
  <1> QED
    BY <1>1, Invariance, PTL

(* Deploy, Remove and GetDeployedPackage have the KUBECONFIG of their request
   between applyKubeconfig and its cleanup, Deploy its registry credentials
   between applyRegistryCredentials and its cleanup. *)
THEOREM Isolation == SafetySpec => []OwnEnvironment
  <1>1. IInv => OwnEnvironment
    BY Zenon DEF IInv, HandlerOK, OwnsEnvironment, OwnEnvironment
  <1> QED
    BY <1>1, Invariance, PTL

(* The deferred cleanups give the process its own environment back, on every
   path through any number of handlers. *)
THEOREM Restoration == SafetySpec => []EnvironmentRestored
  <1>1. IInv => EnvironmentRestored
    BY DEF IInv, TypeOK, HandlerOK, FreeMutexIsClean, EnvironmentRestored
  <1> QED
    BY <1>1, Invariance, PTL

(* The waiters of acquireOp are owed a wake-up by the operation they wait for. *)
THEOREM NoLostWakeup == SafetySpec => []WaitersAreOwedAWakeup
  <1>1. IInv => WaitersAreOwedAWakeup
    BY Zenon DEF IInv, WaitersAreOwed, Owes, WaitersAreOwedAWakeup
  <1> QED
    BY <1>1, Invariance, PTL

(* acquireOp cancels deploys, and no remove. *)
THEOREM Preemption == SafetySpec => []OnlyDeploysArePreempted
  <1>1. IInv => OnlyDeploysArePreempted
    BY DEF IInv, HandlerOK, OnlyDeploysArePreempted
  <1> QED
    BY <1>1, Invariance, PTL

(* The Canceled that the controller does not count as a failure is reported
   for a context that was cancelled. *)
THEOREM GenuineCancellation == SafetySpec => []CanceledMeansCancelled
  <1>1. IInv => CanceledMeansCancelled
    BY DEF IInv, HandlerOK, CanceledMeansCancelled
  <1> QED
    BY <1>1, Invariance, PTL

-----------------------------------------------------------------------------
(* Where the calls connect *)

(* A call that has connected has connected to the cluster of its request,
   unless it is a probe; a call that is not there has not connected. *)
TargetOK(c) ==
    /\ pc[c] \in {"idle", "returned"} => target[c] = NoCall
    /\ pc[c] = "probe" => kind(c) = "probe"
    /\ kind(c) # "probe" /\ target[c] # NoCall => target[c] = request[c].kubeconfig

Targets == \A c \in Calls : TargetOK(c)

(* Where a handler goes from one of its steps to the next. *)
Positions == PCs \ {"idle", "returned", "probe"}

(* A step preserves where the calls connected. *)
LEMMA TargetStep == IInv /\ Targets /\ [Next]_vars => Targets'
  <1> SUFFICES ASSUME IInv, Targets, [Next]_vars PROVE Targets'
    OBVIOUS
  <1>0. TypeOK /\ \A c \in Calls : HandlerOK(c)
    BY DEF IInv
  <1>1. ASSUME NEW c \in Calls, UnderMutex(c)
        PROVE  KUBECONFIG = request[c].kubeconfig
    BY <1>0, <1>1 DEF HandlerOK, OwnsEnvironment
  <1>a. ASSUME NEW c \in Calls, TargetOK(c)',
               \A d \in Calls \ {c} : /\ pc'[d] = pc[d] /\ request'[d] = request[d]
                                      /\ target'[d] = target[d]
        PROVE  Targets'
    BY <1>a DEF Targets, TargetOK, kind
  <1>2. ASSUME NEW c \in Calls, NEW l \in Positions, Goto(c, l), UNCHANGED request,
               UNCHANGED target \/ (ConnectCluster(c) /\ (kind(c) = "probe" \/ UnderMutex(c)))
        PROVE  Targets'
    <2>1. \A d \in Calls \ {c} : /\ pc'[d] = pc[d] /\ request'[d] = request[d]
                                 /\ target'[d] = target[d]
      BY <1>0, <1>2 DEF Goto, ConnectCluster, TypeOK
    <2>2. pc'[c] = l /\ request'[c] = request[c]
      BY <1>0, <1>2 DEF Goto, TypeOK
    <2>3. target'[c] = target[c] \/ kind(c) = "probe" \/ target'[c] = request[c].kubeconfig
      BY <1>0, <1>1, <1>2 DEF ConnectCluster, TypeOK
    <2>4. TargetOK(c)'
      BY <1>2, <2>2, <2>3 DEF Targets, TargetOK, kind, Positions
    <2> QED
      BY <1>a, <2>1, <2>4
  <1>3. ASSUME NEW c \in Calls, Return(c) PROVE Targets'
    <2>1. \A d \in Calls \ {c} : /\ pc'[d] = pc[d] /\ request'[d] = request[d]
                                 /\ target'[d] = target[d]
      BY <1>0, <1>3 DEF Return, Goto, TypeOK
    <2>2. pc'[c] = "returned" /\ request'[c] = NoRequest /\ target'[c] = NoCall
      BY <1>0, <1>3 DEF Return, Goto, TypeOK
    <2>3. TargetOK(c)'
      BY <2>2 DEF TargetOK
    <2> QED
      BY <1>a, <2>1, <2>3
  <1>4. ASSUME UNCHANGED <<pc, request, target>> PROVE Targets'
    BY <1>4 DEF Targets, TargetOK, kind
  <1>5. ASSUME NEW c \in Calls, NEW r \in Requests, Receive(c, r) PROVE Targets'
    <2>1. \A d \in Calls \ {c} : /\ pc'[d] = pc[d] /\ request'[d] = request[d]
                                 /\ target'[d] = target[d]
      BY <1>0, <1>5 DEF Receive, Answer, Goto, TypeOK
    <2>2. target'[c] = NoCall
      BY <1>5 DEF Receive, Targets, TargetOK
    <2>3. pc'[c] = "probe" => request'[c] = r /\ r.kind \notin OpKinds \cup {"get"}
      BY <1>0, <1>5 DEF Receive, Answer, Goto, TypeOK
    <2>4. r.kind \in OpKinds \cup {"get", "probe"}
      BY DEF Requests, Kinds
    <2>5. TargetOK(c)'
      BY <2>2, <2>3, <2>4 DEF TargetOK, kind
    <2> QED
      BY <1>a, <2>1, <2>5
  <1>6. ASSUME NEW c \in Calls, LeaveMutex(c) PROVE Targets'
    BY <1>2, <1>3, <1>6 DEF LeaveMutex, Positions, PCs
  <1>7. ASSUME NEW c \in Calls, acquireOp(c) \/ waitForCancel(c) \/ reacquireOp(c)
        PROVE  Targets'
    BY <1>2, <1>3, <1>7 DEF acquireOp, waitForCancel, reacquireOp, TakeSlot, RefuseSlot,
       PreemptActive, Positions, PCs
  <1>8. ASSUME NEW c \in Calls, applyKubeconfig(c) \/ kubeconfigCleanup(c) PROVE Targets'
    BY <1>2, <1>6, <1>8 DEF applyKubeconfig, kubeconfigCleanup, Positions, PCs
  <1>9. ASSUME NEW c \in Calls, releaseOp(c) \/ closeDone(c) \/ Query(c) PROVE Targets'
    BY <1>2, <1>3, <1>9 DEF releaseOp, closeDone, Query, Positions, PCs
  <1>10. ASSUME NEW c \in Calls,
                \/ applyRegistryCredentials(c) \/ registryCleanup(c) \/ loadPkg(c)
                \/ deployPkg(c) \/ verifyImgs(c) \/ Connect(c) \/ Remove(c)
                \/ GetDeployedPackage(c)
         PROVE  Targets'
    <2>1. UnderMutex(c)
      BY <1>10 DEF applyRegistryCredentials, registryCleanup, loadPkg, deployPkg, verifyImgs,
         Connect, Remove, GetDeployedPackage, UnderMutex
    <2>2. UNCHANGED request /\ (UNCHANGED target \/ ConnectCluster(c))
      BY <1>10, Zenon DEF applyRegistryCredentials, registryCleanup, loadPkg, deployPkg,
         verifyImgs, Connect, Remove, GetDeployedPackage
    <2>3. \E l \in Positions : Goto(c, l)
      BY <1>10 DEF applyRegistryCredentials, registryCleanup, loadPkg, deployPkg,
         verifyImgs, Connect, Remove, GetDeployedPackage, Answer, Positions, PCs, classifyOCIError, FailureCode
    <2> QED
      BY <1>2, <2>1, <2>2, <2>3
  <1>11. ASSUME NEW c \in Calls, Probe(c) PROVE Targets'
    <2>1. kind(c) = "probe"
      BY <1>11 DEF Probe, Targets, TargetOK
    <2> QED
      BY <1>2, <1>11, <2>1 DEF Probe, Positions, PCs
  <1>12. CASE UNCHANGED vars
    BY <1>4, <1>12 DEF vars
  <1>13. ASSUME NEW c \in Calls, NEW e \in CallerErrors, CallerGone(c, e) PROVE Targets'
    BY <1>4, <1>13 DEF CallerGone
  <1> QED
    BY <1>5, <1>7, <1>8, <1>9, <1>10, <1>11, <1>12, <1>13 DEF Next, Handle

(* Deploy, Remove and GetDeployedPackage connect to the cluster their request
   names, for any number of concurrent calls and clusters. *)
THEOREM EachReachesItsCluster == SafetySpec => []ConnectsWhereAsked
  <1>1. Init => Targets
    BY DEF Init, Targets, TargetOK, NoRequest, kind
  <1>2. Targets => ConnectsWhereAsked
    BY DEF Targets, TargetOK, ConnectsWhereAsked
  <1> QED
    BY <1>1, <1>2, Invariance, TargetStep, PTL DEF SafetySpec

(* Nobody but a returned handler is a probe when no client sends one. *)
NoProbes == \A c \in Calls : kind(c) = "probe" => pc[c] \in {"idle", "returned"}

(* The comment on kubeconfigMu is right about every RPC but Health and
   ListDeployedPackages: without them, no call that carries no kubeconfig ever
   connects with another call's temporary KUBECONFIG. *)
THEOREM OnlyProbesObserve ==
    ASSUME "probe" \notin Methods
    PROVE  SafetySpec => []OverrideNotObserved
  <1>1. Init => Targets /\ NoProbes
    BY DEF Init, Targets, TargetOK, NoRequest, NoProbes, kind
  <1>2. IInv /\ NoProbes /\ [Next]_vars => NoProbes'
    <2> SUFFICES ASSUME IInv, NoProbes, [Next]_vars PROVE NoProbes'
      OBVIOUS
    <2>0. pc \in [Calls -> PCs] /\ request \in [Calls -> Requests]
      BY DEF IInv, TypeOK
    <2>1. ASSUME NEW c \in Calls, pc[c] \notin {"idle", "returned"}, UNCHANGED request,
                 \A d \in Calls \ {c} : pc'[d] = pc[d]
          PROVE  NoProbes'
      BY <2>1 DEF NoProbes, kind
    <2>2. ASSUME NEW c \in Calls, NEW l, Goto(c, l) PROVE \A d \in Calls \ {c} : pc'[d] = pc[d]
      BY <2>0, <2>2 DEF Goto
    <2>3. ASSUME NEW c \in Calls, Return(c) PROVE NoProbes'
      BY <2>0, <2>3 DEF Return, Goto, NoProbes, kind
    <2>4. ASSUME NEW c \in Calls, NEW r \in Requests, r.kind \in Methods, Receive(c, r)
          PROVE  NoProbes'
      BY <2>0, <2>4 DEF Receive, Answer, Goto, NoProbes, kind
    <2>5. ASSUME NEW c \in Calls, acquireOp(c) \/ waitForCancel(c) \/ reacquireOp(c)
          PROVE  NoProbes'
      BY <2>1, <2>2, <2>3, <2>5 DEF acquireOp, waitForCancel, reacquireOp, TakeSlot,
         RefuseSlot, PreemptActive
    <2>6. ASSUME NEW c \in Calls, applyKubeconfig(c) \/ kubeconfigCleanup(c) PROVE NoProbes'
      BY <2>1, <2>2, <2>3, <2>6 DEF applyKubeconfig, kubeconfigCleanup, LeaveMutex
    <2>7. ASSUME NEW c \in Calls, releaseOp(c) \/ closeDone(c) \/ Query(c) PROVE NoProbes'
      BY <2>1, <2>2, <2>3, <2>7 DEF releaseOp, closeDone, Query
    <2>8. ASSUME NEW c \in Calls,
                 \/ applyRegistryCredentials(c) \/ registryCleanup(c) \/ loadPkg(c)
                 \/ deployPkg(c) \/ verifyImgs(c) \/ Connect(c) \/ Remove(c)
                 \/ GetDeployedPackage(c) \/ Probe(c)
          PROVE  NoProbes'
      <3>1. pc[c] \notin {"idle", "returned"} /\ UNCHANGED request
        BY <2>8, Zenon DEF applyRegistryCredentials, registryCleanup, loadPkg, deployPkg,
           verifyImgs, Connect, Remove, GetDeployedPackage, Probe
      <3>2. \E l : Goto(c, l)
        BY <2>8, Zenon DEF applyRegistryCredentials, registryCleanup, loadPkg, deployPkg,
           verifyImgs, Connect, Remove, GetDeployedPackage, Probe, Answer
      <3> QED
        BY <2>1, <2>2, <3>1, <3>2
    <2>9. ASSUME UNCHANGED <<pc, request>> PROVE NoProbes'
      BY <2>9 DEF NoProbes, kind
    <2> QED
      BY <2>4, <2>5, <2>6, <2>7, <2>8, <2>9 DEF Next, Handle, CallerGone, vars
  <1>3. Targets /\ NoProbes => OverrideNotObserved
    BY DEF Targets, TargetOK, NoProbes, OverrideNotObserved
  <1> QED
    BY <1>1, <1>2, <1>3, Invariance, TargetStep, PTL DEF SafetySpec

-----------------------------------------------------------------------------
(* Why every call returns: the argument for any number of calls, but for the
   scheduling, which Fairness states and TLC checks. *)

(* A call that waits in acquireOp waits for one past it; a call that waits for
   kubeconfigMu waits for its holder, which waits for nothing.  So whoever a
   set of handlers waits for is not in the set, for some member of it. *)
THEOREM DeadlockFree == SafetySpec => []NoCircularWait
  <1>1. IInv => NoCircularWait
    <2> SUFFICES ASSUME IInv, NEW S \in SUBSET Calls, S # {}, \A c \in S : Blocker(c) \in S
                 PROVE  FALSE
      BY DEF NoCircularWait
    <2>1. \A c \in S : pc[c] \in {"wait", "kubeconfig"}
      BY NilAssumption DEF Blocker
    <2>2. \A c \in S : pc[c] = "kubeconfig" => UnderMutex(Blocker(c))
      BY NilAssumption DEF Blocker, IInv, HandlerOK
    <2>3. \A c \in S : pc[c] = "wait" => InOperation(Blocker(c)) \/ pc[Blocker(c)] = "close"
      BY NilAssumption DEF Blocker, IInv, WaitersAreOwed, Owes
    <2>4. \A c \in S : pc[c] # "kubeconfig"
      BY <2>1, <2>2 DEF UnderMutex
    <2> QED
      BY <2>1, <2>3, <2>4 DEF InOperation
  <1> QED
    BY <1>1, Invariance, PTL

(* How far along its handler a position is. *)
Stage(l) ==
    CASE l \in {"acquire", "probe"} -> 1
      [] l \in {"wait", "query"} -> 2
      [] l = "reacquire" -> 3
      [] l = "kubeconfig" -> 4
      [] l \in {"credentials", "connect", "lookup"} -> 5
      [] l \in {"load", "remove"} -> 6
      [] l = "deploy" -> 7
      [] l = "verify" -> 8
      [] l = "restoreDocker" -> 9
      [] l = "restoreKube" -> 10
      [] l = "release" -> 11
      [] l = "close" -> 12
      [] OTHER -> 13

(* No step takes a handler back, its own or another handler's: between its
   arrival and its return it moves at most a dozen times, so it can only fail
   to return by being blocked. *)
HandlersAdvance ==
    [][\A c \in Calls : pc[c] \notin {"idle", "returned"} /\ pc'[c] # pc[c] =>
           Stage(pc[c]) < Stage(pc'[c])]_vars

(* No step of acquireOp, of a handler or of a deferred cleanup takes a handler
   back: the wait for the slot, in particular, is not a loop. *)
THEOREM HandlersOnlyAdvance == SafetySpec => HandlersAdvance
  <1> DEFINE Ahead(c) == pc[c] \notin {"idle", "returned"} /\ pc'[c] # pc[c] =>
                             Stage(pc[c]) < Stage(pc'[c])
             Advance == \A c \in Calls : Ahead(c)
  <1>1. TypeOK /\ [Next]_vars => Advance
    <2> SUFFICES ASSUME TypeOK, [Next]_vars PROVE Advance
      OBVIOUS
    <2>0. pc \in [Calls -> PCs]
      BY DEF TypeOK
    <2>1. ASSUME NEW c \in Calls, NEW l,
                 pc[c] \in {"idle", "returned"} \/ Stage(pc[c]) < Stage(l), Goto(c, l)
          PROVE  Advance
      <3>1. pc'[c] = l /\ \A d \in Calls \ {c} : pc'[d] = pc[d]
        BY <2>0, <2>1 DEF Goto
      <3> QED
        BY <2>1, <3>1
    <2>2. ASSUME NEW c \in Calls, Goto(c, "returned"), pc[c] \notin {"idle", "returned"}
          PROVE  Advance
      <3>1. Stage(pc[c]) < Stage("returned")
        BY <2>0, <2>2 DEF PCs, Stage
      <3> QED
        BY <2>1, <2>2, <3>1
    <2>9. ASSUME UNCHANGED pc PROVE Advance
      BY <2>9
    <2> HIDE DEF Advance, Ahead
    <2>3. ASSUME NEW c \in Calls, NEW r \in Requests, Receive(c, r) PROVE Advance
      BY <2>1, <2>3 DEF Receive, Answer
    <2>4. ASSUME NEW c \in Calls, acquireOp(c) \/ waitForCancel(c) \/ reacquireOp(c)
          PROVE  Advance
      <3>1. CASE \E code : RefuseSlot(c, code)
        BY <2>2, <2>4, <3>1 DEF acquireOp, waitForCancel, reacquireOp, RefuseSlot, Return
      <3>2. \/ \E code : RefuseSlot(c, code)
            \/ pc[c] \in {"acquire", "reacquire"} /\ Goto(c, "kubeconfig")
            \/ pc[c] = "acquire" /\ Goto(c, "wait")
            \/ pc[c] = "wait" /\ Goto(c, "reacquire")
        BY <2>4 DEF acquireOp, waitForCancel, reacquireOp, TakeSlot, PreemptActive
      <3>3. /\ Stage("acquire") = 1 /\ Stage("wait") = 2 /\ Stage("reacquire") = 3
            /\ Stage("kubeconfig") = 4
        BY DEF Stage
      <3> QED
        BY <2>1, <3>1, <3>2, <3>3
    <2>5. ASSUME NEW c \in Calls, applyKubeconfig(c) \/ kubeconfigCleanup(c) PROVE Advance
      <3>1. /\ Stage("kubeconfig") = 4 /\ Stage("restoreKube") = 10 /\ Stage("release") = 11
            /\ Stage("credentials") = 5 /\ Stage("connect") = 5 /\ Stage("lookup") = 5
        BY DEF Stage
      <3>2. pc[c] \in {"kubeconfig", "restoreKube"}
        BY <2>5 DEF applyKubeconfig, kubeconfigCleanup
      <3>3. \/ Goto(c, "returned") \/ Goto(c, "release")
            \/ pc[c] = "kubeconfig" /\ \E l \in {"credentials", "connect", "lookup"} : Goto(c, l)
        BY <2>5 DEF applyKubeconfig, kubeconfigCleanup, LeaveMutex, Return
      <3> QED
        BY <2>1, <2>2, <3>1, <3>2, <3>3
    <2>6. ASSUME NEW c \in Calls, releaseOp(c) \/ closeDone(c) \/ Probe(c) \/ Query(c)
          PROVE  Advance
      <3>1. /\ Stage("release") = 11 /\ Stage("close") = 12
            /\ Stage("probe") = 1 /\ Stage("query") = 2
        BY DEF Stage
      <3>2. \/ pc[c] = "release" /\ Goto(c, "close")
            \/ pc[c] \in {"close", "query"} /\ Goto(c, "returned")
            \/ pc[c] = "probe" /\ Goto(c, "query")
        BY <2>6 DEF releaseOp, closeDone, Probe, Query, Return
      <3> QED
        BY <2>1, <2>2, <3>1, <3>2
    <2>7. ASSUME NEW c \in Calls,
                 \/ applyRegistryCredentials(c) \/ registryCleanup(c) \/ loadPkg(c)
                 \/ deployPkg(c) \/ verifyImgs(c)
          PROVE  Advance
      <3>1. /\ Stage("credentials") = 5 /\ Stage("load") = 6 /\ Stage("deploy") = 7
            /\ Stage("verify") = 8 /\ Stage("restoreDocker") = 9 /\ Stage("restoreKube") = 10
        BY DEF Stage
      <3>2. \/ pc[c] = "credentials" /\ (Goto(c, "load") \/ Goto(c, "restoreKube"))
            \/ pc[c] = "restoreDocker" /\ Goto(c, "restoreKube")
            \/ pc[c] = "load" /\ (Goto(c, "deploy") \/ Goto(c, "restoreDocker"))
            \/ pc[c] = "deploy" /\ (Goto(c, "verify") \/ Goto(c, "restoreDocker"))
            \/ pc[c] = "verify" /\ Goto(c, "restoreDocker")
        BY <2>7, Zenon DEF applyRegistryCredentials, registryCleanup, loadPkg, deployPkg,
           verifyImgs, Answer
      <3> QED
        BY <2>1, <3>1, <3>2
    <2>8. ASSUME NEW c \in Calls, Connect(c) \/ Remove(c) \/ GetDeployedPackage(c)
          PROVE  Advance
      <3>1. /\ Stage("connect") = 5 /\ Stage("lookup") = 5 /\ Stage("remove") = 6
            /\ Stage("restoreKube") = 10
        BY DEF Stage
      <3>2. \/ pc[c] = "connect" /\ (Goto(c, "remove") \/ Goto(c, "restoreKube"))
            \/ pc[c] \in {"remove", "lookup"} /\ Goto(c, "restoreKube")
        BY <2>8 DEF Connect, Remove, GetDeployedPackage, Answer
      <3> QED
        BY <2>1, <3>1, <3>2
    <2> QED
      BY <2>3, <2>4, <2>5, <2>6, <2>7, <2>8, <2>9 DEF Next, Handle, CallerGone, vars
  <1> QED
    BY <1>1, TypeCorrect, PTL DEF SafetySpec, HandlersAdvance

-----------------------------------------------------------------------------
(* Every step of a handler is a step of the abstract slot or leaves it alone. *)
LEMMA SlotStep == IInv /\ [Next]_vars => [Slot!Next]_slotOp
  <1> SUFFICES ASSUME IInv, [Next]_vars PROVE Slot!Next \/ UNCHANGED slotOp
    OBVIOUS
  <1> USE NilAssumption DEF IInv, TypeOK
  <1>1. ASSUME NEW c \in Calls, pc[c] \in {"acquire", "reacquire"}, TakeSlot(c)
        PROVE Slot!Next
    <2>1. kind(c) \in OpKinds /\ ctxErr[c] # "Preempted"
      BY <1>1 DEF HandlerOK, PositionFitsKind, InOperation
    <2>2. Slot!Start(c, kind(c))
      BY <1>1, <2>1, Zenon DEF TakeSlot, slotOp, kind, Slot!Start
    <2> QED
      BY <2>1, <2>2 DEF Slot!Next, OpKinds, Slot!OpKinds
  <1>2. ASSUME NEW c \in Calls, pc[c] = "acquire", PreemptActive(c)
        PROVE Slot!Next \/ UNCHANGED slotOp
    <2>1. active \in Calls /\ kind(active) = "deploy"
      BY <1>2 DEF PreemptActive, HandlerOK, InOperation, OpKinds
    <2>2. CASE ctxErr[active] = "none"
      <3>1. slotOp = [call |-> active, kind |-> "deploy", stop |-> FALSE]
        BY <2>1, <2>2, Zenon DEF slotOp
      <3>2. slotOp' = [call |-> active, kind |-> "deploy", stop |-> TRUE]
        BY <1>2, <2>1, <2>2, Zenon DEF PreemptActive, slotOp, kind
      <3>3. slotOp \in Slot!Operations /\ slotOp.call = active /\ slotOp.kind = "deploy"
        BY <2>1, <3>1 DEF Slot!Operations, Slot!OpKinds
      <3> QED
        BY <2>1, <3>2, <3>3, Zenon DEF Slot!Next, Slot!Preempt
    <2>3. CASE ctxErr[active] # "none"
      BY <1>2, <2>1, <2>3 DEF PreemptActive, slotOp, kind
    <2> QED
      BY <2>2, <2>3
  <1>3. ASSUME NEW c \in Calls, releaseOp(c) PROVE Slot!Next
    <2>1. active = c /\ kind(c) \in OpKinds
      BY <1>3 DEF releaseOp, HandlerOK, InOperation, PositionFitsKind
    <2>2. slotOp \in Slot!Operations /\ slotOp.call = c /\ slotOp' = NoCall
      BY <1>3, <2>1 DEF releaseOp, slotOp, Slot!Operations, OpKinds, Slot!OpKinds
    <2> QED
      BY <2>2, Zenon DEF Slot!Next, Slot!Finish
  <1>4. ASSUME NEW c \in Calls, active # c, active' = active,
               \A d \in Calls \ {c} : request'[d] = request[d] /\ ctxErr'[d] = ctxErr[d]
        PROVE UNCHANGED slotOp
    BY <1>4, Zenon DEF slotOp, kind
  <1>5. ASSUME NEW c \in Calls, NEW r \in Requests, Receive(c, r) PROVE UNCHANGED slotOp
    BY <1>4, <1>5 DEF Receive, slotVars, HandlerOK, InOperation
  <1>6. ASSUME NEW c \in Calls, NEW e \in CallerErrors, CallerGone(c, e)
        PROVE UNCHANGED slotOp
    BY <1>6, ClientAssumption, Zenon DEF CallerGone, slotVars, slotOp, kind
  <1>7. ASSUME NEW c \in Calls, active # c, active' = active, Return(c), UNCHANGED ctxErr
        PROVE UNCHANGED slotOp
    BY <1>4, <1>7 DEF Return
  <1>8. ASSUME NEW c \in Calls, acquireOp(c) PROVE Slot!Next \/ UNCHANGED slotOp
    BY <1>1, <1>2, <1>7, <1>8 DEF acquireOp, RefuseSlot, HandlerOK, InOperation
  <1>9. ASSUME NEW c \in Calls, waitForCancel(c) PROVE UNCHANGED slotOp
    BY <1>7, <1>9, Zenon DEF waitForCancel, RefuseSlot, HandlerOK, InOperation, slotVars, slotOp, kind
  <1>10. ASSUME NEW c \in Calls, reacquireOp(c) PROVE Slot!Next \/ UNCHANGED slotOp
    BY <1>1, <1>7, <1>10 DEF reacquireOp, RefuseSlot, HandlerOK, InOperation
  <1>11. ASSUME NEW c \in Calls, closeDone(c) PROVE UNCHANGED slotOp
    BY <1>7, <1>11 DEF closeDone, HandlerOK, InOperation
  <1>12. ASSUME NEW c \in Calls, LeaveMutex(c), active' = active, UNCHANGED ctxErr
         PROVE UNCHANGED slotOp
    BY <1>7, <1>12, Zenon DEF LeaveMutex, HandlerOK, InOperation, slotOp, kind
  <1>13. ASSUME NEW c \in Calls, applyKubeconfig(c) \/ kubeconfigCleanup(c)
         PROVE UNCHANGED slotOp
    BY <1>12, <1>13 DEF applyKubeconfig, kubeconfigCleanup, slotVars, slotOp, kind
  <1>14. ASSUME NEW c \in Calls, Query(c) PROVE UNCHANGED slotOp
    BY <1>7, <1>14 DEF Query, slotVars, HandlerOK, InOperation
  <1>15. ASSUME UNCHANGED <<request, ctxErr, active>> PROVE UNCHANGED slotOp
    BY <1>15, Zenon DEF slotOp, kind
  <1>16. ASSUME NEW c \in Calls,
                \/ applyRegistryCredentials(c) \/ registryCleanup(c) \/ loadPkg(c)
                \/ deployPkg(c) \/ verifyImgs(c) \/ Connect(c) \/ Remove(c)
                \/ GetDeployedPackage(c) \/ Probe(c)
         PROVE UNCHANGED slotOp
    BY <1>15, <1>16, Zenon DEF applyRegistryCredentials, registryCleanup, loadPkg, deployPkg,
       verifyImgs, Connect, Remove, GetDeployedPackage, Probe, slotVars
  <1>17. CASE UNCHANGED vars
    BY <1>15, <1>17 DEF vars, slotVars
  <1> QED
    BY <1>3, <1>5, <1>6, <1>8, <1>9, <1>10, <1>11, <1>13, <1>14, <1>16, <1>17
       DEF Next, Handle

(* The slot only starts, preempts and finishes operations as the abstract
   specification allows: the safety part of ImplementsSingleOperation. *)
THEOREM Refinement == SafetySpec => Slot!SafetySpec
  <1>1. Init => Slot!Init
    BY DEF Init, Slot!Init, slotOp
  <1> QED
    BY <1>1, SlotStep, Invariance, PTL DEF SafetySpec, Slot!SafetySpec
=============================================================================
