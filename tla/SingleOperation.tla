-------------------------- MODULE SingleOperation --------------------------
(***************************************************************************)
(* What the sidecar's operation slot promises, without its mutex, channels *)
(* or waiters: Zarf runs at most one deploy or remove at a time, a running *)
(* deploy may be asked to stop in favour of a newer request, a running     *)
(* remove may not, and every operation that starts also finishes.          *)
(* Sidecar implements this specification.                                  *)
(***************************************************************************)

CONSTANTS Calls,    \* the gRPC handler goroutines
          NoOp      \* the slot holds no operation

VARIABLE op         \* NoOp, or the operation in the slot

OpKinds == {"deploy", "remove"}

Operations == [call : Calls, kind : OpKinds, stop : BOOLEAN]

Init == op = NoOp

(* An operation starts only in an empty slot. *)
Start(c, k) ==
    /\ op = NoOp
    /\ op' = [call |-> c, kind |-> k, stop |-> FALSE]

(* A newer request asks the running operation to stop: deploys only. *)
Preempt(c) ==
    /\ op \in Operations
    /\ op.call = c
    /\ op.kind = "deploy"
    /\ op' = [call |-> c, kind |-> "deploy", stop |-> TRUE]

(* The operation, asked to stop or not, leaves the slot. *)
Finish(c) ==
    /\ op \in Operations
    /\ op.call = c
    /\ op' = NoOp

Next == \E c \in Calls :
            \/ \E k \in OpKinds : Start(c, k)
            \/ Preempt(c)
            \/ Finish(c)

SafetySpec == Init /\ [][Next]_op

Spec == SafetySpec /\ \A c \in Calls : WF_op(Finish(c))
=============================================================================
