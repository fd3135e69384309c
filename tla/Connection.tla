----------------------------- MODULE Connection -----------------------------
(***************************************************************************)
(* The manager's connection to the sidecar: the monitor that checks it     *)
(* every ten seconds, replaces it and hands it to the reconciler           *)
(* (sidecarConnectionMonitor of src/cmd/main.go, NewClient and HealthCheck *)
(* of src/pkg/zarf/grpc/client.go), and the workers, which take the client *)
(* at the start of a reconcile and use it to the end of it.                *)
(*                                                                         *)
(* The two fields the client is kept in have a lock each and are written   *)
(* one after the other, so the workers run between any two of the steps.   *)
(* What a reconcile makes of a call that fails is left to Reconciler.      *)
(***************************************************************************)
CONSTANTS Workers,   \* reconcile workers
          Clients,   \* connections; one that nobody refers to is used again
          NoClient   \* nil

ASSUME ConnectionAssumption == NoClient \notin Clients

VARIABLES healthy,   \* Health would answer in time, and healthy
          open,      \* the connections not closed yet
          mclient,   \* client of the monitor
          new,       \* newClient, local to ensureConnection
          mpc,       \* where the monitor stands
          stopped,   \* the context of the monitor is done
          rclient,   \* ZarfClient of the reconciler
          held,      \* zarfClient, local to Reconcile
          wpc        \* where a worker stands

monitor == <<mclient, new, mpc, stopped>>
reconciles == <<held, wpc>>
vars == <<healthy, open, monitor, rclient, reconciles>>

(* The variables have their types. *)
TypeOK ==
    /\ healthy \in BOOLEAN /\ stopped \in BOOLEAN
    /\ open \subseteq Clients
    /\ mclient \in Clients \cup {NoClient} /\ new \in Clients \cup {NoClient}
    /\ rclient \in Clients \cup {NoClient}
    /\ mpc \in {"ensure", "lose", "lost", "connect", "dialed", "store", "hand", "wait", "done"}
    /\ held \in [Workers -> Clients \cup {NoClient}]
    /\ wpc \in [Workers -> {"idle", "lookup", "deploy"}]

Init ==
    /\ healthy \in BOOLEAN /\ stopped = FALSE
    /\ open = {}
    /\ mclient = NoClient /\ new = NoClient /\ rclient = NoClient
    /\ mpc = "ensure"
    /\ held = [w \in Workers |-> NoClient]
    /\ wpc = [w \in Workers |-> "idle"]

-----------------------------------------------------------------------------
(* The monitor *)

(* A check over a connection, with a deadline below the monitor's context. *)
HealthCheck(c) == c \in open /\ healthy /\ ~stopped

Goto(l) == mpc' = l /\ UNCHANGED <<stopped, healthy, reconciles>>

(* Mutant: the connection is forgotten, not closed. *)
Forget == mclient' = NoClient /\ UNCHANGED open

closeClient == mclient' = NoClient /\ open' = open \ {mclient}

(* ensureConnection, from the top: no client, a good one, or one that fails the
   check. *)
Ensure ==
    /\ mpc = "ensure"
    /\ \/ mclient = NoClient /\ Goto("connect")
       \/ mclient # NoClient /\ HealthCheck(mclient) /\ Goto("wait")
       \/ mclient # NoClient /\ ~HealthCheck(mclient) /\ Goto("lose")
    /\ UNCHANGED <<mclient, open, new, rclient>>

(* The connection is closed for that, though the sidecar may be back. *)
Lose ==
    /\ mpc = "lose" /\ Goto("lost")
    /\ closeClient
    /\ UNCHANGED <<new, rclient>>

(* Mutant: the reconciler is not told. *)
LoseSilently ==
    /\ mpc = "lost" /\ Goto("connect")
    /\ UNCHANGED <<open, mclient, new, rclient>>

(* SetZarfClient(nil): until now the reconciler had the closed client. *)
TakeAway ==
    /\ mpc = "lost" /\ Goto("connect")
    /\ rclient' = NoClient
    /\ UNCHANGED <<open, mclient, new>>

(* NewClient: the connection is there before it is checked, *)
Dial(c) ==
    /\ mpc = "connect" /\ Goto("dialed")
    /\ c \notin open /\ c # rclient /\ \A w \in Workers : c # held[w]
    /\ open' = open \cup {c}
    /\ new' = c
    /\ UNCHANGED <<mclient, rclient>>

(* Mutant: the monitor ends when the sidecar is not there. *)
GiveUp ==
    /\ mpc = "dialed" /\ ~HealthCheck(new) /\ Goto("done")
    /\ open' = open \ {new} /\ new' = NoClient
    /\ UNCHANGED <<mclient, rclient>>

(* and closed when the check fails. *)
DialFails ==
    /\ mpc = "dialed" /\ ~HealthCheck(new) /\ Goto("wait")
    /\ open' = open \ {new} /\ new' = NoClient
    /\ UNCHANGED <<mclient, rclient>>

DialSucceeds ==
    /\ mpc = "dialed" /\ HealthCheck(new) /\ Goto("store")
    /\ UNCHANGED <<open, mclient, new, rclient>>

Store ==
    /\ mpc = "store" /\ Goto("hand")
    /\ mclient' = new
    /\ UNCHANGED <<open, new, rclient>>

HandOver ==
    /\ mpc = "hand" /\ Goto("wait")
    /\ rclient' = new /\ new' = NoClient
    /\ UNCHANGED <<open, mclient>>

(* The select of Start: the ticker, or the end of the context; the latter
   closes the client and leaves it with the reconciler. *)
Tick ==
    /\ mpc = "wait" /\ Goto("ensure")
    /\ UNCHANGED <<open, mclient, new, rclient>>

Quit ==
    /\ mpc = "wait" /\ stopped /\ Goto("done")
    /\ closeClient
    /\ UNCHANGED <<new, rclient>>

Monitor == Ensure \/ Lose \/ TakeAway \/ (\E c \in Clients : Dial(c)) \/ DialFails \/ DialSucceeds
           \/ Store \/ HandOver \/ Tick \/ Quit

-----------------------------------------------------------------------------
(* The workers *)

Becomes(w, l, c) ==
    /\ wpc' = [wpc EXCEPT ![w] = l]
    /\ held' = [held EXCEPT ![w] = c]
    /\ UNCHANGED <<healthy, open, monitor, rclient>>

(* getZarfClient.  Without a client the reconcile is over at once. *)
Begin(w) ==
    /\ wpc[w] = "idle" /\ rclient # NoClient
    /\ Becomes(w, "lookup", rclient)

Return(w) == Becomes(w, "idle", NoClient)

(* GetDeployedPackage.  A missing secret, unmet dependencies or a package in
   sync end the reconcile; an error of the call, of any kind, does not. *)
Lookup(w) == wpc[w] = "lookup" /\ (Return(w) \/ Becomes(w, "deploy", held[w]))

(* The deploy, over a connection that may be closed by now: whether a secret is
   missing, the call is cancelled, fails or succeeds, the reconcile is over. *)
Deploy(w) == wpc[w] = "deploy" /\ Return(w)

Work(w) == Begin(w) \/ Lookup(w) \/ Deploy(w)

-----------------------------------------------------------------------------
(* The sidecar goes away, stalls or comes back; the manager is told to stop. *)
Health == healthy' = ~healthy /\ UNCHANGED <<open, monitor, rclient, reconciles>>

Stop ==
    /\ ~stopped /\ stopped' = TRUE
    /\ UNCHANGED <<healthy, open, mclient, new, mpc, rclient, reconciles>>

Next == Monitor \/ (\E w \in Workers : Work(w)) \/ Health \/ Stop

SafetySpec == Init /\ [][Next]_vars

(* The ticker ticks, and checks and calls come to an end. *)
Spec == SafetySpec /\ WF_vars(Monitor) /\ \A w \in Workers : WF_vars(Work(w))

-----------------------------------------------------------------------------
(* Properties *)

(* No connection is left behind: one that is open is the monitor's or the one
   it is making, there is at most one, and none when the monitor has ended. *)
NothingLeaks ==
    /\ open \subseteq {mclient, new}
    /\ mclient \in open /\ new \in open => mclient = new
    /\ mpc = "done" => open = {}

(* Between two checks the reconciler has the monitor's client, and it is open:
   no worker starts on a connection that was replaced or given up. *)
ReconcilerFollows ==
    mpc = "wait" => rclient = mclient /\ (rclient # NoClient => rclient \in open)

(* Once the sidecar stays healthy the reconciler gets a connection and keeps
   it, and no worker goes on with one that was closed, unless the manager
   stops. *)
Reconnects ==
    <>[]healthy =>
        \/ <>stopped
        \/ \E c \in Clients :
              <>[](c \in open /\ rclient = c /\ \A w \in Workers : held[w] \in {c, NoClient})
=============================================================================
