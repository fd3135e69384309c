-------------------------- MODULE ConnectionProofs --------------------------
(***************************************************************************)
(* The monitor of Connection, for any number of workers and connections.   *)
(* The invariant says, for each place the monitor can be at, which of the  *)
(* three references to a client are set and that what the monitor refers   *)
(* to is what is open.  The workers do not occur in it: all they do is     *)
(* read ZarfClient.                                                        *)
(***************************************************************************)
EXTENDS Connection, TLAPS

References ==
    /\ mpc \in {"ensure", "lose", "lost", "connect", "dialed", "store", "hand", "wait", "done"}
    /\ open = {mclient, new} \ {NoClient}
    /\ mpc \in {"lost", "connect", "dialed", "store", "done"} => mclient = NoClient
    /\ mpc \in {"ensure", "lose", "lost", "connect", "wait", "done"} => new = NoClient
    /\ mpc = "hand" => mclient = new
    /\ mpc \in {"connect", "dialed", "store", "hand"} => rclient = NoClient
    /\ mpc \in {"ensure", "lose", "wait"} => rclient = mclient

LEMMA ReferencesInductive == SafetySpec => []References
<1>1. Init => References
  BY DEF Init, References
<1>2. References /\ [Next]_vars => References'
  <2> SUFFICES ASSUME References, [Next]_vars PROVE References'
    OBVIOUS
  <2> USE DEF References, Goto
  <2>1. CASE Ensure
    BY <2>1 DEF Ensure
  <2>2. CASE Lose \/ TakeAway
    BY <2>2 DEF Lose, closeClient, TakeAway
  <2>3. ASSUME NEW c \in Clients, Dial(c) PROVE References'
    BY <2>3, ConnectionAssumption DEF Dial
  <2>4. CASE DialFails \/ DialSucceeds
    BY <2>4 DEF DialFails, DialSucceeds
  <2>5. CASE Store \/ HandOver
    BY <2>5 DEF Store, HandOver
  <2>6. CASE Tick \/ Quit
    BY <2>6 DEF Tick, Quit, closeClient
  <2>7. ASSUME NEW w \in Workers, Work(w) PROVE References'
    BY <2>7 DEF Work, Begin, Lookup, Deploy, Return, Becomes, monitor
  <2>8. CASE Health \/ Stop
    BY <2>8 DEF Health, Stop, monitor
  <2>9. CASE UNCHANGED vars
    BY <2>9 DEF vars, monitor
  <2> QED BY <2>1, <2>2, <2>3, <2>4, <2>5, <2>6, <2>7, <2>8, <2>9 DEF Next, Monitor
<1> QED BY <1>1, <1>2, PTL DEF SafetySpec

(* However often the sidecar goes away, at most one connection is open, the
   monitor can still close it, and none is left when the monitor ends. *)
THEOREM ConnectionsAreClosed == SafetySpec => []NothingLeaks
<1>1. References => NothingLeaks
  BY DEF References, NothingLeaks
<1> QED BY <1>1, ReferencesInductive, PTL

(* Between two checks the reconciler has the monitor's open client or none. *)
THEOREM HandedOver == SafetySpec => []ReconcilerFollows
<1>1. References => ReconcilerFollows
  BY DEF References, ReconcilerFollows
<1> QED BY <1>1, ReferencesInductive, PTL

(* The variables keep their types, for any workers and connections. *)
THEOREM TypeCorrect == SafetySpec => []TypeOK
<1>1. Init => TypeOK
  BY DEF Init, TypeOK
<1>2. TypeOK /\ [Next]_vars => TypeOK'
  <2> SUFFICES ASSUME TypeOK, [Next]_vars PROVE TypeOK'
    OBVIOUS
  <2>1. CASE Monitor
    <3>1. UNCHANGED reconciles /\ UNCHANGED <<healthy, stopped>>
      BY <2>1 DEF Monitor, Goto, Ensure, Lose, TakeAway, Dial, DialFails, DialSucceeds, Store,
         HandOver, Tick, Quit
    <3>2. /\ open' \subseteq Clients
          /\ mclient' \in Clients \cup {NoClient} /\ new' \in Clients \cup {NoClient}
          /\ rclient' \in Clients \cup {NoClient}
          /\ mpc' \in {"ensure", "lose", "lost", "connect", "dialed", "store", "hand", "wait",
                       "done"}
      BY <2>1 DEF TypeOK, Monitor, Goto, Ensure, Lose, closeClient, TakeAway, Dial, DialFails,
         DialSucceeds, Store, HandOver, Tick, Quit
    <3> QED BY <3>1, <3>2 DEF TypeOK, reconciles
  <2>2. ASSUME NEW w \in Workers, Work(w) PROVE TypeOK'
    <3>1. PICK l \in {"idle", "lookup", "deploy"}, c \in {NoClient, rclient, held[w]} :
              Becomes(w, l, c)
      BY <2>2 DEF Work, Begin, Lookup, Deploy, Return
    <3>2. c \in Clients \cup {NoClient}
      BY <3>1 DEF TypeOK
    <3>3. wpc' \in [Workers -> {"idle", "lookup", "deploy"}]
          /\ held' \in [Workers -> Clients \cup {NoClient}]
      BY <3>1, <3>2 DEF TypeOK, Becomes
    <3>4. UNCHANGED <<healthy, open, monitor, rclient>>
      BY <3>1 DEF Becomes
    <3> QED BY <3>3, <3>4 DEF TypeOK, monitor
  <2>3. CASE Health
    <3>1. healthy' \in BOOLEAN
      BY <2>3 DEF Health
    <3>2. UNCHANGED <<open, monitor, rclient, reconciles>>
      BY <2>3 DEF Health
    <3> QED BY <3>1, <3>2 DEF TypeOK, monitor, reconciles
  <2>4. CASE Stop
    <3>1. stopped' \in BOOLEAN
      BY <2>4 DEF Stop
    <3>2. UNCHANGED <<healthy, open, mclient, new, mpc, rclient, reconciles>>
      BY <2>4 DEF Stop
    <3> QED BY <3>1, <3>2 DEF TypeOK, reconciles
  <2>5. CASE UNCHANGED vars
    BY <2>5 DEF TypeOK, vars, monitor, reconciles
  <2> QED BY <2>1, <2>2, <2>3, <2>4, <2>5 DEF Next
<1> QED BY <1>1, <1>2, PTL DEF SafetySpec
=============================================================================
