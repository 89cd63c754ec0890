----------------------------- MODULE MCServices -----------------------------
(***************************************************************************)
(* The services that run beside the vaults, for TLC: device logins, the    *)
(* e-mail queue, the event bus and sessions.  They share no state, so that *)
(* a behaviour of the run is one of a single service, chosen at the start, *)
(* while the others rest; their interleavings would show nothing more.     *)
(***************************************************************************)
EXTENDS DeviceProperties, EmailQueue, EventBus, Sessions, TLC

CONSTANTS i1, i2, e1, e2, browser, machine
MCInstances == {i1, i2}
MCEvents == {e1, e2}
MCStreams == {browser, machine}
MCMachines == {machine}
MCOrigin == (e1 :> i1) @@ (e2 :> i2)
MCHome == (browser :> i1) @@ (machine :> i2)
MCVisible == machine :> {e1}

VARIABLE running

ServicesInit ==
  /\ running \in {"device", "email", "bus", "sessions"}
  /\ Init /\ EmailInit /\ BusInit /\ SessionInit
  /\ running # "bus" => connected = {}
  /\ running # "sessions" => keychain = "up"

ServicesNext ==
  /\ UNCHANGED running
  /\ \/ running = "device" /\ Next /\ UNCHANGED <<emailVars, busVars, authVars>>
     \/ running = "email" /\ EmailNext /\ UNCHANGED <<vars, busVars, authVars>>
     \/ running = "bus" /\ BusNext /\ UNCHANGED <<vars, emailVars, authVars>>
     \/ running = "sessions" /\ SessionNext /\ UNCHANGED <<vars, emailVars, busVars>>

ServicesSpec ==
  /\ ServicesInit
  /\ [][ServicesNext]_<<running, vars, emailVars, busVars, authVars>>
  /\ Fairness /\ EmailFairness /\ BusFairness /\ SessionFairness
=============================================================================
