------------------------------- MODULE MCCli -------------------------------
(***************************************************************************)
(* The clients of an environment for TLC: members with a working copy, and *)
(* machines that only fetch.  The two modules share no state, so that a    *)
(* behaviour of the run is one of either, while the other rests.           *)
(***************************************************************************)
EXTENDS CliSync, MachineAccess, TLC

CONSTANTS alice, bob
MCClients == {alice, bob}
MCAdmins == {alice}

VARIABLE running

OneStart == granted = [c \in Clients |-> {1}] /\ ~protected

ClientsInit ==
  /\ running \in {"members", "machines"}
  /\ Init /\ MachineInit
  /\ running = "machines" => OneStart

ClientsNext ==
  /\ UNCHANGED running
  /\ \/ running = "members" /\ Next /\ UNCHANGED machineVars
     \/ running = "machines" /\ MachineNext /\ UNCHANGED vars

ClientsSpec ==
  ClientsInit /\ [][ClientsNext]_<<running, vars, machineVars>> /\ Fairness
=============================================================================
