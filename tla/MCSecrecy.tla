------------------------------ MODULE MCSecrecy ------------------------------
(***************************************************************************)
(* A small instance of VaultSecrecy for TLC: everything that gives a key   *)
(* to somebody, or takes it away, one request after the other.             *)
(***************************************************************************)
EXTENDS VaultSecrecy, TLC

AccessOps == {"rekey", "grant", "addMember", "updateMember", "removeMember",
              "keys", "reset", "createMachine", "revokeMachine", "expireMachine"}

AnyPatch == {"admin", "member"} \X {"none", "write"}

\* None of these operations reads `protected': one of its values is enough.
UnprotectedInit == SecrecyInit /\ ~protected
UnprotectedSpec == UnprotectedInit /\ [][SecrecyNext]_secrecyVars
=============================================================================
