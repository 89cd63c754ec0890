------------------------------ MODULE MCPeople ------------------------------
(***************************************************************************)
(* Accounts, sessions and memberships for TLC.  They share no state here,  *)
(* so that a behaviour of the run is one of a single part, chosen at the   *)
(* start, while the others rest in one state.  People, slots and           *)
(* environments are interchangeable.                                       *)
(***************************************************************************)
EXTENDS VaultMembers, Accounts, Sessions, TLC

VARIABLE running

TeamSymmetry ==
  Permutations(People) \cup Permutations(Slots) \cup Permutations(Envs)

SomeAddresses ==
  CHOOSE f \in [Identities -> Spelling] :
    \A x, y \in Identities : x # y => f[x].address # f[y].address

PeopleInit ==
  /\ running \in {"teams", "accounts", "sessions"}
  /\ TeamInit /\ AccountInit /\ SessionInit
  /\ running # "teams" => workspace = "absent"
  /\ running # "accounts" => primary = SomeAddresses
  /\ running # "sessions" => keychain = "up"

PeopleNext ==
  /\ UNCHANGED running
  /\ \/ running = "teams" /\ TeamNext /\ UNCHANGED <<accountVars, authVars>>
     \/ running = "accounts" /\ AccountNext /\ UNCHANGED <<teamVars, authVars>>
     \/ running = "sessions" /\ SessionNext /\ UNCHANGED <<teamVars, accountVars>>

PeopleSpec ==
  PeopleInit /\ [][PeopleNext]_<<running, teamVars, accountVars, authVars>>
=============================================================================
