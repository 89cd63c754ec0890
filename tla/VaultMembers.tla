---------------------------- MODULE VaultMembers ----------------------------
(***************************************************************************)
(* A vault of the workspace: its creation, its environments and members,   *)
(* and its deletion (internal/vault/service.go and store.go), among the    *)
(* membership requests of Workspaces.  Rekeys and revisions are the        *)
(* subject of VaultService; here every key version is 1.  The deployment   *)
(* has no transactions for the vault's documents: with them, the steps of  *)
(* a cascade are one.                                                      *)
(***************************************************************************)
EXTENDS Workspaces

CONSTANTS
  Envs,         \* names of environments
  MaxBreaks     \* bounds the requests that die or whose database fails

ASSUME VaultAssumption == MaxBreaks \in Nat

VARIABLES
  vault,     \* "absent", "live" or "deleted"
  creator,   \* created_by
  envs,      \* its environments
  vrole,     \* vault_members
  access,    \* the environments of each member's access list
  keys,      \* vault_key_grants: who was granted which environment's key
  flagged,   \* the environments with rekey_required
  breaks,
  torn       \* history: Create died between its commands

vaultVars == <<vault, creator, envs, vrole, access, keys, flagged, breaks, torn>>
teamVars == <<wsVars, call, calls, vaultVars>>

VRoles == {"none", "member", "admin"}

TeamInit ==
  /\ WsInit
  /\ vault = "absent" /\ creator = Nobody /\ envs = {}
  /\ vrole = [u \in People |-> "none"] /\ access = [u \in People |-> {}]
  /\ keys = {} /\ flagged = {}
  /\ breaks = 0 /\ torn = FALSE

\* resolve: the vault is there and the caller is a member of the workspace.
Resolves(u) == Member(u) /\ vault = "live"
ManagesVault(u) == Resolves(u) /\ (Manages(u) \/ vrole[u] = "admin")

Granted(u, es) == keys \cup ({u} \X es)
Ungranted(u, es) == keys \ ({u} \X es)

----------------------------------------------------------------------------
(* Creation and deletion *)

CreateVault(s, u) ==
  /\ Calls(s)
  /\ Member(u) /\ vault = "absent"
  /\ \E es \in (SUBSET Envs) \ {{}} :
       /\ envs' = es
       /\ Remember(s, [NoCall EXCEPT !.step = "creator", !.who = u, !.envs = es])
  /\ vault' = "live" /\ creator' = u
  /\ UNCHANGED <<wsVars, vrole, access, keys, flagged, breaks, torn>>

\* The membership of the creator; if it cannot be inserted - another admin was
\* faster - the vault is deleted again.
CreateMember(s) ==
  LET q == call[s] IN
  /\ Doing(s, "creator")
  /\ IF vrole[q.who] = "none"
       THEN /\ vrole' = [vrole EXCEPT ![q.who] = "admin"]
            /\ access' = [access EXCEPT ![q.who] = q.envs]
            /\ Step(s, "createKeys")
       ELSE Step(s, "undo") /\ UNCHANGED <<vrole, access>>
  /\ UNCHANGED <<wsVars, calls, vault, creator, envs, keys, flagged, breaks, torn>>

\* Of Create, of AddEnvironment and of CreateGrants.
InsertKeys(s) ==
  /\ call[s].step \in {"createKeys", "envKeys", "share"}
  /\ keys' = Granted(call[s].who, call[s].envs)
  /\ Done(s)
  /\ UNCHANGED <<wsVars, vault, creator, envs, vrole, access, flagged, breaks, torn>>

DeleteVault(s, u) ==
  /\ Calls(s)
  /\ ManagesVault(u)
  /\ Remember(s, [NoCall EXCEPT !.step = "cascade", !.who = u])
  /\ UNCHANGED <<wsVars, vaultVars>>

\* The vault goes first.
DeleteVaultCascade(s) ==
  /\ Doing(s, "cascade") \/ Doing(s, "undo")
  /\ vault' = "deleted"
  /\ Step(s, "drop")
  /\ UNCHANGED <<wsVars, calls, vrole, access, keys, creator, envs, flagged, breaks, torn>>

\* Members, grants and the rest, one DeleteMany after the other.
DropVaultDocuments(s) ==
  \/ /\ Doing(s, "drop")
     /\ vrole' = [u \in People |-> "none"] /\ access' = [u \in People |-> {}]
     /\ Step(s, "dropKeys")
     /\ UNCHANGED <<wsVars, calls, vault, creator, envs, keys, flagged, breaks, torn>>
  \/ /\ Doing(s, "dropKeys")
     /\ keys' = {}
     /\ Done(s)
     /\ UNCHANGED <<wsVars, vault, creator, envs, vrole, access, flagged, breaks, torn>>

----------------------------------------------------------------------------
(* Environments *)

\* The update names an environment that the vault does not have yet.
AddEnvironment(s, u, e) ==
  /\ Calls(s)
  /\ ManagesVault(u) /\ e \notin envs
  /\ envs' = envs \cup {e}
  /\ Remember(s, [NoCall EXCEPT !.step = "envAccess", !.who = u, !.envs = {e}])
  /\ UNCHANGED <<wsVars, vault, creator, vrole, access, keys, flagged, breaks, torn>>

\* An upsert.
AddEnvAccessBug(s) ==
  LET q == call[s] IN
  /\ Doing(s, "envAccess")
  /\ access' = [access EXCEPT ![q.who] = @ \cup q.envs]
  /\ Step(s, "envKeys")
  /\ UNCHANGED <<wsVars, calls, vault, creator, envs, vrole, keys, flagged, breaks, torn>>

\* Matches nothing if the caller is a workspace admin outside the vault.
AddEnvAccess(s) ==
  LET q == call[s] IN
  /\ Doing(s, "envAccess")
  /\ access' = IF vrole[q.who] = "none" THEN access
               ELSE [access EXCEPT ![q.who] = @ \cup q.envs]
  /\ Step(s, "envKeys")
  /\ UNCHANGED <<wsVars, calls, vault, creator, envs, vrole, keys, flagged, breaks, torn>>

----------------------------------------------------------------------------
(* Members and grants *)

AddVaultMember(s, u, t) ==
  /\ Calls(s)
  /\ ManagesVault(u)
  /\ Member(t) /\ vrole[t] = "none"
  /\ \E r \in GivenRoles, es \in SUBSET envs :
       Remember(s, [NoCall EXCEPT !.step = "add", !.who = t, !.role = r, !.envs = es])
  /\ UNCHANGED <<wsVars, vaultVars>>

\* A duplicate is refused; nothing looks at the vault or the workspace again.
InsertVaultMember(s) ==
  LET q == call[s] IN
  /\ Doing(s, "add")
  /\ IF vrole[q.who] = "none"
       THEN /\ vrole' = [vrole EXCEPT ![q.who] = q.role]
            /\ access' = [access EXCEPT ![q.who] = q.envs]
       ELSE UNCHANGED <<vrole, access>>
  /\ Done(s)
  /\ UNCHANGED <<wsVars, vault, creator, envs, keys, flagged, breaks, torn>>

\* What the patch leaves out is written back as it is read here.
UpdateVaultMember(s, u, t) ==
  /\ Calls(s)
  /\ ManagesVault(u)
  /\ vrole[t] # "none"
  /\ \E r \in GivenRoles \cup {vrole[t]}, es \in (SUBSET envs) \cup {access[t]} :
       Remember(s, [NoCall EXCEPT !.step = "update", !.who = t, !.role = r, !.envs = es,
                                  !.lost = access[t] \ es])
  /\ UNCHANGED <<wsVars, vaultVars>>

WriteVaultMember(s) ==
  LET q == call[s]
      there == vrole[q.who] # "none" IN
  /\ Doing(s, "update")
  /\ vrole' = IF there THEN [vrole EXCEPT ![q.who] = q.role] ELSE vrole
  /\ access' = IF there THEN [access EXCEPT ![q.who] = q.envs] ELSE access
  /\ IF q.lost = {} THEN Done(s) ELSE Step(s, "ungrant") /\ UNCHANGED calls
  /\ UNCHANGED <<wsVars, vault, creator, envs, keys, flagged, breaks, torn>>

\* The creator may be removed.
MayRemoveBug(t) == vrole[t] # "none"
MayRemove(t) == vrole[t] # "none" /\ t # creator

RemoveVaultMember(s, u, t) ==
  /\ Calls(s)
  /\ ManagesVault(u) /\ MayRemove(t)
  /\ Remember(s, [NoCall EXCEPT !.step = "remove", !.who = t, !.lost = access[t]])
  /\ UNCHANGED <<wsVars, vaultVars>>

DeleteVaultMember(s) ==
  LET q == call[s] IN
  /\ Doing(s, "remove")
  /\ vrole' = [vrole EXCEPT ![q.who] = "none"]
  /\ access' = [access EXCEPT ![q.who] = {}]
  /\ Step(s, "ungrantAll")
  /\ UNCHANGED <<wsVars, calls, vault, creator, envs, keys, flagged, breaks, torn>>

\* Errors of these two commands are ignored.
Ungrant(s) ==
  LET q == call[s] IN
  /\ Doing(s, "ungrant") \/ Doing(s, "ungrantAll")
  /\ keys' = Ungranted(q.who, IF Doing(s, "ungrantAll") THEN Envs ELSE q.lost)
  /\ Step(s, "flag")
  /\ UNCHANGED <<wsVars, calls, vault, creator, envs, vrole, access, flagged, breaks, torn>>

FlagRekey(s) ==
  /\ Doing(s, "flag")
  /\ flagged' = flagged \cup (call[s].lost \cap envs)
  /\ Done(s)
  /\ UNCHANGED <<wsVars, vault, creator, envs, vrole, access, keys, breaks, torn>>

ShareKeys(s, u, t, e) ==
  /\ Calls(s)
  /\ ManagesVault(u)
  /\ vrole[t] # "none" /\ e \in access[t] /\ <<u, e>> \in keys
  /\ Remember(s, [NoCall EXCEPT !.step = "share", !.who = t, !.envs = {e}])
  /\ UNCHANGED <<wsVars, vaultVars>>

----------------------------------------------------------------------------
(* Failures *)

\* A command fails: Create cleans up, what is best effort goes on and everything
\* else gives up; or the process dies.
Break(s) ==
  /\ call[s] # NoCall /\ breaks < MaxBreaks
  /\ breaks' = breaks + 1
  /\ \/ call[s].step \in {"creator", "createKeys"} /\ Step(s, "undo") /\ UNCHANGED torn
     \/ Doing(s, "envAccess") /\ Step(s, "envKeys") /\ UNCHANGED torn
     \/ call[s].step \in {"ungrant", "ungrantAll"} /\ Step(s, "flag") /\ UNCHANGED torn
     \/ Remember(s, NoCall) /\ torn' = (torn \/ call[s].step \in {"creator", "undo"})
  /\ UNCHANGED <<wsVars, calls, vault, creator, envs, vrole, access, keys, flagged>>

VaultRequest ==
  \/ \E s \in Slots, u \in People : CreateVault(s, u) \/ DeleteVault(s, u)
  \/ \E s \in Slots, u \in People, e \in Envs : AddEnvironment(s, u, e)
  \/ \E s \in Slots, u, t \in People :
       \/ AddVaultMember(s, u, t) \/ UpdateVaultMember(s, u, t)
       \/ RemoveVaultMember(s, u, t)
       \/ \E e \in Envs : ShareKeys(s, u, t, e)

VaultCommand(s) ==
  \/ CreateMember(s) \/ InsertKeys(s) \/ DeleteVaultCascade(s)
  \/ DropVaultDocuments(s) \/ AddEnvAccess(s) \/ InsertVaultMember(s)
  \/ WriteVaultMember(s) \/ DeleteVaultMember(s) \/ Ungrant(s) \/ FlagRekey(s)

TeamNext ==
  \/ (WsRequest \/ WsCommand) /\ UNCHANGED vaultVars
  \/ VaultRequest
  \/ \E s \in Slots : VaultCommand(s) \/ Break(s)

TeamSpec == TeamInit /\ [][TeamNext]_teamVars
----------------------------------------------------------------------------
(* Properties *)

CallSteps == {"idle", "invite", "cancel", "join", "role", "leave", "creator", "createKeys",
              "undo", "cascade", "drop", "dropKeys", "envAccess", "envKeys", "add",
              "update", "remove", "ungrant", "ungrantAll", "flag", "share"}

Call == [step : CallSteps, who : People \cup {Nobody}, role : GivenRoles,
         invite : Invites \cup {Nobody}, envs : SUBSET Envs, lost : SUBSET Envs]

\* Every document is well formed: access lists belong to members and name
\* environments of the vault, as flags do (AddEnvAccess, parseEnvAccess).
TeamTypes ==
  /\ WsTypes
  /\ call \in [Slots -> Call]
  /\ vault \in {"absent", "live", "deleted"} /\ creator \in People \cup {Nobody}
  /\ envs \in SUBSET Envs /\ flagged \in SUBSET envs
  /\ vrole \in [People -> VRoles] /\ access \in [People -> SUBSET envs]
  /\ \A u \in People : vrole[u] = "none" => access[u] = {}
  /\ keys \in SUBSET (People \X Envs)
  /\ breaks \in 0..MaxBreaks /\ torn \in BOOLEAN

Opening == \E s \in Slots : call[s].step \in {"creator", "undo"}

\* "a partial failure never leaves a live vault with missing members"
\* (DeleteVaultCascade): as long as a vault is live its creator is a member of
\* it - but for the moment between the two commands of Create, and for a Create
\* that died there and whose clean-up could not run.
LiveVaultHasCreator ==
  vault = "live" => vrole[creator] # "none" \/ Opening \/ torn
=============================================================================
