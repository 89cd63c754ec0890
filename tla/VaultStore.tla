----------------------------- MODULE VaultStore -----------------------------
(***************************************************************************)
(* The MongoDB documents that one environment of one vault is made of, and *)
(* the operations of apps/server/internal/vault/store.go on them.  Every   *)
(* operator below stands for one database command and is therefore atomic; *)
(* the order in which a request issues them is the subject of              *)
(* VaultService.                                                           *)
(*                                                                         *)
(* Ciphertexts, signatures and wrapped keys are abstracted to the identity *)
(* of the data-encryption key (DEK) they are sealed under or deliver: that *)
(* is what decides who can read what.                                      *)
(***************************************************************************)
EXTENDS Integers, FiniteSets

CONSTANTS
  Users,          \* accounts that are members of the workspace
  Machines,       \* ids of machine identities of this environment
  TokenMachines,  \* those that would be of key type "token" (others: x25519)
  Changes,        \* ids of change requests
  Creator,        \* the user who created the vault
  None            \* no user, no change request

ASSUME StoreAssumption ==
  /\ Creator \in Users
  /\ TokenMachines \subseteq Machines
  /\ Users \cap Machines = {}
  /\ None \notin Users \cup Machines \cup Changes

VARIABLES
  keyVersion, headRevision, protected, rekeyRequired, \* vaults.environments.$
  role, access,   \* vault_members: role and this environment's permission
  hasKeys,        \* account_keys: users with an uploaded key bundle
  grants,         \* vault_key_grants
  revisions,      \* vault_revisions
  changes,        \* vault_change_requests
  machines        \* machine_identities

storeVars == <<keyVersion, headRevision, protected, rekeyRequired, role,
               access, hasKeys, grants, revisions, changes, machines>>

Recipients == Users \cup Machines
Roles == {"none", "member", "admin"}
Permissions == {"none", "read", "write"}
Statuses == {"absent", "pending", "approved", "rejected", "stale"}

\* via tells a grant minted by a rekey from one that shares a key already held:
\* DeleteGrantsByID names exactly the former by the ids of one rekey.
Grant == [kv : Nat, to : Recipients, dek : Nat, via : {"share", "rekey"}]

Revision == [n : Nat, parent : Nat, kv : Nat, dek : Nat,
             author : Users, change : Changes \cup {None}]

Change == [status : Statuses, base : Nat, kv : Nat, dek : Nat,
           author : Users \cup {None}, reviewer : Users \cup {None}]

NoChange == [status |-> "absent", base |-> 0, kv |-> 0, dek |-> 0,
             author |-> None, reviewer |-> None]

StoreTypeOK ==
  /\ keyVersion \in Nat /\ headRevision \in Nat
  /\ protected \in BOOLEAN /\ rekeyRequired \in BOOLEAN
  /\ role \in [Users -> Roles] /\ access \in [Users -> Permissions]
  /\ hasKeys \in SUBSET Users
  /\ grants \in SUBSET Grant
  /\ revisions \in SUBSET Revision
  /\ changes \in [Changes -> Change]
  /\ machines \in [Machines -> {"absent", "active", "expired", "revoked"}]

\* Service.Create: key version 1 of the fresh environment is DEK 0, granted to
\* the creator, who is vault admin with write access.
StoreInit ==
  /\ keyVersion = 1 /\ headRevision = 0
  /\ protected \in BOOLEAN /\ rekeyRequired = FALSE
  /\ role = [u \in Users |-> IF u = Creator THEN "admin" ELSE "none"]
  /\ access = [u \in Users |-> IF u = Creator THEN "write" ELSE "none"]
  /\ hasKeys = {Creator}
  /\ grants = {[kv |-> 1, to |-> Creator, dek |-> 0, via |-> "share"]}
  /\ revisions = {}
  /\ changes = [c \in Changes |-> NoChange]
  /\ machines = [m \in Machines |-> "absent"]

----------------------------------------------------------------------------
(* Grants *)

HasGrant(x, v) == \E g \in grants : g.to = x /\ g.kv = v

GrantDocs(v, d, to, via) ==
  {[kv |-> v, to |-> x, dek |-> d, via |-> via] : x \in to}

\* Documents whose (key version, recipient) is taken are silently skipped.
InsertGrants(v, d, to, via) ==
  grants' = grants \cup GrantDocs(v, d, {x \in to : ~HasGrant(x, v)}, via)

DeleteRecipientGrants(x) == grants' = {g \in grants : g.to # x}

DeleteMachineGrants(ms) == grants' = {g \in grants : g.to \notin ms}

\* Roll back one rekey: the grants it inserted itself all carry its new DEK.
DeleteGrantsByID(d) == grants' = {g \in grants : ~(g.via = "rekey" /\ g.dek = d)}

----------------------------------------------------------------------------
(* Revisions and the environment record *)

RevisionExists(n) == \E x \in revisions : x.n = n

\* Faulty variants (suffix Bug), here and in VaultService: slips that the
\* properties must tell from the code.  This one: no unique index.
InsertRevisionBug(doc) == revisions' = revisions \cup {doc}

\* An upsert where the code inserts.
InsertRevisionUpsertBug(doc) ==
  revisions' = {x \in revisions : x.n # doc.n} \cup {doc}

InsertRevision(doc) ==
  /\ ~RevisionExists(doc.n)
  /\ revisions' = revisions \cup {doc}

Raised(n) == IF headRevision < n THEN n ELSE headRevision

BumpHead(n) == headRevision' = Raised(n)

SetRekeyRequired == rekeyRequired' = TRUE

\* The update filter forgets the old key version.
CommitRekeyBug(old, new, head) ==
  keyVersion' = new /\ rekeyRequired' = FALSE /\ BumpHead(head)

\* Compare-and-set on key_version.
CommitRekey(old, new, head) ==
  /\ keyVersion = old
  /\ keyVersion' = new
  /\ rekeyRequired' = FALSE
  /\ BumpHead(head)

----------------------------------------------------------------------------
(* Change requests and machines *)

\* The update filter forgets the old status.
TransitionChangeRequestBug(c, from, to, reviewer) ==
  changes' = [changes EXCEPT ![c].status = to, ![c].reviewer = reviewer]

\* Compare-and-set on the status.
TransitionChangeRequest(c, from, to, reviewer) ==
  /\ changes[c].status = from
  /\ changes' = [changes EXCEPT ![c].status = to, ![c].reviewer = reviewer]

RevokeMachines(ms) ==
  machines' = [m \in Machines |->
                 IF m \in ms /\ machines[m] # "absent" THEN "revoked" ELSE machines[m]]

ActiveMachines == {m \in Machines : machines[m] = "active"}
=============================================================================
