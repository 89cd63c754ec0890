---------------------------- MODULE VaultService ----------------------------
(***************************************************************************)
(* The request handlers of apps/server/internal/vault/service.go (and the  *)
(* three of machine/service.go and keys/service.go that write the same     *)
(* documents) on one environment, interleaved at the database commands.    *)
(*                                                                         *)
(* A request first reads and validates, remembers what it read, and then   *)
(* writes.  Where the code wraps its writes in withTx and the deployment   *)
(* has transactions they are one step; on a standalone mongod (Transactions*)
(* = FALSE) each command is a step of its own.  A request that fails a     *)
(* check returns an error and changes nothing, so it has no step here.     *)
(***************************************************************************)
EXTENDS VaultStore

CONSTANTS
  WorkspaceAdmins, \* users whose workspace role is owner or admin
  Requests,        \* slots of requests that the server handles concurrently
  Operations,      \* bound: the handlers the clients of this instance call
  MemberPatches,   \* bound: the <<role, access>> that members are given
  Transactions,    \* the deployment supports multi-document transactions
  Faults,          \* a request may die or lose its database between commands
  MaxRevision,     \* bound: no write is attempted on a head that reached it
  MaxRekeys        \* bound: number of rekeys the clients attempt

ASSUME ServiceAssumption ==
  /\ WorkspaceAdmins \subseteq Users
  /\ MemberPatches \subseteq {"member", "admin"} \X Permissions
  /\ Transactions \in BOOLEAN /\ Faults \in BOOLEAN
  /\ MaxRevision \in Nat /\ MaxRekeys \in Nat

VARIABLES
  req,    \* what each request slot remembers between its commands
  minted  \* number of DEKs minted by rekeying clients so far

vars == <<storeVars, req, minted>>

Steps == {"idle", "write", "bump", "propose", "approve", "stalePending",
          "staleApproved", "recipients", "rekey", "rekeyRevision",
          "rekeyCommit", "rekeyRevoke", "rekeyUngrant", "rollback", "share",
          "update", "remove", "ungrant", "flag", "deleteBundle", "enroll",
          "enrollGrant"}

Request ==
  [step : Steps,                  \* the command to issue next
   by : Users \cup {None},        \* the caller
   base : Nat, kv : Nat, dek : Nat,
   change : Changes \cup {None},
   who : Recipients \cup {None},  \* the member or machine operated on
   role : Roles, access : Permissions, lost : BOOLEAN,
   to : SUBSET Recipients,        \* recipients of the submitted grants
   tokens : SUBSET Machines]      \* token machines a rekey will revoke

Idle == [step |-> "idle", by |-> None, base |-> 0, kv |-> 0, dek |-> 0,
         change |-> None, who |-> None, role |-> "none", access |-> "none",
         lost |-> FALSE, to |-> {}, tokens |-> {}]

TypeOK ==
  /\ StoreTypeOK
  /\ req \in [Requests -> Request]
  /\ minted \in Nat

Init ==
  /\ StoreInit
  /\ req = [r \in Requests |-> Idle]
  /\ minted = 0

----------------------------------------------------------------------------
(* access.go *)

IsVaultAdmin(u) == role[u] = "admin"
CanManage(u) == u \in WorkspaceAdmins \/ IsVaultAdmin(u)
CanRead(u) == role[u] # "none" /\ access[u] # "none"
CanWrite(u) == role[u] # "none" /\ access[u] = "write"

\* Recipients a rekey must cover, and may cover: members of the environment
\* that have keys, and active machines with a public key.
Entitled == {u \in Users : CanRead(u) /\ u \in hasKeys}
              \cup (ActiveMachines \ TokenMachines)

(* Request bookkeeping *)

Calls(r, op) == op \in Operations /\ req[r] = Idle
At(r, step) == req[r].step = step
Continue(r, next) == req' = [req EXCEPT ![r] = next]
GoTo(r, step) == Continue(r, [req[r] EXCEPT !.step = step])
Return(r) == Continue(r, Idle)

----------------------------------------------------------------------------
(* PushRevision, CreateChangeRequest, ApproveChangeRequest, Reject... *)

\* No check of key_version against the environment's.
SubmissionBug(u) ==
  {[Idle EXCEPT !.by = u, !.base = headRevision, !.kv = g.kv, !.dek = g.dek] :
      g \in {x \in grants : x.to = u}}

\* What an up-to-date client of u submits: a snapshot on top of the head,
\* sealed under the current key it holds.
Submission(u) ==
  {[Idle EXCEPT !.by = u, !.base = headRevision, !.kv = keyVersion, !.dek = g.dek] :
      g \in {x \in grants : x.to = u /\ x.kv = keyVersion}}

MayWrite(u) ==
  /\ CanWrite(u)
  /\ ~rekeyRequired
  /\ u \in hasKeys
  /\ headRevision < MaxRevision

PushRevision(r, u) ==
  /\ Calls(r, "push")
  /\ MayWrite(u)
  /\ protected => IsVaultAdmin(u)
  /\ \E s \in Submission(u) : Continue(r, [s EXCEPT !.step = "write"])
  /\ UNCHANGED <<storeVars, minted>>

CreateChangeRequest(r, u) ==
  /\ Calls(r, "propose")
  /\ MayWrite(u)
  /\ protected
  /\ \E s \in Submission(u) : Continue(r, [s EXCEPT !.step = "propose"])
  /\ UNCHANGED <<storeVars, minted>>

\* The author is not stored.
NewChangeBug(q) ==
  [NoChange EXCEPT !.status = "pending", !.base = q.base, !.kv = q.kv, !.dek = q.dek]

NewChange(q) ==
  [status |-> "pending", base |-> q.base, kv |-> q.kv, dek |-> q.dek,
   author |-> q.by, reviewer |-> None]

InsertChangeRequest(r, c) ==
  /\ At(r, "propose")
  /\ changes[c].status = "absent"
  /\ changes' = [changes EXCEPT ![c] = NewChange(req[r])]
  /\ Return(r)
  /\ UNCHANGED <<keyVersion, headRevision, protected, rekeyRequired, role,
                 access, hasKeys, grants, revisions, machines, minted>>

\* Authors may approve their own.
MayApproveBug(u, c) == IsVaultAdmin(u) /\ changes[c].status = "pending"

MayApprove(u, c) ==
  /\ IsVaultAdmin(u)
  /\ changes[c].status = "pending"
  /\ changes[c].author # u

ApproveChangeRequest(r, u, c) ==
  /\ Calls(r, "approve")
  /\ MayApprove(u, c)
  /\ Continue(r, [Idle EXCEPT
       !.step = IF changes[c].base = headRevision THEN "approve" ELSE "stalePending",
       !.by = u, !.change = c,
       !.base = changes[c].base, !.kv = changes[c].kv, !.dek = changes[c].dek])
  /\ UNCHANGED <<storeVars, minted>>

\* The decision itself; losing the compare-and-set ends the request.
ApproveTransition(r) ==
  /\ At(r, "approve")
  /\ \/ /\ TransitionChangeRequest(req[r].change, "pending", "approved", req[r].by)
        /\ GoTo(r, "write")
     \/ /\ changes[req[r].change].status # "pending"
        /\ Return(r)
        /\ UNCHANGED changes
  /\ UNCHANGED <<keyVersion, headRevision, protected, rekeyRequired, role,
                 access, hasKeys, grants, revisions, machines, minted>>

MarkStale(r) ==
  /\ At(r, "stalePending") \/ At(r, "staleApproved")
  /\ LET from == IF At(r, "stalePending") THEN "pending" ELSE "approved"
     IN  \/ TransitionChangeRequest(req[r].change, from, "stale", req[r].by)
         \/ changes[req[r].change].status # from /\ UNCHANGED changes
  /\ Return(r)
  /\ UNCHANGED <<keyVersion, headRevision, protected, rekeyRequired, role,
                 access, hasKeys, grants, revisions, machines, minted>>

RejectChangeRequest(u, c) ==
  /\ "reject" \in Operations
  /\ IsVaultAdmin(u)
  /\ TransitionChangeRequest(c, "pending", "rejected", u)
  /\ UNCHANGED <<keyVersion, headRevision, protected, rekeyRequired, role,
                 access, hasKeys, grants, revisions, machines, req, minted>>

\* The document a push or an approval commits.
RevisionOf(q) ==
  [n |-> q.base + 1, parent |-> q.base, kv |-> q.kv, dek |-> q.dek,
   author |-> IF q.change = None THEN q.by ELSE changes[q.change].author,
   change |-> q.change]

\* withTx(InsertRevision, BumpHead); without transactions BumpHead comes later.
WriteRevision(r) ==
  /\ At(r, "write")
  /\ InsertRevision(RevisionOf(req[r]))
  /\ \/ Transactions /\ BumpHead(req[r].base + 1) /\ Return(r)
     \/ ~Transactions /\ UNCHANGED headRevision /\ GoTo(r, "bump")
  /\ UNCHANGED <<keyVersion, protected, rekeyRequired, role, access, hasKeys,
                 grants, changes, machines, minted>>

\* An approval that lost the race stays approved.
WriteConflictBug(r) ==
  /\ At(r, "write")
  /\ RevisionExists(req[r].base + 1)
  /\ Return(r)
  /\ UNCHANGED <<storeVars, minted>>

\* ErrRevisionExists: another writer committed that number.
WriteConflict(r) ==
  /\ At(r, "write")
  /\ RevisionExists(req[r].base + 1)
  /\ IF req[r].change = None THEN Return(r) ELSE GoTo(r, "staleApproved")
  /\ UNCHANGED <<storeVars, minted>>

WriteHead(r) ==
  /\ At(r, "bump")
  /\ BumpHead(req[r].base + 1)
  /\ Return(r)
  /\ UNCHANGED <<keyVersion, protected, rekeyRequired, role, access, hasKeys,
                 grants, revisions, changes, machines, minted>>

PatchEnvironment(u) ==
  /\ "protect" \in Operations
  /\ CanManage(u)
  /\ protected' = ~protected
  /\ UNCHANGED <<keyVersion, headRevision, rekeyRequired, role, access, hasKeys,
                 grants, revisions, changes, machines, req, minted>>

----------------------------------------------------------------------------
(* Rekey *)

Rekey(r, u) ==
  /\ Calls(r, "rekey")
  /\ IsVaultAdmin(u) /\ CanRead(u)
  /\ HasGrant(u, keyVersion)
  /\ headRevision > 0 => u \in hasKeys
  /\ minted < MaxRekeys /\ headRevision < MaxRevision
  /\ minted' = minted + 1
  /\ Continue(r, [Idle EXCEPT !.step = "recipients", !.by = u,
       !.base = headRevision, !.kv = keyVersion + 1, !.dek = minted + 1])
  /\ UNCHANGED storeVars

\* Token machines are not looked up.
RekeyRecipientsBug(r) ==
  /\ At(r, "recipients")
  /\ Continue(r, [req[r] EXCEPT !.step = "rekey", !.to = Entitled])
  /\ UNCHANGED <<storeVars, minted>>

\* An error of the listing is ignored: no token machine is revoked.
ListedTokens == {ActiveMachines \cap TokenMachines} \cup (IF Faults THEN {{}} ELSE {})

\* entitledRecipients and the list of token machines: the submitted grants must
\* reach exactly the entitled recipients.
RekeyRecipients(r) ==
  /\ At(r, "recipients")
  /\ \E ts \in ListedTokens :
       Continue(r, [req[r] EXCEPT !.step = "rekey", !.to = Entitled, !.tokens = ts])
  /\ UNCHANGED <<storeVars, minted>>

\* A revision is part of a rekey when the environment had a head.
HasRevision(q) == q.base > 0
RekeyHead(q) == IF HasRevision(q) THEN q.base + 1 ELSE q.base

\* The commit is applied, but the request is told of an error: it rolls back
\* grants that are now current.
CommitUnheard(r) == Faults /\ GoTo(r, "rollback")

RekeyTx(r) ==
  LET q == req[r] IN
  /\ Transactions /\ At(r, "rekey")
  /\ CommitRekey(q.kv - 1, q.kv, RekeyHead(q))
  /\ IF HasRevision(q) THEN InsertRevision(RevisionOf(q)) ELSE UNCHANGED revisions
  /\ grants' = {g \in grants : g.to \notin q.tokens}
                 \cup GrantDocs(q.kv, q.dek, {x \in q.to : ~HasGrant(x, q.kv)}, "rekey")
  /\ RevokeMachines(q.tokens)
  /\ Return(r) \/ CommitUnheard(r)
  /\ UNCHANGED <<protected, role, access, hasKeys, changes, minted>>

\* The transaction aborts on a taken revision number or a moved key version;
\* the DeleteGrantsByID that follows finds nothing to delete.
RekeyTxAborts(r) ==
  LET q == req[r] IN
  /\ Transactions /\ At(r, "rekey")
  /\ keyVersion # q.kv - 1 \/ (HasRevision(q) /\ RevisionExists(q.base + 1))
  /\ Return(r)
  /\ UNCHANGED <<storeVars, minted>>

RekeyGrants(r) ==
  LET q == req[r] IN
  /\ ~Transactions /\ At(r, "rekey")
  /\ InsertGrants(q.kv, q.dek, q.to, "rekey")
  /\ GoTo(r, IF HasRevision(q) THEN "rekeyRevision" ELSE "rekeyCommit")
  /\ UNCHANGED <<keyVersion, headRevision, protected, rekeyRequired, role,
                 access, hasKeys, revisions, changes, machines, minted>>

RekeyRevision(r) ==
  /\ At(r, "rekeyRevision")
  /\ \/ InsertRevision(RevisionOf(req[r])) /\ GoTo(r, "rekeyCommit")
     \/ /\ RevisionExists(req[r].base + 1)
        /\ GoTo(r, "rollback") /\ UNCHANGED revisions
  /\ UNCHANGED <<keyVersion, headRevision, protected, rekeyRequired, role,
                 access, hasKeys, grants, changes, machines, minted>>

RekeyCommit(r) ==
  LET q == req[r] IN
  /\ At(r, "rekeyCommit")
  /\ \/ /\ CommitRekey(q.kv - 1, q.kv, RekeyHead(q))
        /\ \/ IF q.tokens = {} THEN Return(r) ELSE GoTo(r, "rekeyRevoke")
           \/ CommitUnheard(r)
     \/ /\ keyVersion # q.kv - 1
        /\ GoTo(r, "rollback")
        /\ UNCHANGED <<keyVersion, headRevision, rekeyRequired>>
  /\ UNCHANGED <<protected, role, access, hasKeys, grants, revisions, changes,
                 machines, minted>>

RekeyRevoke(r) ==
  /\ At(r, "rekeyRevoke")
  /\ RevokeMachines(req[r].tokens)
  /\ GoTo(r, "rekeyUngrant")
  /\ UNCHANGED <<keyVersion, headRevision, protected, rekeyRequired, role,
                 access, hasKeys, grants, revisions, changes, minted>>

RekeyUngrant(r) ==
  /\ At(r, "rekeyUngrant")
  /\ DeleteMachineGrants(req[r].tokens)
  /\ Return(r)
  /\ UNCHANGED <<keyVersion, headRevision, protected, rekeyRequired, role,
                 access, hasKeys, revisions, changes, machines, minted>>

Rollback(r) ==
  /\ At(r, "rollback")
  /\ DeleteGrantsByID(req[r].dek)
  /\ Return(r)
  /\ UNCHANGED <<keyVersion, headRevision, protected, rekeyRequired, role,
                 access, hasKeys, revisions, changes, machines, minted>>

----------------------------------------------------------------------------
(* Grants and members *)

\* A member of the environment, or any active machine of it.  The caller has
\* wrapped a key it holds for the recipient: to the public key of a user, which
\* is why he has one, though the server itself looks at his membership only.
EntitledToGrant(x) ==
  IF x \in Users THEN CanRead(x) /\ x \in hasKeys ELSE x \in ActiveMachines

\* Of any key version up to the current one.
CreateGrants(r, u, x) ==
  /\ Calls(r, "grant")
  /\ CanManage(u)
  /\ EntitledToGrant(x)
  /\ \E g \in grants :
       /\ g.to = u /\ g.kv \in 1..keyVersion
       /\ Continue(r, [Idle EXCEPT !.step = "share", !.by = u, !.kv = g.kv,
                                   !.dek = g.dek, !.to = {x}])
  /\ UNCHANGED <<storeVars, minted>>

ShareGrants(r) ==
  /\ At(r, "share") \/ At(r, "enrollGrant")
  /\ InsertGrants(req[r].kv, req[r].dek, req[r].to, "share")
  /\ Return(r)
  /\ UNCHANGED <<keyVersion, headRevision, protected, rekeyRequired, role,
                 access, hasKeys, revisions, changes, machines, minted>>

\* The unique (vault, user) index makes check and insert one decision.
AddMember(u, t) ==
  /\ "addMember" \in Operations
  /\ CanManage(u)
  /\ role[t] = "none"
  /\ \E p \in MemberPatches :
       /\ role' = [role EXCEPT ![t] = p[1]]
       /\ access' = [access EXCEPT ![t] = p[2]]
  /\ UNCHANGED <<keyVersion, headRevision, protected, rekeyRequired, hasKeys,
                 grants, revisions, changes, machines, req, minted>>

\* A patch names the role, the access list, or both; what it leaves out is
\* written back as it is read here.
UpdateMember(r, u, t) ==
  /\ Calls(r, "updateMember")
  /\ CanManage(u)
  /\ role[t] # "none"
  /\ \E p \in MemberPatches, keepRole \in BOOLEAN, keepAccess \in BOOLEAN :
       LET ac == IF keepAccess THEN access[t] ELSE p[2]
       IN  Continue(r, [Idle EXCEPT !.step = "update", !.by = u, !.who = t,
             !.role = IF keepRole THEN role[t] ELSE p[1],
             !.access = ac, !.lost = access[t] # "none" /\ ac = "none"])
  /\ UNCHANGED <<storeVars, minted>>

WriteMember(r) ==
  LET q == req[r] IN
  /\ At(r, "update")
  /\ IF role[q.who] # "none"
       THEN /\ role' = [role EXCEPT ![q.who] = q.role]
            /\ access' = [access EXCEPT ![q.who] = q.access]
       ELSE UNCHANGED <<role, access>>
  /\ IF q.lost THEN GoTo(r, "ungrant") ELSE Return(r)
  /\ UNCHANGED <<keyVersion, headRevision, protected, rekeyRequired, hasKeys,
                 grants, revisions, changes, machines, minted>>

RemoveMember(r, u, t) ==
  /\ Calls(r, "removeMember")
  /\ CanManage(u)
  /\ t # Creator
  /\ role[t] # "none"
  /\ Continue(r, [Idle EXCEPT !.step = "remove", !.by = u, !.who = t,
                              !.lost = access[t] # "none"])
  /\ UNCHANGED <<storeVars, minted>>

DeleteMember(r) ==
  /\ At(r, "remove")
  /\ role' = [role EXCEPT ![req[r].who] = "none"]
  /\ access' = [access EXCEPT ![req[r].who] = "none"]
  /\ GoTo(r, "ungrant")
  /\ UNCHANGED <<keyVersion, headRevision, protected, rekeyRequired, hasKeys,
                 grants, revisions, changes, machines, minted>>

\* Losing access does not flag the environment.
UngrantBug(r) ==
  /\ At(r, "ungrant")
  /\ DeleteRecipientGrants(req[r].who)
  /\ Return(r)
  /\ UNCHANGED <<keyVersion, headRevision, protected, rekeyRequired, role,
                 access, hasKeys, revisions, changes, machines, minted>>

\* The error of this command is ignored: with faults it may leave the grants.
Ungrant(r) ==
  /\ At(r, "ungrant")
  /\ DeleteRecipientGrants(req[r].who) \/ (Faults /\ UNCHANGED grants)
  /\ IF req[r].lost THEN GoTo(r, "flag") ELSE Return(r)
  /\ UNCHANGED <<keyVersion, headRevision, protected, rekeyRequired, role,
                 access, hasKeys, revisions, changes, machines, minted>>

FlagRekey(r) ==
  /\ At(r, "flag")
  /\ SetRekeyRequired
  /\ Return(r)
  /\ UNCHANGED <<keyVersion, headRevision, protected, role, access, hasKeys,
                 grants, revisions, changes, machines, minted>>

----------------------------------------------------------------------------
(* keys/service.go and machine/service.go *)

PutKeys(u) ==
  /\ "keys" \in Operations
  /\ u \notin hasKeys
  /\ hasKeys' = hasKeys \cup {u}
  /\ UNCHANGED <<keyVersion, headRevision, protected, rekeyRequired, role,
                 access, grants, revisions, changes, machines, req, minted>>

ResetKeys(r, u) ==
  /\ Calls(r, "reset")
  /\ DeleteRecipientGrants(u)
  /\ Continue(r, [Idle EXCEPT !.step = "deleteBundle", !.by = u, !.who = u])
  /\ UNCHANGED <<keyVersion, headRevision, protected, rekeyRequired, role,
                 access, hasKeys, revisions, changes, machines, minted>>

DeleteBundle(r) ==
  /\ At(r, "deleteBundle")
  /\ hasKeys' = hasKeys \ {req[r].who}
  /\ Return(r)
  /\ UNCHANGED <<keyVersion, headRevision, protected, rekeyRequired, role,
                 access, grants, revisions, changes, machines, minted>>

\* With an initial grant, for which the creator wraps the current key.
CreateMachine(r, u, m) ==
  /\ Calls(r, "createMachine")
  /\ IsVaultAdmin(u)
  /\ machines[m] = "absent"
  /\ \E s \in Submission(u) :
       Continue(r, [s EXCEPT !.step = "enroll", !.who = m, !.to = {m}])
  /\ UNCHANGED <<storeVars, minted>>

\* Without one, the insertion of the machine is the only command.
RegisterMachine(u, m) ==
  /\ "createMachine" \in Operations
  /\ IsVaultAdmin(u)
  /\ machines[m] = "absent"
  /\ machines' = [machines EXCEPT ![m] = "active"]
  /\ UNCHANGED <<keyVersion, headRevision, protected, rekeyRequired, role,
                 access, hasKeys, grants, revisions, changes, req, minted>>

\* An upsert where the code inserts.
EnrollMachineBug(r) ==
  /\ At(r, "enroll")
  /\ machines' = [machines EXCEPT ![req[r].who] = "active"]
  /\ Return(r)
  /\ UNCHANGED <<keyVersion, headRevision, protected, rekeyRequired, role,
                 access, hasKeys, grants, revisions, changes, minted>>

EnrollMachine(r) ==
  LET q == req[r] IN
  /\ At(r, "enroll")
  /\ \/ /\ machines[q.who] = "absent"
        /\ machines' = [machines EXCEPT ![q.who] = "active"]
        /\ IF Transactions
             THEN InsertGrants(q.kv, q.dek, q.to, "share") /\ Return(r)
             ELSE UNCHANGED grants /\ GoTo(r, "enrollGrant")
     \/ machines[q.who] # "absent" /\ Return(r) /\ UNCHANGED <<machines, grants>>
  /\ UNCHANGED <<keyVersion, headRevision, protected, rekeyRequired, role,
                 access, hasKeys, revisions, changes, minted>>

\* Without transactions a machine whose grant cannot be stored, or was stored with
\* an error for an answer, is deleted again.
UndoEnroll(r) ==
  LET q == req[r] IN
  /\ Faults /\ At(r, "enrollGrant")
  /\ UNCHANGED grants \/ InsertGrants(q.kv, q.dek, q.to, "share")
  /\ machines' = [machines EXCEPT ![q.who] = "absent"]
  /\ Return(r)
  /\ UNCHANGED <<keyVersion, headRevision, protected, rekeyRequired, role,
                 access, hasKeys, revisions, changes, minted>>

RevokeMachine(r, u, m) ==
  /\ Calls(r, "revokeMachine")
  /\ IsVaultAdmin(u)
  /\ machines[m] \in {"active", "expired"}
  /\ RevokeMachines({m})
  /\ Continue(r, [Idle EXCEPT !.step = "ungrant", !.by = u, !.who = m])
  /\ UNCHANGED <<keyVersion, headRevision, protected, rekeyRequired, role,
                 access, hasKeys, grants, revisions, changes, minted>>

ExpireMachine(m) ==
  /\ "expireMachine" \in Operations
  /\ machines[m] = "active"
  /\ machines' = [machines EXCEPT ![m] = "expired"]
  /\ UNCHANGED <<keyVersion, headRevision, protected, rekeyRequired, role,
                 access, hasKeys, grants, revisions, changes, req, minted>>

----------------------------------------------------------------------------
(* The process dies under a request, or a command returns an error; a rekey
   that gets an error (rather than dying) rolls its grants back, or ignores it
   once it has committed.  Of a command that was applied but answered with an
   error this is the step after it; where the next step would come too late,
   at the commit of a rekey and the undoing of a machine, the command itself
   has the case. *)
Abort(r) ==
  /\ Faults
  /\ req[r] # Idle
  /\ \/ Return(r)
     \/ At(r, "rekeyRevision") /\ GoTo(r, "rollback")
     \/ At(r, "rekeyCommit") /\ GoTo(r, "rollback")
     \/ At(r, "rekeyRevoke") /\ GoTo(r, "rekeyUngrant")
  /\ UNCHANGED <<storeVars, minted>>

Writes(r, u) ==
  \/ PushRevision(r, u) \/ CreateChangeRequest(r, u)
  \/ \E c \in Changes : ApproveChangeRequest(r, u, c)
  \/ Rekey(r, u)

Sharing(r, u) ==
  \/ \E x \in Recipients : CreateGrants(r, u, x)
  \/ \E t \in Users : UpdateMember(r, u, t) \/ RemoveMember(r, u, t)
  \/ \E m \in Machines : CreateMachine(r, u, m) \/ RevokeMachine(r, u, m)
  \/ ResetKeys(r, u)

Immediate(u) ==
  \/ \E c \in Changes : RejectChangeRequest(u, c)
  \/ \E t \in Users : AddMember(u, t)
  \/ \E m \in Machines : RegisterMachine(u, m)
  \/ PatchEnvironment(u) \/ PutKeys(u)

Command(r) ==
  \/ \E c \in Changes : InsertChangeRequest(r, c)
  \/ ApproveTransition(r) \/ MarkStale(r)
  \/ WriteRevision(r) \/ WriteConflict(r) \/ WriteHead(r)
  \/ RekeyRecipients(r) \/ RekeyTx(r) \/ RekeyTxAborts(r) \/ RekeyGrants(r)
  \/ RekeyRevision(r) \/ RekeyCommit(r) \/ RekeyRevoke(r) \/ RekeyUngrant(r)
  \/ Rollback(r) \/ ShareGrants(r) \/ WriteMember(r) \/ DeleteMember(r)
  \/ Ungrant(r) \/ FlagRekey(r) \/ DeleteBundle(r) \/ EnrollMachine(r)
  \/ UndoEnroll(r) \/ Abort(r)

Next ==
  \/ \E r \in Requests : Command(r) \/ \E u \in Users : Writes(r, u) \/ Sharing(r, u)
  \/ \E u \in Users : Immediate(u)
  \/ \E m \in Machines : ExpireMachine(m)

Spec == Init /\ [][Next]_vars
=============================================================================
