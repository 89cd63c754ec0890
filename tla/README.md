# localvault in TLA+

localvault keeps the environment variables of a team end-to-end encrypted.  A
command line client (`src/apps/cli`) encrypts a snapshot of an environment
under the environment's data-encryption key (DEK), wraps the DEK to the public
keys of the people and machines that may read it, and pushes ciphertext to a
server (`src/apps/server`) that never sees a plaintext.  The server is stateless
between requests; everything it knows is in MongoDB.  This directory models the
server, its clients and the services beside it: what concurrent requests, rekeys,
crashes, lost messages and retries can do to the history, the keys, the access
rights and the local copies of an environment.

## 1. Inventory

### Components

| component | state | operations | talks to |
|---|---|---|---|
| vault store (`server/internal/vault/store.go`) | collections `vaults` (with embedded environments: key version, head revision, `protected`, `rekey_required`), `vault_members`, `vault_key_grants`, `vault_revisions`, `vault_change_requests` | one MongoDB command each: InsertGrants, InsertRevision, BumpHead, CommitRekey, SetRekeyRequired, TransitionChangeRequest, ... and `withTx` | MongoDB |
| vault service (`vault/service.go`, `access.go`) | none of its own; what a handler has read | PushRevision, CreateChangeRequest, Approve/RejectChangeRequest, Rekey, CreateGrants, Add/Update/RemoveMember, PatchEnvironment, Create, AddEnvironment, Delete, and the reads | vault store, account keys, machine identities, workspaces, event publisher, email publisher |
| account keys (`keys/`) | `user_keys`: one encrypted key bundle per user | Put, Me, WorkspaceKeys, Reset | vault grants (deletes them on Reset) |
| machine identities (`machine/`) | `machine_identities` (active, expired, revoked) | Create, List, Revoke, Login (token or OIDC), Secrets, StillActive | vault store (grants, head) |
| device login (`device/`) | `device_auth_requests`, `devices` | Authorize, Decide, Poll, Refresh, ListDevices, RevokeDevice | auth sessions |
| authentication sessions (`auth/`, `account/`, `common/middleware`) | `sessions`, `users`, access tokens that expire by themselves | OAuth callback, RefreshToken, logout, revocation of one, other or a device's sessions | the identity provider |
| workspaces, members and invites (`workspace/`, `member/`) | `workspaces`, `memberships`, `workspace_invites` | Create, Delete, Invite, CancelInvite, Join, ChangeRole, RemoveMember | email publisher, accounts |
| event bus (`events/`) | per process: subscribers with a bounded buffer; a RabbitMQ fan-out exchange | Publish, Subscribe, the SSE stream | every service that publishes |
| email queue (`email/`, `worker/`) | RabbitMQ queues: work, retry with TTL, dead letters | publish, consume, retry, park | a mail service |
| audit log, dashboard | append-only records; none | record, list, aggregate | - |
| CLI sync (`cmd/flow.go`, `sync.go`, `push.go`, `rekey.go`, `internal/localstore`, `internal/lvcrypto/merge.go`) | an encrypted local store: Base and Working snapshots, the base revision, the grants | add, import, rotate, remove; pull, three-way merge, push with retries, rekey, grants | the HTTP API |
| CLI sessions (`cli/internal/authstore`, `api`) | tokens in the keychain or a file | login, refresh, logout | the HTTP API |
| CLI cryptography (`lvcrypto`, `crypto`) | none | primitives, canonical encodings | - |
| legacy vault, web application, templates | local files; browser state | offline commands; user interface | the HTTP API |

### Behaviours that are hard

* *Check, then write.*  Every handler reads, validates and writes later.  The
  only protections are unique indexes (revision number, grant per recipient and
  key version, membership), compare-and-set filters (CommitRekey on
  `key_version`, TransitionChangeRequest on `status`) and, on a replica set,
  transactions.  What a handler read may be stale when it writes.
* *`withTx` degrades.*  On a standalone mongod it runs its function without a
  transaction, command by command; a crash leaves a prefix.
* *Best-effort commands.*  The grants of a removed member, the rekey flag, audit,
  events and email: their errors are dropped.
* *Keys cannot be taken back.*  Deleting a grant does not make its recipient
  forget the key; only a rekey does, and a rekey is a multi-step agreement
  between client and server on who is entitled.
* *Two-phase decisions.*  A change request is approved before, and outside of, the
  transaction that commits its revision; a device request is consumed before its
  session exists; an invite is looked at long before the membership it gives.
* *Bearer tokens.*  Access tokens are not looked up; they outlive the session or
  machine they were minted for, and one may be minted after the revocation.
* *At-least-once and at-most-once messages* in the event bus and email queue.
* *Offline clients* that merge and push again and again, while rekeys change the
  key their saved copies are sealed under.

`PROJECT.json` lists each of these at the line where it bites.

### What makes each component correct

* vault history: an append-only log; no revision number taken twice, no gap, no
  revision under an older key than the one below it; a change request merged at
  most once, only after somebody else approved it; decisions final.
* vault keys: one DEK per key version; whoever was given the current key may read
  the environment or a rekey is flagged; a rekey reaches exactly the entitled.
* vault members: a live vault has its creator; access lists name environments of
  the vault and belong to members.
* machine identities: a revoked machine stays revoked, keeps no wrapped key and is
  served nothing; the key and the revision it is served fit together.
* device login: one session per approval, none after denial, expiry or
  revocation; every login that is approved and polled ends in a session.
* sessions and accounts: what a revocation leaves of access runs out; a sign-in leads to one's own
  account; what is saved on disk is the last login.
* workspaces: an invite admits one account once; a live workspace has its one owner.
* event bus: a subscriber that keeps up sees each published event, once; a revoked
  one is cut off.
* email queue: every job is eventually sent or parked; none is retried for ever.
* CLI sync: no local edit is lost silently, nobody's change is reverted silently,
  no saved copy becomes unreadable, and a push comes to an end.

## 2. Plan

Most important first.  Everything but the last item is done.

1. `VaultStore`, `VaultService`, `VaultProperties` - one environment: history,
   review, rekey, grants, members, machines.  *Done, and proved.*
2. `RevisionLog` - the abstract specification of that history, implemented by
   `VaultService` under the refinement mapping in `VaultProperties`.  *Done, and
   proved.*
3. `VaultSecrecy` - a history variable on top of `VaultService`: who was ever
   given a key.  *Done for the users of one environment, and proved for requests
   that do not overlap.*
4. `CliSync` - the three-way merge and the local store, and several clients that
   use them against the server.  *Done, and its safety proved.*
5. `Workspaces`, and `VaultMembers` on top of it - invites, roles, and vaults with
   several environments, their creation and deletion and the lost updates between
   membership requests.  *Done, and proved.*
6. `MachineAccess` - logging in and the response a machine assembles from several
   reads while rekeys run.  *Done, and proved.*
7. `DeviceLogin` against `SingleUseGrant` - requests, sessions and revocation, with
   liveness.  *Done, and the safety part proved.*
8. `Sessions`, `Accounts`, `EventBus`, `EmailQueue` - tokens, sign-ins and messages
   with losses, duplicates, retries and bounded buffers.  *Done, and the safety part
   proved.*
9. Left: the fingerprint and the bundle of account keys, which no other part reads;
   how much of secrecy survives requests that overlap.

## 3. The modules

### VaultStore

The documents of one environment and the database commands on them.  Each
operator is one command and therefore atomic.

* `keyVersion`, `headRevision`, `protected`, `rekeyRequired` - the embedded
  environment record; `role`, `access` - `vault_members` (role `"none"`: no
  document); `hasKeys` - `account_keys`; `grants`, `revisions`, `changes`,
  `machines` - the collections of those names.
* Ciphertexts, signatures and wrapped keys are abstracted to the identity of the
  DEK they are sealed under or deliver, and of the author: that is what tells who
  can read what.  DEKs are numbered in the order the clients mint them; 0 is the
  DEK of `Create`.
* A unique index is a guard (`InsertRevision`) or a filter (`InsertGrants`, whose
  bulk write skips taken keys and reports success); a compare-and-set is a guard
  on the old value.

### VaultService

The handlers.  `req[r]` is one request in flight in slot `r`: the command it will
issue next (`step`) and what it remembers from its reads.  A handler is an action
that reads and validates (named as in the code) followed by one action per
database command.

| code | actions |
|---|---|
| PushRevision | PushRevision, WriteRevision, WriteConflict, WriteHead |
| CreateChangeRequest | CreateChangeRequest, InsertChangeRequest |
| ApproveChangeRequest | ApproveChangeRequest, ApproveTransition, MarkStale, WriteRevision, WriteConflict, WriteHead |
| RejectChangeRequest | RejectChangeRequest (its one write is a compare-and-set, so reads and write are one step) |
| Rekey | Rekey, RekeyRecipients, then with transactions RekeyTx or RekeyTxAborts, without them RekeyGrants, RekeyRevision, RekeyCommit, RekeyRevoke, RekeyUngrant, Rollback |
| CreateGrants | CreateGrants, ShareGrants |
| AddMember | AddMember |
| UpdateMember, RemoveMember | UpdateMember, WriteMember; RemoveMember, DeleteMember; Ungrant, FlagRekey |
| PatchEnvironment | PatchEnvironment |
| keys: Put, Reset | PutKeys; ResetKeys, DeleteBundle |
| machine: Create, Revoke, expiry | CreateMachine, EnrollMachine, ShareGrants, UndoEnroll, or RegisterMachine when no grant comes with it; RevokeMachine, Ungrant; ExpireMachine |
| a crash, a lost database | Abort |

Abstractions, each of which loses behaviour only where said:

* The reads of one handler are one step, except that Rekey's reading of the
  entitled recipients is separate (`RekeyRecipients`), and that entitled users,
  machines and tokens are read together there.  All writes of other requests can
  come between the reads and any of the writes.  What this loses is a handler
  whose own reads disagree, such as an approval that read the vault before the
  change request.
* AddMember, PatchEnvironment, RejectChangeRequest, PutKeys and RegisterMachine check
  and write in one step: that one of them acts on an authorization read before
  its caller lost it is not seen.
* A command is all or nothing.  The one command of several documents, the bulk
  write of InsertGrants, is never seen half done.
* A request that fails a check changes nothing and has no step.
* Clients are honest about what the server cannot check: they submit a snapshot
  sealed under a key they were granted (`Submission`), and they wrap keys they
  hold.  CreateGrants asks a user to have a public key because the client cannot wrap
  without one; the server checks his membership only.  Of machines it accepts, as the
  code does, every active one, those with a token too, and of keys every version so
  far that the caller holds.
* The events, audit records and emails that the handlers send after their writes
  are left out: nothing reads them back.
* The idempotency key of a push is left out (the client never sends one).

`Transactions` chooses between a replica set and a standalone mongod; `Faults`
lets a request die, or have a command fail, between any two commands.  Where it makes
a difference a command may also be applied and reported as failed: the commit of a
rekey, whose request then rolls back grants that are current (CommitUnheard), and the
grant of a new machine, whose request then deletes the machine (UndoEnroll).  And the
list of token machines that a rekey reads may come back empty, as the code ignores the
error of that read (`ListedTokens`).

Definitions whose names end in `Bug` are plausible slips - a missing index, a
forgotten filter, an unchecked key version.  No action uses them; each run's
properties have been seen to fail when one of them takes the place of the
definition it is named after.

### VaultProperties, RevisionLog

`RevisionLog` is what an environment promises to whoever reads its history: a
sequence of entries that is only appended to, one entry at a time, with key
versions that never decrease and each change request at most once.
`VaultProperties` states the invariants and action properties of the handlers, and
maps `VaultService` to the log: entry n is the revision n, the length is
`headRevision`.  Revisions beyond the head are invisible, as they are to the code's
readers, who ask for the head first.

### VaultSecrecy

`VaultService` with two history variables.  `held` is every (recipient, key version)
that any grant ever delivered; secrecy is stated about it, since deleting a grant takes
nothing back.  `retired` is every token machine that held a key when a rekey took
effect.  `MachinesKeepNoOldKey` says that those are revoked, by the rekey that left them
behind, and that a revoked machine keeps no grant.  It does not say that an active token
machine holds the current key only: CreateGrants lets a manager give it an older one.

### VaultInvariants

The inductive invariants behind the theorems: `HistoryInv`, `ReviewInv`, `KeyInv`.
They say what a request in flight still knows about the documents.

### VaultProofs, HistoryProofs, KeyProofs

The theorems, each module using the one before; see section 5.

### DeviceLogin, DeviceProperties, SingleUseGrant, DeviceProofs

`DeviceLogin` has the documents of device logins (`status`, `approval`, `consumed`,
`expired`, `swept`: one `device_auth_requests` document per login; `devices`; `live`:
the `sessions` that still have a document), the requests the server is handling
(`handler`, as `req` in `VaultService`) and the polling loop of each client (`cli`).

| code | actions |
|---|---|
| Authorize; the TTL of a request | Authorize; Expire, Sweep |
| Decide | DecideDeny, DenyAuthRequest; DecideApprove, CreateDevice, ApproveAuthRequest, UndoDevice |
| Poll, IssueSession, pollForApproval | PollApproved, ConsumeAuthRequest, IssueSession; PollRefused; Interrupt |
| RevokeDevice | RevokeDevice, RevokeDeviceSessions, DeleteDevice |
| Logout, RevokeSession, RevokeOtherSessions, a session's expiry | DeleteSession, RevokeOtherSessions |
| an error or a crash | ApproveFails (the update is applied or not, and reported as failed), Fail |

A poll of a pending login changes nothing and has no step.  `PollApproved` may also
come from another holder of the device code than the client: the code of the server
provides for racing polls, although this client never has two.  `sessions` keeps the
sessions that are gone, and `late` notes that a session was inserted while its device
was being removed.  Left out: user codes and hashes (a login is found by either), the
browser's own sessions, access tokens and refresh (those are in `Sessions`), the name
and address of a device.

`SingleUseGrant` is the promise: a request is decided once, and a permit is
collected at most once, as it was given.  `DeviceProperties` maps logins to it: the
permit is the pair (user, device) stamped on the request, the collected ones are the
sessions ever issued.  `DeviceProofs` has the inductive invariant `LoginInv` and the
theorems.

### CliSync, CliProofs

The clients of one environment.  `disk[c]` is the `state.json` of a member's machine:
the key version it names, the base revision, the key version its working copy is
sealed under, the working copy, `dirty`, and the grants held.  `proc[p]` is the
command that terminal `p` runs, with the copy of the state it has loaded; every save
writes that copy as a whole.  `edits` is a history variable: the edits each member
has made that neither the head has agreed with nor he has given up.

| code | actions |
|---|---|
| Add, Import, Rotate (`cmd/`) | BeginEdit, Edit |
| Remove | BeginRemove, Remove |
| pull, and Merge, Resolve of `lvcrypto` | BeginPull, Pull; Merge, Conflicts, Resolve |
| push, the retry after a conflict, the review of a protected environment | BeginPush, PushRevision, PullAgain, RecordPush, SubmitChange |
| rekeyCmd, checkRekeyable | BeginRekey, ReadHead, Rekey, RecordRekey |
| grantPending, PendingGrants of the server | GrantPending, Pending |
| PutGrant, SetBase, SetWorking, Base, Working of `localstore` | PutGrants, SetBase, SetWorking, Base, Working |
| a refusal, an error, Ctrl-C, a lost answer | GiveUp; Die |
| the server | the server's half of PushRevision, Rekey, SubmitChange, GrantPending; ApproveRequest |

The server of this module is `VaultService` with transactions, one step a request: a
push needs the current key and the head as its base, an approval the head only.
Secrets are compared, never looked into: two values besides "missing" tell an edit from
the base and from another edit.  A reader who gives up a conflict with `--theirs` is
the `theirs` of AdoptHead; reports and prompts are left out.

### Workspaces, VaultMembers, TeamProofs

`Workspaces` has one workspace, its members and invites; `VaultMembers` one vault in
it.  `call[s]` is a request in slot `s`: what it is about to write and what it
remembers of its reads.  `admitted` and `departed` count, per invite and per
person, memberships begun and ended.

| code | actions |
|---|---|
| workspace Create, Delete | CreateWorkspace, DeleteWorkspace |
| Invite, CancelInvite, the expiry of invites | Invite, CreateInvite; CancelInvite, DeleteInvite; ExpireInvite |
| Join, `Store.AcceptInvite` | Join, AcceptInvite |
| ChangeRole, RemoveMember (`member/`) | ChangeRole, UpdateMemberRole; RemoveMember, DeleteMembership |
| vault Create, AddEnvironment | CreateVault, CreateMember, InsertKeys; AddEnvironment, AddEnvAccess, InsertKeys |
| AddMember, UpdateMember, RemoveMember (`vault/`) | AddVaultMember, InsertVaultMember; UpdateVaultMember, WriteVaultMember; RemoveVaultMember, DeleteVaultMember; Ungrant, FlagRekey |
| CreateGrants | ShareKeys, InsertKeys |
| Delete, DeleteVaultCascade | DeleteVault, DeleteVaultCascade, DropVaultDocuments |
| a failing command, a crash | Break |

CancelInvite too finds the invite and deletes it with a later command.  The
workspace's own transactions (creation, deletion, acceptance) demand a replica set
and are single steps; the vault's documents are written one by one, as on a
standalone mongod.  A second vault, names and slugs are left out, and here every key
version is 1: rekeys belong to `VaultService`.  A vault is created once.

### MachineAccess, MachineProofs

Machines that log in and ask for secrets.  GrantMachine gives any active machine a
key of any version so far, and a rekey may fail to list, and so to retire, the
machines with a token.  `Secrets` reads identity, vault, grants and revision with
four commands; `fetch[f]` is such a request, and members push, rekey, grant and
revoke between any two of its reads.

| code | actions |
|---|---|
| Create with its grant | CreateToken or CreateWorkload (the check), InsertIdentity |
| Revoke, the deletion of grants, expiry | RevokeIdentity; DeleteIdentityGrants; ExpireIdentity |
| Login | LoginMachine, then VerifyToken, VerifyOIDC or OIDCFails |
| MachineAuth, the life of an access token | AuthenticateMachine; MachineTokenExpires |
| Secrets, `lv run` | FindIdentity, FindVault, ListRecipientGrants, FindHead; DecryptAndRun |
| pushes, approvals, rekeys, grants of members | CommitWrite, RekeyEnvironment, GrantMachine |

CommitWrite allows a first revision sealed under an outdated key, as an approval does
(see `unchecked_approval`); a revision remembers whether it was current when committed.

### Sessions, ServiceProofs

The documents of sessions, the access tokens that are still accepted, and the saved
tokens of one machine with the commands that share them.

| code | actions |
|---|---|
| sign-in or device login; logout, revocations, expiry | BrowserLogin, LoginCommand; EndSession |
| RefreshToken | RefreshToken, GenerateAccessToken for a browser; Refresh, Minted for a command |
| Auth (middleware), the life of an access token | Ask; TokenExpires |
| `refresh` of `api/client.go` | Ask, Refresh, Minted, SaveTokens or ClearTokens; Outage |
| Save, Load, Clear of `authstore` | Save, Load, Clear; KeychainChanges |
| `lv login`, `lv logout` | LoginCommand; LogoutCommand |

### Accounts, ServiceProofs

The callback of a sign-in: HandleCallback, FindUserByOAuth, FindUserByEmail, LinkUser
or CreateUser, OAuthLogin, one command each, and DatabaseError for a command that
fails.  An address is an element of a set in one of two spellings, since accounts are
looked up in lower case and stored as the provider spells them.  ChangeAddress is the
provider's: an identity may give up an address, which another one takes.

### EmailQueue, ServiceProofs

| code | actions |
|---|---|
| Publish | PublishJob (accepted, or dropped with an error nobody looks at) |
| Run, handle | TakeDelivery; SendEmail; Retry or Park; Ack |
| the retry queue's time to live | Bounce |
| a death of the worker, its restart | WorkerDies, WorkerRestarts |

`retry` and `park` ignore an error of their publication, and `handle` acknowledges the
delivery all the same: Retry and Park may fail to publish (`Unpublished`), and `lost`
remembers whose job this was.

### EventBus, ServiceProofs

| code | actions |
|---|---|
| Publish to the exchange, the local fallback | BeginPublish, PublishRemote, PublishInDoubt, PublishLocal |
| consume, Hub.Deliver | Consume, Deliver |
| the connection to the broker | LoseConnection, ConsumerEnds |
| Stream, StillAllowed | OpenStream, WriteEvent, Ping, Disconnect |

`doubtful` and `missed` record the two ways in which the code admits a double or a
lost event: an error after the broker has accepted, and a full buffer.

### MCVault, MCStandalone, MCSecrecy, MCCli, MCPeople, MCServices

The operation subsets, member patches and symmetries of the configs.  MCStandalone
has two instances of one environment without transactions in one run, its history or
its machines, and MCCli, MCPeople and MCServices put modules beside each other that
share no state: a behaviour is one of a single part, chosen in the initial state,
while the others rest.  The reachable states are the sum of the parts' and not their
product, and each property speaks of one part, so nothing is lost by not interleaving
them.

## 4. What is checked

`Operations` names the handlers that a run's clients call, so that each run can afford
the bound that its question needs; `MemberPatches` the roles and permissions given.
Slots, change requests, people and environments are interchangeable where the configs
declare them symmetric: no definition tells two of them apart, and the runs with
symmetry check no liveness.  Deadlock is not checked (but for `orphan_session`): with
the bounds used up and nothing in flight these systems are idle for good.

| run | shows | bounds, and why they are enough |
|---|---|---|
| history_tx | with transactions, pushes, proposals, approvals and rekeys racing each other: documents well formed, chain gap-free, key versions ordered, one DEK per key version, reviews by another, decisions final, every approval merged or marked stale, the log implemented | two slots, as every protection in the code is pairwise (an index, a compare-and-set, a base check); two revisions, so that a first write races the one on top of it; two rekeys, so that two reach for one version and one comes after; author and reviewer; one change request.  Its specification `TransactionalSpec` names the commands such a deployment issues when nothing fails; the others are those of `standalone` and `access`, which between them take every action of `VaultService` but the two of a transactional rekey and those on `protected` and rejections, which this run takes |
| standalone | on a standalone mongod, where requests die or fail between any two commands.  *History*: the same of the chain, the key versions and the log; one revision may stay beyond the head.  *Machines*: two requests that create, revoke or retire the same machine id, beside membership changes, resets and a rekey, with undone creations, do not revive a revoked machine | *history* as above, but for rejections, and whether the environment is protected is chosen once; *machines*: two slots, one token machine, which rekeys retire, one rekey, members who lose their access |
| access | whoever was given the current key may read it, or a rekey is flagged; a rekey revokes every token machine that held a key when it took effect, and a revoked machine is left no wrapped key | one slot: for requests that do not overlap (with two the code lacks both properties: `rekey_race` shows the first, an enrolment between a rekey's list of tokens and its commit breaks the second); still command by command, without transactions, with registrations, additions and expiries between the commands; no commands that fail; a member, a workspace admin outside the vault and a token machine.  No operation of this run reads `protected`, so that its specification `UnprotectedSpec` fixes it |
| services | *device logins*: decided once, collected once, as given; a revocation can be repeated; only failures leave devices behind; an approved login is collected, a client stops polling. *E-mail*: bounded attempts; a job the broker has taken settles. *Events*: none twice; whoever keeps up gets them; a revoked machine's stream ends. *Sessions*: some time after a session is deleted no access is left of it | one login, two handlers and two devices (two decisions, or a decision and a poll), one failure; three jobs of which one cannot be decoded, two attempts, one death of the worker, any publication failing; two instances with one stream each, an event from either, a buffer of one (full after the first event), one fault; one session, two commands, one outage |
| client | two clients that edit, pull, push, ask for review, rekey and die: no edit lost, nobody's change reverted, no copy stranded, pushes end.  Machines: key and revision fit together; nothing is served to one shut out | five commands (edit, push, rekey by one, edit and pull or push by the other), one kill or lost answer, one key and two values, which with "missing" give a base, a local and a remote that all differ (keys are merged independently of each other); two machines of either kind, one fetch, two key versions and two revisions |
| people | *teams*: documents well formed, one owner, an invite admits once, a live vault has its creator.  *Sign-ins* lead to one's own account.  *Saved tokens* are the last login | two people in two slots, one invite, two environments, four requests (invite, join, remove and another), one crash; two identities, two addresses, two callbacks, three accounts, one database error; two sessions, two commands, one outage |

In `client` there is one terminal per machine.  With two, the second save of
`state.json` overwrites the first, and edits are lost: nothing in the code says
otherwise, and the module takes any number of terminals.

Statements of the code's comments, errors or tests that some interleaving refutes,
one run each:

| run | statement | what happens |
|---|---|---|
| unchecked_approval | PushRevision and CreateChangeRequest: "key_version is not current", "environment must be rekeyed before new writes" | ApproveChangeRequest re-checks neither: a change request filed before a removal is committed while the flag is set, and one with base 0 filed before the first rekey of an empty environment (which writes no revision, so that the base still matches) is committed under the retired key |
| interrupted_rekey | withTx: "fn must order its writes to leave a consistent state if interrupted" | without transactions a rekey that dies after its grants leaves them behind; the next rekey to that version skips their recipients, and the version names two DEKs.  `RepairKeyVersion` in store.go is meant to finish such a rekey, but nothing calls it |
| rekey_race | Rekey: extras "would be stored and later served by grants/mine, handing the DEK to a member who was deliberately excluded" | a member loses access after the entitled recipients were read; he is given the new key and the commit clears the flag his removal set |
| orphan_session | RevokeDevice: "Deleting the device first ... would leave live tokens with no device row to revoke through" | a device is revoked between its approval and the client's next poll; the poll does not look at the device and issues the session |
| revocation_immediate | RevokeDeviceSessions: "revocation is immediate rather than waiting up to 15 minutes for the access token to expire"; RevokeDevice "removes a device and immediately kills its sessions" | deleting the sessions ends refreshes only.  The middleware looks at the signature, expiry and type of an access token, never at its session, so that the token is accepted until it expires.  What is true of the code is `RevokedAccessRunsOut`, of `services` |
| login_without_account | FindOrCreateOAuthUser "finds existing user or creates new one for OAuth login" | both lookups return an empty account together with an error, and the error is ignored: while the database fails, the caller is signed in to an account that nobody has |

### Fairness

* `DeviceLogin`: weak fairness of each request in progress, because a handler runs to
  its end unless it fails (failures are counted, and the property excepts a run with
  one), and strong fairness of each client's poll, because the client polls every two
  seconds for as long as it waits, and the model's bound on concurrent requests must
  not starve it.  Nothing is fair about people (decisions, revocations,
  interruptions), and that a login expires is never assumed, so `ApprovedIsCollected`
  cannot be satisfied by waiting for it.
* `EmailQueue`: the worker works, and comes back after a death - it "relies on a
  restart" (`worker/main.go`) - and a message in the retry queue expires.  Success of
  the mail service is not assumed: a job may be parked.  Nor is that of a republication:
  a job whose own failed is gone, and `JobSettles` excepts it.
* `EventBus`: a publication and a consumer that have begun go on, a stream writes, and
  its ticker, which competes with its events in one `select`, fires again and again.
  Connections, clients and revocations owe nothing.
* `Sessions`: a refresh in progress ends, and an access token expires.  Nobody is
  obliged to refresh or to log out.
* `CliSync`: a command that has started runs on; nothing in it waits for anybody.
* For the vault itself no liveness is claimed: its handlers answer or fail and nothing
  retries them.

## 5. What is proved

The theorems hold for every value of the constants: any number of users, machines,
change requests, invites, environments, clients, keys and requests in flight, any
set of operations and member patches, with and without transactions and faults,
and any bound.  Four things are assumed, each where a property is false without it:

* transactions, by `KeysCorrect` (`interrupted_rekey` shows why);
* one terminal per machine, by `EditsKeptCorrect` and `OwnEditsCorrect`;
* that no command fails (`~Faults`), by `ApprovedCorrect`, `MachineKeysCorrect` and
  `SecrecyCorrect`: the code drops or gives up what comes after the failed command -
  the merge after an approval, the deletion of grants, the rekey flag;
* that requests come one at a time (`OneByOne`: a single slot; still any number of
  requests one after the other, each command by command), by `MachineKeysCorrect` and
  `SecrecyCorrect` (`rekey_race` shows why).

The last two are those of the runs `history_tx` and `access`, without their bounds.
Beyond that the theorems rest on the named assumptions on the constants only:
`StoreAssumption` (the creator is a user, ids are disjoint), `ServiceAssumption`,
`DeviceAssumption`, `WorkspaceAssumption`, `VaultAssumption`, `CliAssumption`,
`MachineAssumption`, `AccountAssumption`, `SessionAssumption`, `EmailAssumption`,
`BusAssumption` (the constants have their types; `Nobody` is no person or machine;
the marker of "no tokens" is no session).

| theorem | states | argument |
|---|---|---|
| TypeCorrect | `TypeInv` of the vault | `TypeOK` alone is not inductive: that the author of an approved change request is a user needs `WellFormed`, which says that a request at a given command has read what that command uses |
| ChainCorrect, KeyOrderCorrect | `ChainIsGapFree`, `KeyVersionsOrdered` | `HistoryInv`: what a handler read as its base is still in the chain, and nothing up to it is sealed under a later key than the write brings (`KnowsItsBase`).  The unique index then leaves a write only the number above the head, or failure.  Without transactions the invariant also remembers that a revision has landed whose `BumpHead` is still to come |
| ReviewedCorrect, DecisionsCorrect | `ReviewedByAnother`, `DecisionsAreFinal` | `ReviewInv`: the compare-and-set makes its winner alone with the change request until the revision is there (`Merging`), and the base check makes the number that revision takes the reason why an approval turns stale |
| ApprovedCorrect | `ApprovedIsMerged` | the request that won the compare-and-set holds the approval (`HoldsApproval`), and every step of it keeps it, commits the revision or marks the request stale (`HolderStep`); an approval comes from no other step (`ApproverHolds`) |
| LogCorrect | `ImplementsLog` | `HistoryInv` and `ReviewInv` make the mapped log a sequence; a step that raises the head by one appends the entry it inserted (or the one that was waiting beyond the head), every other step leaves the entries up to the head alone (`StepExtends`) |
| KeysCorrect | `OneKeyPerVersion` | `KeyInv`: the pairs (key version, DEK) of the stored documents and of the requests about to store one agree, and none is ahead of `keyVersion`, so that the winner of `CommitRekey` brings a version nobody has seen |
| NotRevivedCorrect | `RevokedNotRevived` | one case per step: only an insertion makes a machine active, and the unique id makes it an insertion of an absent one |
| MachineKeysCorrect | `MachinesKeepNoOldKey` | `MachineInv`: the request in flight is the one about to take away a grant that should go (`Kept`), it wraps keys only for machines alive, and a rekey's list of tokens names every token that holds a grant (`Wraps`); `RetiredInv`: a token that a rekey left behind is revoked, or the rekey is about to revoke it.  A theorem of `SecrecySpec`, which has the history `retired` |
| SecrecyCorrect | `KeyKnownOnlyToReaders` | `SecretInv`: what the request in flight read is still so, hence a rekey it has begun succeeds and its recipients are readers (`Foresees`); no key is held before it is current but by those (`NoneAhead`); whoever holds the current key and may not read is shielded by the flag or by the request about to set it (`Shielded`) |
| LoginTypesCorrect | `TypeInv` of device logins | needs `GrantInv`: whoever polls knows an approval that stands |
| GrantCorrect | `ImplementsGrant` | the compare-and-set on `pending` makes an approval permanent, so that what a poll read still holds when it issues the session; the one on `consumed` leaves a single request at `issueSession` (`Alone`) |
| RevocationCorrect | `RevocationRetriable` | a decision owns the device it created until it stamps it (`Owns`), and whoever is about to delete a device has left it only sessions issued since (`Cleared`) |
| OrphansCorrect | `FewOrphans` | `OrphanInv`: a device about to be stamped is its approver's or already gone (`Created`), so that the stamp accounts for it; with `LoginInv`, an approval is never overwritten and a fresh device is in nobody's hands, and thus no step but a failure adds an orphan, and that adds one |
| TeamTypesCorrect | `TeamTypes` | `TypesInv` adds to it what each request in a slot remembers (`Fits`): the person it is about, the invite it has found, environments the vault has, and that environments are only ever added |
| OwnerCorrect | `OneOwner` | `OwnerInv`: the owner is the founder (`OwnerIsFounder`), no pending change or removal is about him - he was the owner when it was checked, and ownership never moves (`OwnerSpared`) - and before the workspace exists there is no request that could be (`Young`) |
| InviteCorrect | `InviteAdmitsOnce` | `AdmitInv`: the memberships that an invite has begun are those its person has ended and, at most, the one he has now; only the unique index on memberships stands between two joins |
| CreatorCorrect | `LiveVaultHasCreator` | `CreatorInv`: a pending creation inserts the creator and no pending removal is about him (`CallOfCreator`) - he was the creator when it was checked, and that never changes -, and memberships are dropped only once the vault is deleted; a change of role gives him another one, never none |
| AccountsCorrect | `AccountsAreOwn` | `AccountInv`: each account has the address of an identity that once had it, and what a callback remembers between its commands is an address of the identity it serves and an account with that address (`CallbackOk`); the unique index on the spelling does the rest |
| TokensCorrect | `TokensAreLastLogin` | `SessionInv`: while the keychain answers the file is empty, and while no login or logout has overlapped a command, every running command has the tokens of the last login in hand and clears them only with an excuse (`InOrder`) |
| EventsOnce | `NoEventTwice` | `BusInv`: what a stream got, what is in its buffer and what is in the queue of its instance is, together, at most one copy once the event is published, and one more where the publisher was misled (`AllCopies`, `Allowance`) |
| AttemptsCorrect | `AttemptsBounded` | `EmailInv`: the attempts made for a job and those its messages in the queues and in the worker's hands still allow (`Spent`) never grow but for a death of the worker, which can double one message; the attempts still allowed are counted as a set of tickets (`Tickets`) |
| SecretsCorrect | `SecretsOpen` | `OpensInv`: the head is sealed under the current key unless it was outdated when committed (`HeadOpens`), key version and head are read together, and revisions are only appended; the grant found is the one of the version read |
| ShutOutCorrect | `MachineShutOut` | `ShutInv`: an identity is created once and never becomes usable again, so a machine that was barred when its request arrived is barred when the request looks |
| CliTypesCorrect, LocalReadableCorrect, CleanIsBaseCorrect | `TypeInv`, `LocalReadable`, `CleanIsBase` of the clients | `LocalInv`: they hold of the copy in each command's hands as well as of the one on disk (`Sound`), since either may be saved next; a push remembers that it published what it has in hand, under a key it holds, and a rekey that the revision after the head it read is sealed under the next version (`Knows`) |
| EditsKeptCorrect, OwnEditsCorrect | `EditsKept`, `OwnEditsOnly` | `EditInv`, for one terminal per machine (`OneTerminal`): what a member owes is exactly where his working copy differs from its base (`OwedInv`), a running command has in hand what is on disk and a rekeying one nothing dirty (`HandInv`), and a change request differs from its base in its author's edits only (`RequestsInv`); `MergeOwes` carries this through a merge, case by case |

Each proof has one step per action that touches the state in question; the actions
that leave it alone are dealt with together.  TLC checked the inductive invariants
on small instances before they were proved.

Every safety property and the refinements that the passing runs check are proved.
Only model-checked, because they are out of the prover's reach: liveness
(`ApprovedIsCollected`, `PollingEnds`, `JobSettles`, `EventArrives`,
`RevokedStreamEnds`, `RevokedAccessRunsOut`, `PushEnds`), ENABLED, and what recursive
definitions compute (none is used).  The runs that expect a violation are
counterexamples and need no proof.

## 6. What is not modelled

* Several environments and several vaults in one rekey or push: environments share
  nothing but the vault's document, whose updates name the environment.
* The idempotency key of a push, which the client never sends; pagination and the
  other reads; UpdateProfile and workspace Update, which change a name.
* The retry delay of the email queue as a number: `rabbit.go` gives it in microseconds
  where the broker reads milliseconds; time is abstracted.
* Account keys beyond Put and Reset; fingerprints, known keys and the unlocked
  identity, caches of one command.
* Two vaults or two workspaces, and the vaults a deleted workspace or a removed member
  leaves behind: every request on them asks for the membership first.
* For good: cryptography, HTTP, DTOs, rendering, templates, the audit log, the
  dashboard, wiring and configuration, prompts and output, the web application -
  primitives, encodings, write-only records, read-only queries and user interface.
* The legacy packages `cli/internal/vault`, `crypto` and `sync`, which no command
  imports: nothing of the program reaches them.
