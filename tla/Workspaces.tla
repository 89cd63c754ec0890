----------------------------- MODULE Workspaces -----------------------------
(***************************************************************************)
(* A workspace, its members and their invites (internal/workspace and      *)
(* internal/member).  As in VaultService a handler reads and validates in  *)
(* one step, remembers what it needs in its slot, and writes in another;   *)
(* the transactions here need a replica set and are single steps.          *)
(***************************************************************************)
EXTENDS Integers, FiniteSets

CONSTANTS
  People,    \* accounts; an address belongs to one account
  Invites,   \* ids of invites
  Slots,     \* requests that the server handles concurrently
  Nobody,    \* no person, no invite
  MaxCalls   \* bounds the requests

ASSUME WorkspaceAssumption ==
  /\ Nobody \notin People \cup Invites
  /\ MaxCalls \in Nat

VARIABLES
  workspace,  \* "absent", "live" or "deleted"
  founder,    \* owner_id
  wsRole,     \* memberships
  invites,    \* invites
  call,       \* what each slot remembers between its commands
  calls,
  admitted,   \* history: for each invite, the memberships it has led to
  departed    \* history: for each person, the memberships that ended

wsVars == <<workspace, founder, wsRole, invites, admitted, departed>>

WsRoles == {"none", "member", "admin", "owner"}
GivenRoles == {"member", "admin"}

Invitation == [status : {"absent", "pending", "accepted", "deleted"},
               to : People \cup {Nobody}, role : GivenRoles, expired : BOOLEAN]

NoInvite == [status |-> "absent", to |-> Nobody, role |-> "member", expired |-> FALSE]

\* envs: the environments of a vault request (VaultMembers).
NoCall == [step |-> "idle", who |-> Nobody, role |-> "member", invite |-> Nobody,
           envs |-> {}, lost |-> {}]

\* No workspace yet, or one that has had its members for a while.
WsInit ==
  /\ \/ /\ workspace = "absent" /\ founder = Nobody
        /\ wsRole = [u \in People |-> "none"]
     \/ /\ workspace = "live" /\ founder \in People
        /\ wsRole \in [People -> {"none", "member", "admin", "owner"}]
        /\ \A u \in People : wsRole[u] = "owner" <=> u = founder
  /\ invites = [i \in Invites |-> NoInvite]
  /\ call = [s \in Slots |-> NoCall] /\ calls = 0
  /\ admitted = [i \in Invites |-> 0]
  /\ departed = [u \in People |-> 0]

Member(u) == wsRole[u] # "none"
Manages(u) == wsRole[u] \in {"owner", "admin"}
Owns(u) == wsRole[u] = "owner"

----------------------------------------------------------------------------
(* Request bookkeeping *)

Called == calls < MaxCalls /\ calls' = calls + 1
Calls(s) == call[s] = NoCall /\ Called
Doing(s, step) == call[s].step = step
Remember(s, c) == call' = [call EXCEPT ![s] = c]
Step(s, step) == Remember(s, [call[s] EXCEPT !.step = step])
Done(s) == Remember(s, NoCall) /\ UNCHANGED calls

----------------------------------------------------------------------------
(* Workspaces *)

\* The workspace and its owner membership, in one transaction.
CreateWorkspace(u) ==
  /\ Called
  /\ workspace = "absent"
  /\ workspace' = "live" /\ founder' = u
  /\ wsRole' = [wsRole EXCEPT ![u] = "owner"]
  /\ UNCHANGED <<invites, call, admitted, departed>>

\* Deletes the workspace and its memberships in one transaction; its invites
\* and its vaults stay.
DeleteWorkspace(u) ==
  /\ Called
  /\ Owns(u)
  /\ workspace' = "deleted"
  /\ wsRole' = [v \in People |-> "none"]
  /\ departed' = [v \in People |-> IF Member(v) THEN departed[v] + 1 ELSE departed[v]]
  /\ UNCHANGED <<founder, invites, call, admitted>>

----------------------------------------------------------------------------
(* Invites *)

PendingInvite(to) ==
  \E i \in Invites : invites[i].to = to /\ invites[i].status = "pending"
                     /\ ~invites[i].expired

Invite(s, u, to) ==
  /\ Calls(s)
  /\ Manages(u)
  /\ ~Member(to) /\ ~PendingInvite(to)
  /\ \E r \in GivenRoles :
       Remember(s, [NoCall EXCEPT !.step = "invite", !.who = to, !.role = r])
  /\ UNCHANGED wsVars

CreateInvite(s, i) ==
  /\ Doing(s, "invite")
  /\ invites[i].status = "absent"
  /\ invites' = [invites EXCEPT ![i] = [status |-> "pending", to |-> call[s].who,
                                        role |-> call[s].role, expired |-> FALSE]]
  /\ Done(s)
  /\ UNCHANGED <<workspace, founder, wsRole, admitted, departed>>

\* Whatever its status.
CancelInvite(s, u, i) ==
  /\ Calls(s)
  /\ Manages(u)
  /\ invites[i].status \in {"pending", "accepted"}
  /\ Remember(s, [NoCall EXCEPT !.step = "cancel", !.who = u, !.invite = i])
  /\ UNCHANGED wsVars

DeleteInvite(s) ==
  /\ Doing(s, "cancel")
  /\ invites' = [invites EXCEPT ![call[s].invite].status = "deleted"]
  /\ Done(s)
  /\ UNCHANGED <<workspace, founder, wsRole, admitted, departed>>

\* Its seven days pass, and the TTL index deletes it.
ExpireInvite(i) ==
  /\ invites[i].status \in {"pending", "accepted"}
  /\ invites' = [invites EXCEPT ![i] =
       IF @.expired THEN [@ EXCEPT !.status = "deleted"] ELSE [@ EXCEPT !.expired = TRUE]]
  /\ UNCHANGED <<workspace, founder, wsRole, call, calls, admitted, departed>>

\* By the person it was sent to.
Join(s, i) ==
  LET inv == invites[i] IN
  /\ Calls(s)
  /\ inv.status = "pending" /\ ~inv.expired
  /\ ~Member(inv.to)
  /\ Remember(s, [NoCall EXCEPT !.step = "join", !.who = inv.to, !.role = inv.role,
                             !.invite = i])
  /\ UNCHANGED wsVars

\* No unique index on (workspace, user).
AcceptInviteBug(s) ==
  LET q == call[s] IN
  /\ Doing(s, "join")
  /\ wsRole' = [wsRole EXCEPT ![q.who] = q.role]
  /\ invites' = [invites EXCEPT ![q.invite].status =
                   IF @ = "deleted" THEN @ ELSE "accepted"]
  /\ admitted' = [admitted EXCEPT ![q.invite] = @ + 1]
  /\ Done(s)
  /\ UNCHANGED <<workspace, founder, departed>>

\* One transaction: a duplicate membership aborts it, a missing invite does not,
\* and neither the invite's status nor the workspace is looked at again.
AcceptInvite(s) ==
  LET q == call[s] IN
  /\ Doing(s, "join")
  /\ IF Member(q.who) THEN UNCHANGED <<wsRole, invites, admitted>>
     ELSE /\ wsRole' = [wsRole EXCEPT ![q.who] = q.role]
          /\ invites' = [invites EXCEPT ![q.invite].status =
                           IF @ = "deleted" THEN @ ELSE "accepted"]
          /\ admitted' = [admitted EXCEPT ![q.invite] = @ + 1]
  /\ Done(s)
  /\ UNCHANGED <<workspace, founder, departed>>

----------------------------------------------------------------------------
(* Members *)

\* The owner's membership is not spared.
MayTouchBug(t) == Member(t)
MayTouch(t) == wsRole[t] \notin {"none", "owner"}

ChangeRole(s, u, t) ==
  /\ Calls(s)
  /\ Owns(u) /\ MayTouch(t)
  /\ \E r \in GivenRoles :
       Remember(s, [NoCall EXCEPT !.step = "role", !.who = t, !.role = r])
  /\ UNCHANGED wsVars

UpdateMemberRole(s) ==
  LET q == call[s] IN
  /\ Doing(s, "role")
  /\ wsRole' = [wsRole EXCEPT ![q.who] = IF @ = "none" THEN @ ELSE q.role]
  /\ Done(s)
  /\ UNCHANGED <<workspace, founder, invites, admitted, departed>>

RemoveMember(s, u, t) ==
  /\ Calls(s)
  /\ Manages(u) /\ MayTouch(t)
  /\ Remember(s, [NoCall EXCEPT !.step = "leave", !.who = t])
  /\ UNCHANGED wsVars

DeleteMembership(s) ==
  LET t == call[s].who IN
  /\ Doing(s, "leave")
  /\ wsRole' = [wsRole EXCEPT ![t] = "none"]
  /\ departed' = [departed EXCEPT ![t] = IF Member(t) THEN @ + 1 ELSE @]
  /\ Done(s)
  /\ UNCHANGED <<workspace, founder, invites, admitted>>

WsRequest ==
  \/ \E u \in People : CreateWorkspace(u) \/ DeleteWorkspace(u)
  \/ \E s \in Slots, u \in People, i \in Invites : CancelInvite(s, u, i)
  \/ \E s \in Slots, u, t \in People :
       Invite(s, u, t) \/ ChangeRole(s, u, t) \/ RemoveMember(s, u, t)
  \/ \E s \in Slots, i \in Invites : Join(s, i)

WsCommand ==
  \/ \E s \in Slots, i \in Invites : CreateInvite(s, i)
  \/ \E s \in Slots :
       \/ DeleteInvite(s) \/ AcceptInvite(s)
       \/ UpdateMemberRole(s) \/ DeleteMembership(s)
  \/ \E i \in Invites : ExpireInvite(i)

----------------------------------------------------------------------------
(* Properties *)

WsTypes ==
  /\ workspace \in {"absent", "live", "deleted"}
  /\ founder \in People \cup {Nobody}
  /\ wsRole \in [People -> WsRoles]
  /\ invites \in [Invites -> Invitation]
  /\ admitted \in [Invites -> Nat] /\ departed \in [People -> Nat]
  /\ calls \in 0..MaxCalls

\* A live workspace has exactly one owner, the person who created it, whatever
\* joins, role changes and removals overlap; a deleted one has none ("The
\* owner's role can never be changed here", member/service.go).
OneOwner ==
  {u \in People : Owns(u)} = IF workspace = "live" THEN {founder} ELSE {}

\* An invite gives its person one membership, and another one only after the
\* first has ended: Join reads the status of the invite long before it accepts
\* it, and only the unique index stands between two joins.
InviteAdmitsOnce ==
  \A i \in Invites : invites[i].to # Nobody =>
    admitted[i] <= 1 + departed[invites[i].to]
=============================================================================
