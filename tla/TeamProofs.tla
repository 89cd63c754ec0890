----------------------------- MODULE TeamProofs -----------------------------
(***************************************************************************)
(* Types, ownership and invites of a workspace, and the creator of its     *)
(* vault, for any people, invites and environments and any number of       *)
(* concurrent requests.                                                    *)
(***************************************************************************)
EXTENDS VaultMembers, TLAPS

USE WorkspaceAssumption, VaultAssumption DEF WorkspaceAssumption, VaultAssumption

----------------------------------------------------------------------------
(* Types *)

\* The steps that name an invite.
InviteSteps == {"join", "cancel"}

\* A slot at work names a person, and the environments it remembers are those
\* of the vault, which only grow; a join is one of the invite's addressee, and a
\* cancellation has found its invite.
Fits(c) ==
  /\ c \in Call /\ c.envs \subseteq envs
  /\ c.step # "idle" => c.who \in People
  /\ c.step \in InviteSteps => c.invite \in Invites /\ invites[c.invite].status # "absent"
  /\ c.step = "join" => invites[c.invite].to = c.who

SlotsFit == call \in [Slots -> Call] /\ \A s \in Slots : Fits(call[s])

InvitesFit == \A i \in Invites : invites[i].status # "absent" => invites[i].to \in People

VaultFits ==
  /\ vault \in {"absent", "live", "deleted"} /\ creator \in People \cup {Nobody}
  /\ envs \in SUBSET Envs /\ flagged \in SUBSET envs
  /\ vrole \in [People -> VRoles]
  /\ access \in [People -> SUBSET envs]
  /\ \A u \in People : vrole[u] = "none" => access[u] = {}
  /\ keys \in SUBSET (People \X Envs)
  /\ vault = "absent" => envs = {}

FailuresFit == breaks \in 0..MaxBreaks /\ torn \in BOOLEAN

\* TeamTypes, and what makes it inductive.
TypesInv == WsTypes /\ SlotsFit /\ InvitesFit /\ VaultFits /\ FailuresFit

LEMMA TypesImplied == TypesInv => TeamTypes
BY DEF TypesInv, TeamTypes, SlotsFit, VaultFits, FailuresFit

LEMMA NoCallFits == Fits(NoCall)
BY DEF NoCall, Call, CallSteps, GivenRoles, Fits, InviteSteps

LEMMA InitTypes == TeamInit => TypesInv
<1> SUFFICES ASSUME TeamInit PROVE TypesInv  OBVIOUS
<1>a. WsInit
  BY DEF TeamInit
<1>b. wsRole \in [People -> WsRoles] /\ founder \in People \cup {Nobody}
  BY <1>a DEF WsInit, WsRoles
<1>c. NoInvite \in Invitation /\ NoInvite.status = "absent"
  BY DEF NoInvite, Invitation, GivenRoles
<1>d. invites \in [Invites -> Invitation] /\ InvitesFit
  BY <1>a, <1>c DEF WsInit, InvitesFit
<1>1. WsTypes
  BY <1>a, <1>b, <1>d DEF WsInit, WsTypes
<1>2. SlotsFit
  BY <1>a, NoCallFits DEF WsInit, SlotsFit, Fits
<1>e. access \in [People -> SUBSET envs] /\ vrole \in [People -> VRoles]
  BY DEF TeamInit, VRoles
<1>3. VaultFits
  BY <1>e DEF TeamInit, VaultFits
<1>4. breaks \in 0..MaxBreaks
  BY DEF TeamInit
<1>5. torn \in BOOLEAN
  BY Zenon DEF TeamInit
<1> QED  BY <1>1, <1>2, <1>d, <1>3, <1>4, <1>5 DEF TypesInv, FailuresFit

\* What a step may put into a slot.
MayRemember(c) ==
  /\ c \in Call /\ c.envs \subseteq envs'
  /\ c.step # "idle" => c.who \in People
  /\ c.step \in InviteSteps => c.invite \in Invites /\ invites'[c.invite].status # "absent"
  /\ c.step = "join" => invites'[c.invite].to = c.who

\* Environments and invites stay what they are.
Lasting ==
  /\ envs \subseteq envs'
  /\ \A i \in Invites : invites[i].status # "absent" =>
       invites'[i].status # "absent" /\ invites'[i].to = invites[i].to

LEMMA LastingRest == UNCHANGED <<envs, invites>> => Lasting
BY DEF Lasting

LEMMA RememberFits ==
  ASSUME SlotsFit, NEW s \in Slots, NEW c, MayRemember(c), Remember(s, c), Lasting
  PROVE  SlotsFit'
<1>1. call' \in [Slots -> Call]
  BY DEF SlotsFit, Remember, MayRemember
<1>2. \A t \in Slots : call'[t] = IF t = s THEN c ELSE call[t]
  BY DEF SlotsFit, Remember
<1> QED  BY <1>1, <1>2 DEF SlotsFit, Fits, MayRemember, Lasting, InviteSteps

LEMMA DoneFits ==
  ASSUME SlotsFit, NEW s \in Slots, Done(s), Lasting
  PROVE  SlotsFit'
<1>1. MayRemember(NoCall)
  BY NoCallFits DEF NoCall, Fits, MayRemember, InviteSteps
<1> QED  BY <1>1, RememberFits DEF Done

LEMMA StepFits ==
  ASSUME SlotsFit, NEW s \in Slots, NEW step \in CallSteps, Step(s, step),
         call[s].step # "idle", step \notin InviteSteps, Lasting
  PROVE  SlotsFit'
<1>1. MayRemember([call[s] EXCEPT !.step = step])
  BY DEF SlotsFit, Fits, Call, MayRemember, Lasting, InviteSteps
<1> QED  BY <1>1, RememberFits DEF Step

LEMMA RequestFits ==
  ASSUME SlotsFit, NEW s \in Slots, NEW c \in Call, Remember(s, c), c.who \in People,
         c.envs \subseteq envs', c.step \notin InviteSteps, Lasting
  PROVE  SlotsFit'
BY RememberFits DEF MayRemember, InviteSteps

LEMMA RestFits == SlotsFit /\ UNCHANGED call /\ Lasting => SlotsFit'
BY DEF SlotsFit, Fits, Lasting, InviteSteps

LEMMA CountsCalls == WsTypes /\ Called => calls' \in 0..MaxCalls
BY DEF WsTypes, Called

----------------------------------------------------------------------------

LEMMA CreateInviteTypes ==
  ASSUME TypesInv, NEW s \in Slots, NEW i \in Invites, CreateInvite(s, i), UNCHANGED vaultVars
  PROVE  WsTypes' /\ SlotsFit' /\ InvitesFit'
<1>0. Lasting
  BY DEF TypesInv, WsTypes, CreateInvite, Lasting, vaultVars
<1>1. call[s] \in Call /\ call[s].who \in People
  BY DEF TypesInv, SlotsFit, Fits, CreateInvite, Doing
<1>2. invites' \in [Invites -> Invitation]
  BY <1>1 DEF TypesInv, WsTypes, CreateInvite, Invitation, Call
<1>3. WsTypes'
  BY <1>2 DEF TypesInv, WsTypes, CreateInvite, Done
<1>4. SlotsFit'
  BY <1>0, DoneFits DEF TypesInv, CreateInvite, vaultVars
<1>5. InvitesFit'
  BY <1>1 DEF TypesInv, WsTypes, InvitesFit, CreateInvite
<1> QED  BY <1>3, <1>4, <1>5

LEMMA InviteTypes ==
  ASSUME TypesInv, NEW s \in Slots, NEW u \in People, NEW to \in People, Invite(s, u, to),
         UNCHANGED vaultVars
  PROVE  WsTypes' /\ SlotsFit' /\ InvitesFit'
<1>0. Lasting
  BY LastingRest DEF Invite, wsVars, vaultVars
<1>1. WsTypes' /\ InvitesFit'
  BY CountsCalls DEF TypesInv, WsTypes, InvitesFit, Invite, Calls, wsVars
<1>2. PICK r \in GivenRoles :
        Remember(s, [NoCall EXCEPT !.step = "invite", !.who = to, !.role = r])
  BY DEF Invite
<1>3. SlotsFit'
  BY <1>0, <1>2, RequestFits DEF TypesInv, NoCall, Call, CallSteps, vaultVars, InviteSteps
<1> QED  BY <1>1, <1>3

LEMMA CreateWorkspaceTypes ==
  ASSUME TypesInv, NEW u \in People, CreateWorkspace(u), UNCHANGED vaultVars
  PROVE  WsTypes' /\ SlotsFit' /\ InvitesFit'
<1>0. Lasting
  BY LastingRest DEF CreateWorkspace, wsVars, vaultVars
<1>1. wsRole' \in [People -> WsRoles]
  BY DEF TypesInv, WsTypes, CreateWorkspace, WsRoles
<1>2. WsTypes' /\ InvitesFit'
  BY <1>1, CountsCalls DEF TypesInv, WsTypes, InvitesFit, CreateWorkspace
<1>3. SlotsFit'
  BY <1>0, RestFits DEF TypesInv, CreateWorkspace, vaultVars
<1> QED  BY <1>2, <1>3

LEMMA DeleteWorkspaceTypes ==
  ASSUME TypesInv, NEW u \in People, DeleteWorkspace(u), UNCHANGED vaultVars
  PROVE  WsTypes' /\ SlotsFit' /\ InvitesFit'
<1>0. Lasting
  BY LastingRest DEF DeleteWorkspace, wsVars, vaultVars
<1>1. wsRole' \in [People -> WsRoles]
  BY DEF DeleteWorkspace, WsRoles
<1>2. departed' \in [People -> Nat]
  BY DEF TypesInv, WsTypes, DeleteWorkspace
<1>3. WsTypes' /\ InvitesFit'
  BY <1>1, <1>2, CountsCalls DEF TypesInv, WsTypes, InvitesFit, DeleteWorkspace
<1>4. SlotsFit'
  BY <1>0, RestFits DEF TypesInv, DeleteWorkspace, vaultVars
<1> QED  BY <1>3, <1>4

LEMMA CancelInviteTypes ==
  ASSUME TypesInv, NEW s \in Slots, NEW u \in People, NEW i \in Invites,
         CancelInvite(s, u, i), UNCHANGED vaultVars
  PROVE  WsTypes' /\ SlotsFit' /\ InvitesFit'
<1>0. Lasting
  BY LastingRest DEF CancelInvite, wsVars, vaultVars
<1>1. WsTypes' /\ InvitesFit'
  BY CountsCalls DEF TypesInv, WsTypes, InvitesFit, CancelInvite, Calls, wsVars
<1>2. PICK c : c = [NoCall EXCEPT !.step = "cancel", !.who = u, !.invite = i]
  OBVIOUS
<1>3. Remember(s, c)
  BY <1>2 DEF CancelInvite
<1>4. c \in Call /\ c.envs = {} /\ c.who = u /\ c.step = "cancel" /\ c.invite = i
  BY <1>2, NoCallFits DEF NoCall, Call, CallSteps, Fits
<1>5. invites'[i].status # "absent"
  BY DEF CancelInvite, wsVars
<1>6. SlotsFit'
  BY <1>0, <1>3, <1>4, <1>5, RememberFits DEF TypesInv, MayRemember
<1> QED  BY <1>1, <1>6

LEMMA DeleteInviteTypes ==
  ASSUME TypesInv, NEW s \in Slots, DeleteInvite(s), UNCHANGED vaultVars
  PROVE  WsTypes' /\ SlotsFit' /\ InvitesFit'
<1>1. call[s].invite \in Invites /\ invites[call[s].invite].status # "absent"
  BY DEF TypesInv, SlotsFit, Fits, InviteSteps, DeleteInvite, Doing
<1>2. Lasting
  BY <1>1 DEF TypesInv, WsTypes, DeleteInvite, Invitation, Lasting, vaultVars
<1>3. invites' \in [Invites -> Invitation] /\ InvitesFit'
  BY <1>1 DEF TypesInv, WsTypes, InvitesFit, DeleteInvite, Invitation
<1>4. WsTypes'
  BY <1>3 DEF TypesInv, WsTypes, DeleteInvite, Done
<1>5. SlotsFit'
  BY <1>2, DoneFits DEF TypesInv, DeleteInvite, vaultVars
<1> QED  BY <1>3, <1>4, <1>5

LEMMA ExpireInviteTypes ==
  ASSUME TypesInv, NEW i \in Invites, ExpireInvite(i), UNCHANGED vaultVars
  PROVE  WsTypes' /\ SlotsFit' /\ InvitesFit'
<1>0. Lasting
  BY DEF TypesInv, WsTypes, ExpireInvite, Invitation, Lasting, vaultVars
<1>1. invites' \in [Invites -> Invitation] /\ InvitesFit'
  BY DEF TypesInv, WsTypes, InvitesFit, ExpireInvite, Invitation
<1>2. WsTypes'
  BY <1>1 DEF TypesInv, WsTypes, ExpireInvite
<1>3. SlotsFit'
  BY <1>0, RestFits DEF TypesInv, ExpireInvite, vaultVars
<1> QED  BY <1>1, <1>2, <1>3

LEMMA JoinTypes ==
  ASSUME TypesInv, NEW s \in Slots, NEW i \in Invites, Join(s, i), UNCHANGED vaultVars
  PROVE  WsTypes' /\ SlotsFit' /\ InvitesFit'
<1>1. WsTypes' /\ InvitesFit'
  BY CountsCalls DEF TypesInv, WsTypes, InvitesFit, Join, Calls, wsVars
<1>2. invites[i].to \in People /\ invites[i].role \in GivenRoles
  BY DEF TypesInv, WsTypes, InvitesFit, Join, Invitation
<1>3. Remember(s, [NoCall EXCEPT !.step = "join", !.who = invites[i].to,
                                 !.role = invites[i].role, !.invite = i])
  BY DEF Join
<1>4. Lasting
  BY LastingRest DEF Join, wsVars, vaultVars
<1>5. MayRemember([NoCall EXCEPT !.step = "join", !.who = invites[i].to,
                                 !.role = invites[i].role, !.invite = i])
  BY <1>2 DEF Join, wsVars, NoCall, Call, CallSteps, MayRemember, InviteSteps
<1>6. SlotsFit'
  BY <1>3, <1>4, <1>5, RememberFits DEF TypesInv
<1> QED  BY <1>1, <1>6

LEMMA AcceptInviteTypes ==
  ASSUME TypesInv, NEW s \in Slots, AcceptInvite(s), UNCHANGED vaultVars
  PROVE  WsTypes' /\ SlotsFit' /\ InvitesFit'
<1> DEFINE q == call[s]
<1>1. /\ q \in Call /\ q.invite \in Invites
      /\ invites[q.invite].status # "absent"
  BY DEF TypesInv, SlotsFit, Fits, InviteSteps, AcceptInvite, Doing
<1>2. wsRole' \in [People -> WsRoles]
  BY <1>1 DEF TypesInv, WsTypes, AcceptInvite, Call, WsRoles, GivenRoles
<1>3. invites' \in [Invites -> Invitation] /\ Lasting /\ InvitesFit'
  <2>1. CASE Member(q.who)
    BY <2>1 DEF TypesInv, WsTypes, InvitesFit, AcceptInvite, Lasting, vaultVars
  <2>2. CASE ~Member(q.who)
    <3>1. PICK st \in {"deleted", "accepted"} :
            invites' = [invites EXCEPT ![q.invite].status = st]
      BY <2>2, <1>1 DEF AcceptInvite, TypesInv, WsTypes
    <3> QED  BY <3>1, <1>1 DEF TypesInv, WsTypes, InvitesFit, Invitation, Lasting, vaultVars
  <2> QED  BY <2>1, <2>2
<1>4. admitted' \in [Invites -> Nat]
  BY <1>1 DEF TypesInv, WsTypes, AcceptInvite
<1>5. WsTypes'
  BY <1>2, <1>3, <1>4 DEF TypesInv, WsTypes, AcceptInvite, Done
<1>6. SlotsFit'
  BY <1>3, DoneFits DEF TypesInv, AcceptInvite, vaultVars
<1> QED  BY <1>3, <1>5, <1>6

LEMMA ChangeRoleTypes ==
  ASSUME TypesInv, NEW s \in Slots, NEW u \in People, NEW t \in People, ChangeRole(s, u, t),
         UNCHANGED vaultVars
  PROVE  WsTypes' /\ SlotsFit' /\ InvitesFit'
<1>0. Lasting
  BY LastingRest DEF ChangeRole, wsVars, vaultVars
<1>1. WsTypes' /\ InvitesFit'
  BY CountsCalls DEF TypesInv, WsTypes, InvitesFit, ChangeRole, Calls, wsVars
<1>2. PICK r \in GivenRoles :
        Remember(s, [NoCall EXCEPT !.step = "role", !.who = t, !.role = r])
  BY DEF ChangeRole
<1>3. SlotsFit'
  BY <1>0, <1>2, RequestFits DEF TypesInv, NoCall, Call, CallSteps, vaultVars, InviteSteps
<1> QED  BY <1>1, <1>3

LEMMA UpdateMemberRoleTypes ==
  ASSUME TypesInv, NEW s \in Slots, UpdateMemberRole(s), UNCHANGED vaultVars
  PROVE  WsTypes' /\ SlotsFit' /\ InvitesFit'
<1>0. Lasting
  BY LastingRest DEF UpdateMemberRole, wsVars, vaultVars
<1>1. call[s] \in Call
  BY DEF TypesInv, SlotsFit, Fits
<1>2. wsRole' \in [People -> WsRoles]
  BY <1>1 DEF TypesInv, WsTypes, UpdateMemberRole, Call, WsRoles, GivenRoles
<1>3. WsTypes' /\ InvitesFit'
  BY <1>2 DEF TypesInv, WsTypes, InvitesFit, UpdateMemberRole, Done
<1>4. SlotsFit'
  BY <1>0, DoneFits DEF TypesInv, UpdateMemberRole, vaultVars
<1> QED  BY <1>3, <1>4

LEMMA RemoveMemberTypes ==
  ASSUME TypesInv, NEW s \in Slots, NEW u \in People, NEW t \in People, RemoveMember(s, u, t),
         UNCHANGED vaultVars
  PROVE  WsTypes' /\ SlotsFit' /\ InvitesFit'
<1>0. Lasting
  BY LastingRest DEF RemoveMember, wsVars, vaultVars
<1>1. WsTypes' /\ InvitesFit'
  BY CountsCalls DEF TypesInv, WsTypes, InvitesFit, RemoveMember, Calls, wsVars
<1>2. SlotsFit'
  BY <1>0, RequestFits DEF TypesInv, RemoveMember, NoCall, Call, CallSteps, GivenRoles, vaultVars, InviteSteps
<1> QED  BY <1>1, <1>2

LEMMA DeleteMembershipTypes ==
  ASSUME TypesInv, NEW s \in Slots, DeleteMembership(s), UNCHANGED vaultVars
  PROVE  WsTypes' /\ SlotsFit' /\ InvitesFit'
<1>0. Lasting
  BY LastingRest DEF DeleteMembership, wsVars, vaultVars
<1>1. wsRole' \in [People -> WsRoles]
  BY DEF TypesInv, WsTypes, DeleteMembership, WsRoles
<1>2. departed' = [departed EXCEPT ![call[s].who] =
                     IF Member(call[s].who) THEN @ + 1 ELSE @]
  BY DEF DeleteMembership
<1>3. departed' \in [People -> Nat]
  <2>1. call[s].who \in People
    BY DEF TypesInv, SlotsFit, Fits, DeleteMembership, Doing
  <2>2. departed[call[s].who] \in Nat
    BY <2>1 DEF TypesInv, WsTypes
  <2>3. PICK n \in Nat : departed' = [departed EXCEPT ![call[s].who] = n]
    <3>1. departed[call[s].who] + 1 \in Nat
      BY <2>2
    <3>2. CASE Member(call[s].who)
      BY <1>2, <3>1, <3>2, Zenon
    <3>3. CASE ~Member(call[s].who)
      BY <1>2, <2>2, <3>3, Zenon
    <3> QED  BY <3>2, <3>3
  <2> QED  BY <2>3 DEF TypesInv, WsTypes
<1>4. WsTypes' /\ InvitesFit'
  BY <1>1, <1>3 DEF TypesInv, WsTypes, InvitesFit, DeleteMembership, Done
<1>5. SlotsFit'
  BY <1>0, DoneFits DEF TypesInv, DeleteMembership, vaultVars
<1> QED  BY <1>4, <1>5

LEMMA WorkspaceTypes ==
  ASSUME TypesInv, WsRequest \/ WsCommand, UNCHANGED vaultVars
  PROVE  TypesInv'
<1>1. WsTypes' /\ SlotsFit' /\ InvitesFit'
  <2>1. CASE WsRequest
    BY <2>1, CreateWorkspaceTypes, DeleteWorkspaceTypes, CancelInviteTypes, InviteTypes,
       ChangeRoleTypes, RemoveMemberTypes, JoinTypes DEF WsRequest
  <2>2. CASE WsCommand
    BY <2>2, CreateInviteTypes, DeleteInviteTypes, AcceptInviteTypes, UpdateMemberRoleTypes,
       DeleteMembershipTypes, ExpireInviteTypes DEF WsCommand
  <2> QED  BY <2>1, <2>2
<1>2. VaultFits'
  BY DEF TypesInv, VaultFits, vaultVars
<1>3. FailuresFit'
  BY Zenon DEF TypesInv, FailuresFit, vaultVars
<1> QED  BY <1>1, <1>2, <1>3 DEF TypesInv

----------------------------------------------------------------------------

\* What a vault step leaves to be shown of SlotsFit and VaultFits.
VaultDocs == <<vault, creator, envs, vrole, access, keys, flagged>>

LEMMA WorkspaceRests ==
  TypesInv /\ UNCHANGED wsVars /\ (Called \/ UNCHANGED calls) => WsTypes' /\ InvitesFit'
BY DEF TypesInv, WsTypes, InvitesFit, Called, wsVars

LEMMA VaultRests == TypesInv /\ UNCHANGED VaultDocs => VaultFits'
BY DEF TypesInv, VaultFits, VaultDocs

LEMMA FailuresRest == TypesInv /\ UNCHANGED <<breaks, torn>> => FailuresFit'
BY Zenon DEF TypesInv, FailuresFit

LEMMA RequestTypes ==
  ASSUME TypesInv, NEW s \in Slots, NEW c \in Call, Calls(s), Remember(s, c), c.who \in People,
         c.envs \subseteq envs, c.step \notin InviteSteps, UNCHANGED <<wsVars, vaultVars>>
  PROVE  TypesInv'
<1>1. Lasting /\ UNCHANGED envs
  BY LastingRest DEF wsVars, vaultVars
<1>2. SlotsFit'
  BY <1>1, RequestFits DEF TypesInv
<1>3. WsTypes' /\ InvitesFit'
  BY WorkspaceRests DEF Calls
<1>4. VaultFits' /\ FailuresFit'
  BY VaultRests, FailuresRest DEF vaultVars, VaultDocs
<1> QED  BY <1>2, <1>3, <1>4 DEF TypesInv

LEMMA CreateVaultTypes ==
  ASSUME TypesInv, NEW s \in Slots, NEW u \in People, CreateVault(s, u)
  PROVE  TypesInv'
<1>1. PICK es \in (SUBSET Envs) \ {{}} :
        /\ envs' = es
        /\ Remember(s, [NoCall EXCEPT !.step = "creator", !.who = u, !.envs = es])
  BY DEF CreateVault
<1>2. envs = {} /\ UNCHANGED invites
  BY DEF TypesInv, VaultFits, CreateVault, wsVars
<1>3. Lasting
  BY <1>2 DEF Lasting
<1>4. SlotsFit'
  BY <1>1, <1>3, RequestFits DEF TypesInv, NoCall, Call, CallSteps, GivenRoles, InviteSteps
<1>5. WsTypes' /\ InvitesFit'
  BY WorkspaceRests DEF CreateVault, Calls
<1>6. access \in [People -> SUBSET envs']
  BY <1>1, <1>2 DEF TypesInv, VaultFits
<1>7. VaultFits'
  BY <1>1, <1>2, <1>6 DEF TypesInv, VaultFits, CreateVault
<1>8. FailuresFit'
  BY FailuresRest DEF CreateVault
<1> QED  BY <1>4, <1>5, <1>7, <1>8 DEF TypesInv

LEMMA DeleteVaultTypes ==
  ASSUME TypesInv, NEW s \in Slots, NEW u \in People, DeleteVault(s, u)
  PROVE  TypesInv'
BY RequestTypes DEF DeleteVault, NoCall, Call, CallSteps, GivenRoles, InviteSteps

LEMMA AddEnvironmentTypes ==
  ASSUME TypesInv, NEW s \in Slots, NEW u \in People, NEW e \in Envs, AddEnvironment(s, u, e)
  PROVE  TypesInv'
<1>1. envs' = envs \cup {e} /\ UNCHANGED invites
  BY DEF AddEnvironment, wsVars
<1>2. Lasting
  BY <1>1 DEF Lasting
<1>3. SlotsFit'
  BY <1>1, <1>2, RequestFits
     DEF TypesInv, AddEnvironment, NoCall, Call, CallSteps, GivenRoles, InviteSteps
<1>4. WsTypes' /\ InvitesFit'
  BY WorkspaceRests DEF AddEnvironment, Calls
<1>5. access \in [People -> SUBSET envs']
  BY <1>1 DEF TypesInv, VaultFits
<1>6. vault = "live"
  BY DEF AddEnvironment, ManagesVault, Resolves
<1>7. VaultFits'
  BY <1>1, <1>5, <1>6 DEF TypesInv, VaultFits, AddEnvironment
<1>8. FailuresFit'
  BY FailuresRest DEF AddEnvironment
<1> QED  BY <1>3, <1>4, <1>7, <1>8 DEF TypesInv

LEMMA AddVaultMemberTypes ==
  ASSUME TypesInv, NEW s \in Slots, NEW u \in People, NEW t \in People, AddVaultMember(s, u, t)
  PROVE  TypesInv'
<1>1. PICK r \in GivenRoles, es \in SUBSET envs :
        Remember(s, [NoCall EXCEPT !.step = "add", !.who = t, !.role = r, !.envs = es])
  BY DEF AddVaultMember
<1>2. envs \subseteq Envs
  BY DEF TypesInv, VaultFits
<1> QED  BY <1>1, <1>2, RequestTypes DEF AddVaultMember, NoCall, Call, CallSteps, InviteSteps

LEMMA UpdateVaultMemberTypes ==
  ASSUME TypesInv, NEW s \in Slots, NEW u \in People, NEW t \in People,
         UpdateVaultMember(s, u, t)
  PROVE  TypesInv'
<1>1. PICK r \in GivenRoles \cup {vrole[t]}, es \in (SUBSET envs) \cup {access[t]} :
        Remember(s, [NoCall EXCEPT !.step = "update", !.who = t, !.role = r, !.envs = es,
                                   !.lost = access[t] \ es])
  BY DEF UpdateVaultMember
<1>2. envs \subseteq Envs /\ access[t] \subseteq envs
  BY DEF TypesInv, VaultFits
<1>3. r \in GivenRoles
  BY DEF TypesInv, VaultFits, UpdateVaultMember, VRoles, GivenRoles
<1>4. es \subseteq envs /\ access[t] \ es \subseteq Envs
  BY <1>2
<1> QED  BY <1>1, <1>2, <1>3, <1>4, RequestTypes DEF UpdateVaultMember, NoCall, Call, CallSteps, InviteSteps

LEMMA RemoveVaultMemberTypes ==
  ASSUME TypesInv, NEW s \in Slots, NEW u \in People, NEW t \in People,
         RemoveVaultMember(s, u, t)
  PROVE  TypesInv'
<1>1. access[t] \subseteq Envs
  BY DEF TypesInv, VaultFits
<1> QED
  BY <1>1, RequestTypes DEF RemoveVaultMember, NoCall, Call, CallSteps, GivenRoles, InviteSteps

LEMMA ShareKeysTypes ==
  ASSUME TypesInv, NEW s \in Slots, NEW u \in People, NEW t \in People, NEW e \in Envs,
         ShareKeys(s, u, t, e)
  PROVE  TypesInv'
<1>1. e \in envs
  BY DEF TypesInv, VaultFits, ShareKeys
<1> QED
  BY <1>1, RequestTypes DEF ShareKeys, NoCall, Call, CallSteps, GivenRoles, InviteSteps

LEMMA VaultRequestTypes == TypesInv /\ VaultRequest => TypesInv'
BY CreateVaultTypes, DeleteVaultTypes, AddEnvironmentTypes, AddVaultMemberTypes,
   UpdateVaultMemberTypes, RemoveVaultMemberTypes, ShareKeysTypes DEF VaultRequest

----------------------------------------------------------------------------

\* A command of a slot that has more to do, or is done.
LEMMA CommandFits ==
  ASSUME TypesInv, NEW s \in Slots, call[s].step # "idle", UNCHANGED <<wsVars, envs>>,
         NEW step \in CallSteps \ InviteSteps, (Step(s, step) /\ UNCHANGED calls) \/ Done(s)
  PROVE  WsTypes' /\ SlotsFit' /\ InvitesFit'
<1>1. Lasting
  BY LastingRest DEF wsVars
<1>2. SlotsFit'
  BY <1>1, StepFits, DoneFits DEF TypesInv
<1>3. WsTypes' /\ InvitesFit'
  BY WorkspaceRests DEF Done
<1> QED  BY <1>2, <1>3

LEMMA SlotTyped ==
  ASSUME TypesInv, NEW s \in Slots
  PROVE  /\ call[s] \in Call /\ call[s].role \in VRoles \ {"none"}
         /\ call[s].envs \subseteq envs /\ call[s].envs \subseteq Envs
         /\ call[s].step # "idle" => call[s].who \in People
BY DEF TypesInv, SlotsFit, VaultFits, Fits, Call, GivenRoles, VRoles

LEMMA CreateMemberTypes ==
  ASSUME TypesInv, NEW s \in Slots, CreateMember(s)
  PROVE  TypesInv'
<1>1. WsTypes' /\ SlotsFit' /\ InvitesFit'
  <2>1. CASE Step(s, "createKeys")
    BY <2>1, CommandFits DEF CreateMember, Doing, CallSteps, InviteSteps
  <2>2. CASE Step(s, "undo")
    BY <2>2, CommandFits DEF CreateMember, Doing, CallSteps, InviteSteps
  <2> QED  BY <2>1, <2>2 DEF CreateMember
<1>2. vrole' \in [People -> VRoles] /\ access' \in [People -> SUBSET envs]
  BY SlotTyped DEF TypesInv, VaultFits, CreateMember, VRoles
<1>3. \A u \in People : vrole'[u] = "none" => access'[u] = {}
  BY DEF TypesInv, VaultFits, CreateMember
<1>4. VaultFits'
  BY <1>2, <1>3 DEF TypesInv, VaultFits, CreateMember
<1>5. FailuresFit'
  BY FailuresRest DEF CreateMember
<1> QED  BY <1>1, <1>4, <1>5 DEF TypesInv

LEMMA InsertKeysTypes ==
  ASSUME TypesInv, NEW s \in Slots, InsertKeys(s)
  PROVE  TypesInv'
<1>1. WsTypes' /\ SlotsFit' /\ InvitesFit'
  BY CommandFits DEF InsertKeys, CallSteps, InviteSteps
<1>2. keys' \in SUBSET (People \X Envs)
  BY SlotTyped DEF TypesInv, VaultFits, InsertKeys, Granted
<1>3. VaultFits'
  BY <1>2 DEF TypesInv, VaultFits, InsertKeys
<1>4. FailuresFit'
  BY FailuresRest DEF InsertKeys
<1> QED  BY <1>1, <1>3, <1>4 DEF TypesInv

LEMMA DeleteVaultCascadeTypes ==
  ASSUME TypesInv, NEW s \in Slots, DeleteVaultCascade(s)
  PROVE  TypesInv'
<1>1. WsTypes' /\ SlotsFit' /\ InvitesFit'
  BY CommandFits DEF DeleteVaultCascade, Doing, CallSteps, InviteSteps
<1>2. VaultFits'
  BY DEF TypesInv, VaultFits, DeleteVaultCascade
<1>3. FailuresFit'
  BY FailuresRest DEF DeleteVaultCascade
<1> QED  BY <1>1, <1>2, <1>3 DEF TypesInv

LEMMA DropVaultDocumentsTypes ==
  ASSUME TypesInv, NEW s \in Slots, DropVaultDocuments(s)
  PROVE  TypesInv'
<1>1. WsTypes' /\ SlotsFit' /\ InvitesFit'
  BY CommandFits DEF DropVaultDocuments, Doing, CallSteps, InviteSteps
<1>2. VaultFits'
  <2>1. CASE Doing(s, "drop") /\ vrole' = [u \in People |-> "none"]
    BY <2>1 DEF TypesInv, VaultFits, DropVaultDocuments, Doing, VRoles
  <2>2. CASE keys' = {} /\ UNCHANGED <<vault, creator, envs, vrole, access, flagged>>
    BY <2>2 DEF TypesInv, VaultFits
  <2> QED  BY <2>1, <2>2 DEF DropVaultDocuments
<1>3. FailuresFit'
  BY FailuresRest DEF DropVaultDocuments
<1> QED  BY <1>1, <1>2, <1>3 DEF TypesInv

LEMMA AddEnvAccessTypes ==
  ASSUME TypesInv, NEW s \in Slots, AddEnvAccess(s)
  PROVE  TypesInv'
<1>1. WsTypes' /\ SlotsFit' /\ InvitesFit'
  BY CommandFits DEF AddEnvAccess, Doing, CallSteps, InviteSteps
<1>2. access' \in [People -> SUBSET envs]
  BY SlotTyped DEF TypesInv, VaultFits, AddEnvAccess
<1>3. \A u \in People : vrole[u] = "none" => access'[u] = {}
  BY DEF TypesInv, VaultFits, AddEnvAccess
<1>4. VaultFits'
  BY <1>2, <1>3 DEF TypesInv, VaultFits, AddEnvAccess
<1>5. FailuresFit'
  BY FailuresRest DEF AddEnvAccess
<1> QED  BY <1>1, <1>4, <1>5 DEF TypesInv

LEMMA InsertVaultMemberTypes ==
  ASSUME TypesInv, NEW s \in Slots, InsertVaultMember(s)
  PROVE  TypesInv'
<1>1. WsTypes' /\ SlotsFit' /\ InvitesFit'
  BY CommandFits DEF InsertVaultMember, Doing, CallSteps, InviteSteps
<1>2. vrole' \in [People -> VRoles] /\ access' \in [People -> SUBSET envs]
  BY SlotTyped DEF TypesInv, VaultFits, InsertVaultMember
<1>3. \A u \in People : vrole'[u] = "none" => access'[u] = {}
  BY SlotTyped DEF TypesInv, VaultFits, InsertVaultMember
<1>4. VaultFits'
  BY <1>2, <1>3 DEF TypesInv, VaultFits, InsertVaultMember
<1>5. FailuresFit'
  BY FailuresRest DEF InsertVaultMember
<1> QED  BY <1>1, <1>4, <1>5 DEF TypesInv

LEMMA WriteVaultMemberTypes ==
  ASSUME TypesInv, NEW s \in Slots, WriteVaultMember(s)
  PROVE  TypesInv'
<1>1. WsTypes' /\ SlotsFit' /\ InvitesFit'
  BY CommandFits DEF WriteVaultMember, Doing, CallSteps, InviteSteps
<1>2. vrole' \in [People -> VRoles] /\ access' \in [People -> SUBSET envs]
  BY SlotTyped DEF TypesInv, VaultFits, WriteVaultMember
<1>3. \A u \in People : vrole'[u] = "none" => access'[u] = {}
  BY SlotTyped DEF TypesInv, VaultFits, WriteVaultMember
<1>4. VaultFits'
  BY <1>2, <1>3 DEF TypesInv, VaultFits, WriteVaultMember
<1>5. FailuresFit'
  BY FailuresRest DEF WriteVaultMember
<1> QED  BY <1>1, <1>4, <1>5 DEF TypesInv

LEMMA DeleteVaultMemberTypes ==
  ASSUME TypesInv, NEW s \in Slots, DeleteVaultMember(s)
  PROVE  TypesInv'
<1>1. WsTypes' /\ SlotsFit' /\ InvitesFit'
  BY CommandFits DEF DeleteVaultMember, Doing, CallSteps, InviteSteps
<1>2. vrole' \in [People -> VRoles] /\ access' \in [People -> SUBSET envs]
  BY DEF TypesInv, VaultFits, DeleteVaultMember, VRoles
<1>3. \A u \in People : vrole'[u] = "none" => access'[u] = {}
  BY DEF TypesInv, VaultFits, DeleteVaultMember
<1>4. VaultFits'
  BY <1>2, <1>3 DEF TypesInv, VaultFits, DeleteVaultMember
<1>5. FailuresFit'
  BY FailuresRest DEF DeleteVaultMember
<1> QED  BY <1>1, <1>4, <1>5 DEF TypesInv

LEMMA UngrantTypes ==
  ASSUME TypesInv, NEW s \in Slots, Ungrant(s)
  PROVE  TypesInv'
<1>1. WsTypes' /\ SlotsFit' /\ InvitesFit'
  BY CommandFits DEF Ungrant, Doing, CallSteps, InviteSteps
<1>2. VaultFits'
  BY DEF TypesInv, VaultFits, Ungrant, Ungranted
<1>3. FailuresFit'
  BY FailuresRest DEF Ungrant
<1> QED  BY <1>1, <1>2, <1>3 DEF TypesInv

LEMMA FlagRekeyTypes ==
  ASSUME TypesInv, NEW s \in Slots, FlagRekey(s)
  PROVE  TypesInv'
<1>1. WsTypes' /\ SlotsFit' /\ InvitesFit'
  BY CommandFits DEF FlagRekey, Doing, CallSteps, InviteSteps
<1>2. VaultFits'
  BY DEF TypesInv, VaultFits, FlagRekey
<1>3. FailuresFit'
  BY FailuresRest DEF FlagRekey
<1> QED  BY <1>1, <1>2, <1>3 DEF TypesInv

LEMMA VaultCommandTypes ==
  ASSUME TypesInv, NEW s \in Slots, VaultCommand(s)
  PROVE  TypesInv'
BY CreateMemberTypes, InsertKeysTypes, DeleteVaultCascadeTypes, DropVaultDocumentsTypes,
   AddEnvAccessTypes, InsertVaultMemberTypes, WriteVaultMemberTypes, DeleteVaultMemberTypes,
   UngrantTypes, FlagRekeyTypes DEF VaultCommand

LEMMA BreakTypes ==
  ASSUME TypesInv, NEW s \in Slots, Break(s)
  PROVE  TypesInv'
<1>0. Lasting
  BY LastingRest DEF Break, wsVars
<1>1. SlotsFit'
  <2>1. CASE Remember(s, NoCall)
    <3>1. MayRemember(NoCall)
      BY NoCallFits DEF NoCall, Fits, MayRemember, InviteSteps
    <3> QED  BY <2>1, <3>1, <1>0, RememberFits DEF TypesInv
  <2>2. CASE ~Remember(s, NoCall)
    BY <2>2, <1>0, StepFits DEF TypesInv, Break, Doing, CallSteps, InviteSteps
  <2> QED  BY <2>1, <2>2
<1>2. WsTypes' /\ InvitesFit'
  BY WorkspaceRests DEF Break
<1>3. VaultFits'
  BY VaultRests DEF Break, VaultDocs
<1>4. breaks' \in 0..MaxBreaks
  BY DEF TypesInv, FailuresFit, Break
<1>5. torn' \in BOOLEAN
  BY Zenon DEF TypesInv, FailuresFit, Break
<1> QED  BY <1>1, <1>2, <1>3, <1>4, <1>5 DEF TypesInv, FailuresFit

LEMMA StepTypes == TypesInv /\ [TeamNext]_teamVars => TypesInv'
<1> SUFFICES ASSUME TypesInv, [TeamNext]_teamVars PROVE TypesInv'  OBVIOUS
<1>1. CASE TeamNext
  BY <1>1, WorkspaceTypes, VaultRequestTypes, VaultCommandTypes, BreakTypes DEF TeamNext
<1>2. CASE UNCHANGED teamVars
  <2>1. UNCHANGED <<wsVars, call, calls, VaultDocs, breaks, torn>>
    BY <1>2 DEF teamVars, vaultVars, VaultDocs
  <2>2. SlotsFit'
    BY <2>1, RestFits, LastingRest DEF TypesInv, wsVars, VaultDocs
  <2> QED
    BY <2>1, <2>2, WorkspaceRests, VaultRests, FailuresRest DEF TypesInv
<1> QED  BY <1>1, <1>2

LEMMA TypesAlways == TeamSpec => []TypesInv
BY InitTypes, StepTypes, PTL DEF TeamSpec

\* Memberships, invites, vault members, access lists, grants and flags are well
\* formed in every state: access lists and flags only name environments the
\* vault has, and only members have an access list.
THEOREM TeamTypesCorrect == TeamSpec => []TeamTypes
BY TypesAlways, TypesImplied, PTL

----------------------------------------------------------------------------
(* The owner *)

WsSteps == {"invite", "cancel", "join", "role", "leave"}

\* Requests of the vault do not put workspace requests into slots.
LEMMA SlotsElsewhere ==
  ASSUME TypesInv, NEW s \in Slots, NEW c, c.step \notin WsSteps, Remember(s, c)
  PROVE  \A t \in Slots : call'[t].step \in WsSteps => call'[t] = call[t]
BY DEF TypesInv, SlotsFit, Remember

LEMMA VaultSlots ==
  ASSUME TypesInv, VaultRequest \/ \E s \in Slots : VaultCommand(s) \/ Break(s)
  PROVE  /\ UNCHANGED wsVars
         /\ \A t \in Slots : call'[t].step \in WsSteps => call'[t] = call[t]
<1>1. UNCHANGED wsVars
  BY DEF VaultRequest, VaultCommand, CreateVault, DeleteVault, AddEnvironment, AddVaultMember,
     UpdateVaultMember, RemoveVaultMember, ShareKeys, CreateMember, InsertKeys,
     DeleteVaultCascade, DropVaultDocuments, AddEnvAccess, InsertVaultMember,
     WriteVaultMember, DeleteVaultMember, Ungrant, FlagRekey, Break
<1>2. PICK s \in Slots : \E c : c.step \notin WsSteps /\ Remember(s, c)
  <2>1. ASSUME NEW s \in Slots, NEW step, step \notin WsSteps, Step(s, step)
        PROVE  \E c : c.step \notin WsSteps /\ Remember(s, c)
    <3>1. [call[s] EXCEPT !.step = step].step = step
      BY DEF TypesInv, SlotsFit, Fits, Call
    <3> QED  BY <2>1, <3>1 DEF Step
  <2>2. NoCall.step \notin WsSteps
    BY DEF NoCall, WsSteps
  <2>3. ASSUME NEW s \in Slots, Done(s)
        PROVE  \E c : c.step \notin WsSteps /\ Remember(s, c)
    BY <2>2, <2>3 DEF Done
  <2>4. CASE VaultRequest
    <3> DEFINE Outside == \E s \in Slots : \E c : c.step \notin WsSteps /\ Remember(s, c)
    <3>1. ASSUME NEW s \in Slots, NEW u \in People, CreateVault(s, u)  PROVE Outside
      <4>1. PICK es : Remember(s, [NoCall EXCEPT !.step = "creator", !.who = u, !.envs = es])
        BY <3>1 DEF CreateVault
      <4> QED  BY <4>1 DEF NoCall, WsSteps
    <3>2. ASSUME NEW s \in Slots, NEW u \in People, DeleteVault(s, u)  PROVE Outside
      <4>1. Remember(s, [NoCall EXCEPT !.step = "cascade", !.who = u])
        BY <3>2 DEF DeleteVault
      <4> QED  BY <4>1 DEF NoCall, WsSteps
    <3>3. ASSUME NEW s \in Slots, NEW u \in People, NEW e \in Envs, AddEnvironment(s, u, e)
          PROVE  Outside
      <4>1. Remember(s, [NoCall EXCEPT !.step = "envAccess", !.who = u, !.envs = {e}])
        BY <3>3 DEF AddEnvironment
      <4> QED  BY <4>1 DEF NoCall, WsSteps
    <3>4. ASSUME NEW s \in Slots, NEW u \in People, NEW t \in People, AddVaultMember(s, u, t)
          PROVE  Outside
      <4>1. PICK r, es : Remember(s, [NoCall EXCEPT !.step = "add", !.who = t,
                                                 !.role = r, !.envs = es])
        BY <3>4 DEF AddVaultMember
      <4> QED  BY <4>1 DEF NoCall, WsSteps
    <3>5. ASSUME NEW s \in Slots, NEW u \in People, NEW t \in People,
                 UpdateVaultMember(s, u, t)
          PROVE  Outside
      <4>1. PICK r, es : Remember(s, [NoCall EXCEPT !.step = "update", !.who = t,
                                         !.role = r, !.envs = es, !.lost = access[t] \ es])
        BY <3>5 DEF UpdateVaultMember
      <4> QED  BY <4>1 DEF NoCall, WsSteps
    <3>6. ASSUME NEW s \in Slots, NEW u \in People, NEW t \in People,
                 RemoveVaultMember(s, u, t)
          PROVE  Outside
      <4>1. Remember(s, [NoCall EXCEPT !.step = "remove", !.who = t, !.lost = access[t]])
        BY <3>6 DEF RemoveVaultMember
      <4> QED  BY <4>1 DEF NoCall, WsSteps
    <3>7. ASSUME NEW s \in Slots, NEW u \in People, NEW t \in People, NEW e \in Envs,
                 ShareKeys(s, u, t, e)
          PROVE  Outside
      <4>1. Remember(s, [NoCall EXCEPT !.step = "share", !.who = t, !.envs = {e}])
        BY <3>7 DEF ShareKeys
      <4> QED  BY <4>1 DEF NoCall, WsSteps
    <3> HIDE DEF Outside
    <3>8. Outside
      BY <2>4, <3>1, <3>2, <3>3, <3>4, <3>5, <3>6, <3>7 DEF VaultRequest
    <3> QED  BY <3>8 DEF Outside
  <2>5. ASSUME NEW s \in Slots, VaultCommand(s)
        PROVE  \E c : c.step \notin WsSteps /\ Remember(s, c)
    BY <2>1, <2>3, <2>5 DEF VaultCommand, CreateMember, InsertKeys, DeleteVaultCascade,
       DropVaultDocuments, AddEnvAccess, InsertVaultMember, WriteVaultMember,
       DeleteVaultMember, Ungrant, FlagRekey, WsSteps
  <2>6. ASSUME NEW s \in Slots, Break(s)
        PROVE  \E c : c.step \notin WsSteps /\ Remember(s, c)
    BY <2>1, <2>2, <2>6 DEF Break, WsSteps
  <2> QED  BY <2>4, <2>5, <2>6
<1> QED  BY <1>1, <1>2, SlotsElsewhere

LEMMA OtherSlots ==
  ASSUME TypesInv, NEW s \in Slots, NEW c, Remember(s, c)
  PROVE  \A t \in Slots : call'[t] = IF t = s THEN c ELSE call[t]
BY DEF TypesInv, SlotsFit, Remember

\* Before there is a workspace it has no members, no invites and no requests.
Young ==
  workspace = "absent" =>
    /\ \A u \in People : wsRole[u] = "none"
    /\ \A i \in Invites : invites[i].status = "absent"
    /\ \A s \in Slots : call[s].step \notin WsSteps

\* No request at work changes or ends the owner's membership.
OwnerSpared ==
  workspace = "live" =>
    \A s \in Slots : call[s].step \in {"role", "leave"} => call[s].who # founder

OwnerIsFounder ==
  /\ workspace = "live" => founder \in People
  /\ \A u \in People : Owns(u) <=> workspace = "live" /\ u = founder

OwnerInv == OwnerIsFounder /\ OwnerSpared /\ Young

LEMMA OwnerImplied == OwnerInv => OneOwner
BY DEF OwnerInv, OwnerIsFounder, OneOwner

LEMMA InitOwner == TeamInit => OwnerInv
<1> SUFFICES ASSUME TeamInit PROVE OwnerInv  OBVIOUS
<1>1. \A s \in Slots : call[s].step = "idle"
  BY DEF TeamInit, WsInit, NoCall
<1>2. \A i \in Invites : invites[i].status = "absent"
  BY DEF TeamInit, WsInit, NoInvite
<1>3. OwnerIsFounder
  BY DEF TeamInit, WsInit, OwnerIsFounder, Owns
<1>4. OwnerSpared
  BY <1>1 DEF OwnerSpared
<1>5. Young
  BY <1>1, <1>2 DEF TeamInit, WsInit, Young, WsSteps
<1> QED  BY <1>3, <1>4, <1>5 DEF OwnerInv

\* Steps that leave the memberships and invites alone and put no workspace
\* request into a slot.
LEMMA OwnerRests ==
  ASSUME OwnerInv, UNCHANGED <<workspace, founder, wsRole, invites>>,
         \A t \in Slots : call'[t].step \in WsSteps => call'[t] = call[t]
  PROVE  OwnerInv'
<1>1. OwnerIsFounder'
  BY DEF OwnerInv, OwnerIsFounder, Owns
<1>2. OwnerSpared'
  BY DEF OwnerInv, OwnerSpared, WsSteps
<1>3. Young'
  BY DEF OwnerInv, Young
<1> QED  BY <1>1, <1>2, <1>3 DEF OwnerInv

LEMMA DoneSlots ==
  ASSUME TypesInv, NEW s \in Slots, Done(s)
  PROVE  \A t \in Slots : call'[t].step \in WsSteps => call'[t] = call[t]
BY OtherSlots DEF Done, NoCall, WsSteps

LEMMA CreateWorkspaceOwner ==
  ASSUME TypesInv, OwnerInv, NEW u \in People, CreateWorkspace(u)
  PROVE  OwnerInv'
<1>1. OwnerIsFounder'
  BY DEF TypesInv, WsTypes, OwnerInv, OwnerIsFounder, Owns, CreateWorkspace
<1>2. OwnerSpared'
  BY DEF OwnerInv, OwnerSpared, Young, WsSteps, CreateWorkspace
<1>3. Young'
  BY DEF Young, CreateWorkspace
<1> QED  BY <1>1, <1>2, <1>3 DEF OwnerInv

LEMMA DeleteWorkspaceOwner ==
  ASSUME NEW u \in People, DeleteWorkspace(u)
  PROVE  OwnerInv'
BY DEF OwnerInv, OwnerIsFounder, OwnerSpared, Young, Owns, DeleteWorkspace

\* Any request but these two, on behalf of a member, is made of a workspace
\* that has been created.
LEMMA NotYoung ==
  ASSUME OwnerInv, \/ \E u \in People : Member(u)
                   \/ \E i \in Invites : invites[i].status # "absent"
                   \/ \E s \in Slots : call[s].step \in WsSteps
  PROVE  workspace # "absent"
BY DEF OwnerInv, Young, Member

LEMMA ExpireInviteOwner ==
  ASSUME TypesInv, OwnerInv, NEW i \in Invites, ExpireInvite(i)
  PROVE  OwnerInv'
<1>1. workspace # "absent"
  BY NotYoung DEF ExpireInvite
<1> QED
  BY <1>1 DEF OwnerInv, OwnerIsFounder, OwnerSpared, Young, Owns, ExpireInvite

\* A request that goes into a slot spares the owner.
LEMMA RequestOwner ==
  ASSUME TypesInv, OwnerInv, NEW s \in Slots, NEW c, Remember(s, c), UNCHANGED wsVars,
         workspace # "absent",
         workspace = "live" /\ c.step \in {"role", "leave"} => c.who # founder
  PROVE  OwnerInv'
<1>1. OwnerIsFounder'
  BY DEF OwnerInv, OwnerIsFounder, Owns, wsVars
<1>2. OwnerSpared'
  BY OtherSlots DEF OwnerInv, OwnerSpared, wsVars
<1>3. Young'
  BY DEF Young, wsVars
<1> QED  BY <1>1, <1>2, <1>3 DEF OwnerInv

LEMMA InviteOwner ==
  ASSUME TypesInv, OwnerInv, NEW s \in Slots, NEW u \in People, NEW t \in People,
         Invite(s, u, t)
  PROVE  OwnerInv'
<1>1. workspace # "absent"
  BY NotYoung DEF Invite, Manages, Member
<1>2. PICK r \in GivenRoles :
        Remember(s, [NoCall EXCEPT !.step = "invite", !.who = t, !.role = r])
  BY DEF Invite
<1>3. [NoCall EXCEPT !.step = "invite", !.who = t, !.role = r].step = "invite"
  BY DEF NoCall
<1> QED
  BY <1>1, <1>2, <1>3, RequestOwner DEF Invite

LEMMA CancelInviteOwner ==
  ASSUME TypesInv, OwnerInv, NEW s \in Slots, NEW u \in People, NEW i \in Invites,
         CancelInvite(s, u, i)
  PROVE  OwnerInv'
<1>1. workspace # "absent"
  BY NotYoung DEF CancelInvite, Manages, Member
<1>2. PICK c : c = [NoCall EXCEPT !.step = "cancel", !.who = u, !.invite = i]
  OBVIOUS
<1>3. Remember(s, c) /\ UNCHANGED wsVars
  BY <1>2 DEF CancelInvite
<1>4. c.step = "cancel"
  BY <1>2 DEF NoCall
<1> QED
  BY <1>1, <1>3, <1>4, RequestOwner

LEMMA JoinOwner ==
  ASSUME TypesInv, OwnerInv, NEW s \in Slots, NEW i \in Invites, Join(s, i)
  PROVE  OwnerInv'
<1> DEFINE c == [NoCall EXCEPT !.step = "join", !.who = invites[i].to,
                               !.role = invites[i].role, !.invite = i]
<1>1. workspace # "absent"
  BY NotYoung DEF Join
<1>2. Remember(s, c) /\ UNCHANGED wsVars
  BY DEF Join
<1>3. c.step = "join"
  BY DEF NoCall
<1> QED
  BY <1>1, <1>2, <1>3, RequestOwner

LEMMA ChangeRoleOwner ==
  ASSUME TypesInv, OwnerInv, NEW s \in Slots, NEW u \in People, NEW t \in People,
         ChangeRole(s, u, t)
  PROVE  OwnerInv'
<1>1. workspace # "absent"
  BY NotYoung DEF ChangeRole, Owns, Member
<1>2. PICK r \in GivenRoles :
        Remember(s, [NoCall EXCEPT !.step = "role", !.who = t, !.role = r])
  BY DEF ChangeRole
<1>3. [NoCall EXCEPT !.step = "role", !.who = t, !.role = r].who = t
  BY DEF NoCall
<1>4. workspace = "live" => t # founder
  BY DEF ChangeRole, MayTouch, OwnerInv, OwnerIsFounder, Owns
<1> QED
  BY <1>1, <1>2, <1>3, <1>4, RequestOwner DEF ChangeRole

LEMMA RemoveMemberOwner ==
  ASSUME TypesInv, OwnerInv, NEW s \in Slots, NEW u \in People, NEW t \in People,
         RemoveMember(s, u, t)
  PROVE  OwnerInv'
<1> DEFINE c == [NoCall EXCEPT !.step = "leave", !.who = t]
<1>1. workspace # "absent"
  BY NotYoung DEF RemoveMember, Manages, Member
<1>2. Remember(s, c) /\ UNCHANGED wsVars
  BY DEF RemoveMember
<1>3. c.who = t
  BY DEF NoCall
<1>4. workspace = "live" => t # founder
  BY DEF RemoveMember, MayTouch, OwnerInv, OwnerIsFounder, Owns
<1> QED
  BY <1>1, <1>2, <1>3, <1>4, RequestOwner

\* A request at work ends: the workspace exists, and what is left to show is
\* that the owner's membership is as it was.
LEMMA CommandOwner ==
  ASSUME TypesInv, OwnerInv, NEW s \in Slots, call[s].step \in WsSteps, Done(s),
         UNCHANGED <<workspace, founder>>,
         \A u \in People : Owns(u)' <=> Owns(u)
  PROVE  OwnerInv'
<1>1. workspace # "absent"
  BY NotYoung
<1>2. OwnerIsFounder'
  BY DEF OwnerInv, OwnerIsFounder
<1>3. OwnerSpared'
  BY DoneSlots DEF OwnerInv, OwnerSpared, WsSteps
<1>4. Young'
  BY <1>1 DEF Young
<1> QED  BY <1>2, <1>3, <1>4 DEF OwnerInv

LEMMA CreateInviteOwner ==
  ASSUME TypesInv, OwnerInv, NEW s \in Slots, NEW i \in Invites, CreateInvite(s, i)
  PROVE  OwnerInv'
BY CommandOwner DEF CreateInvite, Doing, WsSteps, Owns

LEMMA DeleteInviteOwner ==
  ASSUME TypesInv, OwnerInv, NEW s \in Slots, DeleteInvite(s)
  PROVE  OwnerInv'
BY CommandOwner DEF DeleteInvite, Doing, WsSteps, Owns

LEMMA AcceptInviteOwner ==
  ASSUME TypesInv, OwnerInv, NEW s \in Slots, AcceptInvite(s)
  PROVE  OwnerInv'
<1>1. call[s].who \in People /\ call[s].role \in GivenRoles
  BY DEF AcceptInvite, Doing, TypesInv, SlotsFit, Fits, Call
<1>2. \A u \in People : Owns(u)' <=> Owns(u)
  BY <1>1 DEF AcceptInvite, TypesInv, WsTypes, Owns, Member, GivenRoles
<1> QED
  BY <1>2, CommandOwner DEF AcceptInvite, Doing, WsSteps

\* While the workspace is live the slot spares its founder, and afterwards
\* nobody is owner.
LEMMA NotTheOwner ==
  ASSUME TypesInv, OwnerInv, NEW s \in Slots, call[s].step \in {"role", "leave"}
  PROVE  call[s].who \in People /\ ~Owns(call[s].who)
BY DEF TypesInv, SlotsFit, Fits, OwnerInv, OwnerSpared, OwnerIsFounder

LEMMA UpdateMemberRoleOwner ==
  ASSUME TypesInv, OwnerInv, NEW s \in Slots, UpdateMemberRole(s)
  PROVE  OwnerInv'
<1>1. call[s].role \in GivenRoles
  BY DEF TypesInv, SlotsFit, Fits, Call
<1>2. call[s].who \in People /\ ~Owns(call[s].who)
  BY NotTheOwner DEF UpdateMemberRole, Doing
<1>3. \A u \in People : Owns(u)' <=> Owns(u)
  BY <1>1, <1>2 DEF UpdateMemberRole, TypesInv, WsTypes, Owns, GivenRoles
<1> QED
  BY <1>3, CommandOwner DEF UpdateMemberRole, Doing, WsSteps

LEMMA DeleteMembershipOwner ==
  ASSUME TypesInv, OwnerInv, NEW s \in Slots, DeleteMembership(s)
  PROVE  OwnerInv'
<1>1. call[s].who \in People /\ ~Owns(call[s].who)
  BY NotTheOwner DEF DeleteMembership, Doing
<1>2. \A u \in People : Owns(u)' <=> Owns(u)
  BY <1>1 DEF DeleteMembership, TypesInv, WsTypes, Owns
<1> QED
  BY <1>2, CommandOwner DEF DeleteMembership, Doing, WsSteps

LEMMA StepOwner == TypesInv /\ OwnerInv /\ [TeamNext]_teamVars => OwnerInv'
<1> SUFFICES ASSUME TypesInv, OwnerInv, [TeamNext]_teamVars PROVE OwnerInv'  OBVIOUS
<1>1. CASE WsRequest
  BY <1>1, CreateWorkspaceOwner, DeleteWorkspaceOwner, CancelInviteOwner, InviteOwner,
     ChangeRoleOwner, RemoveMemberOwner, JoinOwner DEF WsRequest
<1>2. CASE WsCommand
  BY <1>2, CreateInviteOwner, DeleteInviteOwner, AcceptInviteOwner, UpdateMemberRoleOwner,
     DeleteMembershipOwner, ExpireInviteOwner DEF WsCommand
<1>3. CASE VaultRequest \/ \E s \in Slots : VaultCommand(s) \/ Break(s)
  BY <1>3, VaultSlots, OwnerRests DEF wsVars
<1>4. CASE UNCHANGED teamVars
  BY <1>4, OwnerRests DEF teamVars, wsVars
<1> QED  BY <1>1, <1>2, <1>3, <1>4 DEF TeamNext

LEMMA OwnerAlways == TeamSpec => []OwnerInv
BY InitOwner, TypesAlways, StepOwner, PTL DEF TeamSpec

\* A live workspace has exactly one owner, its founder, whatever invitations,
\* joins, role changes and removals overlap; no other workspace has one.
THEOREM OwnerCorrect == TeamSpec => []OneOwner
BY OwnerAlways, OwnerImplied, PTL

----------------------------------------------------------------------------
(* Invites *)

\* The memberships a person has had so far.
Memberships(u) == departed[u] + (IF Member(u) THEN 1 ELSE 0)

\* Each admission by an invite is a membership of its own.
AdmitInv ==
  \A i \in Invites :
    /\ invites[i].status = "absent" => admitted[i] = 0
    /\ \A u \in People :
         invites[i].status # "absent" /\ invites[i].to = u => admitted[i] <= Memberships(u)

LEMMA MembershipsTyped ==
  ASSUME TypesInv, NEW u \in People
  PROVE  Memberships(u) \in Nat /\ Memberships(u) <= 1 + departed[u]
BY DEF TypesInv, WsTypes, Memberships

LEMMA AddresseeTyped ==
  ASSUME TypesInv, NEW i \in Invites, invites[i].status # "absent"
  PROVE  invites[i].to \in People
BY DEF TypesInv, InvitesFit

LEMMA AdmitImplied == TypesInv /\ AdmitInv => InviteAdmitsOnce
<1> SUFFICES ASSUME TypesInv, AdmitInv, NEW i \in Invites, invites[i].to # Nobody
             PROVE  admitted[i] <= 1 + departed[invites[i].to]
  BY DEF InviteAdmitsOnce
<1>1. invites[i].to \in People /\ departed[invites[i].to] \in Nat /\ admitted[i] \in Nat
  BY DEF TypesInv, WsTypes, Invitation
<1>2. CASE invites[i].status = "absent"
  BY <1>1, <1>2 DEF AdmitInv
<1>3. CASE invites[i].status # "absent"
  BY <1>1, <1>3, MembershipsTyped DEF AdmitInv
<1> QED  BY <1>2, <1>3

LEMMA InitAdmit == TeamInit => AdmitInv
BY DEF TeamInit, WsInit, NoInvite, AdmitInv

\* Nothing is admitted, no membership is forgotten, and an invite keeps its
\* addressee once it has one.
LEMMA AdmitRests ==
  ASSUME TypesInv, TypesInv', AdmitInv, UNCHANGED admitted,
         \A u \in People : Memberships(u) <= Memberships(u)',
         \A i \in Invites : invites[i].status # "absent" =>
           invites'[i].status # "absent" /\ invites'[i].to = invites[i].to
  PROVE  AdmitInv'
<1>1. ASSUME NEW i \in Invites, invites'[i].status = "absent"
      PROVE  admitted'[i] = 0
  BY <1>1 DEF AdmitInv
<1>2. ASSUME NEW i \in Invites, NEW u \in People,
             invites'[i].status # "absent", invites'[i].to = u
      PROVE  admitted'[i] <= Memberships(u)'
  <2>1. /\ Memberships(u) \in Nat /\ Memberships(u)' \in Nat
        /\ Memberships(u) <= Memberships(u)' /\ admitted[i] \in Nat
    BY MembershipsTyped DEF TypesInv, WsTypes, Memberships
  <2>2. admitted[i] <= Memberships(u)
    BY <1>2, <2>1 DEF AdmitInv
  <2> QED  BY <2>1, <2>2
<1> QED  BY <1>1, <1>2 DEF AdmitInv

\* The same, for a step that leaves the memberships alone.
LEMMA AdmitKeeps ==
  ASSUME TypesInv, TypesInv', AdmitInv, UNCHANGED <<wsRole, admitted, departed>>,
         \A i \in Invites : invites[i].status # "absent" =>
           invites'[i].status # "absent" /\ invites'[i].to = invites[i].to
  PROVE  AdmitInv'
<1>1. \A u \in People : Memberships(u) <= Memberships(u)'
  BY DEF TypesInv, WsTypes, Memberships, Member
<1> QED  BY <1>1, AdmitRests

LEMMA AcceptInviteAdmit ==
  ASSUME TypesInv, TypesInv', AdmitInv, NEW s \in Slots, AcceptInvite(s)
  PROVE  AdmitInv'
<1> DEFINE u == call[s].who
           j == call[s].invite
<1>1. /\ u \in People /\ call[s].role \in {"member", "admin"}
      /\ j \in Invites /\ invites[j].status # "absent" /\ invites[j].to = u
  BY DEF AcceptInvite, Doing, TypesInv, SlotsFit, Fits, InviteSteps, Call, GivenRoles
<1>2. CASE Member(u)
  BY <1>2, AdmitKeeps DEF AcceptInvite
<1>3. CASE ~Member(u)
  <2>1. /\ wsRole' = [wsRole EXCEPT ![u] = call[s].role]
        /\ admitted' = [admitted EXCEPT ![j] = @ + 1]
        /\ UNCHANGED departed
    BY <1>3 DEF AcceptInvite
  <2>2. PICK st \in {"deleted", "accepted"} : invites' = [invites EXCEPT ![j].status = st]
    BY <1>3 DEF AcceptInvite
  <2>3. \A i \in Invites : /\ invites[i].status # "absent" => invites'[i].status # "absent"
                           /\ invites'[i].status # "absent" => invites[i].status # "absent"
                           /\ invites'[i].to = invites[i].to
    BY <1>1, <2>2 DEF TypesInv, WsTypes, Invitation
  <2>4. ASSUME NEW v \in People
        PROVE  /\ Memberships(v)' = Memberships(v) + (IF v = u THEN 1 ELSE 0)
               /\ Memberships(v) \in Nat
    <3>1. CASE v = u
      BY <1>1, <1>3, <2>1, <3>1 DEF TypesInv, WsTypes, Memberships, Member
    <3>2. CASE v # u
      BY <1>1, <2>1, <3>2 DEF TypesInv, WsTypes, Memberships, Member
    <3> QED  BY <3>1, <3>2
  <2>5. ASSUME NEW i \in Invites
        PROVE  admitted'[i] = admitted[i] + (IF i = j THEN 1 ELSE 0) /\ admitted[i] \in Nat
    BY <1>1, <2>1 DEF TypesInv, WsTypes
  <2>6. ASSUME NEW i \in Invites, invites'[i].status = "absent"
        PROVE  admitted'[i] = 0
    BY <1>1, <2>3, <2>5, <2>6 DEF AdmitInv
  <2>7. ASSUME NEW i \in Invites, NEW v \in People,
               invites'[i].status # "absent", invites'[i].to = v
        PROVE  admitted'[i] <= Memberships(v)'
    <3>1. admitted[i] <= Memberships(v)
      BY <2>3, <2>7 DEF AdmitInv
    <3>2. i = j => v = u
      BY <1>1, <2>3, <2>7
    <3>3. /\ Memberships(v)' = Memberships(v) + (IF v = u THEN 1 ELSE 0)
          /\ Memberships(v) \in Nat
      BY <2>4
    <3>4. admitted'[i] = admitted[i] + (IF i = j THEN 1 ELSE 0) /\ admitted[i] \in Nat
      BY <2>5
    <3> QED  BY <3>1, <3>2, <3>3, <3>4
  <2> QED  BY <2>6, <2>7 DEF AdmitInv
<1> QED  BY <1>2, <1>3

LEMMA DeleteMembershipAdmit ==
  ASSUME TypesInv, TypesInv', AdmitInv, NEW s \in Slots, DeleteMembership(s)
  PROVE  AdmitInv'
<1>1. call[s].who \in People
  BY DEF DeleteMembership, Doing, TypesInv, SlotsFit, Fits
<1>2. \A u \in People : Memberships(u) <= Memberships(u)'
  BY <1>1 DEF DeleteMembership, TypesInv, WsTypes, Memberships, Member
<1> QED  BY <1>2, AdmitRests DEF DeleteMembership

LEMMA DeleteWorkspaceAdmit ==
  ASSUME TypesInv, TypesInv', AdmitInv, NEW u \in People, DeleteWorkspace(u)
  PROVE  AdmitInv'
<1>1. \A v \in People : Memberships(v) <= Memberships(v)'
  BY DEF DeleteWorkspace, TypesInv, WsTypes, Memberships, Member
<1> QED  BY <1>1, AdmitRests DEF DeleteWorkspace

LEMMA CreateWorkspaceAdmit ==
  ASSUME TypesInv, TypesInv', AdmitInv, NEW u \in People, CreateWorkspace(u)
  PROVE  AdmitInv'
<1>1. \A v \in People : Memberships(v) <= Memberships(v)'
  BY DEF CreateWorkspace, TypesInv, WsTypes, Memberships, Member
<1> QED  BY <1>1, AdmitRests DEF CreateWorkspace

LEMMA UpdateMemberRoleAdmit ==
  ASSUME TypesInv, TypesInv', AdmitInv, NEW s \in Slots, UpdateMemberRole(s)
  PROVE  AdmitInv'
<1>1. call[s].role \in {"member", "admin"}
  BY DEF TypesInv, SlotsFit, Fits, Call, GivenRoles
<1>2. \A u \in People : Memberships(u) <= Memberships(u)'
  BY <1>1 DEF UpdateMemberRole, TypesInv, WsTypes, Memberships, Member
<1> QED  BY <1>2, AdmitRests DEF UpdateMemberRole

LEMMA InvitesAdmit ==
  ASSUME TypesInv, TypesInv', AdmitInv,
         \/ \E s \in Slots, i \in Invites : CreateInvite(s, i)
         \/ \E s \in Slots : DeleteInvite(s)
         \/ \E i \in Invites : ExpireInvite(i)
  PROVE  AdmitInv'
<1>1. UNCHANGED <<wsRole, admitted, departed>>
  BY DEF CreateInvite, DeleteInvite, ExpireInvite
<1>2. \A i \in Invites : invites[i].status # "absent" =>
        invites'[i].status # "absent" /\ invites'[i].to = invites[i].to
  <2>1. ASSUME NEW s \in Slots, NEW i \in Invites, CreateInvite(s, i)
        PROVE  \A k \in Invites : invites[k].status # "absent" => invites'[k] = invites[k]
    BY <2>1 DEF CreateInvite, TypesInv, WsTypes
  <2>2. ASSUME NEW s \in Slots, DeleteInvite(s)
        PROVE  \A k \in Invites : invites[k].status # "absent" =>
                 invites'[k].status # "absent" /\ invites'[k].to = invites[k].to
    BY <2>2 DEF DeleteInvite, TypesInv, WsTypes, Invitation
  <2>3. ASSUME NEW i \in Invites, ExpireInvite(i)
        PROVE  \A k \in Invites : invites[k].status # "absent" =>
                 invites'[k].status # "absent" /\ invites'[k].to = invites[k].to
    BY <2>3 DEF ExpireInvite, TypesInv, WsTypes, Invitation
  <2> QED  BY <2>1, <2>2, <2>3
<1> QED  BY <1>1, <1>2, AdmitKeeps

LEMMA StepAdmit ==
  TypesInv /\ TypesInv' /\ AdmitInv /\ [TeamNext]_teamVars => AdmitInv'
<1> SUFFICES ASSUME TypesInv, TypesInv', AdmitInv, [TeamNext]_teamVars
             PROVE  AdmitInv'
  OBVIOUS
<1>1. CASE WsRequest
  <2>1. CASE \E s \in Slots, u, t \in People :
               Invite(s, u, t) \/ ChangeRole(s, u, t) \/ RemoveMember(s, u, t)
    BY <2>1, AdmitKeeps DEF Invite, ChangeRole, RemoveMember, wsVars
  <2>2. CASE \E s \in Slots, i \in Invites : Join(s, i)
    BY <2>2, AdmitKeeps DEF Join, wsVars
  <2>3. CASE \E s \in Slots, u \in People, i \in Invites : CancelInvite(s, u, i)
    BY <2>3, AdmitKeeps DEF CancelInvite, wsVars
  <2> QED
    BY <1>1, <2>1, <2>2, <2>3, CreateWorkspaceAdmit, DeleteWorkspaceAdmit DEF WsRequest
<1>2. CASE WsCommand
  BY <1>2, InvitesAdmit, AcceptInviteAdmit, UpdateMemberRoleAdmit, DeleteMembershipAdmit
  DEF WsCommand
<1>3. CASE VaultRequest \/ \E s \in Slots : VaultCommand(s) \/ Break(s)
  BY <1>3, VaultSlots, AdmitKeeps DEF wsVars
<1>4. CASE UNCHANGED teamVars
  BY <1>4, AdmitKeeps DEF teamVars, wsVars
<1> QED  BY <1>1, <1>2, <1>3, <1>4 DEF TeamNext

LEMMA AdmitAlways == TeamSpec => []AdmitInv
BY InitAdmit, TypesAlways, StepAdmit, PTL DEF TeamSpec

\* However many joins with one invite overlap, with each other, with its
\* cancellation, its expiry, the removal of the member or the deletion of the
\* workspace: it never admits its addressee twice for one departure.
THEOREM InviteCorrect == TeamSpec => []InviteAdmitsOnce
BY AdmitAlways, TypesAlways, AdmitImplied, PTL

----------------------------------------------------------------------------
(* The vault's creator *)

\* Create inserts the membership of the creator, nobody removes it, and only a
\* deletion drops the memberships.
CallOfCreator(c) ==
  /\ c.step = "creator" => vault # "absent" /\ c.who = creator
  /\ c.step = "remove" => vault # "absent" /\ c.who # creator
  /\ c.step \in {"drop", "dropKeys"} => vault = "deleted"

CreatorInv ==
  /\ LiveVaultHasCreator
  /\ vault = "live" => creator \in People
  /\ \A s \in Slots : CallOfCreator(call[s])

OpeningSteps == {"creator", "undo"}

LEMMA InitCreator == TeamInit => CreatorInv
BY DEF TeamInit, WsInit, NoCall, CreatorInv, LiveVaultHasCreator, CallOfCreator

\* One slot moves; the creator keeps his membership, if he has it, or the vault goes;
\* a Create that leaves its first commands has inserted it, or has died.
LEMMA CreatorStep ==
  ASSUME TypesInv, CreatorInv, NEW s \in Slots, NEW c, Remember(s, c), CallOfCreator(c)',
         UNCHANGED creator, vault' = vault \/ vault' = "deleted", torn => torn',
         vault' = "live" /\ vrole[creator] # "none" => vrole'[creator] # "none",
         call[s].step \in OpeningSteps =>
           \/ vault' # "live" \/ torn' \/ vrole'[creator] # "none" \/ c.step \in OpeningSteps
  PROVE  CreatorInv'
<1>1. \A t \in Slots : call'[t] = IF t = s THEN c ELSE call[t]
  BY OtherSlots
<1>2. \A t \in Slots : CallOfCreator(call[t])'
  BY <1>1 DEF CreatorInv, CallOfCreator
<1>3. ASSUME vault' = "live", ~torn', vrole'[creator'] = "none"
      PROVE  Opening'
  <2>1. Opening
    BY <1>3 DEF CreatorInv, LiveVaultHasCreator
  <2>2. PICK t \in Slots : call[t].step \in OpeningSteps
    BY <2>1 DEF Opening, OpeningSteps
  <2>3. CASE t = s
    BY <1>1, <1>3, <2>2, <2>3 DEF Opening, OpeningSteps
  <2>4. CASE t # s
    BY <1>1, <2>2, <2>4 DEF Opening, OpeningSteps
  <2> QED  BY <2>3, <2>4
<1>4. vault' = "live" => creator' \in People
  BY DEF CreatorInv
<1> QED  BY <1>2, <1>3, <1>4 DEF CreatorInv, LiveVaultHasCreator

\* The same where the vault's documents stay, or the memberships only grow.
LEMMA CreatorRests ==
  ASSUME TypesInv, CreatorInv, NEW s \in Slots, NEW c, Remember(s, c),
         c.step \notin {"creator", "remove", "drop", "dropKeys"},
         call[s].step \notin OpeningSteps, UNCHANGED <<vault, creator, torn>>,
         vault = "live" /\ vrole[creator] # "none" => vrole'[creator] # "none"
  PROVE  CreatorInv'
<1>1. CallOfCreator(c)'
  BY DEF CallOfCreator
<1> QED  BY <1>1, CreatorStep

\* Steps of the slot's own request.
LEMMA StepCreator ==
  ASSUME TypesInv, NEW s \in Slots, NEW step, Step(s, step)
  PROVE  \E c : Remember(s, c) /\ c.step = step /\ c.who = call[s].who
<1>1. PICK c : c = [call[s] EXCEPT !.step = step]
  OBVIOUS
<1>2. c.step = step /\ c.who = call[s].who
  BY <1>1 DEF TypesInv, SlotsFit, Fits, Call
<1> QED  BY <1>1, <1>2 DEF Step

LEMMA DoneCreator ==
  ASSUME NEW s \in Slots, Done(s)
  PROVE  \E c : Remember(s, c) /\ c.step = "idle"
BY DEF Done, NoCall

\* A request begins in a slot that rests.
LEMMA Resting == \A s \in Slots : Calls(s) => call[s].step = "idle"
BY DEF Calls, NoCall

LEMMA WsCreator ==
  ASSUME TypesInv, CreatorInv, WsRequest \/ WsCommand, UNCHANGED vaultVars
  PROVE  CreatorInv'
<1>0. UNCHANGED <<vault, creator, torn, vrole>>
  BY DEF vaultVars
<1>1. ASSUME UNCHANGED call PROVE CreatorInv'
  BY <1>0, <1>1 DEF CreatorInv, LiveVaultHasCreator, CallOfCreator, Opening
<1>2. ASSUME NEW s \in Slots, NEW c, Remember(s, c), c.step \in WsSteps \cup {"idle"},
             call[s].step \in WsSteps \cup {"idle"}
      PROVE  CreatorInv'
  BY <1>0, <1>2, CreatorRests DEF WsSteps, OpeningSteps
<1>3. ASSUME NEW s \in Slots, NEW step \in WsSteps, Doing(s, step), Done(s) PROVE CreatorInv'
  BY <1>2, <1>3, DoneCreator DEF Doing
<1>4. ASSUME NEW s \in Slots, NEW u \in People, NEW t \in People,
             Invite(s, u, t) \/ ChangeRole(s, u, t) \/ RemoveMember(s, u, t)
      PROVE  CreatorInv'
  <2>1. PICK role : \/ Remember(s, [NoCall EXCEPT !.step = "invite", !.who = t, !.role = role])
                    \/ Remember(s, [NoCall EXCEPT !.step = "role", !.who = t, !.role = role])
                    \/ Remember(s, [NoCall EXCEPT !.step = "leave", !.who = t])
    BY <1>4 DEF Invite, ChangeRole, RemoveMember
  <2>3. PICK c, d, e : /\ c = [NoCall EXCEPT !.step = "invite", !.who = t, !.role = role]
                       /\ d = [NoCall EXCEPT !.step = "role", !.who = t, !.role = role]
                       /\ e = [NoCall EXCEPT !.step = "leave", !.who = t]
    OBVIOUS
  <2>4. {c.step, d.step, e.step} \subseteq WsSteps
    BY <2>3 DEF NoCall, WsSteps
  <2>5. \E r : Remember(s, r) /\ r.step \in WsSteps
    BY <2>1, <2>3, <2>4
  <2>2. call[s].step = "idle"
    BY <1>4, Resting DEF Invite, ChangeRole, RemoveMember
  <2> QED  BY <1>2, <2>2, <2>5
<1>5. ASSUME NEW s \in Slots, NEW i \in Invites, Join(s, i) PROVE CreatorInv'
  <2>1. PICK c : c = [NoCall EXCEPT !.step = "join", !.who = invites[i].to,
                                    !.role = invites[i].role, !.invite = i]
    OBVIOUS
  <2>2. Remember(s, c) /\ Calls(s)
    BY <1>5, <2>1 DEF Join
  <2>3. c.step \in WsSteps /\ call[s].step = "idle"
    BY <2>1, <2>2, Resting DEF NoCall, WsSteps
  <2> QED  BY <1>2, <2>2, <2>3
<1>6. ASSUME NEW s \in Slots, \/ \E i \in Invites : CreateInvite(s, i)
                              \/ DeleteInvite(s) \/ AcceptInvite(s) \/ UpdateMemberRole(s) \/ DeleteMembership(s)
      PROVE  CreatorInv'
  <2>1. Done(s) /\ \E step \in WsSteps : Doing(s, step)
    BY <1>6 DEF CreateInvite, DeleteInvite, AcceptInvite, UpdateMemberRole, DeleteMembership, WsSteps
  <2> QED  BY <1>3, <2>1
<1>7. ASSUME \/ \E u \in People : CreateWorkspace(u) \/ DeleteWorkspace(u)
             \/ \E i \in Invites : ExpireInvite(i)
      PROVE  CreatorInv'
  BY <1>1, <1>7 DEF CreateWorkspace, DeleteWorkspace, ExpireInvite
<1>8. ASSUME NEW s \in Slots, NEW u \in People, NEW i \in Invites, CancelInvite(s, u, i)
      PROVE  CreatorInv'
  <2>1. PICK c : c = [NoCall EXCEPT !.step = "cancel", !.who = u, !.invite = i]
    OBVIOUS
  <2>2. Remember(s, c) /\ Calls(s)
    BY <1>8, <2>1 DEF CancelInvite
  <2>3. c.step \in WsSteps /\ call[s].step = "idle"
    BY <2>1, <2>2, Resting DEF NoCall, WsSteps
  <2> QED  BY <1>2, <2>2, <2>3
<1> QED  BY <1>4, <1>5, <1>6, <1>7, <1>8 DEF WsRequest, WsCommand

LEMMA CreateVaultCreator ==
  ASSUME TypesInv, CreatorInv, NEW s \in Slots, NEW u \in People, CreateVault(s, u)
  PROVE  CreatorInv'
<1>1. PICK c : Remember(s, c) /\ c.step = "creator" /\ c.who = u
  <2>1. PICK es : Remember(s, [NoCall EXCEPT !.step = "creator", !.who = u, !.envs = es])
    BY DEF CreateVault
  <2>2. PICK c : c = [NoCall EXCEPT !.step = "creator", !.who = u, !.envs = es]
    OBVIOUS
  <2>3. c.step = "creator" /\ c.who = u
    BY <2>2 DEF NoCall
  <2> QED  BY <2>1, <2>2, <2>3
<1>2. vault = "absent" /\ vault' = "live" /\ creator' = u
  BY DEF CreateVault
<1>3. \A t \in Slots : call'[t] = IF t = s THEN c ELSE call[t]
  BY <1>1, OtherSlots
<1>4. \A t \in Slots : CallOfCreator(call[t])'
  BY <1>1, <1>2, <1>3 DEF CreatorInv, CallOfCreator
<1>5. Opening'
  BY <1>1, <1>3 DEF Opening
<1> QED  BY <1>2, <1>4, <1>5 DEF CreatorInv, LiveVaultHasCreator

LEMMA RequestCreator ==
  ASSUME TypesInv, CreatorInv, VaultRequest
  PROVE  CreatorInv'
<1>1. ASSUME NEW s \in Slots, NEW c, Remember(s, c), Calls(s), vault = "live",
             UNCHANGED <<vault, creator, vrole, torn>>,
             c.step \notin {"creator", "drop", "dropKeys"},
             c.step = "remove" => c.who # creator
      PROVE  CreatorInv'
  <2>1. CallOfCreator(c)'
    BY <1>1 DEF CallOfCreator
  <2>2. call[s].step \notin OpeningSteps
    BY <1>1 DEF Calls, NoCall, OpeningSteps
  <2> QED  BY <1>1, <2>1, <2>2, CreatorStep
<1>2. ASSUME NEW s \in Slots, NEW u \in People, DeleteVault(s, u) PROVE CreatorInv'
  <2>2. PICK c : c = [NoCall EXCEPT !.step = "cascade", !.who = u]
    OBVIOUS
  <2>1. Remember(s, c) /\ c.step = "cascade"
    BY <1>2, <2>2 DEF DeleteVault, NoCall
  <2> QED  BY <1>1, <1>2, <2>1 DEF DeleteVault, ManagesVault, Resolves, vaultVars
<1>3. ASSUME NEW s \in Slots, NEW u \in People, NEW e \in Envs, AddEnvironment(s, u, e)
      PROVE  CreatorInv'
  <2>2. PICK c : c = [NoCall EXCEPT !.step = "envAccess", !.who = u, !.envs = {e}]
    OBVIOUS
  <2>1. Remember(s, c) /\ c.step = "envAccess"
    BY <1>3, <2>2 DEF AddEnvironment, NoCall
  <2> QED  BY <1>1, <1>3, <2>1 DEF AddEnvironment, ManagesVault, Resolves
<1>4. ASSUME NEW s \in Slots, NEW u \in People, NEW t \in People, AddVaultMember(s, u, t)
      PROVE  CreatorInv'
  <2>1. PICK r, es : Remember(s, [NoCall EXCEPT !.step = "add", !.who = t, !.role = r,
                                                !.envs = es])
    BY <1>4 DEF AddVaultMember
  <2>3. PICK c : c = [NoCall EXCEPT !.step = "add", !.who = t, !.role = r, !.envs = es]
    OBVIOUS
  <2>2. Remember(s, c) /\ c.step = "add"
    BY <2>1, <2>3 DEF NoCall
  <2> QED  BY <1>1, <1>4, <2>2 DEF AddVaultMember, ManagesVault, Resolves, vaultVars
<1>5. ASSUME NEW s \in Slots, NEW u \in People, NEW t \in People, UpdateVaultMember(s, u, t)
      PROVE  CreatorInv'
  <2>1. PICK r, es : Remember(s, [NoCall EXCEPT !.step = "update", !.who = t, !.role = r,
                                                !.envs = es, !.lost = access[t] \ es])
    BY <1>5 DEF UpdateVaultMember
  <2>3. PICK c : c = [NoCall EXCEPT !.step = "update", !.who = t, !.role = r, !.envs = es,
                                     !.lost = access[t] \ es]
    OBVIOUS
  <2>2. Remember(s, c) /\ c.step = "update"
    BY <2>1, <2>3 DEF NoCall
  <2> QED  BY <1>1, <1>5, <2>2 DEF UpdateVaultMember, ManagesVault, Resolves, vaultVars
<1>6. ASSUME NEW s \in Slots, NEW u \in People, NEW t \in People, RemoveVaultMember(s, u, t)
      PROVE  CreatorInv'
  <2>2. PICK c : c = [NoCall EXCEPT !.step = "remove", !.who = t, !.lost = access[t]]
    OBVIOUS
  <2>1. Remember(s, c) /\ c.step = "remove" /\ c.who = t
    BY <1>6, <2>2 DEF RemoveVaultMember, NoCall
  <2> QED
    BY <1>1, <1>6, <2>1 DEF RemoveVaultMember, MayRemove, ManagesVault, Resolves, vaultVars
<1>7. ASSUME NEW s \in Slots, NEW u \in People, NEW t \in People, NEW e \in Envs,
             ShareKeys(s, u, t, e)
      PROVE  CreatorInv'
  <2>2. PICK c : c = [NoCall EXCEPT !.step = "share", !.who = t, !.envs = {e}]
    OBVIOUS
  <2>1. Remember(s, c) /\ c.step = "share"
    BY <1>7, <2>2 DEF ShareKeys, NoCall
  <2> QED  BY <1>1, <1>7, <2>1 DEF ShareKeys, ManagesVault, Resolves, vaultVars
<1> QED
  BY <1>2, <1>3, <1>4, <1>5, <1>6, <1>7, CreateVaultCreator DEF VaultRequest

LEMMA CommandCreator ==
  ASSUME TypesInv, CreatorInv, NEW s \in Slots, VaultCommand(s)
  PROVE  CreatorInv'
<1>0. /\ vrole \in [People -> VRoles] /\ CallOfCreator(call[s]) /\ call[s] \in Call
      /\ vault = "live" => creator \in People
  BY DEF TypesInv, VaultFits, CreatorInv, SlotsFit, Fits
<1>1. CASE CreateMember(s)
  <2>0. call[s].step = "creator" /\ UNCHANGED <<vault, creator, torn>>
    BY <1>1 DEF CreateMember, Doing
  <2>1. PICK w : w = call[s].who
    OBVIOUS
  <2>2. w = creator /\ w \in People
    BY <1>0, <2>0, <2>1 DEF CallOfCreator, TypesInv, SlotsFit, Fits
  <2>3. CASE vrole[w] = "none"
    <3>1. PICK c : Remember(s, c) /\ c.step = "createKeys"
      BY <1>1, <2>1, <2>3, StepCreator DEF CreateMember
    <3>2. vrole' = [vrole EXCEPT ![w] = "admin"]
      BY <1>1, <2>1, <2>3 DEF CreateMember
    <3>3. vrole'[creator] # "none"
      BY <1>0, <2>2, <3>2
    <3>4. CallOfCreator(c)'
      BY <3>1 DEF CallOfCreator
    <3> QED  BY <2>0, <3>1, <3>3, <3>4, CreatorStep
  <2>4. CASE vrole[w] # "none"
    <3>1. PICK c : Remember(s, c) /\ c.step = "undo"
      BY <1>1, <2>1, <2>4, StepCreator DEF CreateMember
    <3>2. UNCHANGED vrole
      BY <1>1, <2>1, <2>4 DEF CreateMember
    <3>3. CallOfCreator(c)'
      BY <3>1 DEF CallOfCreator
    <3> QED  BY <2>0, <3>1, <3>2, <3>3, CreatorStep DEF OpeningSteps
  <2> QED  BY <2>3, <2>4
<1>2. CASE InsertKeys(s)
  <2>1. PICK c : Remember(s, c) /\ c.step = "idle"
    BY <1>2, DoneCreator DEF InsertKeys
  <2> QED  BY <1>2, <2>1, CreatorRests DEF InsertKeys, OpeningSteps
<1>3. CASE DeleteVaultCascade(s)
  <2>1. PICK c : Remember(s, c) /\ c.step = "drop"
    BY <1>3, StepCreator DEF DeleteVaultCascade
  <2>2. vault' = "deleted" /\ UNCHANGED <<creator, torn, vrole>>
    BY <1>3 DEF DeleteVaultCascade
  <2>3. CallOfCreator(c)'
    BY <2>1, <2>2 DEF CallOfCreator
  <2> QED  BY <2>1, <2>2, <2>3, CreatorStep
<1>4. CASE DropVaultDocuments(s)
  <2>1. vault = "deleted" /\ UNCHANGED <<vault, creator, torn>>
    BY <1>0, <1>4 DEF DropVaultDocuments, Doing, CallOfCreator
  <2>2. PICK c : Remember(s, c) /\ c.step \in {"dropKeys", "idle"}
    BY <1>4, StepCreator, DoneCreator DEF DropVaultDocuments
  <2>3. CallOfCreator(c)'
    BY <2>1, <2>2 DEF CallOfCreator
  <2> QED  BY <2>1, <2>2, <2>3, CreatorStep
<1>5. CASE AddEnvAccess(s)
  <2>1. PICK c : Remember(s, c) /\ c.step = "envKeys"
    BY <1>5, StepCreator DEF AddEnvAccess
  <2> QED  BY <1>5, <2>1, CreatorRests DEF AddEnvAccess, Doing, OpeningSteps
<1>6. CASE InsertVaultMember(s)
  <2>1. PICK c : Remember(s, c) /\ c.step = "idle"
    BY <1>6, DoneCreator DEF InsertVaultMember
  <2>2. PICK w, ro : w = call[s].who /\ ro = call[s].role
    OBVIOUS
  <2>3. ro # "none"
    BY <1>0, <2>2 DEF Call, GivenRoles
  <2>4. vrole' = vrole \/ vrole' = [vrole EXCEPT ![w] = ro]
    BY <1>6, <2>2 DEF InsertVaultMember
  <2>5. vault = "live" /\ vrole[creator] # "none" => vrole'[creator] # "none"
    BY <1>0, <2>3, <2>4
  <2> QED  BY <1>6, <2>1, <2>5, CreatorRests DEF InsertVaultMember, Doing, OpeningSteps
<1>7. CASE WriteVaultMember(s)
  <2>1. PICK c : Remember(s, c) /\ c.step \in {"idle", "ungrant"}
    BY <1>7, StepCreator, DoneCreator DEF WriteVaultMember
  <2>2. PICK w, ro : w = call[s].who /\ ro = call[s].role
    OBVIOUS
  <2>3. ro # "none"
    BY <1>0, <2>2 DEF Call, GivenRoles
  <2>4. vrole' = vrole \/ vrole' = [vrole EXCEPT ![w] = ro]
    BY <1>7, <2>2 DEF WriteVaultMember
  <2>5. vault = "live" /\ vrole[creator] # "none" => vrole'[creator] # "none"
    BY <1>0, <2>3, <2>4
  <2> QED  BY <1>7, <2>1, <2>5, CreatorRests DEF WriteVaultMember, Doing, OpeningSteps
<1>8. CASE DeleteVaultMember(s)
  <2>1. PICK c : Remember(s, c) /\ c.step = "ungrantAll"
    BY <1>8, StepCreator DEF DeleteVaultMember
  <2>2. PICK w : w = call[s].who
    OBVIOUS
  <2>3. w # creator /\ vrole' = [vrole EXCEPT ![w] = "none"]
    BY <1>0, <1>8, <2>2 DEF DeleteVaultMember, Doing, CallOfCreator
  <2>4. vault = "live" /\ vrole[creator] # "none" => vrole'[creator] # "none"
    BY <1>0, <2>3
  <2> QED  BY <1>8, <2>1, <2>4, CreatorRests DEF DeleteVaultMember, Doing, OpeningSteps
<1>9. CASE Ungrant(s)
  <2>1. PICK c : Remember(s, c) /\ c.step = "flag"
    BY <1>9, StepCreator DEF Ungrant
  <2> QED  BY <1>9, <2>1, CreatorRests DEF Ungrant, Doing, OpeningSteps
<1>10. CASE FlagRekey(s)
  <2>1. PICK c : Remember(s, c) /\ c.step = "idle"
    BY <1>10, DoneCreator DEF FlagRekey
  <2> QED  BY <1>10, <2>1, CreatorRests DEF FlagRekey, Doing, OpeningSteps
<1> QED
  BY <1>1, <1>2, <1>3, <1>4, <1>5, <1>6, <1>7, <1>8, <1>9, <1>10 DEF VaultCommand

LEMMA BreakCreator ==
  ASSUME TypesInv, CreatorInv, NEW s \in Slots, Break(s)
  PROVE  CreatorInv'
<1>0. UNCHANGED <<vault, creator, vrole>>
  BY DEF Break
<1>1. CASE call[s].step \in {"creator", "createKeys"} /\ Step(s, "undo") /\ UNCHANGED torn
  <2>1. PICK c : Remember(s, c) /\ c.step = "undo"
    BY <1>1, StepCreator
  <2>2. CallOfCreator(c)'
    BY <2>1 DEF CallOfCreator
  <2> QED  BY <1>0, <1>1, <2>1, <2>2, CreatorStep DEF OpeningSteps
<1>2. CASE \/ Doing(s, "envAccess") /\ Step(s, "envKeys") /\ UNCHANGED torn
           \/ call[s].step \in {"ungrant", "ungrantAll"} /\ Step(s, "flag") /\ UNCHANGED torn
  <2>1. PICK c : Remember(s, c) /\ c.step \in {"envKeys", "flag"}
    BY <1>2, StepCreator
  <2> QED  BY <1>0, <1>2, <2>1, CreatorRests DEF Doing, OpeningSteps
<1>3. CASE Remember(s, NoCall) /\ torn' = (torn \/ call[s].step \in {"creator", "undo"})
  <2>1. PICK c : Remember(s, c) /\ c.step = "idle"
    BY <1>3 DEF NoCall
  <2>2. CallOfCreator(c)'
    BY <2>1 DEF CallOfCreator
  <2>3. (torn => torn') /\ (call[s].step \in OpeningSteps => torn')
    BY <1>3, Zenon DEF OpeningSteps
  <2> QED  BY <1>0, <2>1, <2>2, <2>3, CreatorStep
<1> QED  BY <1>1, <1>2, <1>3 DEF Break

LEMMA NextCreator == TypesInv /\ CreatorInv /\ [TeamNext]_teamVars => CreatorInv'
<1> SUFFICES ASSUME TypesInv, CreatorInv, [TeamNext]_teamVars PROVE CreatorInv'  OBVIOUS
<1>1. CASE UNCHANGED teamVars
  <2>1. UNCHANGED <<vault, creator, vrole, torn, call>>
    BY <1>1 DEF teamVars, vaultVars
  <2> QED
    BY <2>1 DEF CreatorInv, LiveVaultHasCreator, CallOfCreator, Opening
<1> QED
  BY <1>1, WsCreator, RequestCreator, CommandCreator, BreakCreator DEF TeamNext

\* As long as a vault is live its creator is a member of it, whatever additions, changes,
\* removals, deletions and failures overlap - but for the moment between the two commands
\* of Create, and for a Create that died there (Create and RemoveMember of
\* vault/service.go, DeleteVaultCascade of vault/store.go).
THEOREM CreatorCorrect == TeamSpec => []LiveVaultHasCreator
<1>1. CreatorInv => LiveVaultHasCreator
  BY DEF CreatorInv
<1> QED  BY <1>1, InitCreator, TypesAlways, NextCreator, PTL DEF TeamSpec
=============================================================================
