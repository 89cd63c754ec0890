---------------------------- MODULE VaultProofs ----------------------------
(***************************************************************************)
(* Proofs about one environment, for any users, machines, change requests, *)
(* number of concurrent requests and bounds.                               *)
(***************************************************************************)
EXTENDS VaultProperties, TLAPS

USE StoreAssumption, ServiceAssumption DEF StoreAssumption, ServiceAssumption

----------------------------------------------------------------------------
(* Type correctness *)

LEMMA IdleType == Idle \in Request
BY DEF Idle, Request, Steps, Roles, Permissions

LEMMA ContinueType ==
  ASSUME TypeOK, NEW r \in Requests, NEW q \in Request, Continue(r, q)
  PROVE  req' \in [Requests -> Request]
BY DEF TypeOK, Continue

LEMMA GoToType ==
  ASSUME TypeOK, NEW r \in Requests, NEW s \in Steps, GoTo(r, s)
  PROVE  req' \in [Requests -> Request]
<1>1. req[r] \in Request
  BY DEF TypeOK
<1>2. [req[r] EXCEPT !.step = s] \in Request
  BY <1>1 DEF Request
<1> QED
  BY <1>2, ContinueType DEF GoTo

LEMMA ReturnType ==
  ASSUME TypeOK, NEW r \in Requests, Return(r)
  PROVE  req' \in [Requests -> Request]
BY IdleType, ContinueType DEF Return

LEMMA SubmissionType ==
  ASSUME TypeOK, NEW u \in Users, NEW s \in Submission(u)
  PROVE  s \in Request
<1>1. PICK g \in grants : s = [Idle EXCEPT !.by = u, !.base = headRevision,
                                          !.kv = keyVersion, !.dek = g.dek]
  BY DEF Submission
<1>2. g.dek \in Nat /\ headRevision \in Nat /\ keyVersion \in Nat
  BY DEF TypeOK, StoreTypeOK, Grant
<1> QED
  BY <1>1, <1>2 DEF Idle, Request, Steps, Roles, Permissions

\* A handler that touches only its own slot keeps every slot well formed.
LEMMA OwnSlot ==
  ASSUME TypeInv, NEW r \in Requests, NEW q \in Request,
         Continue(r, q), Complete(q), UNCHANGED changes
  PROVE  WellFormed'
<1>1. req' \in [Requests -> Request]
  BY ContinueType DEF TypeInv
<1>2. \A p \in Requests : req'[p] = req[p] \/ req'[p] = q
  BY DEF Continue, WellFormed, TypeInv
<1> QED
  BY <1>1, <1>2 DEF Complete, TypeInv, WellFormed

LEMMA OwnSlotReturn ==
  ASSUME TypeInv, NEW r \in Requests, Return(r), UNCHANGED changes
  PROVE  WellFormed'
<1>1. Complete(Idle)
  BY DEF Complete, Idle
<1> QED
  BY <1>1, IdleType, OwnSlot DEF Return

LEMMA OwnSlotGoTo ==
  ASSUME TypeInv, NEW r \in Requests, NEW s \in Steps, GoTo(r, s), UNCHANGED changes,
         Complete([req[r] EXCEPT !.step = s])
  PROVE  WellFormed'
<1>1. req[r] \in Request
  BY DEF TypeOK, TypeInv
<1>2. [req[r] EXCEPT !.step = s] \in Request
  BY <1>1 DEF Request
<1> QED
  BY <1>2, OwnSlot DEF GoTo

LEMMA RevisionType ==
  ASSUME TypeInv, NEW r \in Requests, req[r].step # "idle"
  PROVE  RevisionOf(req[r]) \in Revision
<1>1. req[r] \in Request /\ Complete(req[r])
  BY DEF TypeInv, WellFormed
<1>2. req[r].change # None => changes[req[r].change].author \in Users
  BY <1>1 DEF Complete, TypeInv, WellFormed, Request
<1>3. /\ req[r].by \in Users /\ req[r].base \in Nat /\ req[r].base + 1 \in Nat
      /\ req[r].kv \in Nat /\ req[r].dek \in Nat /\ req[r].change \in Changes \cup {None}
  BY <1>1 DEF Complete, Request
<1>4. (IF req[r].change = None THEN req[r].by ELSE changes[req[r].change].author) \in Users
  BY <1>2, <1>3
<1> QED
  BY <1>3, <1>4 DEF RevisionOf, Revision

\* Reads: nothing stored changes.
LEMMA StoreUntouched ==
  ASSUME TypeInv, UNCHANGED storeVars, minted' \in Nat, WellFormed'
  PROVE  TypeInv'
BY DEF TypeInv, WellFormed, TypeOK, StoreTypeOK, storeVars

LEMMA TypeInit == Init => TypeInv
<1> SUFFICES ASSUME Init PROVE TypeInv
  OBVIOUS
<1>1. NoChange \in Change
  BY DEF NoChange, Change, Statuses
<1>2. [kv |-> 1, to |-> Creator, dek |-> 0, via |-> "share"] \in Grant
  BY DEF Grant, Recipients
<1>3. StoreTypeOK
  BY <1>1, <1>2 DEF Init, StoreInit, StoreTypeOK, Roles, Permissions
<1>4. Complete(Idle)
  BY DEF Complete, Idle
<1>5. WellFormed
  BY <1>4, IdleType DEF Init, StoreInit, WellFormed, NoChange
<1> QED
  BY <1>3, <1>5 DEF TypeInv, TypeOK, WellFormed, Init

LEMMA TypeWrites ==
  ASSUME TypeInv, NEW r \in Requests, NEW u \in Users, Writes(r, u)
  PROVE  TypeInv'
<1>1. CASE PushRevision(r, u)
  <2>1. PICK s \in Submission(u) : Continue(r, [s EXCEPT !.step = "write"])
    BY <1>1 DEF PushRevision
  <2>2. s \in Request /\ s.by = u /\ s.change = None
    BY <2>1, SubmissionType DEF Submission, Idle, TypeInv
  <2>3. [s EXCEPT !.step = "write"] \in Request /\ Complete([s EXCEPT !.step = "write"])
    BY <2>2 DEF Request, Steps, Complete
  <2> QED
    BY <1>1, <2>1, <2>3, OwnSlot, StoreUntouched DEF PushRevision, TypeInv, TypeOK, storeVars
<1>2. CASE CreateChangeRequest(r, u)
  <2>1. PICK s \in Submission(u) : Continue(r, [s EXCEPT !.step = "propose"])
    BY <1>2 DEF CreateChangeRequest
  <2>2. s \in Request /\ s.by = u /\ s.change = None
    BY <2>1, SubmissionType DEF Submission, Idle, TypeInv
  <2>3. [s EXCEPT !.step = "propose"] \in Request /\ Complete([s EXCEPT !.step = "propose"])
    BY <2>2 DEF Request, Steps, Complete
  <2> QED
    BY <1>2, <2>1, <2>3, OwnSlot, StoreUntouched DEF CreateChangeRequest, TypeInv, TypeOK, storeVars
<1>3. CASE \E c \in Changes : ApproveChangeRequest(r, u, c)
  <2>1. PICK c \in Changes : ApproveChangeRequest(r, u, c)
    BY <1>3
  <2> DEFINE q == [Idle EXCEPT
       !.step = IF changes[c].base = headRevision THEN "approve" ELSE "stalePending",
       !.by = u, !.change = c,
       !.base = changes[c].base, !.kv = changes[c].kv, !.dek = changes[c].dek]
  <2>2. changes[c] \in Change /\ changes[c].status = "pending"
    BY <2>1 DEF ApproveChangeRequest, MayApprove, TypeInv, TypeOK, StoreTypeOK
  <2>3. q \in Request /\ Complete(q)
    BY <2>2, IdleType DEF Request, Steps, Complete, Idle, Change
  <2>4. Continue(r, q) /\ UNCHANGED <<storeVars, minted>>
    BY <2>1 DEF ApproveChangeRequest
  <2> QED
    BY <2>3, <2>4, OwnSlot, StoreUntouched DEF TypeInv, TypeOK, storeVars
<1>4. CASE Rekey(r, u)
  <2> DEFINE q == [Idle EXCEPT !.step = "recipients", !.by = u,
       !.base = headRevision, !.kv = keyVersion + 1, !.dek = minted + 1]
  <2>1. headRevision \in Nat /\ keyVersion + 1 \in Nat /\ minted + 1 \in Nat
    BY DEF TypeInv, TypeOK, StoreTypeOK
  <2>2. q \in Request /\ Complete(q)
    BY <2>1 DEF Request, Steps, Roles, Permissions, Complete, Idle
  <2>3. Continue(r, q) /\ UNCHANGED storeVars /\ minted' = minted + 1
    BY <1>4 DEF Rekey
  <2> QED
    BY <2>1, <2>2, <2>3, OwnSlot, StoreUntouched DEF storeVars
<1> QED
  BY <1>1, <1>2, <1>3, <1>4 DEF Writes

LEMMA TypeSharing ==
  ASSUME TypeInv, NEW r \in Requests, NEW u \in Users, Sharing(r, u)
  PROVE  TypeInv'
<1> USE DEF Recipients
<1>0. /\ keyVersion \in Nat /\ grants \in SUBSET Grant
      /\ role \in [Users -> Roles] /\ access \in [Users -> Permissions]
      /\ machines \in [Machines -> {"absent", "active", "expired", "revoked"}]
  BY DEF TypeInv, TypeOK, StoreTypeOK
<1>1. ASSUME NEW x \in Recipients, CreateGrants(r, u, x) PROVE TypeInv'
  <2>1. PICK g \in grants : Continue(r, [Idle EXCEPT !.step = "share", !.by = u,
                                            !.kv = g.kv, !.dek = g.dek, !.to = {x}])
    BY <1>1 DEF CreateGrants
  <2> DEFINE q == [Idle EXCEPT !.step = "share", !.by = u, !.kv = g.kv,
                               !.dek = g.dek, !.to = {x}]
  <2>2. q \in Request /\ Complete(q)
    BY <1>0 DEF Grant, Request, Steps, Roles, Permissions, Complete, Idle
  <2> QED
    BY <1>1, <2>1, <2>2, OwnSlot, StoreUntouched DEF CreateGrants, TypeInv, TypeOK, storeVars
<1>2. ASSUME NEW t \in Users, UpdateMember(r, u, t) PROVE TypeInv'
  <2>1. PICK p \in MemberPatches, keepRole \in BOOLEAN, keepAccess \in BOOLEAN :
          LET ac == IF keepAccess THEN access[t] ELSE p[2]
          IN  Continue(r, [Idle EXCEPT !.step = "update", !.by = u, !.who = t,
                !.role = IF keepRole THEN role[t] ELSE p[1],
                !.access = ac, !.lost = access[t] # "none" /\ ac = "none"])
    BY <1>2 DEF UpdateMember
  <2> DEFINE ro == IF keepRole THEN role[t] ELSE p[1]
             ac == IF keepAccess THEN access[t] ELSE p[2]
             lost == access[t] # "none" /\ ac = "none"
             q == [Idle EXCEPT !.step = "update", !.by = u, !.who = t,
                               !.role = ro, !.access = ac, !.lost = lost]
  <2>2. ro \in Roles /\ ac \in Permissions /\ lost \in BOOLEAN
    BY <1>0 DEF Roles
  <2>3. q \in Request /\ Complete(q)
    <3> HIDE DEF ro, ac, lost
    <3> QED
      BY <2>2 DEF Request, Steps, Complete, Idle
  <2>4. Continue(r, q)
    BY <2>1
  <2> QED
    BY <1>2, <2>3, <2>4, OwnSlot, StoreUntouched DEF UpdateMember, TypeInv, TypeOK, storeVars
<1>3. ASSUME NEW t \in Users, RemoveMember(r, u, t) PROVE TypeInv'
  <2> DEFINE lost == access[t] # "none"
             q == [Idle EXCEPT !.step = "remove", !.by = u, !.who = t, !.lost = lost]
  <2>1. lost \in BOOLEAN
    OBVIOUS
  <2>2. q \in Request /\ Complete(q)
    <3> HIDE DEF lost
    <3> QED
      BY <2>1 DEF Request, Steps, Roles, Permissions, Complete, Idle
  <2>3. Continue(r, q)
    BY <1>3 DEF RemoveMember
  <2> QED
    BY <1>3, <2>2, <2>3, OwnSlot, StoreUntouched DEF RemoveMember, TypeInv, TypeOK, storeVars
<1>4. ASSUME NEW m \in Machines, CreateMachine(r, u, m) PROVE TypeInv'
  <2>1. PICK s \in Submission(u) :
          Continue(r, [s EXCEPT !.step = "enroll", !.who = m, !.to = {m}])
    BY <1>4 DEF CreateMachine
  <2>2. s \in Request /\ s.by = u /\ s.change = None
    BY <2>1, SubmissionType DEF Submission, Idle, TypeInv
  <2> DEFINE q == [s EXCEPT !.step = "enroll", !.who = m, !.to = {m}]
  <2>3. q \in Request /\ Complete(q)
    BY <2>2 DEF Request, Steps, Complete
  <2> QED
    BY <1>4, <2>1, <2>3, OwnSlot, StoreUntouched DEF CreateMachine, TypeInv, TypeOK, storeVars
<1>5. ASSUME NEW m \in Machines, RevokeMachine(r, u, m) PROVE TypeInv'
  <2> DEFINE q == [Idle EXCEPT !.step = "ungrant", !.by = u, !.who = m]
  <2>1. q \in Request /\ Complete(q)
    BY DEF Request, Steps, Roles, Permissions, Complete, Idle
  <2>2. Continue(r, q) /\ UNCHANGED changes
    BY <1>5 DEF RevokeMachine
  <2>3. WellFormed'
    BY <2>1, <2>2, OwnSlot
  <2>4. machines' \in [Machines -> {"absent", "active", "expired", "revoked"}]
    BY <1>0, <1>5 DEF RevokeMachine, RevokeMachines
  <2> QED
    BY <1>5, <2>3, <2>4 DEF RevokeMachine, TypeInv, WellFormed, TypeOK, StoreTypeOK
<1>6. ASSUME ResetKeys(r, u) PROVE TypeInv'
  <2> DEFINE q == [Idle EXCEPT !.step = "deleteBundle", !.by = u, !.who = u]
  <2>1. q \in Request /\ Complete(q)
    BY DEF Request, Steps, Roles, Permissions, Complete, Idle
  <2>2. Continue(r, q) /\ UNCHANGED changes
    BY <1>6 DEF ResetKeys
  <2>3. WellFormed'
    BY <2>1, <2>2, OwnSlot
  <2> QED
    BY <1>6, <2>3 DEF ResetKeys, DeleteRecipientGrants, TypeInv, WellFormed, TypeOK, StoreTypeOK
<1> QED
  BY <1>1, <1>2, <1>3, <1>4, <1>5, <1>6 DEF Sharing

\* A step that decides on change requests but neither files nor signs one.
OnlyDecides ==
  \A d \in Changes : /\ changes'[d].author = changes[d].author
                     /\ changes[d].status # "absent" <=> changes'[d].status # "absent"

LEMMA TransitionType ==
  ASSUME TypeInv, NEW c \in Changes, NEW from \in Statuses \ {"absent"},
         NEW to \in Statuses \ {"absent"}, NEW u \in Users,
         TransitionChangeRequest(c, from, to, u)
  PROVE  /\ changes' \in [Changes -> Change]
         /\ OnlyDecides
<1>1. changes \in [Changes -> Change] /\ changes[c] \in Change
  BY DEF TypeInv, TypeOK, StoreTypeOK
<1>2. changes' = [changes EXCEPT ![c] = [changes[c] EXCEPT !.status = to, !.reviewer = u]]
  BY <1>1 DEF TransitionChangeRequest, Change
<1>3. [changes[c] EXCEPT !.status = to, !.reviewer = u] \in Change
  BY <1>1 DEF Change
<1> QED
  BY <1>1, <1>2, <1>3 DEF Change, TransitionChangeRequest, OnlyDecides

\* A handler that moves on after a decision.
LEMMA DecidingSlot ==
  ASSUME TypeInv, NEW r \in Requests, NEW q \in Request, Continue(r, q), Complete(q),
         OnlyDecides
  PROVE  WellFormed'
<1>1. req' \in [Requests -> Request]
  BY ContinueType DEF TypeInv
<1>2. \A p \in Requests : req'[p] = req[p] \/ req'[p] = q
  BY DEF Continue, WellFormed, TypeInv
<1>3. \A p \in Requests : req'[p] \in Request
  BY <1>1
<1>4. ASSUME NEW p \in Requests PROVE Complete(req[p])'
  <2>1. Complete(req'[p])
    BY <1>2 DEF TypeInv, WellFormed
  <2> QED
    BY <2>1, <1>3 DEF Complete, Request, OnlyDecides
<1> QED
  BY <1>1, <1>4 DEF TypeInv, WellFormed, OnlyDecides

LEMMA TypeImmediate ==
  ASSUME TypeInv, NEW u \in Users, Immediate(u)
  PROVE  TypeInv'
<1>1. ASSUME NEW c \in Changes, RejectChangeRequest(u, c) PROVE TypeInv'
  <2>1. TransitionChangeRequest(c, "pending", "rejected", u) /\ UNCHANGED req
    BY <1>1 DEF RejectChangeRequest
  <2>2. /\ changes' \in [Changes -> Change]
        /\ OnlyDecides
    BY <2>1, TransitionType DEF Statuses
  <2>3. WellFormed'
    BY <2>1, <2>2 DEF WellFormed, TypeInv, Complete, Request, OnlyDecides
  <2> QED
    BY <1>1, <2>2, <2>3 DEF RejectChangeRequest, TypeInv, WellFormed, TypeOK, StoreTypeOK
<1>2. ASSUME NEW t \in Users, AddMember(u, t) PROVE TypeInv'
  <2>1. PICK p \in MemberPatches : role' = [role EXCEPT ![t] = p[1]]
                                 /\ access' = [access EXCEPT ![t] = p[2]]
    BY <1>2 DEF AddMember
  <2>2. p[1] \in Roles /\ p[2] \in Permissions
    BY DEF Roles
  <2>3. role' \in [Users -> Roles] /\ access' \in [Users -> Permissions]
    BY <2>1, <2>2 DEF TypeInv, TypeOK, StoreTypeOK
  <2> QED
    BY <1>2, <2>3 DEF AddMember, TypeInv, WellFormed, Complete, TypeOK, StoreTypeOK
<1>3. ASSUME PatchEnvironment(u) PROVE TypeInv'
  <2>1. (~protected) \in BOOLEAN
    OBVIOUS
  <2> QED
    BY <1>3, <2>1 DEF PatchEnvironment, TypeInv, WellFormed, Complete, TypeOK, StoreTypeOK
<1>4. ASSUME PutKeys(u) PROVE TypeInv'
  BY <1>4 DEF PutKeys, TypeInv, WellFormed, Complete, TypeOK, StoreTypeOK
<1>5. ASSUME NEW m \in Machines, RegisterMachine(u, m) PROVE TypeInv'
  BY <1>5 DEF RegisterMachine, TypeInv, WellFormed, Complete, TypeOK, StoreTypeOK
<1> QED
  BY <1>1, <1>2, <1>3, <1>4, <1>5 DEF Immediate

LEMMA TypeReviews ==
  ASSUME TypeInv, NEW r \in Requests,
         \/ \E c \in Changes : InsertChangeRequest(r, c)
         \/ ApproveTransition(r) \/ MarkStale(r)
  PROVE  TypeInv'
<1>0. /\ req[r] \in Request /\ Complete(req[r]) /\ changes \in [Changes -> Change]
      /\ Complete(Idle)
  BY DEF TypeInv, WellFormed, TypeOK, StoreTypeOK, Complete, Idle
<1>1. ASSUME NEW c \in Changes, InsertChangeRequest(r, c) PROVE TypeInv'
  <2>1. NewChange(req[r]) \in Change
    BY <1>0, <1>1 DEF InsertChangeRequest, At, Complete, Request, NewChange, Change, Statuses
  <2>2. changes' = [changes EXCEPT ![c] = NewChange(req[r])]
    BY <1>1 DEF InsertChangeRequest
  <2>3. changes' \in [Changes -> Change]
    BY <1>0, <2>1, <2>2
  <2>4. \A d \in Changes : changes[d].status # "absent" => changes'[d].status # "absent"
    BY <1>0, <2>2 DEF NewChange
  <2>5. req' \in [Requests -> Request]
    BY <1>1, ReturnType DEF InsertChangeRequest, TypeInv
  <2>6. ASSUME NEW p \in Requests PROVE Complete(req[p])'
    <3>1. req'[p] = req[p] \/ req'[p] = Idle
      BY <1>1 DEF InsertChangeRequest, Return, Continue, TypeInv, WellFormed
    <3>2. Complete(req'[p]) /\ req'[p] \in Request
      BY <1>0, <2>5, <3>1 DEF TypeInv, WellFormed
    <3> QED
      BY <2>4, <3>2 DEF Complete, Request
  <2>7. NewChange(req[r]).author \in Users
    BY <1>0, <1>1 DEF InsertChangeRequest, At, Complete, NewChange
  <2>8. \A d \in Changes : changes'[d].status # "absent" => changes'[d].author \in Users
    BY <1>0, <2>2, <2>7 DEF TypeInv, WellFormed
  <2> QED
    BY <1>1, <2>3, <2>5, <2>6, <2>8
    DEF InsertChangeRequest, TypeInv, WellFormed, TypeOK, StoreTypeOK
<1>2. CASE ApproveTransition(r)
  <2>1. CASE TransitionChangeRequest(req[r].change, "pending", "approved", req[r].by)
             /\ GoTo(r, "write")
    <3> DEFINE q == [req[r] EXCEPT !.step = "write"]
    <3>1. req[r].change \in Changes /\ req[r].by \in Users
      BY <1>0, <1>2 DEF ApproveTransition, At, Complete
    <3>2. /\ changes' \in [Changes -> Change]
          /\ OnlyDecides
      BY <2>1, <3>1, TransitionType DEF Statuses
    <3>3. q \in Request /\ Complete(q)
      BY <1>0, <3>1 DEF Request, Steps, Complete
    <3>4. WellFormed'
      BY <2>1, <3>2, <3>3, DecidingSlot DEF GoTo
    <3> QED
      BY <1>2, <3>2, <3>4 DEF ApproveTransition, TypeInv, WellFormed, TypeOK, StoreTypeOK
  <2>2. CASE Return(r) /\ UNCHANGED changes
    <3>1. WellFormed'
      BY <2>2, OwnSlotReturn
    <3> QED
      BY <1>2, <2>2, <3>1 DEF ApproveTransition, TypeInv, WellFormed, TypeOK, StoreTypeOK
  <2> QED
    BY <1>2, <2>1, <2>2 DEF ApproveTransition
<1>3. CASE MarkStale(r)
  <2>1. req[r].change \in Changes /\ req[r].by \in Users
    BY <1>0, <1>3 DEF MarkStale, At, Complete
  <2>2. PICK from \in {"pending", "approved"} :
          \/ TransitionChangeRequest(req[r].change, from, "stale", req[r].by)
          \/ UNCHANGED changes
    BY <1>3 DEF MarkStale
  <2>3. /\ changes' \in [Changes -> Change]
        /\ OnlyDecides
    <3>1. CASE TransitionChangeRequest(req[r].change, from, "stale", req[r].by)
      <4>1. from \in Statuses \ {"absent"} /\ "stale" \in Statuses \ {"absent"}
        BY DEF Statuses
      <4> QED
        BY <2>1, <3>1, <4>1, TransitionType
    <3>2. CASE UNCHANGED changes
      BY <1>0, <3>2 DEF OnlyDecides
    <3> QED
      BY <2>2, <3>1, <3>2
  <2>4. WellFormed'
    BY <1>0, <1>3, <2>3, IdleType, DecidingSlot DEF MarkStale, Return
  <2> QED
    BY <1>3, <2>3, <2>4 DEF MarkStale, TypeInv, WellFormed, TypeOK, StoreTypeOK
<1> QED
  BY <1>1, <1>2, <1>3

LEMMA TypeHistory ==
  ASSUME TypeInv, NEW r \in Requests,
         \/ WriteRevision(r) \/ WriteConflict(r) \/ WriteHead(r)
         \/ RekeyRevision(r) \/ RekeyCommit(r)
  PROVE  TypeInv'
<1>0. /\ req[r] \in Request /\ Complete(req[r])
      /\ keyVersion \in Nat /\ headRevision \in Nat /\ revisions \in SUBSET Revision
  BY DEF TypeInv, WellFormed, TypeOK, StoreTypeOK
<1>1. \A n \in Nat : BumpHead(n) => headRevision' \in Nat
  BY <1>0 DEF BumpHead, Raised
<1>2. ASSUME NEW s \in Steps \ {"idle", "update", "remove", "deleteBundle", "enroll",
                               "enrollGrant", "approve", "stalePending", "staleApproved"},
             req[r].step # "idle", GoTo(r, s), UNCHANGED changes
      PROVE  WellFormed'
  <2>1. Complete([req[r] EXCEPT !.step = s])
    BY <1>0, <1>2 DEF Complete, Request
  <2> QED
    BY <1>2, <2>1, OwnSlotGoTo
<1>3. ASSUME req[r].step # "idle", InsertRevision(RevisionOf(req[r]))
      PROVE  revisions' \in SUBSET Revision
  BY <1>0, <1>3, RevisionType DEF InsertRevision
<1>4. req[r].base \in Nat /\ req[r].base + 1 \in Nat /\ RekeyHead(req[r]) \in Nat
      /\ req[r].kv \in Nat
  BY <1>0 DEF Request, RekeyHead
<1>5. CASE WriteRevision(r)
  <2>1. req[r].step # "idle"
    BY <1>5 DEF WriteRevision, At
  <2>2. revisions' \in SUBSET Revision /\ headRevision' \in Nat
    BY <1>0, <1>1, <1>3, <1>4, <1>5, <2>1 DEF WriteRevision
  <2>3. WellFormed'
    BY <1>2, <1>5, <2>1, OwnSlotReturn DEF WriteRevision, Steps
  <2> QED
    BY <1>5, <2>2, <2>3 DEF WriteRevision, TypeInv, WellFormed, TypeOK, StoreTypeOK
<1>6. CASE WriteConflict(r)
  <2>1. CASE req[r].change = None
    BY <1>6, <2>1, OwnSlotReturn, StoreUntouched DEF WriteConflict, storeVars, TypeInv, TypeOK
  <2>2. CASE req[r].change # None
    <3>1. req[r].change \in Changes /\ Complete([req[r] EXCEPT !.step = "staleApproved"])
      BY <1>0, <1>6, <2>2 DEF WriteConflict, At, Complete, Request
    <3>2. WellFormed'
      BY <1>6, <2>2, <3>1, OwnSlotGoTo DEF WriteConflict, storeVars, Steps
    <3> QED
      BY <1>6, <3>2, StoreUntouched DEF WriteConflict, TypeInv, TypeOK
  <2> QED
    BY <2>1, <2>2
<1>7. CASE WriteHead(r)
  <2>1. WellFormed' /\ headRevision' \in Nat
    BY <1>1, <1>4, <1>7, OwnSlotReturn DEF WriteHead
  <2> QED
    BY <1>7, <2>1 DEF WriteHead, TypeInv, WellFormed, TypeOK, StoreTypeOK
<1>8. CASE RekeyRevision(r)
  <2>1. req[r].step # "idle"
    BY <1>8 DEF RekeyRevision, At
  <2>2. WellFormed' /\ revisions' \in SUBSET Revision
    BY <1>0, <1>2, <1>3, <1>8, <2>1 DEF RekeyRevision, Steps
  <2> QED
    BY <1>8, <2>2 DEF RekeyRevision, TypeInv, WellFormed, TypeOK, StoreTypeOK
<1>9. CASE RekeyCommit(r)
  <2>1. req[r].step # "idle"
    BY <1>9 DEF RekeyCommit, At
  <2>2. WellFormed'
    BY <1>2, <1>9, <2>1, OwnSlotReturn DEF RekeyCommit, CommitUnheard, Steps
  <2>3. keyVersion' \in Nat /\ headRevision' \in Nat /\ rekeyRequired' \in BOOLEAN
    BY <1>0, <1>1, <1>4, <1>9 DEF RekeyCommit, CommitRekey, TypeInv, TypeOK, StoreTypeOK
  <2> QED
    BY <1>9, <2>2, <2>3 DEF RekeyCommit, TypeInv, WellFormed, TypeOK, StoreTypeOK
<1> QED
  BY <1>5, <1>6, <1>7, <1>8, <1>9

LEMMA GrantDocsType ==
  ASSUME NEW v \in Nat, NEW d \in Nat, NEW to \in SUBSET Recipients,
         NEW via \in {"share", "rekey"}
  PROVE  GrantDocs(v, d, to, via) \in SUBSET Grant
BY DEF GrantDocs, Grant

LEMMA TypeRekey ==
  ASSUME TypeInv, NEW r \in Requests,
         \/ RekeyRecipients(r) \/ RekeyTx(r) \/ RekeyTxAborts(r) \/ RekeyGrants(r)
         \/ RekeyRevoke(r) \/ RekeyUngrant(r) \/ Rollback(r)
  PROVE  TypeInv'
<1>0. /\ req[r] \in Request /\ Complete(req[r]) /\ keyVersion \in Nat
      /\ headRevision \in Nat /\ revisions \in SUBSET Revision
      /\ grants \in SUBSET Grant /\ hasKeys \in SUBSET Users
      /\ machines \in [Machines -> {"absent", "active", "expired", "revoked"}]
  BY DEF TypeInv, WellFormed, TypeOK, StoreTypeOK
<1>1. /\ req[r].base \in Nat /\ RekeyHead(req[r]) \in Nat
      /\ req[r].kv \in Nat /\ req[r].dek \in Nat
      /\ req[r].to \in SUBSET Recipients /\ req[r].tokens \in SUBSET Machines
  BY <1>0 DEF Request, RekeyHead
<1>2. ASSUME NEW s \in {"rekeyRevision", "rekeyCommit", "rekeyUngrant", "rollback"},
             req[r].step # "idle", GoTo(r, s), UNCHANGED changes
      PROVE  WellFormed'
  <2>1. Complete([req[r] EXCEPT !.step = s])
    BY <1>0, <1>2 DEF Complete, Request
  <2> QED
    BY <1>2, <2>1, OwnSlotGoTo DEF Steps
<1>3. RevokeMachines(req[r].tokens) =>
        machines' \in [Machines -> {"absent", "active", "expired", "revoked"}]
  BY <1>0 DEF RevokeMachines
<1>4. CASE RekeyRecipients(r)
  <2>0. PICK ts \in ListedTokens :
          Continue(r, [req[r] EXCEPT !.step = "rekey", !.to = Entitled, !.tokens = ts])
    BY <1>4 DEF RekeyRecipients
  <2> DEFINE q == [req[r] EXCEPT !.step = "rekey", !.to = Entitled, !.tokens = ts]
  <2>1. Entitled \in SUBSET Recipients /\ ts \in SUBSET Machines
    BY DEF Entitled, ActiveMachines, Recipients, ListedTokens
  <2>2. q \in Request /\ Complete(q)
    BY <1>0, <1>4, <2>1 DEF RekeyRecipients, At, Request, Steps, Complete
  <2> QED
    BY <1>4, <2>0, <2>2, OwnSlot, StoreUntouched DEF RekeyRecipients, storeVars, TypeInv, TypeOK
<1>5. CASE RekeyTx(r)
  <2>1. req[r].step # "idle" /\ UNCHANGED changes
    BY <1>5 DEF RekeyTx, At
  <2>2. revisions' \in SUBSET Revision
    BY <1>0, <1>5, <2>1, RevisionType DEF RekeyTx, InsertRevision
  <2>3. GrantDocs(req[r].kv, req[r].dek,
                  {x \in req[r].to : ~HasGrant(x, req[r].kv)}, "rekey") \in SUBSET Grant
    BY <1>1, GrantDocsType
  <2>4. grants' \in SUBSET Grant
    BY <1>0, <1>5, <2>3 DEF RekeyTx
  <2>5. keyVersion' \in Nat /\ headRevision' \in Nat /\ rekeyRequired' \in BOOLEAN
    BY <1>0, <1>1, <1>5 DEF RekeyTx, CommitRekey, BumpHead, Raised
  <2>6. WellFormed' /\ RevokeMachines(req[r].tokens)
    BY <1>2, <1>5, <2>1, OwnSlotReturn DEF RekeyTx, CommitUnheard
  <2> QED
    BY <1>3, <1>5, <2>2, <2>4, <2>5, <2>6 DEF RekeyTx, TypeInv, WellFormed, TypeOK, StoreTypeOK
<1>6. CASE RekeyTxAborts(r)
  BY <1>6, OwnSlotReturn, StoreUntouched DEF RekeyTxAborts, storeVars, TypeInv, TypeOK
<1>7. CASE RekeyGrants(r)
  <2>1. WellFormed'
    BY <1>2, <1>7 DEF RekeyGrants, At
  <2>2. grants' \in SUBSET Grant
    BY <1>0, <1>1, <1>7, GrantDocsType DEF RekeyGrants, InsertGrants
  <2> QED
    BY <1>7, <2>1, <2>2 DEF RekeyGrants, TypeInv, WellFormed, TypeOK, StoreTypeOK
<1>8. CASE RekeyRevoke(r)
  <2>1. WellFormed'
    BY <1>2, <1>8 DEF RekeyRevoke, At
  <2> QED
    BY <1>3, <1>8, <2>1 DEF RekeyRevoke, TypeInv, WellFormed, TypeOK, StoreTypeOK
<1>9. CASE RekeyUngrant(r)
  <2>1. WellFormed' /\ grants' \in SUBSET Grant
    BY <1>0, <1>9, OwnSlotReturn DEF RekeyUngrant, DeleteMachineGrants
  <2> QED
    BY <1>9, <2>1 DEF RekeyUngrant, TypeInv, WellFormed, TypeOK, StoreTypeOK
<1>10. CASE Rollback(r)
  <2>1. WellFormed' /\ grants' \in SUBSET Grant
    BY <1>0, <1>10, OwnSlotReturn DEF Rollback, DeleteGrantsByID
  <2> QED
    BY <1>10, <2>1 DEF Rollback, TypeInv, WellFormed, TypeOK, StoreTypeOK
<1> QED
  BY <1>4, <1>5, <1>6, <1>7, <1>8, <1>9, <1>10

LEMMA TypeMembers ==
  ASSUME TypeInv, NEW r \in Requests,
         \/ ShareGrants(r) \/ WriteMember(r) \/ DeleteMember(r) \/ Ungrant(r)
         \/ FlagRekey(r) \/ DeleteBundle(r) \/ EnrollMachine(r) \/ UndoEnroll(r) \/ Abort(r)
  PROVE  TypeInv'
<1>0. /\ req[r] \in Request /\ Complete(req[r])
      /\ grants \in SUBSET Grant /\ hasKeys \in SUBSET Users
      /\ role \in [Users -> Roles] /\ access \in [Users -> Permissions]
      /\ machines \in [Machines -> {"absent", "active", "expired", "revoked"}]
  BY DEF TypeInv, WellFormed, TypeOK, StoreTypeOK
<1>1. /\ req[r].kv \in Nat /\ req[r].dek \in Nat /\ req[r].to \in SUBSET Recipients
      /\ req[r].role \in Roles /\ req[r].access \in Permissions
  BY <1>0 DEF Request
<1>2. ASSUME NEW s \in {"ungrant", "flag", "rollback", "rekeyUngrant", "enrollGrant"},
             req[r].step # "idle", GoTo(r, s), UNCHANGED changes,
             s = "enrollGrant" => req[r].step = "enroll"
      PROVE  WellFormed'
  <2>1. Complete([req[r] EXCEPT !.step = s])
    BY <1>0, <1>2 DEF Complete, Request
  <2> QED
    BY <1>2, <2>1, OwnSlotGoTo DEF Steps
<1>3. InsertGrants(req[r].kv, req[r].dek, req[r].to, "share") => grants' \in SUBSET Grant
  BY <1>0, <1>1, GrantDocsType DEF InsertGrants
<1>4. CASE ShareGrants(r)
  <2>1. WellFormed'
    BY <1>4, OwnSlotReturn DEF ShareGrants
  <2> QED
    BY <1>3, <1>4, <2>1 DEF ShareGrants, TypeInv, WellFormed, TypeOK, StoreTypeOK
<1>5. CASE WriteMember(r)
  <2>1. WellFormed'
    BY <1>2, <1>5, OwnSlotReturn DEF WriteMember, At
  <2>2. role' \in [Users -> Roles] /\ access' \in [Users -> Permissions]
    BY <1>0, <1>1, <1>5 DEF WriteMember
  <2> QED
    BY <1>5, <2>1, <2>2 DEF WriteMember, TypeInv, WellFormed, TypeOK, StoreTypeOK
<1>6. CASE DeleteMember(r)
  <2>1. WellFormed'
    BY <1>2, <1>6 DEF DeleteMember, At
  <2>2. role' \in [Users -> Roles] /\ access' \in [Users -> Permissions]
    BY <1>0, <1>6 DEF DeleteMember, Roles, Permissions
  <2> QED
    BY <1>6, <2>1, <2>2 DEF DeleteMember, TypeInv, WellFormed, TypeOK, StoreTypeOK
<1>7. CASE Ungrant(r)
  <2>1. WellFormed' /\ grants' \in SUBSET Grant
    BY <1>0, <1>2, <1>7, OwnSlotReturn DEF Ungrant, At, DeleteRecipientGrants
  <2> QED
    BY <1>7, <2>1 DEF Ungrant, TypeInv, WellFormed, TypeOK, StoreTypeOK
<1>8. CASE FlagRekey(r)
  <2>1. WellFormed' /\ rekeyRequired' \in BOOLEAN
    BY <1>8, OwnSlotReturn DEF FlagRekey, SetRekeyRequired
  <2> QED
    BY <1>8, <2>1 DEF FlagRekey, TypeInv, WellFormed, TypeOK, StoreTypeOK
<1>9. CASE DeleteBundle(r)
  <2>1. WellFormed' /\ hasKeys' \in SUBSET Users
    BY <1>0, <1>9, OwnSlotReturn DEF DeleteBundle
  <2> QED
    BY <1>9, <2>1 DEF DeleteBundle, TypeInv, WellFormed, TypeOK, StoreTypeOK
<1>10. CASE EnrollMachine(r)
  <2>1. WellFormed'
    BY <1>2, <1>10, OwnSlotReturn DEF EnrollMachine, At
  <2>2. grants' \in SUBSET Grant
    BY <1>0, <1>3, <1>10 DEF EnrollMachine
  <2>3. machines' \in [Machines -> {"absent", "active", "expired", "revoked"}]
    BY <1>0, <1>10 DEF EnrollMachine
  <2> QED
    BY <1>10, <2>1, <2>2, <2>3 DEF EnrollMachine, TypeInv, WellFormed, TypeOK, StoreTypeOK
<1>11. CASE UndoEnroll(r)
  <2>1. WellFormed' /\ grants' \in SUBSET Grant
    BY <1>0, <1>3, <1>11, OwnSlotReturn DEF UndoEnroll
  <2>2. machines' \in [Machines -> {"absent", "active", "expired", "revoked"}]
    BY <1>0, <1>11 DEF UndoEnroll
  <2> QED
    BY <1>11, <2>1, <2>2 DEF UndoEnroll, TypeInv, WellFormed, TypeOK, StoreTypeOK
<1>12. CASE Abort(r)
  <2>1. WellFormed'
    BY <1>2, <1>12, OwnSlotReturn DEF Abort, At, storeVars
  <2> QED
    BY <1>12, <2>1, StoreUntouched DEF Abort, TypeInv, TypeOK
<1> QED
  BY <1>4, <1>5, <1>6, <1>7, <1>8, <1>9, <1>10, <1>11, <1>12

LEMMA TypeNext == TypeInv /\ [Next]_vars => TypeInv'
<1> SUFFICES ASSUME TypeInv, [Next]_vars PROVE TypeInv'
  OBVIOUS
<1>1. ASSUME NEW r \in Requests, Command(r) PROVE TypeInv'
  BY <1>1, TypeReviews, TypeHistory, TypeRekey, TypeMembers DEF Command
<1>2. ASSUME NEW r \in Requests, NEW u \in Users, Writes(r, u) \/ Sharing(r, u) PROVE TypeInv'
  BY <1>2, TypeWrites, TypeSharing
<1>3. ASSUME NEW u \in Users, Immediate(u) PROVE TypeInv'
  BY <1>3, TypeImmediate
<1>4. ASSUME NEW m \in Machines, ExpireMachine(m) PROVE TypeInv'
  BY <1>4 DEF ExpireMachine, TypeInv, WellFormed, Complete, TypeOK, StoreTypeOK
<1>5. CASE UNCHANGED vars
  BY <1>5 DEF vars, storeVars, TypeInv, WellFormed, Complete, TypeOK, StoreTypeOK
<1> QED
  BY <1>1, <1>2, <1>3, <1>4, <1>5 DEF Next

(* Every document the handlers store and everything they remember between  *)
(* two database commands is well formed, however they interleave or fail.  *)
THEOREM TypeCorrect == Spec => []TypeInv
BY TypeInit, TypeNext, PTL DEF Spec

=============================================================================
