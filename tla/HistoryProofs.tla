---------------------------- MODULE HistoryProofs ----------------------------
(***************************************************************************)
(* Proofs about the history of an environment.  Its revision chain is      *)
(* gap-free, ordered by key version, and an implementation of the append-  *)
(* only log.  Its change requests are decided for good, merged at most     *)
(* once, and only after somebody else approved them.                       *)
(***************************************************************************)
EXTENDS VaultProofs, VaultInvariants

USE StoreAssumption, ServiceAssumption DEF StoreAssumption, ServiceAssumption

----------------------------------------------------------------------------
(* How a step changes the chain *)

\* Revisions are only added, and only right above the head.
Extends ==
  /\ headRevision' \in Nat /\ headRevision <= headRevision'
  /\ keyVersion' \in Nat /\ keyVersion <= keyVersion'
  /\ \A x \in revisions : x \in revisions'
  /\ \A x \in revisions' : x \in revisions \/ x.n = headRevision + 1

\* No document that HistoryInv is about changes, nor where a change request
\* is filed.
ChainUntouched ==
  /\ UNCHANGED <<headRevision, keyVersion, revisions>>
  /\ \A c \in Changes : /\ changes'[c].base = changes[c].base
                        /\ changes'[c].kv = changes[c].kv

LEMMA HistoryTypes ==
  ASSUME TypeInv
  PROVE  /\ headRevision \in Nat /\ keyVersion \in Nat
         /\ \A x \in revisions : x.n \in Nat /\ x.kv \in Nat
         /\ \A r \in Requests : req[r] \in Request /\ req[r].base \in Nat /\ req[r].kv \in Nat
         /\ \A c \in Changes : changes[c].base \in Nat /\ changes[c].kv \in Nat
BY DEF TypeInv, TypeOK, StoreTypeOK, Revision, Request, Change

\* What a request knows of the chain stays true as the chain grows.
LEMMA KnowledgeStays ==
  ASSUME TypeInv, NEW q \in Request, KnowsItsBase(q), Extends
  PROVE  KnowsItsBase(q)'
<1>1. q.base \in Nat /\ q.kv \in Nat /\ headRevision \in Nat /\ keyVersion \in Nat
  BY HistoryTypes DEF Request
<1> QED
  BY <1>1 DEF KnowsItsBase, Extends, SealedBy, Landed, HasRevision

\* A step that stores nothing here keeps HistoryInv if the slot it moves does.
LEMMA OwnSlotHistory ==
  ASSUME TypeInv, HistoryInv, NEW r \in Requests, NEW q \in Request,
         Continue(r, q), KnowsItsBase(q), ChainUntouched
  PROVE  HistoryInv'
<1>1. \A p \in Requests : req'[p] = req[p] \/ req'[p] = q
  BY DEF Continue, TypeInv, WellFormed
<1>2. \A p \in Requests : KnowsItsBase(req'[p])
  BY <1>1 DEF HistoryInv
<1>3. \A p \in Requests : KnowsItsBase(req[p])'
  BY <1>2 DEF KnowsItsBase, ChainUntouched, SealedBy, Landed, HasRevision
<1> QED
  BY <1>3 DEF HistoryInv, ChainUntouched, ChainIsGapFree, RevisionExists,
              KeyVersionsOrdered, SealedBy

\* Requests on no base know all there is to know.
LEMMA FreshKnows ==
  ASSUME TypeInv, HistoryInv, NEW q \in Request, q.base = 0,
         q.step \notin {"write", "bump", "propose", "approve", "rekeyRevision", "rekeyCommit"}
  PROVE  KnowsItsBase(q)
<1>1. \A x \in revisions : x.n \in Nat /\ x.n >= 1
  BY HistoryTypes DEF HistoryInv, ChainIsGapFree
<1> QED
  BY <1>1, HistoryTypes DEF KnowsItsBase, SealedBy

LEMMA ReturnHistory ==
  ASSUME TypeInv, HistoryInv, NEW r \in Requests, Return(r), ChainUntouched
  PROVE  HistoryInv'
<1>1. Idle \in Request /\ KnowsItsBase(Idle)
  BY IdleType, FreshKnows DEF Idle
<1> QED
  BY <1>1, OwnSlotHistory DEF Return

\* Moving on to a step that claims nothing new.
LEMMA GoToHistory ==
  ASSUME TypeInv, HistoryInv, NEW r \in Requests,
         NEW s \in Steps \ {"write", "bump", "propose", "approve", "rekeyRevision", "rekeyCommit"},
         GoTo(r, s), ChainUntouched
  PROVE  HistoryInv'
<1> DEFINE q == [req[r] EXCEPT !.step = s]
<1>1. req[r] \in Request /\ KnowsItsBase(req[r])
  BY DEF TypeInv, WellFormed, HistoryInv
<1>2. /\ q \in Request /\ q.base = req[r].base /\ q.kv = req[r].kv /\ q.step = s
  BY <1>1 DEF Request
<1>3. KnowsItsBase(q)
  BY <1>1, <1>2 DEF KnowsItsBase
<1> QED
  BY <1>2, <1>3, OwnSlotHistory DEF GoTo

----------------------------------------------------------------------------
(* The steps that leave the chain alone *)

LEMMA HistoryInit == Init => HistoryInv
<1> SUFFICES ASSUME Init PROVE HistoryInv
  OBVIOUS
<1>1. TypeInv /\ revisions = {} /\ headRevision = 0 /\ keyVersion = 1
  BY TypeInit DEF Init, StoreInit
<1>2. \A r \in Requests : req[r] = Idle
  BY DEF Init
<1>3. \A r \in Requests : KnowsItsBase(req[r])
  BY <1>1, <1>2 DEF KnowsItsBase, Idle, SealedBy
<1>4. \A c \in Changes : changes[c] = NoChange
  BY DEF Init, StoreInit
<1> QED
  BY <1>1, <1>3, <1>4 DEF HistoryInv, ChainIsGapFree, KeyVersionsOrdered, SealedBy, NoChange

LEMMA SubmissionKnows ==
  ASSUME TypeInv, HistoryInv, NEW u \in Users, NEW s \in Submission(u)
  PROVE  /\ s \in Request /\ s.base = headRevision /\ s.kv = keyVersion
         /\ SealedBy(s.base, s.kv)
<1>1. s.base = headRevision /\ s.kv = keyVersion
  BY DEF Submission, Idle
<1> QED
  BY <1>1, SubmissionType DEF TypeInv, HistoryInv

LEMMA HistoryWrites ==
  ASSUME TypeInv, HistoryInv, NEW r \in Requests, NEW u \in Users, Writes(r, u)
  PROVE  HistoryInv'
<1>0. headRevision \in Nat /\ keyVersion \in Nat
  BY HistoryTypes
<1>1. ChainUntouched
  BY DEF Writes, PushRevision, CreateChangeRequest, ApproveChangeRequest, Rekey,
         storeVars, ChainUntouched
<1>2. ASSUME NEW s \in Submission(u), NEW to \in {"write", "propose"},
             Continue(r, [s EXCEPT !.step = to])
      PROVE  HistoryInv'
  <2> DEFINE q == [s EXCEPT !.step = to]
  <2>1. /\ q \in Request /\ q.base = headRevision /\ q.kv = keyVersion /\ q.step = to
        /\ SealedBy(q.base, q.kv)
    BY SubmissionKnows DEF Request, Steps
  <2>2. KnowsItsBase(q)
    BY <1>0, <2>1 DEF KnowsItsBase
  <2> QED
    BY <1>1, <1>2, <2>1, <2>2, OwnSlotHistory
<1>3. ASSUME NEW c \in Changes, ApproveChangeRequest(r, u, c) PROVE HistoryInv'
  <2> DEFINE q == [Idle EXCEPT
       !.step = IF changes[c].base = headRevision THEN "approve" ELSE "stalePending",
       !.by = u, !.change = c,
       !.base = changes[c].base, !.kv = changes[c].kv, !.dek = changes[c].dek]
  <2>1. changes[c] \in Change
    BY DEF TypeInv, TypeOK, StoreTypeOK
  <2>2. /\ q \in Request /\ q.base = changes[c].base /\ q.kv = changes[c].kv
        /\ q.step \in {"approve", "stalePending"}
    BY <2>1, IdleType DEF Request, Steps, Idle, Change
  <2>3. KnowsItsBase(q)
    BY <2>2 DEF KnowsItsBase, HistoryInv
  <2>4. Continue(r, q)
    BY <1>3 DEF ApproveChangeRequest
  <2> QED
    BY <1>1, <2>2, <2>3, <2>4, OwnSlotHistory
<1>4. ASSUME Rekey(r, u) PROVE HistoryInv'
  <2> DEFINE q == [Idle EXCEPT !.step = "recipients", !.by = u,
       !.base = headRevision, !.kv = keyVersion + 1, !.dek = minted + 1]
  <2>1. q \in Request /\ q.base = headRevision /\ q.kv = keyVersion + 1 /\ q.step = "recipients"
    <3>1. minted + 1 \in Nat /\ keyVersion + 1 \in Nat
      BY <1>0 DEF TypeInv, TypeOK
    <3> QED
      BY <1>0, <3>1 DEF Request, Steps, Roles, Permissions, Idle
  <2>2. SealedBy(q.base, q.kv)
    BY <1>0, <2>1, HistoryTypes DEF HistoryInv, SealedBy
  <2>3. KnowsItsBase(q)
    BY <1>0, <2>1, <2>2 DEF KnowsItsBase
  <2>4. Continue(r, q)
    BY <1>4 DEF Rekey
  <2> QED
    BY <1>1, <2>1, <2>3, <2>4, OwnSlotHistory
<1> QED
  BY <1>2, <1>3, <1>4 DEF Writes, PushRevision, CreateChangeRequest

LEMMA UpdateSlot ==
  ASSUME TypeInv, NEW r \in Requests, NEW u \in Users, NEW t \in Users, UpdateMember(r, u, t)
  PROVE  req'[r].base = 0 /\ req'[r].change = None /\ req'[r].step = "update"
<1>1. PICK p \in MemberPatches, keepRole \in BOOLEAN, keepAccess \in BOOLEAN :
        LET ac == IF keepAccess THEN access[t] ELSE p[2]
        IN  Continue(r, [Idle EXCEPT !.step = "update", !.by = u, !.who = t,
              !.role = IF keepRole THEN role[t] ELSE p[1],
              !.access = ac, !.lost = access[t] # "none" /\ ac = "none"])
  BY DEF UpdateMember
<1> DEFINE ac == IF keepAccess THEN access[t] ELSE p[2]
           lost == access[t] # "none" /\ ac = "none"
           ro == IF keepRole THEN role[t] ELSE p[1]
           q == [Idle EXCEPT !.step = "update", !.by = u, !.who = t,
                             !.role = ro, !.access = ac, !.lost = lost]
<1>2. req'[r] = q
  BY <1>1 DEF Continue, TypeInv, WellFormed
<1>3. q.base = 0 /\ q.change = None /\ q.step = "update"
  <2> HIDE DEF ac, lost, ro
  <2> QED
    BY DEF Idle
<1> QED
  BY <1>2, <1>3

\* The slot of a handler that is to share, take or change somebody's access.
LEMMA FreshSlot ==
  ASSUME TypeInv, NEW r \in Requests, NEW u \in Users, Sharing(r, u),
         ~(\E m \in Machines : CreateMachine(r, u, m))
  PROVE  /\ req'[r].base = 0 /\ req'[r].change = None
         /\ req'[r].step \in {"share", "update", "remove", "ungrant", "deleteBundle"}
<1> DEFINE Fresh(s) == req'[r].base = 0 /\ req'[r].change = None /\ req'[r].step = s
<1>1. ASSUME NEW q, Continue(r, q) PROVE req'[r] = q
  BY <1>1 DEF Continue, TypeInv, WellFormed
<1>2. ASSUME NEW x \in Recipients, CreateGrants(r, u, x) PROVE Fresh("share")
  BY <1>1, <1>2 DEF CreateGrants, Idle
<1>3. ASSUME NEW t \in Users, UpdateMember(r, u, t) PROVE Fresh("update")
  BY <1>3, UpdateSlot
<1>4. ASSUME NEW t \in Users, RemoveMember(r, u, t) PROVE Fresh("remove")
  BY <1>1, <1>4 DEF RemoveMember, Idle
<1>5. ASSUME NEW m \in Machines, RevokeMachine(r, u, m) PROVE Fresh("ungrant")
  BY <1>1, <1>5 DEF RevokeMachine, Idle
<1>6. ASSUME ResetKeys(r, u) PROVE Fresh("deleteBundle")
  BY <1>1, <1>6 DEF ResetKeys, Idle
<1> QED
  BY <1>2, <1>3, <1>4, <1>5, <1>6 DEF Sharing

\* Handlers of grants, members and machines hold no base, except that the
\* initial grant of a machine is taken like a submission.
LEMMA HistorySharing ==
  ASSUME TypeInv, HistoryInv, TypeInv', NEW r \in Requests, NEW u \in Users, Sharing(r, u)
  PROVE  HistoryInv'
<1>1. ChainUntouched
  BY DEF Sharing, CreateGrants, UpdateMember, RemoveMember, CreateMachine, RevokeMachine,
         ResetKeys, storeVars, ChainUntouched
<1>2. req'[r] \in Request /\ Continue(r, req'[r])
  BY DEF Sharing, CreateGrants, UpdateMember, RemoveMember, CreateMachine, RevokeMachine,
         ResetKeys, Continue, TypeInv, WellFormed
<1>3. CASE req'[r].base = 0 /\ req'[r].step \in {"share", "update", "remove", "ungrant",
                                                "deleteBundle"}
  BY <1>1, <1>2, <1>3, FreshKnows, OwnSlotHistory
<1>4. ASSUME NEW m \in Machines, CreateMachine(r, u, m) PROVE HistoryInv'
  <2>1. PICK s \in Submission(u) :
          Continue(r, [s EXCEPT !.step = "enroll", !.who = m, !.to = {m}])
    BY <1>4 DEF CreateMachine
  <2> DEFINE q == [s EXCEPT !.step = "enroll", !.who = m, !.to = {m}]
  <2>0. s \in Request
    BY SubmissionKnows
  <2>2. /\ q.base = s.base /\ q.kv = s.kv /\ q.step = "enroll" /\ q \in Request
    BY <2>0 DEF Request, Steps, Recipients
  <2>3. KnowsItsBase(q)
    BY <2>2, SubmissionKnows, HistoryTypes DEF KnowsItsBase
  <2> QED
    BY <1>1, <2>1, <2>2, <2>3, OwnSlotHistory
<1>5. ASSUME ~(\E m \in Machines : CreateMachine(r, u, m))
      PROVE  req'[r].base = 0 /\ req'[r].step \in {"share", "update", "remove", "ungrant",
                                                  "deleteBundle"}
  BY <1>5, FreshSlot
<1> QED
  BY <1>3, <1>4, <1>5

\* Deciding on a change request leaves its content alone.
LEMMA TransitionKeepsContent ==
  ASSUME TypeInv, NEW c \in Changes, NEW from, NEW to, NEW u,
         TransitionChangeRequest(c, from, to, u)
  PROVE  \A d \in Changes : /\ changes'[d].base = changes[d].base
                            /\ changes'[d].kv = changes[d].kv
                            /\ changes'[d].dek = changes[d].dek
<1>1. \A d \in Changes : changes[d] \in Change
  BY DEF TypeInv, TypeOK, StoreTypeOK
<1>2. changes \in [Changes -> Change]
  BY DEF TypeInv, TypeOK, StoreTypeOK
<1>3. changes' = [changes EXCEPT ![c] = [changes[c] EXCEPT !.status = to, !.reviewer = u]]
  BY <1>1, <1>2 DEF TransitionChangeRequest, Change
<1> QED
  BY <1>1, <1>2, <1>3 DEF Change

LEMMA HistoryImmediate ==
  ASSUME TypeInv, HistoryInv, NEW u \in Users, Immediate(u)
  PROVE  HistoryInv'
<1>1. UNCHANGED req /\ UNCHANGED <<headRevision, keyVersion, revisions>>
  BY DEF Immediate, RejectChangeRequest, AddMember, RegisterMachine, PatchEnvironment,
     PutKeys
<1>2. ChainUntouched
  <2>1. ASSUME NEW c \in Changes, RejectChangeRequest(u, c) PROVE ChainUntouched
    BY <1>1, <2>1, TransitionKeepsContent DEF RejectChangeRequest, ChainUntouched
  <2> QED
    BY <1>1, <2>1 DEF Immediate, AddMember, RegisterMachine, PatchEnvironment,
     PutKeys, ChainUntouched
<1> QED
  BY <1>1, <1>2 DEF ChainUntouched, HistoryInv, ChainIsGapFree, RevisionExists,
     KeyVersionsOrdered, SealedBy, KnowsItsBase, Landed, HasRevision

LEMMA HistoryReviews ==
  ASSUME TypeInv, HistoryInv, NEW r \in Requests,
         \/ \E c \in Changes : InsertChangeRequest(r, c)
         \/ ApproveTransition(r) \/ MarkStale(r)
  PROVE  HistoryInv'
<1>0. /\ req[r] \in Request /\ Complete(req[r]) /\ KnowsItsBase(req[r])
      /\ changes \in [Changes -> Change]
  BY DEF TypeInv, WellFormed, TypeOK, StoreTypeOK, HistoryInv
<1>1. ASSUME NEW c \in Changes, InsertChangeRequest(r, c) PROVE HistoryInv'
  <2>1. req[r].kv <= keyVersion /\ req[r].base <= headRevision
        /\ SealedBy(req[r].base, req[r].kv)
    BY <1>0, <1>1 DEF InsertChangeRequest, At, KnowsItsBase
  <2>2. \A d \in Changes : changes'[d] = IF d = c THEN NewChange(req[r]) ELSE changes[d]
    BY <1>0, <1>1 DEF InsertChangeRequest
  <2>3. UNCHANGED <<headRevision, keyVersion, revisions>>
    BY <1>1 DEF InsertChangeRequest
  <2>4. \A d \in Changes : /\ changes'[d].base <= headRevision
                           /\ changes'[d].kv <= keyVersion
                           /\ SealedBy(changes'[d].base, changes'[d].kv)
    BY <2>1, <2>2 DEF NewChange, HistoryInv
  <2>5. \A p \in Requests : req'[p] = req[p] \/ req'[p] = Idle
    BY <1>1 DEF InsertChangeRequest, Return, Continue, TypeInv, WellFormed
  <2>6. KnowsItsBase(Idle)
    BY IdleType, FreshKnows DEF Idle
  <2>7. \A p \in Requests : KnowsItsBase(req'[p])
    BY <2>5, <2>6 DEF HistoryInv
  <2>8. \A p \in Requests : KnowsItsBase(req[p])'
    BY <2>3, <2>7 DEF KnowsItsBase, SealedBy, Landed, HasRevision
  <2> QED
    BY <2>3, <2>4, <2>8 DEF HistoryInv, ChainIsGapFree, RevisionExists,
       KeyVersionsOrdered, SealedBy
<1>2. CASE ApproveTransition(r)
  <2> DEFINE q == [req[r] EXCEPT !.step = "write"]
  <2>1. req[r].change \in Changes /\ req[r].step = "approve"
    BY <1>0, <1>2 DEF ApproveTransition, At, Complete
  <2>2. CASE TransitionChangeRequest(req[r].change, "pending", "approved", req[r].by)
             /\ GoTo(r, "write")
    <3>1. ChainUntouched
      BY <1>2, <2>1, <2>2, TransitionKeepsContent DEF ApproveTransition, ChainUntouched
    <3>2. q \in Request /\ q.base = req[r].base /\ q.kv = req[r].kv /\ q.step = "write"
      BY <1>0 DEF Request, Steps
    <3>3. KnowsItsBase(q)
      BY <1>0, <2>1, <3>2 DEF KnowsItsBase
    <3> QED
      BY <2>2, <3>1, <3>2, <3>3, OwnSlotHistory DEF GoTo
  <2>3. CASE Return(r) /\ UNCHANGED changes
    BY <1>2, <2>3, ReturnHistory DEF ApproveTransition, ChainUntouched
  <2> QED
    BY <1>2, <2>2, <2>3 DEF ApproveTransition
<1>3. CASE MarkStale(r)
  <2>1. req[r].change \in Changes
    BY <1>0, <1>3 DEF MarkStale, At, Complete
  <2>2. ChainUntouched
    BY <1>3, <2>1, TransitionKeepsContent DEF MarkStale, ChainUntouched
  <2> QED
    BY <1>3, <2>2, ReturnHistory DEF MarkStale
<1> QED
  BY <1>1, <1>2, <1>3

LEMMA HistoryQuiet ==
  ASSUME TypeInv, HistoryInv, NEW r \in Requests,
         \/ WriteConflict(r) \/ RekeyRecipients(r) \/ RekeyTxAborts(r) \/ RekeyGrants(r)
         \/ RekeyRevoke(r) \/ RekeyUngrant(r) \/ Rollback(r) \/ ShareGrants(r)
         \/ WriteMember(r) \/ DeleteMember(r) \/ Ungrant(r) \/ FlagRekey(r)
         \/ DeleteBundle(r) \/ EnrollMachine(r) \/ UndoEnroll(r) \/ Abort(r)
  PROVE  HistoryInv'
<1>0. req[r] \in Request /\ KnowsItsBase(req[r])
  BY DEF TypeInv, WellFormed, HistoryInv
<1>1. ChainUntouched
  BY DEF WriteConflict, RekeyRecipients, RekeyTxAborts, RekeyGrants, RekeyRevoke,
         RekeyUngrant, Rollback, ShareGrants, WriteMember, DeleteMember, Ungrant,
         FlagRekey, DeleteBundle, EnrollMachine, UndoEnroll, Abort, storeVars,
         ChainUntouched
<1>2. CASE Return(r)
  BY <1>1, <1>2, ReturnHistory
<1>3. ASSUME NEW s \in {"staleApproved", "rollback", "ungrant", "flag", "enrollGrant",
                        "rekeyUngrant"}, GoTo(r, s)
      PROVE  HistoryInv'
  BY <1>1, <1>3, GoToHistory DEF Steps
<1>4. CASE RekeyRecipients(r)
  <2>0. PICK ts \in ListedTokens :
          Continue(r, [req[r] EXCEPT !.step = "rekey", !.to = Entitled, !.tokens = ts])
    BY <1>4 DEF RekeyRecipients
  <2> DEFINE q == [req[r] EXCEPT !.step = "rekey", !.to = Entitled, !.tokens = ts]
  <2>1. Entitled \in SUBSET Recipients /\ ts \in SUBSET Machines
    BY DEF Entitled, ActiveMachines, Recipients, ListedTokens
  <2>2. q \in Request /\ q.base = req[r].base /\ q.kv = req[r].kv /\ q.step = "rekey"
    BY <1>0, <2>1 DEF Request, Steps
  <2>3. KnowsItsBase(q)
    BY <1>0, <2>2 DEF KnowsItsBase
  <2> QED
    BY <1>1, <1>4, <2>0, <2>2, <2>3, OwnSlotHistory DEF RekeyRecipients
<1>5. CASE RekeyGrants(r)
  <2> DEFINE s == IF HasRevision(req[r]) THEN "rekeyRevision" ELSE "rekeyCommit"
             q == [req[r] EXCEPT !.step = s]
  <2>1. /\ q \in Request /\ q.base = req[r].base /\ q.kv = req[r].kv /\ q.step = s
    BY <1>0 DEF Request, Steps
  <2>2. KnowsItsBase(q)
    BY <1>0, <1>5, <2>1 DEF KnowsItsBase, RekeyGrants, HasRevision
  <2>3. Continue(r, q)
    BY <1>5 DEF RekeyGrants, GoTo
  <2> QED
    BY <1>1, <2>1, <2>2, <2>3, OwnSlotHistory
<1>6. \/ Return(r) \/ RekeyRecipients(r) \/ RekeyGrants(r)
      \/ \E s \in {"staleApproved", "rollback", "ungrant", "flag", "enrollGrant",
                   "rekeyUngrant"} : GoTo(r, s)
  BY DEF WriteConflict, RekeyTxAborts, RekeyRevoke, RekeyUngrant, Rollback, ShareGrants,
         WriteMember, DeleteMember, Ungrant, FlagRekey, DeleteBundle, EnrollMachine,
         UndoEnroll, Abort
<1> QED
  BY <1>2, <1>3, <1>4, <1>5, <1>6

----------------------------------------------------------------------------
(* The steps that move the chain *)

\* A revision number that is still free lies right above the head, and
\* nothing lies beyond it.
LEMMA OnTop ==
  ASSUME TypeInv, HistoryInv, NEW r \in Requests, ~RevisionExists(req[r].base + 1)
  PROVE  /\ req[r].base = headRevision
         /\ \A x \in revisions : x.n \in 1..headRevision
<1>1. /\ req[r].base \in Nat /\ headRevision \in Nat /\ req[r].base <= headRevision
      /\ \A x \in revisions : x.n \in Nat
  BY HistoryTypes DEF HistoryInv, KnowsItsBase
<1>2. req[r].base = headRevision
  BY <1>1 DEF HistoryInv, ChainIsGapFree
<1>3. \A x \in revisions : x.n # headRevision + 1
  BY <1>2 DEF RevisionExists
<1>4. \A x \in revisions : x.n \in 1..(headRevision + 1)
  BY <1>1 DEF HistoryInv, ChainIsGapFree
<1> QED
  BY <1>1, <1>2, <1>3, <1>4

\* The documents stay in order when a free number is taken.
LEMMA AppendKeepsOrder ==
  ASSUME TypeInv, HistoryInv, NEW r \in Requests,
         InsertRevision(RevisionOf(req[r])),
         \/ ~Transactions /\ headRevision' = headRevision
         \/ headRevision' = headRevision + 1 /\ req[r].kv <= keyVersion',
         keyVersion' \in Nat, keyVersion <= keyVersion', UNCHANGED changes
  PROVE  /\ Extends /\ ChainIsGapFree' /\ KeyVersionsOrdered'
         /\ SealedBy(headRevision, keyVersion)'
         /\ \A c \in Changes : /\ changes'[c].base <= headRevision'
                               /\ changes'[c].kv <= keyVersion'
                               /\ SealedBy(changes[c].base, changes[c].kv)'
         /\ \E x \in revisions' : x.n = req[r].base + 1 /\ x.kv = req[r].kv
<1> DEFINE q == req[r]
           doc == RevisionOf(q)
<1>1. doc.n = q.base + 1 /\ doc.kv = q.kv
  BY DEF RevisionOf
<1>2. /\ headRevision \in Nat /\ keyVersion \in Nat /\ q.kv \in Nat
      /\ \A x \in revisions : x.n \in Nat /\ x.kv \in Nat
      /\ \A c \in Changes : changes[c].base \in Nat /\ changes[c].kv \in Nat
  BY HistoryTypes
<1>3. /\ ~RevisionExists(q.base + 1) /\ revisions' = revisions \cup {doc}
  BY <1>1 DEF InsertRevision
<1>4. /\ q.base = headRevision
      /\ \A x \in revisions : x.n \in 1..headRevision
  BY <1>3, OnTop
<1>5. SealedBy(headRevision, q.kv)
  BY <1>4 DEF HistoryInv, KnowsItsBase
<1> HIDE DEF doc, q
<1>6. Extends
  BY <1>1, <1>2, <1>3, <1>4 DEF Extends
<1>7. ChainIsGapFree'
  <2>1. \A x, y \in revisions' : x.n = y.n => x = y
    BY <1>1, <1>2, <1>3, <1>4 DEF HistoryInv, ChainIsGapFree
  <2>2. \A n \in 1..headRevision' : \E x \in revisions' : x.n = n
    <3> SUFFICES ASSUME NEW n \in 1..headRevision' PROVE \E x \in revisions' : x.n = n
      OBVIOUS
    <3>1. CASE n \in 1..headRevision
      BY <1>3, <3>1 DEF HistoryInv, ChainIsGapFree, RevisionExists
    <3>2. CASE n = headRevision + 1
      BY <1>1, <1>3, <1>4, <3>2
    <3> QED
      BY <1>2, <3>1, <3>2
  <2>3. \A x \in revisions' : x.n \in 1..(IF Transactions THEN headRevision'
                                                         ELSE headRevision' + 1)
    BY <1>1, <1>2, <1>3, <1>4
  <2> QED
    BY <2>1, <2>2, <2>3 DEF ChainIsGapFree, RevisionExists
<1>8. KeyVersionsOrdered'
  BY <1>1, <1>2, <1>3, <1>4, <1>5 DEF HistoryInv, KeyVersionsOrdered, SealedBy
<1>9. SealedBy(headRevision, keyVersion)'
  <2> SUFFICES ASSUME NEW x \in revisions', x.n <= headRevision'
               PROVE  x.kv <= keyVersion'
    BY DEF SealedBy
  <2>1. CASE x \in revisions
    BY <1>2, <1>4, <2>1 DEF HistoryInv, SealedBy
  <2>2. CASE x = doc
    BY <1>1, <1>2, <1>4, <2>2 DEF q
  <2> QED
    BY <1>3, <2>1, <2>2
<1>10. \A c \in Changes : /\ changes'[c].base <= headRevision'
                          /\ changes'[c].kv <= keyVersion'
                          /\ SealedBy(changes[c].base, changes[c].kv)'
  BY <1>1, <1>2, <1>3, <1>4 DEF HistoryInv, SealedBy
<1> QED
  BY <1>1, <1>3, <1>6, <1>7, <1>8, <1>9, <1>10 DEF q

\* The head moves up to a revision that is there already.
LEMMA HeadKeepsOrder ==
  ASSUME TypeInv, HistoryInv, NEW r \in Requests,
         \/ BumpHead(req[r].base)
         \/ BumpHead(req[r].base + 1) /\ Landed(req[r]) /\ req[r].kv <= keyVersion'
              /\ ~Transactions,
         keyVersion' \in Nat, keyVersion <= keyVersion', UNCHANGED <<revisions, changes>>
  PROVE  /\ Extends /\ ChainIsGapFree' /\ KeyVersionsOrdered'
         /\ SealedBy(headRevision, keyVersion)'
         /\ \A c \in Changes : /\ changes'[c].base <= headRevision'
                               /\ changes'[c].kv <= keyVersion'
                               /\ SealedBy(changes[c].base, changes[c].kv)'
<1>1. /\ headRevision \in Nat /\ keyVersion \in Nat /\ req[r].base \in Nat
      /\ req[r].base <= headRevision
      /\ \A x \in revisions : x.n \in Nat /\ x.kv \in Nat
      /\ \A c \in Changes : changes[c].base \in Nat /\ changes[c].kv \in Nat
  BY HistoryTypes DEF HistoryInv, KnowsItsBase
<1>2. KeyVersionsOrdered'
  BY DEF HistoryInv, KeyVersionsOrdered
<1>3. CASE headRevision' = headRevision
  BY <1>1, <1>2, <1>3 DEF Extends, HistoryInv, ChainIsGapFree, RevisionExists, SealedBy
<1>4. CASE /\ headRevision' = req[r].base + 1 /\ req[r].base = headRevision
           /\ Landed(req[r]) /\ req[r].kv <= keyVersion' /\ ~Transactions
  <2>1. Extends
    BY <1>1, <1>4 DEF Extends
  <2>2. \A n \in 1..headRevision' : RevisionExists(n)
    BY <1>1, <1>4 DEF Landed, RevisionExists, HistoryInv, ChainIsGapFree
  <2>3. ChainIsGapFree'
    BY <1>1, <1>4, <2>2 DEF RevisionExists, HistoryInv, ChainIsGapFree
  <2>4. \A x \in revisions : x.n = headRevision + 1 => x.kv = req[r].kv
    BY <1>4 DEF Landed, HistoryInv, ChainIsGapFree
  <2>5. SealedBy(headRevision, keyVersion)'
    BY <1>1, <1>4, <2>4, HistoryTypes DEF HistoryInv, SealedBy
  <2> QED
    BY <1>1, <1>2, <1>4, <2>1, <2>3, <2>5 DEF HistoryInv, SealedBy
<1>5. \/ headRevision' = headRevision
      \/ /\ headRevision' = req[r].base + 1 /\ req[r].base = headRevision
         /\ Landed(req[r]) /\ req[r].kv <= keyVersion' /\ ~Transactions
  BY <1>1 DEF BumpHead, Raised
<1> QED
  BY <1>3, <1>4, <1>5

\* With the documents in order, it remains to look at the slot that moved.
LEMMA MovedSlot ==
  ASSUME TypeInv, HistoryInv, NEW r \in Requests, NEW q \in Request, Continue(r, q),
         Extends, KnowsItsBase(q)', ChainIsGapFree', KeyVersionsOrdered',
         SealedBy(headRevision, keyVersion)',
         \A c \in Changes : /\ changes'[c].base <= headRevision'
                            /\ changes'[c].kv <= keyVersion'
                            /\ SealedBy(changes[c].base, changes[c].kv)'
  PROVE  HistoryInv'
<1>1. \A p \in Requests : req'[p] = req[p] \/ req'[p] = q
  BY DEF Continue, TypeInv, WellFormed
<1>2. ASSUME NEW p \in Requests PROVE KnowsItsBase(req[p])'
  <2>1. PICK o \in Request : o = req[p] /\ KnowsItsBase(o)
    BY DEF TypeInv, WellFormed, HistoryInv
  <2>2. KnowsItsBase(o)'
    BY <2>1, KnowledgeStays
  <2>3. PICK n : n = req'[p]
    OBVIOUS
  <2>4. KnowsItsBase(n)'
    BY <1>1, <2>1, <2>2, <2>3
  <2> QED
    BY <2>3, <2>4 DEF KnowsItsBase, SealedBy, Landed, HasRevision
<1> QED
  BY <1>2 DEF HistoryInv, SealedBy

LEMMA IdleKnows ==
  ASSUME TypeInv, HistoryInv, Extends
  PROVE  Idle \in Request /\ KnowsItsBase(Idle)'
BY IdleType, FreshKnows, KnowledgeStays DEF Idle

\* A request whose revision has just landed knows that it has.
LEMMA LandedKnows ==
  ASSUME TypeInv, HistoryInv, NEW r \in Requests, NEW q \in Request, Extends,
         q.base = req[r].base, q.kv = req[r].kv, Landed(q)', ~Transactions,
         \/ q.step = "bump" /\ req[r].step = "write"
         \/ q.step = "rekeyCommit" /\ req[r].step = "rekeyRevision"
  PROVE  KnowsItsBase(q)'
<1>1. /\ req[r].base <= headRevision /\ SealedBy(req[r].base, req[r].kv)
      /\ req[r].step = "write" => req[r].kv <= keyVersion
  BY DEF HistoryInv, KnowsItsBase
<1>2. q.base \in Nat /\ q.kv \in Nat /\ headRevision \in Nat /\ keyVersion \in Nat
  BY HistoryTypes DEF Request
<1>3. SealedBy(q.base, q.kv)'
  BY <1>1, <1>2 DEF SealedBy, Extends
<1> QED
  BY <1>1, <1>2, <1>3 DEF KnowsItsBase, Extends, Landed

LEMMA HistoryChain ==
  ASSUME TypeInv, HistoryInv, TypeInv', NEW r \in Requests,
         \/ WriteRevision(r) \/ WriteHead(r) \/ RekeyTx(r) \/ RekeyRevision(r)
         \/ RekeyCommit(r)
  PROVE  HistoryInv'
<1>0. /\ req[r] \in Request /\ KnowsItsBase(req[r]) /\ headRevision \in Nat
      /\ keyVersion \in Nat /\ keyVersion' \in Nat /\ req[r].base \in Nat
      /\ req[r].kv \in Nat
  BY DEF TypeInv, WellFormed, TypeOK, StoreTypeOK, HistoryInv, Request
<1>1. ASSUME NEW s \in Steps PROVE
        /\ [req[r] EXCEPT !.step = s] \in Request
        /\ [req[r] EXCEPT !.step = s].base = req[r].base
        /\ [req[r] EXCEPT !.step = s].kv = req[r].kv
        /\ [req[r] EXCEPT !.step = s].step = s
  BY <1>0 DEF Request
<1>2. CASE WriteRevision(r)
  <2>1. /\ InsertRevision(RevisionOf(req[r])) /\ UNCHANGED <<keyVersion, changes>>
        /\ req[r].step = "write" /\ req[r].kv <= keyVersion /\ req[r].base = headRevision
    BY <1>0, <1>2, OnTop DEF WriteRevision, At, KnowsItsBase, InsertRevision, RevisionOf
  <2>2. CASE Transactions /\ BumpHead(req[r].base + 1) /\ Return(r)
    <3>1. headRevision' = headRevision + 1
      BY <1>0, <2>1, <2>2 DEF BumpHead, Raised
    <3> QED
      BY <1>0, <2>1, <2>2, <3>1, AppendKeepsOrder, IdleKnows, MovedSlot DEF Return
  <2>3. CASE ~Transactions /\ UNCHANGED headRevision /\ GoTo(r, "bump")
    <3>1. PICK q \in Request : /\ q = [req[r] EXCEPT !.step = "bump"]
                             /\ q.base = req[r].base /\ q.kv = req[r].kv /\ q.step = "bump"
      BY <1>1 DEF Steps
    <3>2. /\ Extends /\ ChainIsGapFree' /\ KeyVersionsOrdered'
          /\ SealedBy(headRevision, keyVersion)'
          /\ \A c \in Changes : /\ changes'[c].base <= headRevision'
                                /\ changes'[c].kv <= keyVersion'
                                /\ SealedBy(changes[c].base, changes[c].kv)'
          /\ \E x \in revisions' : x.n = req[r].base + 1 /\ x.kv = req[r].kv
      BY <1>0, <2>1, <2>3, AppendKeepsOrder
    <3>3. KnowsItsBase(q)'
      BY <2>1, <2>3, <3>1, <3>2, LandedKnows DEF Landed
    <3> QED
      BY <2>3, <3>1, <3>2, <3>3, MovedSlot DEF GoTo
  <2> QED
    BY <1>2, <2>2, <2>3 DEF WriteRevision
<1>3. CASE WriteHead(r)
  <2>1. /\ BumpHead(req[r].base + 1) /\ Return(r) /\ UNCHANGED <<keyVersion, revisions, changes>>
        /\ Landed(req[r]) /\ req[r].kv <= keyVersion /\ ~Transactions
    BY <1>0, <1>3 DEF WriteHead, At, KnowsItsBase
  <2> QED
    BY <1>0, <2>1, HeadKeepsOrder, IdleKnows, MovedSlot DEF Return
<1>7. ASSUME Extends, ChainIsGapFree', KeyVersionsOrdered', SealedBy(headRevision, keyVersion)',
             \A c \in Changes : /\ changes'[c].base <= headRevision'
                               /\ changes'[c].kv <= keyVersion'
                               /\ SealedBy(changes[c].base, changes[c].kv)',
             \/ Return(r) \/ GoTo(r, "rekeyRevoke") \/ GoTo(r, "rollback")
      PROVE  HistoryInv'
  <2>1. CASE Return(r)
    BY <1>7, <2>1, IdleKnows, MovedSlot DEF Return
  <2>2. ASSUME NEW s \in {"rekeyRevoke", "rollback"}, GoTo(r, s) PROVE HistoryInv'
    <3>1. PICK q \in Request : /\ q = [req[r] EXCEPT !.step = s]
                             /\ q.base = req[r].base /\ q.kv = req[r].kv /\ q.step = s
      BY <1>1, <2>2 DEF Steps
    <3>2. KnowsItsBase(q)
      BY <1>0, <2>2, <3>1 DEF KnowsItsBase
    <3>3. KnowsItsBase(q)'
      BY <1>7, <3>2, KnowledgeStays
    <3> QED
      BY <1>7, <2>2, <3>1, <3>3, MovedSlot DEF GoTo
  <2> QED
    BY <1>7, <2>1, <2>2
<1>4. CASE RekeyTx(r)
  <2>1. /\ keyVersion' = req[r].kv /\ keyVersion = req[r].kv - 1 /\ UNCHANGED changes
        /\ BumpHead(RekeyHead(req[r]))
        /\ Return(r) \/ GoTo(r, "rollback")
        /\ IF HasRevision(req[r]) THEN InsertRevision(RevisionOf(req[r]))
                                  ELSE UNCHANGED revisions
    BY <1>4 DEF RekeyTx, CommitRekey, CommitUnheard
  <2>2. CASE HasRevision(req[r])
    <3>1. InsertRevision(RevisionOf(req[r])) /\ req[r].base = headRevision
      BY <2>1, <2>2, OnTop DEF InsertRevision, RevisionOf
    <3>2. headRevision' = headRevision + 1
      BY <1>0, <2>1, <2>2, <3>1 DEF BumpHead, Raised, RekeyHead
    <3> QED
      BY <1>0, <1>7, <2>1, <3>1, <3>2, AppendKeepsOrder
  <2>3. CASE ~HasRevision(req[r])
    BY <1>0, <1>7, <2>1, <2>3, HeadKeepsOrder DEF RekeyHead
  <2> QED
    BY <2>2, <2>3
<1>5. CASE RekeyRevision(r)
  <2>1. /\ UNCHANGED <<keyVersion, headRevision, changes>> /\ ~Transactions
        /\ req[r].step = "rekeyRevision"
    BY <1>0, <1>5 DEF RekeyRevision, At, KnowsItsBase
  <2>2. CASE InsertRevision(RevisionOf(req[r])) /\ GoTo(r, "rekeyCommit")
    <3>1. PICK q \in Request : /\ q = [req[r] EXCEPT !.step = "rekeyCommit"]
                             /\ q.base = req[r].base /\ q.kv = req[r].kv
                             /\ q.step = "rekeyCommit"
      BY <1>1 DEF Steps
    <3>2. /\ Extends /\ ChainIsGapFree' /\ KeyVersionsOrdered'
          /\ SealedBy(headRevision, keyVersion)'
          /\ \A c \in Changes : /\ changes'[c].base <= headRevision'
                                /\ changes'[c].kv <= keyVersion'
                                /\ SealedBy(changes[c].base, changes[c].kv)'
          /\ \E x \in revisions' : x.n = req[r].base + 1 /\ x.kv = req[r].kv
      BY <1>0, <2>1, <2>2, AppendKeepsOrder
    <3>3. KnowsItsBase(q)'
      BY <2>1, <3>1, <3>2, LandedKnows DEF Landed
    <3> QED
      BY <2>2, <3>1, <3>2, <3>3, MovedSlot DEF GoTo
  <2>3. CASE GoTo(r, "rollback") /\ UNCHANGED revisions
    BY <2>1, <2>3, GoToHistory DEF ChainUntouched, Steps
  <2> QED
    BY <1>5, <2>2, <2>3 DEF RekeyRevision
<1>6. CASE RekeyCommit(r)
  <2>1. UNCHANGED <<revisions, changes>> /\ ~Transactions
        /\ (HasRevision(req[r]) => Landed(req[r]))
    BY <1>0, <1>6 DEF RekeyCommit, At, KnowsItsBase
  <2>2. CASE /\ CommitRekey(req[r].kv - 1, req[r].kv, RekeyHead(req[r]))
             /\ \/ IF req[r].tokens = {} THEN Return(r) ELSE GoTo(r, "rekeyRevoke")
                \/ CommitUnheard(r)
    <3>1. /\ keyVersion' = req[r].kv /\ keyVersion <= keyVersion'
          /\ BumpHead(RekeyHead(req[r]))
      BY <1>0, <2>2 DEF CommitRekey
    <3>2. /\ Extends /\ ChainIsGapFree' /\ KeyVersionsOrdered'
          /\ SealedBy(headRevision, keyVersion)'
          /\ \A c \in Changes : /\ changes'[c].base <= headRevision'
                                /\ changes'[c].kv <= keyVersion'
                                /\ SealedBy(changes[c].base, changes[c].kv)'
      BY <1>0, <2>1, <3>1, HeadKeepsOrder DEF RekeyHead
    <3> QED
      BY <1>7, <2>2, <3>2 DEF CommitUnheard
  <2>3. CASE GoTo(r, "rollback") /\ UNCHANGED <<keyVersion, headRevision>>
    BY <2>1, <2>3, GoToHistory DEF ChainUntouched, Steps
  <2> QED
    BY <1>6, <2>2, <2>3 DEF RekeyCommit
<1> QED
  BY <1>2, <1>3, <1>4, <1>5, <1>6

LEMMA HistoryNext == TypeInv /\ HistoryInv /\ [Next]_vars => HistoryInv'
<1> SUFFICES ASSUME TypeInv, HistoryInv, [Next]_vars PROVE HistoryInv'
  OBVIOUS
<1>0. TypeInv'
  BY TypeNext
<1>1. ASSUME NEW r \in Requests, Command(r) PROVE HistoryInv'
  BY <1>0, <1>1, HistoryReviews, HistoryQuiet, HistoryChain DEF Command
<1>2. ASSUME NEW r \in Requests, NEW u \in Users, Writes(r, u) \/ Sharing(r, u)
      PROVE  HistoryInv'
  BY <1>0, <1>2, HistoryWrites, HistorySharing
<1>3. ASSUME NEW u \in Users, Immediate(u) PROVE HistoryInv'
  BY <1>3, HistoryImmediate
<1>4. CASE UNCHANGED vars \/ \E m \in Machines : ExpireMachine(m)
  <2>1. UNCHANGED <<headRevision, keyVersion, revisions, changes, req>>
    BY <1>4 DEF vars, storeVars, ExpireMachine
  <2> QED
    BY <2>1 DEF HistoryInv, ChainIsGapFree, RevisionExists, KeyVersionsOrdered,
       SealedBy, KnowsItsBase, Landed, HasRevision
<1> QED
  BY <1>1, <1>2, <1>3, <1>4 DEF Next

LEMMA HistoryCorrect == Spec => []HistoryInv
BY TypeInit, TypeNext, HistoryInit, HistoryNext, TypeCorrect, PTL DEF Spec

(* Every revision number up to the head is taken exactly once, whatever    *)
(* the number of concurrent requests, with and without transactions and    *)
(* faults: the unique index on the number and the base check are enough.   *)
THEOREM ChainCorrect == Spec => []ChainIsGapFree
<1>1. HistoryInv => ChainIsGapFree
  BY DEF HistoryInv
<1> QED
  BY <1>1, HistoryCorrect, PTL

(* No snapshot sealed under an old key ever lands above a newer one, though *)
(* the key version is checked long before the revision is inserted: what   *)
(* makes it so is that a write carries the key version of its own base.    *)
THEOREM KeyOrderCorrect == Spec => []KeyVersionsOrdered
<1>1. HistoryInv => KeyVersionsOrdered
  BY DEF HistoryInv
<1> QED
  BY <1>1, HistoryCorrect, PTL

----------------------------------------------------------------------------
(* The log *)

LEMMA ChainStepExtends ==
  ASSUME TypeInv, HistoryInv, TypeInv', NEW r \in Requests,
         \/ WriteRevision(r) \/ WriteHead(r) \/ RekeyTx(r) \/ RekeyRevision(r)
         \/ RekeyCommit(r)
  PROVE  Extends /\ headRevision' <= headRevision + 1
<1>1. /\ headRevision \in Nat /\ keyVersion \in Nat /\ req[r].base \in Nat
      /\ req[r].kv \in Nat /\ req[r].base <= headRevision
  BY HistoryTypes DEF HistoryInv, KnowsItsBase
<1>2. keyVersion' = keyVersion \/ (keyVersion = req[r].kv - 1 /\ keyVersion' = req[r].kv)
  BY DEF WriteRevision, WriteHead, RekeyTx, RekeyRevision, RekeyCommit, CommitRekey
<1>3. headRevision' = headRevision \/ BumpHead(req[r].base) \/ BumpHead(req[r].base + 1)
  BY DEF WriteRevision, WriteHead, RekeyTx, RekeyRevision, RekeyCommit, CommitRekey, RekeyHead
<1>4. revisions' = revisions \/ InsertRevision(RevisionOf(req[r]))
  BY DEF WriteRevision, WriteHead, RekeyTx, RekeyRevision, RekeyCommit
<1>5. \A x \in revisions' : x \in revisions \/ x.n = headRevision + 1
  <2>1. CASE InsertRevision(RevisionOf(req[r]))
    <3>1. RevisionOf(req[r]).n = req[r].base + 1
      BY DEF RevisionOf
    <3>2. req[r].base = headRevision
      BY <2>1, <3>1, OnTop DEF InsertRevision
    <3> QED
      BY <2>1, <3>1, <3>2 DEF InsertRevision
  <2> QED
    BY <1>4, <2>1
<1>6. \A x \in revisions : x \in revisions'
  BY <1>4 DEF InsertRevision
<1> QED
  BY <1>1, <1>2, <1>3, <1>5, <1>6 DEF Extends, BumpHead, Raised

\* In every step revisions are only added, above the head, and the head moves
\* up by at most one.
LEMMA StepExtends ==
  ASSUME TypeInv, HistoryInv, TypeInv', HistoryInv', [Next]_vars
  PROVE  Extends /\ headRevision' <= headRevision + 1
<1>0. headRevision \in Nat /\ keyVersion \in Nat
  BY HistoryTypes
<1>1. ASSUME UNCHANGED <<headRevision, keyVersion, revisions>>
      PROVE  Extends /\ headRevision' <= headRevision + 1
  BY <1>0, <1>1 DEF Extends
<1>2. ASSUME NEW r \in Requests, Command(r)
      PROVE  Extends /\ headRevision' <= headRevision + 1
  <2>1. CASE WriteRevision(r) \/ WriteHead(r) \/ RekeyTx(r) \/ RekeyRevision(r) \/ RekeyCommit(r)
    BY <2>1, ChainStepExtends
  <2>2. CASE UNCHANGED <<headRevision, keyVersion, revisions>>
    BY <1>1, <2>2
  <2>3. \/ WriteRevision(r) \/ WriteHead(r) \/ RekeyTx(r) \/ RekeyRevision(r) \/ RekeyCommit(r)
        \/ UNCHANGED <<headRevision, keyVersion, revisions>>
    BY <1>2 DEF Command, InsertChangeRequest, ApproveTransition, MarkStale, WriteConflict,
       RekeyRecipients, RekeyTxAborts, RekeyGrants, RekeyRevoke, RekeyUngrant, Rollback,
       ShareGrants, WriteMember, DeleteMember, Ungrant, FlagRekey, DeleteBundle,
       EnrollMachine, UndoEnroll, Abort, storeVars
  <2> QED
    BY <2>1, <2>2, <2>3
<1>3. ASSUME NEW r \in Requests, NEW u \in Users, Writes(r, u) \/ Sharing(r, u)
      PROVE  UNCHANGED <<headRevision, keyVersion, revisions>>
  BY <1>3 DEF Writes, PushRevision, CreateChangeRequest, ApproveChangeRequest, Rekey, Sharing,
     CreateGrants, UpdateMember, RemoveMember, CreateMachine, RevokeMachine, ResetKeys,
     storeVars
<1>4. ASSUME NEW u \in Users, Immediate(u)
      PROVE  UNCHANGED <<headRevision, keyVersion, revisions>>
  BY <1>4 DEF Immediate, RejectChangeRequest, AddMember, RegisterMachine, PatchEnvironment,
     PutKeys
<1>5. CASE UNCHANGED vars \/ \E m \in Machines : ExpireMachine(m)
  BY <1>1, <1>5 DEF vars, storeVars, ExpireMachine
<1> QED
  BY <1>1, <1>2, <1>3, <1>4, <1>5 DEF Next

----------------------------------------------------------------------------
(* Change requests *)

LEMMA ReviewTypes ==
  ASSUME TypeInv
  PROVE  /\ changes \in [Changes -> Change] /\ revisions \in SUBSET Revision
         /\ \A r \in Requests : req[r] \in Request /\ Complete(req[r])
         /\ \A c \in Changes : changes[c].status # "absent" => changes[c].author \in Users
BY DEF TypeInv, WellFormed, TypeOK, StoreTypeOK

\* What any step that writes change requests or revisions must see to.
LEMMA ReviewSplit ==
  ASSUME TypeInv, ReviewInv, NEW r \in Requests, NEW q, Continue(r, q),
         ReviewedByAnother', KnowsItsReview(q)',
         \A p \in Requests \ {r} : \A o \in Request : o = req[p] => KnowsItsReview(o)',
         Merging(q) => \A p \in Requests \ {r} : ~(Merging(req[p]) /\ req[p].change = q.change)
  PROVE  ReviewInv'
<1>1. \A p \in Requests : req'[p] = IF p = r THEN q ELSE req[p]
  BY DEF Continue, TypeInv, WellFormed
<1>2. ASSUME NEW p \in Requests PROVE KnowsItsReview(req[p])'
  <2>1. PICK n : n = req'[p]
    OBVIOUS
  <2>2. KnowsItsReview(n)'
    BY <1>1, <2>1, ReviewTypes
  <2> QED
    BY <2>1, <2>2 DEF KnowsItsReview, Merging, Merged, RevisionExists
<1>3. \A p, s \in Requests :
        Merging(req'[p]) /\ Merging(req'[s]) /\ req'[p].change = req'[s].change => p = s
  BY <1>1 DEF ReviewInv
<1> QED
  BY <1>2, <1>3 DEF ReviewInv, Merging

\* A handler that writes neither change requests nor revisions.
LEMMA OwnSlotReview ==
  ASSUME TypeInv, ReviewInv, NEW r \in Requests, NEW q \in Request, Continue(r, q),
         UNCHANGED <<changes, revisions>>, KnowsItsReview(q),
         Merging(q) => Merging(req[r]) /\ q.change = req[r].change
  PROVE  ReviewInv'
<1>1. \A o \in Request : KnowsItsReview(o) => KnowsItsReview(o)'
  BY DEF KnowsItsReview, Merging, Merged, RevisionExists
<1>2. \A p \in Requests \ {r} : \A o \in Request : o = req[p] => KnowsItsReview(o)'
  BY <1>1 DEF ReviewInv
<1>3. ReviewedByAnother'
  BY DEF ReviewInv, ReviewedByAnother
<1> QED
  BY <1>1, <1>2, <1>3, ReviewSplit DEF ReviewInv

LEMMA ReturnReview ==
  ASSUME TypeInv, ReviewInv, NEW r \in Requests, Return(r), UNCHANGED <<changes, revisions>>
  PROVE  ReviewInv'
<1>1. KnowsItsReview(Idle) /\ ~Merging(Idle)
  BY DEF KnowsItsReview, Merging, Idle
<1> QED
  BY <1>1, IdleType, OwnSlotReview DEF Return

LEMMA GoToReview ==
  ASSUME TypeInv, ReviewInv, NEW r \in Requests, UNCHANGED <<changes, revisions>>,
         NEW s \in Steps \ {"approve", "write", "staleApproved", "recipients", "rekey"},
         s = "rekeyRevision" => req[r].change = None, GoTo(r, s)
  PROVE  ReviewInv'
<1> DEFINE q == [req[r] EXCEPT !.step = s]
<1>1. q \in Request /\ q.step = s /\ q.change = req[r].change
  BY ReviewTypes DEF Request
<1>2. KnowsItsReview(q) /\ ~Merging(q)
  BY <1>1 DEF KnowsItsReview, Merging
<1> QED
  BY <1>1, <1>2, OwnSlotReview DEF GoTo

LEMMA ReviewInit == Init => ReviewInv
<1> SUFFICES ASSUME Init PROVE ReviewInv
  OBVIOUS
<1>1. revisions = {} /\ \A r \in Requests : req[r] = Idle
  BY DEF Init, StoreInit
<1> QED
  BY <1>1 DEF ReviewInv, ReviewedByAnother, KnowsItsReview, Merging, Idle

LEMMA ReviewWrites ==
  ASSUME TypeInv, ReviewInv, NEW r \in Requests, NEW u \in Users, Writes(r, u)
  PROVE  ReviewInv'
<1>0. UNCHANGED <<changes, revisions>>
  BY DEF Writes, PushRevision, CreateChangeRequest, ApproveChangeRequest, Rekey, storeVars
<1>1. ASSUME NEW s \in Submission(u), NEW to \in {"write", "propose"},
             Continue(r, [s EXCEPT !.step = to])
      PROVE  ReviewInv'
  <2> DEFINE q == [s EXCEPT !.step = to]
  <2>1. s \in Request /\ s.change = None
    BY SubmissionType DEF Submission, Idle, TypeInv
  <2>2. q \in Request /\ q.step = to /\ q.change = None
    BY <2>1 DEF Request, Steps
  <2>3. KnowsItsReview(q) /\ ~Merging(q)
    BY <2>2 DEF KnowsItsReview, Merging
  <2> QED
    BY <1>0, <1>1, <2>2, <2>3, OwnSlotReview
<1>2. ASSUME NEW c \in Changes, ApproveChangeRequest(r, u, c) PROVE ReviewInv'
  <2> DEFINE q == [Idle EXCEPT
       !.step = IF changes[c].base = headRevision THEN "approve" ELSE "stalePending",
       !.by = u, !.change = c,
       !.base = changes[c].base, !.kv = changes[c].kv, !.dek = changes[c].dek]
  <2>1. changes[c] \in Change /\ changes[c].author # u
    BY <1>2, ReviewTypes DEF ApproveChangeRequest, MayApprove
  <2>2. /\ q \in Request /\ q.base = changes[c].base /\ q.change = c /\ q.by = u
        /\ q.step \in {"approve", "stalePending"}
    BY <2>1, IdleType DEF Request, Steps, Idle, Change
  <2>3. KnowsItsReview(q) /\ ~Merging(q)
    BY <2>1, <2>2 DEF KnowsItsReview, Merging
  <2>4. Continue(r, q)
    BY <1>2 DEF ApproveChangeRequest
  <2> QED
    BY <1>0, <2>2, <2>3, <2>4, OwnSlotReview
<1>3. ASSUME Rekey(r, u) PROVE ReviewInv'
  <2> DEFINE q == [Idle EXCEPT !.step = "recipients", !.by = u,
       !.base = headRevision, !.kv = keyVersion + 1, !.dek = minted + 1]
  <2>1. headRevision \in Nat /\ keyVersion + 1 \in Nat /\ minted + 1 \in Nat
    BY DEF TypeInv, TypeOK, StoreTypeOK
  <2>2. q \in Request /\ q.step = "recipients" /\ q.change = None
    BY <2>1 DEF Request, Steps, Roles, Permissions, Idle
  <2>3. KnowsItsReview(q) /\ ~Merging(q)
    BY <2>2 DEF KnowsItsReview, Merging
  <2>4. Continue(r, q)
    BY <1>3 DEF Rekey
  <2> QED
    BY <1>0, <2>2, <2>3, <2>4, OwnSlotReview
<1> QED
  BY <1>1, <1>2, <1>3 DEF Writes, PushRevision, CreateChangeRequest

LEMMA ReviewSharing ==
  ASSUME TypeInv, ReviewInv, TypeInv', NEW r \in Requests, NEW u \in Users, Sharing(r, u)
  PROVE  ReviewInv'
<1>1. UNCHANGED <<changes, revisions>>
  BY DEF Sharing, CreateGrants, UpdateMember, RemoveMember, CreateMachine, RevokeMachine,
         ResetKeys, storeVars
<1>2. PICK q \in Request : q = req'[r] /\ Continue(r, q)
  <2>1. req'[r] \in Request /\ Continue(r, req'[r])
    BY DEF Sharing, CreateGrants, UpdateMember, RemoveMember, CreateMachine, RevokeMachine,
           ResetKeys, Continue, TypeInv, WellFormed
  <2> QED
    BY <2>1
<1>3. q.step \in {"share", "update", "remove", "ungrant", "deleteBundle", "enroll"}
  <2>1. ASSUME NEW m \in Machines, CreateMachine(r, u, m) PROVE q.step = "enroll"
    <3>1. PICK s \in Submission(u) :
            Continue(r, [s EXCEPT !.step = "enroll", !.who = m, !.to = {m}])
      BY <2>1 DEF CreateMachine
    <3>2. q = [s EXCEPT !.step = "enroll", !.who = m, !.to = {m}]
      BY <1>2, <3>1 DEF Continue, TypeInv, WellFormed
    <3>3. s \in Request
      BY SubmissionType DEF TypeInv
    <3> QED
      BY <3>2, <3>3 DEF Request
  <2> QED
    BY <1>2, <2>1, FreshSlot
<1>4. KnowsItsReview(q) /\ ~Merging(q)
  BY <1>3 DEF KnowsItsReview, Merging
<1> QED
  BY <1>1, <1>2, <1>4, OwnSlotReview

LEMMA ReviewQuiet ==
  ASSUME TypeInv, ReviewInv, NEW r \in Requests,
         \/ WriteConflict(r) \/ WriteHead(r) \/ RekeyRecipients(r) \/ RekeyTxAborts(r)
         \/ RekeyGrants(r) \/ RekeyCommit(r) \/ RekeyRevoke(r) \/ RekeyUngrant(r)
         \/ Rollback(r) \/ ShareGrants(r) \/ WriteMember(r) \/ DeleteMember(r) \/ Ungrant(r)
         \/ FlagRekey(r) \/ DeleteBundle(r) \/ EnrollMachine(r) \/ UndoEnroll(r) \/ Abort(r)
  PROVE  ReviewInv'
<1>0. req[r] \in Request /\ KnowsItsReview(req[r])
  BY ReviewTypes DEF ReviewInv
<1>1. UNCHANGED <<changes, revisions>>
  BY DEF WriteConflict, WriteHead, RekeyRecipients, RekeyTxAborts, RekeyGrants, RekeyCommit,
         RekeyRevoke, RekeyUngrant, Rollback, ShareGrants, WriteMember, DeleteMember, Ungrant,
         FlagRekey, DeleteBundle, EnrollMachine, UndoEnroll, Abort, storeVars
<1>2. CASE Return(r)
  BY <1>1, <1>2, ReturnReview
<1>3. ASSUME NEW s \in {"rollback", "ungrant", "flag", "enrollGrant", "rekeyRevoke",
                        "rekeyUngrant", "rekeyCommit"}, GoTo(r, s)
      PROVE  ReviewInv'
  BY <1>1, <1>3, GoToReview DEF Steps
<1>4. CASE RekeyRecipients(r)
  <2>0. PICK ts \in ListedTokens :
          Continue(r, [req[r] EXCEPT !.step = "rekey", !.to = Entitled, !.tokens = ts])
    BY <1>4 DEF RekeyRecipients
  <2> DEFINE q == [req[r] EXCEPT !.step = "rekey", !.to = Entitled, !.tokens = ts]
  <2>1. Entitled \in SUBSET Recipients /\ ts \in SUBSET Machines
    BY DEF Entitled, ActiveMachines, Recipients, ListedTokens
  <2>2. q \in Request /\ q.change = req[r].change /\ q.step = "rekey"
    BY <1>0, <2>1 DEF Request, Steps
  <2>3. KnowsItsReview(q) /\ ~Merging(q)
    BY <1>0, <1>4, <2>2 DEF RekeyRecipients, At, KnowsItsReview, Merging
  <2> QED
    BY <1>1, <1>4, <2>0, <2>2, <2>3, OwnSlotReview DEF RekeyRecipients
<1>5. CASE RekeyGrants(r)
  <2>1. CASE HasRevision(req[r])
    <3>1. GoTo(r, "rekeyRevision") /\ req[r].change = None
      BY <1>0, <1>5, <2>1 DEF RekeyGrants, At, KnowsItsReview
    <3> QED
      BY <1>1, <3>1, GoToReview DEF Steps
  <2>2. CASE ~HasRevision(req[r])
    BY <1>3, <1>5, <2>2 DEF RekeyGrants
  <2> QED
    BY <2>1, <2>2
<1>6. CASE WriteConflict(r)
  <2>1. CASE req[r].change # None
    <3> DEFINE q == [req[r] EXCEPT !.step = "staleApproved"]
    <3>1. /\ q \in Request /\ q.step = "staleApproved" /\ q.change = req[r].change
          /\ q.base = req[r].base /\ q.by = req[r].by
      BY <1>0 DEF Request, Steps
    <3>2. req[r].step = "write" /\ RevisionExists(req[r].base + 1) /\ GoTo(r, "staleApproved")
      BY <1>6, <2>1 DEF WriteConflict, At
    <3>3. KnowsItsReview(q) /\ Merging(req[r])
      BY <1>0, <2>1, <3>1, <3>2 DEF KnowsItsReview, Merging
    <3> QED
      BY <1>1, <3>1, <3>2, <3>3, OwnSlotReview DEF GoTo
  <2> QED
    BY <1>2, <1>6, <2>1 DEF WriteConflict
<1>7. \/ Return(r) \/ RekeyRecipients(r) \/ RekeyGrants(r) \/ WriteConflict(r)
      \/ \E s \in {"rollback", "ungrant", "flag", "enrollGrant", "rekeyRevoke",
                   "rekeyUngrant", "rekeyCommit"} : GoTo(r, s)
  BY DEF WriteHead, RekeyTxAborts, RekeyCommit, CommitUnheard, RekeyRevoke, RekeyUngrant,
         Rollback, ShareGrants, WriteMember, DeleteMember, Ungrant, FlagRekey, DeleteBundle,
         EnrollMachine, UndoEnroll, Abort
<1> QED
  BY <1>2, <1>3, <1>4, <1>5, <1>6, <1>7

----------------------------------------------------------------------------
(* Filing and deciding *)

LEMMA ReviewFile ==
  ASSUME TypeInv, ReviewInv, NEW r \in Requests, NEW c \in Changes, InsertChangeRequest(r, c)
  PROVE  ReviewInv'
<1>1. /\ changes[c].status = "absent" /\ Return(r) /\ UNCHANGED revisions
      /\ \A d \in Changes \ {c} : changes'[d] = changes[d]
  BY ReviewTypes DEF InsertChangeRequest
<1>2. \A x \in revisions : x.change # None => x.change \in Changes \ {c}
  BY <1>1, ReviewTypes DEF ReviewInv, ReviewedByAnother, Revision
<1>3. ReviewedByAnother'
  BY <1>1, <1>2 DEF ReviewInv, ReviewedByAnother
<1>4. ASSUME NEW p \in Requests \ {r}, NEW o \in Request, o = req[p]
      PROVE  KnowsItsReview(o)'
  <2>1. KnowsItsReview(o) /\ Complete(o)
    BY <1>4, ReviewTypes DEF ReviewInv
  <2>2. o.change # None => o.change \in Changes /\ changes'[o.change] = changes[o.change]
    BY <1>1, <2>1 DEF Complete, Request
  <2>3. o.step = "approve" => o.change # None
    BY <2>1 DEF Complete
  <2> QED
    BY <1>1, <2>1, <2>2, <2>3 DEF KnowsItsReview, Merging, Merged, RevisionExists
<1>5. PICK q : q = Idle
  OBVIOUS
<1>6. KnowsItsReview(q)' /\ ~Merging(q) /\ Continue(r, q)
  BY <1>1, <1>5 DEF KnowsItsReview, Merging, Idle, Return
<1> QED
  BY <1>3, <1>4, <1>6, ReviewSplit

\* A decision on c by u that nobody else is about to act upon.
LEMMA DecisionReview ==
  ASSUME TypeInv, ReviewInv, NEW c \in Changes, NEW from \in {"pending", "approved"},
         NEW to \in Statuses \ {"absent"}, NEW u \in Users,
         TransitionChangeRequest(c, from, to, u), UNCHANGED revisions, ~Merged(c)
  PROVE  /\ ReviewedByAnother'
         /\ \A p \in Requests : ~(Merging(req[p]) /\ req[p].change = c) =>
              \A o \in Request : o = req[p] => KnowsItsReview(o)'
<1>1. \A d \in Changes \ {c} : changes'[d] = changes[d]
  BY ReviewTypes DEF TransitionChangeRequest
<1>2. changes'[c].author = changes[c].author /\ changes'[c].base = changes[c].base
  BY TransitionKeepsContent, TransitionType, ReviewTypes DEF OnlyDecides, Statuses
<1>3. ReviewedByAnother'
  <2>1. \A x \in revisions : x.change # None => x.change \in Changes \ {c}
    BY ReviewTypes DEF Merged, Revision
  <2> QED
    BY <1>1, <2>1 DEF ReviewInv, ReviewedByAnother
<1>4. ASSUME NEW p \in Requests, ~(Merging(req[p]) /\ req[p].change = c),
             NEW o \in Request, o = req[p]
      PROVE  KnowsItsReview(o)'
  <2>1. KnowsItsReview(o) /\ Complete(o)
    BY <1>4, ReviewTypes DEF ReviewInv
  <2>2. o.change # None => o.change \in Changes
    BY DEF Request
  <2>3. o.step = "approve" => o.change # None
    BY <2>1 DEF Complete
  <2>4. o.change # None => /\ changes'[o.change].author = changes[o.change].author
                           /\ changes'[o.change].base = changes[o.change].base
    BY <1>1, <1>2, <2>2
  <2>5. Merging(o) => o.change # None /\ changes'[o.change] = changes[o.change]
    BY <1>1, <1>4, <2>2 DEF Merging
  <2> QED
    BY <2>1, <2>3, <2>4, <2>5 DEF KnowsItsReview, Merging, Merged, RevisionExists
<1> QED
  BY <1>3, <1>4

LEMMA PendingIsUntouched ==
  ASSUME TypeInv, ReviewInv, NEW c \in Changes, changes[c].status = "pending"
  PROVE  /\ ~Merged(c)
         /\ \A p \in Requests : ~(Merging(req[p]) /\ req[p].change = c)
BY DEF ReviewInv, ReviewedByAnother, KnowsItsReview, Merged

LEMMA ReviewDecide ==
  ASSUME TypeInv, ReviewInv, TypeInv', NEW r \in Requests, ApproveTransition(r) \/ MarkStale(r)
  PROVE  ReviewInv'
<1>0. /\ req[r] \in Request /\ Complete(req[r]) /\ KnowsItsReview(req[r])
  BY ReviewTypes DEF ReviewInv
<1>1. UNCHANGED revisions /\ req[r].change \in Changes /\ req[r].by \in Users
  BY <1>0 DEF ApproveTransition, MarkStale, At, Complete
<1>2. CASE Return(r) /\ UNCHANGED changes
  BY <1>1, <1>2, ReturnReview
<1>3. CASE /\ req[r].step = "approve" /\ GoTo(r, "write")
           /\ TransitionChangeRequest(req[r].change, "pending", "approved", req[r].by)
  <2> DEFINE c == req[r].change
  <2>1. /\ changes[c].status = "pending" /\ ~Merged(c)
        /\ \A p \in Requests : ~(Merging(req[p]) /\ req[p].change = c)
    BY <1>1, <1>3, PendingIsUntouched DEF TransitionChangeRequest
  <2>2. /\ ReviewedByAnother'
        /\ \A p \in Requests : \A o \in Request : o = req[p] => KnowsItsReview(o)'
    BY <1>1, <1>3, <2>1, DecisionReview DEF Statuses
  <2>3. PICK q \in Request : /\ q = [req[r] EXCEPT !.step = "write"]
                           /\ q.step = "write" /\ q.change = c /\ q.by = req[r].by
                           /\ q.base = req[r].base
    <3>1. /\ [req[r] EXCEPT !.step = "write"] \in Request
          /\ [req[r] EXCEPT !.step = "write"].step = "write"
          /\ [req[r] EXCEPT !.step = "write"].change = c
          /\ [req[r] EXCEPT !.step = "write"].by = req[r].by
          /\ [req[r] EXCEPT !.step = "write"].base = req[r].base
      BY <1>0 DEF Request, Steps
    <3> QED
      BY <3>1
  <2>4. /\ changes'[c].status = "approved" /\ changes'[c].reviewer = q.by
        /\ changes'[c].author = changes[c].author /\ changes'[c].base = changes[c].base
    <3>1. changes'[c].status = "approved" /\ changes'[c].reviewer = req[r].by
      BY <1>1, <1>3, ReviewTypes DEF TransitionChangeRequest, Change
    <3>2. changes'[c].author = changes[c].author /\ changes'[c].base = changes[c].base
      BY <1>1, <1>3, TransitionKeepsContent, TransitionType DEF OnlyDecides, Statuses
    <3> QED
      BY <2>3, <3>1, <3>2
  <2>5. KnowsItsReview(q)'
    BY <1>0, <1>1, <1>3, <2>1, <2>3, <2>4 DEF KnowsItsReview, Merging, Merged
  <2> QED
    BY <1>3, <2>1, <2>2, <2>3, <2>5, ReviewSplit DEF GoTo
<1>4. ASSUME NEW from \in {"pending", "approved"}, Return(r),
             from = "approved" => req[r].step = "staleApproved",
             TransitionChangeRequest(req[r].change, from, "stale", req[r].by)
      PROVE  ReviewInv'
  <2> DEFINE c == req[r].change
  <2>1. ~Merged(c) /\ \A p \in Requests \ {r} : ~(Merging(req[p]) /\ req[p].change = c)
    <3>1. CASE from = "pending"
      BY <1>1, <1>4, <3>1, PendingIsUntouched DEF TransitionChangeRequest
    <3>2. CASE from = "approved"
      <4>1. Merging(req[r])
        BY <1>1, <1>4, <3>2 DEF Merging
      <4> QED
        BY <1>0, <4>1 DEF ReviewInv, KnowsItsReview
    <3> QED
      BY <3>1, <3>2
  <2>2. /\ ReviewedByAnother'
        /\ \A p \in Requests \ {r} : \A o \in Request : o = req[p] => KnowsItsReview(o)'
    BY <1>1, <1>4, <2>1, DecisionReview DEF Statuses
  <2>3. PICK q : q = Idle
    OBVIOUS
  <2>4. KnowsItsReview(q)' /\ ~Merging(q) /\ Continue(r, q)
    BY <1>4, <2>3 DEF KnowsItsReview, Merging, Idle, Return
  <2> QED
    BY <2>2, <2>4, ReviewSplit
<1> QED
  BY <1>2, <1>3, <1>4 DEF ApproveTransition, MarkStale, At

LEMMA ReviewImmediate ==
  ASSUME TypeInv, ReviewInv, NEW u \in Users, Immediate(u)
  PROVE  ReviewInv'
<1>1. CASE UNCHANGED <<changes, revisions, req>>
  BY <1>1 DEF ReviewInv, ReviewedByAnother, KnowsItsReview, Merging, Merged, RevisionExists
<1>2. ASSUME NEW c \in Changes, RejectChangeRequest(u, c) PROVE ReviewInv'
  <2>1. /\ TransitionChangeRequest(c, "pending", "rejected", u) /\ UNCHANGED <<revisions, req>>
        /\ changes[c].status = "pending"
    BY <1>2 DEF RejectChangeRequest, TransitionChangeRequest
  <2>2. /\ ReviewedByAnother'
        /\ \A p \in Requests : \A o \in Request : o = req[p] => KnowsItsReview(o)'
    BY <2>1, PendingIsUntouched, DecisionReview DEF Statuses
  <2>3. ASSUME NEW p \in Requests PROVE KnowsItsReview(req[p])'
    <3>1. PICK o \in Request : o = req[p]
      BY ReviewTypes
    <3>2. KnowsItsReview(o)' /\ o = req'[p]
      BY <2>1, <2>2, <3>1
    <3> QED
      BY <3>2 DEF KnowsItsReview, Merging, Merged, RevisionExists
  <2> QED
    BY <2>1, <2>2, <2>3 DEF ReviewInv, Merging
<1> QED
  BY <1>1, <1>2 DEF Immediate, AddMember, RegisterMachine, PatchEnvironment,
     PutKeys

----------------------------------------------------------------------------
(* Merging *)

LEMMA ReviewMerge ==
  ASSUME TypeInv, ReviewInv, TypeInv', NEW r \in Requests,
         WriteRevision(r) \/ RekeyTx(r) \/ RekeyRevision(r)
  PROVE  ReviewInv'
<1>0. /\ req[r] \in Request /\ Complete(req[r]) /\ KnowsItsReview(req[r])
  BY ReviewTypes DEF ReviewInv
<1>1. UNCHANGED changes
  BY DEF WriteRevision, RekeyTx, RekeyRevision
<1>2. PICK s \in {"idle", "bump", "rekeyCommit", "rollback"} :
        \/ Return(r) /\ s = "idle"
        \/ GoTo(r, s) /\ s # "idle"
  BY DEF WriteRevision, RekeyTx, CommitUnheard, RekeyRevision
<1>3. CASE UNCHANGED revisions
  BY <1>1, <1>2, <1>3, ReturnReview, GoToReview DEF Steps
<1>4. CASE InsertRevision(RevisionOf(req[r]))
  <2> DEFINE doc == RevisionOf(req[r])
             c == req[r].change
  <2>1. /\ revisions' = revisions \cup {doc} /\ doc.change = c /\ doc.n = req[r].base + 1
        /\ doc.author = IF c = None THEN req[r].by ELSE changes[c].author
    BY <1>4 DEF InsertRevision, RevisionOf
  <2>2. c # None => Merging(req[r])
    BY <1>0 DEF WriteRevision, RekeyTx, RekeyRevision, At, Merging, KnowsItsReview
  <2>3. c # None => c \in Changes /\ req[r].by \in Users
    BY <1>0, <2>2 DEF Request, Complete, Merging
  <2> HIDE DEF doc
  <2>4. ReviewedByAnother'
    BY <1>0, <1>1, <2>1, <2>2, <2>3 DEF KnowsItsReview, Merged, ReviewInv, ReviewedByAnother
  <2>5. ASSUME NEW p \in Requests \ {r}, NEW o \in Request, o = req[p]
        PROVE  KnowsItsReview(o)'
    <3>1. KnowsItsReview(o) /\ (Merging(o) => o.change # c)
      BY <2>2, <2>5 DEF ReviewInv, Merging
    <3> QED
      BY <1>1, <2>1, <3>1 DEF KnowsItsReview, Merging, Merged, RevisionExists
  <2>6. PICK q : Continue(r, q) /\ q.step = s
    BY <1>0, <1>2 DEF Return, GoTo, Idle, Request
  <2>7. KnowsItsReview(q)' /\ ~Merging(q)
    BY <2>6 DEF KnowsItsReview, Merging
  <2> QED
    BY <2>4, <2>5, <2>6, <2>7, ReviewSplit
<1> QED
  BY <1>3, <1>4 DEF WriteRevision, RekeyTx, RekeyRevision

LEMMA ReviewNext == TypeInv /\ ReviewInv /\ [Next]_vars => ReviewInv'
<1> SUFFICES ASSUME TypeInv, ReviewInv, [Next]_vars PROVE ReviewInv'
  OBVIOUS
<1>0. TypeInv'
  BY TypeNext
<1>1. ASSUME NEW r \in Requests, Command(r) PROVE ReviewInv'
  BY <1>0, <1>1, ReviewFile, ReviewDecide, ReviewMerge, ReviewQuiet DEF Command
<1>2. ASSUME NEW r \in Requests, NEW u \in Users, Writes(r, u) \/ Sharing(r, u)
      PROVE  ReviewInv'
  BY <1>0, <1>2, ReviewWrites, ReviewSharing
<1>3. ASSUME NEW u \in Users, Immediate(u) PROVE ReviewInv'
  BY <1>3, ReviewImmediate
<1>4. CASE UNCHANGED vars \/ \E m \in Machines : ExpireMachine(m)
  BY <1>4 DEF vars, storeVars, ExpireMachine, ReviewInv, ReviewedByAnother, KnowsItsReview,
     Merging, Merged, RevisionExists
<1> QED
  BY <1>1, <1>2, <1>3, <1>4 DEF Next

LEMMA ReviewCorrect == Spec => []ReviewInv
BY TypeInit, TypeNext, ReviewInit, ReviewNext, TypeCorrect, PTL DEF Spec

(* A revision that came from a change request was approved by somebody     *)
(* other than its author and no change request is merged twice, however    *)
(* many admins approve and reject it at once: TransitionChangeRequest is a *)
(* compare-and-set, and the one handler that wins it is alone until it has *)
(* merged or dropped the request.                                          *)
THEOREM ReviewedCorrect == Spec => []ReviewedByAnother
<1>1. ReviewInv => ReviewedByAnother
  BY DEF ReviewInv
<1> QED
  BY <1>1, ReviewCorrect, PTL

----------------------------------------------------------------------------
(* Decisions *)

\* What a step may do to one change request.
MayBecome(c) ==
  /\ <<changes[c].status, changes'[c].status>> \in Decisions
  /\ changes[c].status = "approved" => RevisionExists(changes[c].base + 1) /\ ~Merged(c)
  /\ changes[c].status # "absent" =>
       changes'[c] = [changes[c] EXCEPT !.status = changes'[c].status,
                                        !.reviewer = changes'[c].reviewer]

LEMMA TransitionDecides ==
  ASSUME TypeInv, NEW c \in Changes, NEW d \in Changes, NEW from, NEW to, NEW u,
         TransitionChangeRequest(c, from, to, u), <<from, to>> \in Decisions,
         from = "approved" => RevisionExists(changes[c].base + 1) /\ ~Merged(c),
         changes'[d] # changes[d]
  PROVE  MayBecome(d)
<1>1. d = c /\ changes[c].status = from
  BY ReviewTypes DEF TransitionChangeRequest
<1>2. changes[c] \in Change
  BY ReviewTypes
<1>3. changes'[c] = [changes[c] EXCEPT !.status = to, !.reviewer = u]
  BY <1>2, ReviewTypes DEF TransitionChangeRequest, Change
<1>4. changes'[c].status = to /\ changes'[c].reviewer = u
  BY <1>2, <1>3 DEF Change
<1> QED
  BY <1>1, <1>2, <1>3, <1>4 DEF MayBecome

\* Three handlers write change requests.
LEMMA Deciders ==
  ASSUME Next, changes' # changes
  PROVE  \/ \E r \in Requests, c \in Changes : InsertChangeRequest(r, c)
         \/ \E r \in Requests : ApproveTransition(r) \/ MarkStale(r)
         \/ \E u \in Users, c \in Changes : RejectChangeRequest(u, c)
<1>1. ASSUME NEW r \in Requests, Command(r)
      PROVE  \/ \E c \in Changes : InsertChangeRequest(r, c)
             \/ ApproveTransition(r) \/ MarkStale(r)
  BY <1>1 DEF Command, WriteRevision, WriteConflict, WriteHead, RekeyRecipients, RekeyTx,
     RekeyTxAborts, RekeyGrants, RekeyRevision, RekeyCommit, RekeyRevoke, RekeyUngrant,
     Rollback, ShareGrants, WriteMember, DeleteMember, Ungrant, FlagRekey, DeleteBundle,
     EnrollMachine, UndoEnroll, Abort, storeVars
<1>2. ASSUME NEW r \in Requests, NEW u \in Users, Writes(r, u) \/ Sharing(r, u)
      PROVE  FALSE
  BY <1>2 DEF Writes, Sharing, PushRevision, CreateChangeRequest, ApproveChangeRequest,
     Rekey, CreateGrants, UpdateMember, RemoveMember, CreateMachine, RevokeMachine,
     ResetKeys, storeVars
<1>3. ASSUME NEW u \in Users, Immediate(u)
      PROVE  \E c \in Changes : RejectChangeRequest(u, c)
  BY <1>3 DEF Immediate, AddMember, RegisterMachine, PatchEnvironment,
   PutKeys
<1>4. ASSUME NEW m \in Machines, ExpireMachine(m) PROVE FALSE
  BY <1>4 DEF ExpireMachine
<1> QED
  BY <1>1, <1>2, <1>3, <1>4 DEF Next

LEMMA DecisionsNext ==
  ASSUME TypeInv, ReviewInv, Next, NEW d \in Changes, changes'[d] # changes[d]
  PROVE  MayBecome(d)
<1>1. \/ \E r \in Requests, c \in Changes : InsertChangeRequest(r, c)
      \/ \E r \in Requests : ApproveTransition(r) \/ MarkStale(r)
      \/ \E u \in Users, c \in Changes : RejectChangeRequest(u, c)
  BY Deciders
<1>2. ASSUME NEW r \in Requests, NEW c \in Changes, InsertChangeRequest(r, c)
      PROVE  MayBecome(d)
  <2>1. d = c /\ changes[c].status = "absent" /\ changes'[c] = NewChange(req[r])
    BY <1>2, ReviewTypes DEF InsertChangeRequest
  <2> QED
    BY <2>1 DEF NewChange, MayBecome, Decisions
<1>3. ASSUME NEW r \in Requests, ApproveTransition(r) \/ MarkStale(r) PROVE MayBecome(d)
  <2>1. /\ req[r] \in Request /\ Complete(req[r]) /\ KnowsItsReview(req[r])
        /\ req[r].change \in Changes
    BY <1>3, ReviewTypes DEF ReviewInv, ApproveTransition, MarkStale, At, Complete
  <2>2. req[r].step = "staleApproved" =>
          RevisionExists(changes[req[r].change].base + 1) /\ ~Merged(req[r].change)
    BY <2>1 DEF KnowsItsReview, Merging
  <2>3. PICK from \in {"pending", "approved"}, to \in {"approved", "stale"} :
          /\ TransitionChangeRequest(req[r].change, from, to, req[r].by)
          /\ <<from, to>> \in Decisions
          /\ from = "approved" => req[r].step = "staleApproved"
    <3>1. CASE ApproveTransition(r)
      <4>1. TransitionChangeRequest(req[r].change, "pending", "approved", req[r].by)
        BY <3>1 DEF ApproveTransition
      <4> QED
        BY <4>1 DEF Decisions
    <3>2. CASE MarkStale(r)
      BY <3>2 DEF MarkStale, At, Decisions
    <3> QED
      BY <1>3, <3>1, <3>2
  <2> QED
    BY <2>1, <2>2, <2>3, TransitionDecides
<1>4. ASSUME NEW u \in Users, NEW c \in Changes, RejectChangeRequest(u, c)
      PROVE  MayBecome(d)
  BY <1>4, TransitionDecides DEF RejectChangeRequest, Decisions
<1> QED
  BY <1>1, <1>2, <1>3, <1>4

(* A rejected or stale change request never comes back, an approved one is *)
(* given up only when another revision took its place and never once it is *)
(* merged, and nobody rewrites what was reviewed.                          *)
THEOREM DecisionsCorrect == Spec => DecisionsAreFinal
<1>1. TypeInv /\ ReviewInv /\ [Next]_vars =>
        [\A c \in Changes : changes'[c] # changes[c] => MayBecome(c)]_vars
  BY DecisionsNext
<1>2. DecisionsAreFinal <=>
        [][\A c \in Changes : changes'[c] # changes[c] => MayBecome(c)]_vars
  BY DEF DecisionsAreFinal, MayBecome
<1> QED
  BY <1>1, <1>2, TypeCorrect, ReviewCorrect, PTL DEF Spec

----------------------------------------------------------------------------
(* Approvals *)

\* A handler that holds an approval of c, between its decision and its revision.
HoldsApproval(r, c) == req[r].change = c /\ req[r].step \in {"write", "staleApproved"}

\* Only its own next command takes an approval away from a handler, and that
\* merges the change request or drops it.
LEMMA HolderStep ==
  ASSUME TypeInv, ~Faults, Next, NEW c \in Changes, NEW r \in Requests, HoldsApproval(r, c),
         changes[c].status = "approved", changes'[c].status = "approved"
  PROVE  Merged(c)' \/ HoldsApproval(r, c)'
<1>0. /\ req[r] \in Request /\ req[r].step # "idle" /\ c # None
      /\ req \in [Requests -> Request] /\ changes \in [Changes -> Change]
  BY DEF HoldsApproval, TypeInv, WellFormed, TypeOK, StoreTypeOK
<1>1. ASSUME req'[r] = req[r] PROVE HoldsApproval(r, c)'
  BY <1>1 DEF HoldsApproval
<1>2. ASSUME NEW p \in Requests \ {r}, NEW q, Continue(p, q) PROVE req'[r] = req[r]
  BY <1>0, <1>2 DEF Continue
<1>3. ASSUME NEW p \in Requests, Command(p), p # r PROVE req'[r] = req[r]
  BY <1>0, <1>2, <1>3 DEF Command, InsertChangeRequest, ApproveTransition, MarkStale,
     WriteRevision, WriteConflict, WriteHead, RekeyRecipients, RekeyTx, RekeyTxAborts,
     RekeyGrants, RekeyRevision, RekeyCommit, RekeyRevoke, RekeyUngrant, Rollback,
     ShareGrants, WriteMember, DeleteMember, Ungrant, FlagRekey, DeleteBundle,
     EnrollMachine, UndoEnroll, Abort, CommitUnheard, Return, GoTo
<1>4. ASSUME NEW p \in Requests, NEW u \in Users, Writes(p, u) \/ Sharing(p, u)
      PROVE  req'[r] = req[r]
  <2>1. req[p] = Idle /\ \E q : Continue(p, q)
    BY <1>4 DEF Writes, Sharing, PushRevision, CreateChangeRequest, ApproveChangeRequest,
       Rekey, CreateGrants, UpdateMember, RemoveMember, CreateMachine, RevokeMachine,
       ResetKeys, Calls
  <2> QED
    BY <1>0, <1>2, <2>1 DEF Idle
<1>5. ASSUME NEW u \in Users, Immediate(u) PROVE req'[r] = req[r]
  BY <1>5 DEF Immediate, RejectChangeRequest, AddMember, RegisterMachine, PatchEnvironment,
     PutKeys
<1>6. ASSUME Command(r) PROVE WriteRevision(r) \/ WriteConflict(r) \/ MarkStale(r)
  BY <1>0, <1>6 DEF HoldsApproval, At, Command, InsertChangeRequest, ApproveTransition,
     WriteHead, RekeyRecipients, RekeyTx, RekeyTxAborts, RekeyGrants, RekeyRevision,
     RekeyCommit, RekeyRevoke, RekeyUngrant, Rollback, ShareGrants, WriteMember,
     DeleteMember, Ungrant, FlagRekey, DeleteBundle, EnrollMachine, UndoEnroll, Abort
<1>7. ASSUME WriteRevision(r) PROVE Merged(c)'
  <2>1. RevisionOf(req[r]) \in revisions' /\ RevisionOf(req[r]).change = c
    BY <1>7 DEF WriteRevision, InsertRevision, RevisionOf, HoldsApproval
  <2> QED
    BY <2>1 DEF Merged
<1>8. ASSUME WriteConflict(r) PROVE HoldsApproval(r, c)'
  <2>1. req'[r] = [req[r] EXCEPT !.step = "staleApproved"]
    BY <1>0, <1>8 DEF WriteConflict, HoldsApproval, GoTo, Continue
  <2>2. req'[r].step = "staleApproved" /\ req'[r].change = c
    BY <1>0, <2>1 DEF HoldsApproval, Request
  <2> QED
    BY <2>2 DEF HoldsApproval
<1>9. ASSUME MarkStale(r) PROVE FALSE
  <2>1. changes' = [changes EXCEPT ![c].status = "stale", ![c].reviewer = req[r].by]
    BY <1>9 DEF MarkStale, TransitionChangeRequest, HoldsApproval, At
  <2>2. changes'[c].status = "stale"
    BY <1>0, <2>1 DEF Change
  <2> QED
    BY <2>2
<1> QED
  BY <1>1, <1>3, <1>4, <1>5, <1>6, <1>7, <1>8, <1>9 DEF Next, ExpireMachine

\* Who approves a change request is about to merge it.
LEMMA ApproverHolds ==
  ASSUME TypeInv, Next, NEW c \in Changes, changes[c].status # "approved",
         changes'[c].status = "approved"
  PROVE  \E r \in Requests : HoldsApproval(r, c)'
<1>0. changes \in [Changes -> Change] /\ req \in [Requests -> Request]
  BY DEF TypeInv, TypeOK, StoreTypeOK
<1>1. ASSUME NEW d \in Changes, NEW from, NEW to, NEW u,
             TransitionChangeRequest(d, from, to, u)
      PROVE  d = c /\ to = "approved"
  BY <1>0, <1>1 DEF TransitionChangeRequest, Change
<1>2. ASSUME NEW r \in Requests, NEW d \in Changes, InsertChangeRequest(r, d) PROVE FALSE
  BY <1>0, <1>2 DEF InsertChangeRequest, NewChange
<1>3. ASSUME NEW u \in Users, NEW d \in Changes, RejectChangeRequest(u, d) PROVE FALSE
  BY <1>1, <1>3 DEF RejectChangeRequest
<1>4. ASSUME NEW r \in Requests, ApproveTransition(r) \/ MarkStale(r)
      PROVE  HoldsApproval(r, c)'
  <2>1. req[r] \in Request /\ req[r].change \in Changes
    BY <1>4 DEF TypeInv, WellFormed, Complete, ApproveTransition, MarkStale, At
  <2>2. ~MarkStale(r)
    BY <1>1, <2>1 DEF MarkStale
  <2>3. req[r].change = c /\ GoTo(r, "write")
    BY <1>1, <1>4, <2>1, <2>2 DEF ApproveTransition
  <2>4. req'[r] = [req[r] EXCEPT !.step = "write"]
    BY <1>0, <2>3 DEF GoTo, Continue
  <2>5. req'[r].step = "write" /\ req'[r].change = c
    BY <2>1, <2>3, <2>4 DEF Request
  <2> QED
    BY <2>5 DEF HoldsApproval
<1> QED
  BY <1>2, <1>3, <1>4, Deciders

(* An approved change request is merged, or the handler that approved it   *)
(* is still about to merge it or to mark it stale: the approval, written   *)
(* before and outside of the transaction that inserts the revision, is     *)
(* never forgotten by a handler that goes on.                              *)
THEOREM ApprovedCorrect == ASSUME ~Faults PROVE Spec => []ApprovedIsMerged
<1>1. Init => ApprovedIsMerged
  BY DEF Init, StoreInit, NoChange, ApprovedIsMerged
<1>2. TypeInv /\ HistoryInv /\ TypeInv' /\ HistoryInv' /\ ApprovedIsMerged /\ [Next]_vars
        => ApprovedIsMerged'
  <2> SUFFICES ASSUME TypeInv, HistoryInv, TypeInv', HistoryInv', ApprovedIsMerged,
                      [Next]_vars, NEW c \in Changes, changes'[c].status = "approved"
               PROVE  Merged(c)' \/ \E r \in Requests : HoldsApproval(r, c)'
    BY DEF ApprovedIsMerged, HoldsApproval
  <2>1. Merged(c) => Merged(c)'
    BY StepExtends DEF Extends, Merged
  <2>2. ASSUME UNCHANGED vars PROVE Merged(c)' \/ \E r \in Requests : HoldsApproval(r, c)'
    BY <2>2 DEF vars, storeVars, ApprovedIsMerged, Merged, HoldsApproval
  <2>3. CASE Next /\ changes[c].status = "approved"
    BY <2>1, <2>3, HolderStep DEF ApprovedIsMerged, HoldsApproval
  <2>4. CASE Next /\ changes[c].status # "approved"
    BY <2>4, ApproverHolds
  <2> QED
    BY <2>2, <2>3, <2>4
<1> QED
  BY <1>1, <1>2, TypeCorrect, HistoryCorrect, PTL DEF Spec

----------------------------------------------------------------------------
(* Refinement of RevisionLog *)

LogView == [n \in 1..headRevision |-> EntryAt(n)]

\* The entry a revision makes.
EntryOf(x) == [kv |-> x.kv, dek |-> x.dek, author |-> x.author, change |-> x.change]

LEMMA EntryIsUnique ==
  ASSUME HistoryInv, NEW x \in revisions
  PROVE  EntryAt(x.n) = EntryOf(x)
<1>1. \A y \in revisions : y.n = x.n => y = x
  BY DEF HistoryInv, ChainIsGapFree
<1>2. (CHOOSE y \in revisions : y.n = x.n) = x
  BY <1>1
<1> QED
  BY <1>2 DEF EntryAt, EntryOf

LEMMA LogIsStable ==
  ASSUME TypeInv, HistoryInv, TypeInv', HistoryInv', [Next]_vars, NEW n \in 1..headRevision
  PROVE  EntryAt(n)' = EntryAt(n)
<1>1. PICK x \in revisions : x.n = n
  BY DEF HistoryInv, ChainIsGapFree, RevisionExists
<1>2. EntryAt(n) = EntryOf(x)
  BY <1>1, EntryIsUnique
<1>3. x \in revisions'
  BY <1>1, StepExtends DEF Extends
<1>4. (CHOOSE y \in revisions' : y.n = n) = x
  BY <1>1, <1>3 DEF HistoryInv, ChainIsGapFree
<1> QED
  BY <1>2, <1>4 DEF EntryAt, EntryOf

\* The entry a step puts on top of the log.
LEMMA LogCommits ==
  ASSUME TypeInv, HistoryInv, TypeInv', HistoryInv', ReviewInv', [Next]_vars,
         headRevision' = headRevision + 1
  PROVE  Log!Commit(LogView'[headRevision'])
<1>0. headRevision \in Nat /\ headRevision' \in Nat
  BY HistoryTypes
<1>1. PICK x \in revisions' : x.n = headRevision'
  BY <1>0 DEF HistoryInv, ChainIsGapFree, RevisionExists
<1>2. \A y \in revisions' : EntryAt(y.n)' = EntryOf(y)
  <2> SUFFICES ASSUME NEW y \in revisions' PROVE EntryAt(y.n)' = EntryOf(y)
    OBVIOUS
  <2>1. (CHOOSE z \in revisions' : z.n = y.n) = y
    BY DEF HistoryInv, ChainIsGapFree
  <2> QED
    BY <2>1 DEF EntryAt, EntryOf
<1>3. LogView'[headRevision'] = EntryOf(x)
  BY <1>0, <1>1, <1>2 DEF LogView
<1>4. EntryOf(x) \in Log!Entry
  BY <1>1 DEF TypeInv, TypeOK, StoreTypeOK, Log!Entry, EntryOf, Revision
<1>5. LogView' = Append(LogView, EntryOf(x))
  <2>1. LogView = [n \in 1..headRevision |-> EntryAt(n)]
    BY DEF LogView
  <2>2. LogView' = [n \in 1..(headRevision + 1) |-> IF n = headRevision + 1
                                                   THEN EntryOf(x) ELSE EntryAt(n)]
    BY <1>0, <1>3, LogIsStable DEF LogView
  <2> QED
    BY <1>0, <2>1, <2>2
<1>6. ASSUME NEW i \in 1..headRevision
      PROVE  \E y \in revisions : y.n = i /\ LogView[i] = EntryOf(y) /\ y \in revisions'
  BY EntryIsUnique, StepExtends DEF LogView, Extends, HistoryInv, ChainIsGapFree, RevisionExists
<1>7. Log!KeyOrdered(EntryOf(x))
  BY <1>0, <1>1, <1>6 DEF Log!KeyOrdered, LogView, EntryOf, HistoryInv, KeyVersionsOrdered
<1>8. Log!NotMerged(EntryOf(x))
  BY <1>0, <1>1, <1>6 DEF Log!NotMerged, LogView, EntryOf, ReviewInv, ReviewedByAnother
<1> QED
  BY <1>3, <1>4, <1>5, <1>7, <1>8 DEF Log!Commit, LogView

(* The handlers implement an append-only log, read through head_revision:  *)
(* a committed push, approval or rekey appends one entry, nothing else     *)
(* changes the log, and no entry changes once a reader could have seen it. *)
THEOREM LogCorrect == Spec => ImplementsLog
<1>1. Init => Log!Init
  BY DEF Init, StoreInit, Log!Init
<1>2. TypeInv /\ HistoryInv /\ ReviewInv /\ [Next]_vars => [Log!Next]_LogView
  <2> SUFFICES ASSUME TypeInv, HistoryInv, ReviewInv, [Next]_vars
               PROVE  Log!Next \/ LogView' = LogView
    OBVIOUS
  <2>1. TypeInv' /\ HistoryInv' /\ ReviewInv'
    BY TypeNext, HistoryNext, ReviewNext
  <2>2. headRevision \in Nat /\ headRevision' \in {headRevision, headRevision + 1}
    BY <2>1, StepExtends, HistoryTypes DEF Extends
  <2>3. CASE headRevision' = headRevision
    BY <2>1, <2>3, LogIsStable DEF LogView
  <2>4. CASE headRevision' = headRevision + 1
    <3>1. Len(LogView) = headRevision /\ Len(LogView') = headRevision'
      BY <2>2 DEF LogView
    <3> QED
      BY <2>1, <2>2, <2>4, <3>1, LogCommits DEF Log!Next, LogView
  <2> QED
    BY <2>2, <2>3, <2>4
<1> QED
  BY <1>1, <1>2, TypeCorrect, HistoryCorrect, ReviewCorrect, PTL
  DEF Spec, ImplementsLog, Log!Spec, LogView
=============================================================================
