------------------------------ MODULE KeyProofs ------------------------------
(***************************************************************************)
(* Proofs about the vault's keys.  With transactions a key version names   *)
(* one DEK, and no write brings a revoked machine back.  When one request  *)
(* runs at a time, no machine keeps a wrapped key it should have lost, and *)
(* nobody who cannot read the environment knows its key unless a rekey is  *)
(* flagged.                                                                *)
(***************************************************************************)
EXTENDS HistoryProofs, VaultSecrecy

USE StoreAssumption, ServiceAssumption DEF StoreAssumption, ServiceAssumption

Known == Bindings \cup Carried

LEMMA KnownDocs ==
  /\ \A g \in grants : <<g.kv, g.dek>> \in Known
  /\ \A x \in revisions : <<x.kv, x.dek>> \in Known
  /\ \A c \in Changes : changes[c].status # "absent" =>
       <<changes[c].kv, changes[c].dek>> \in Known
  /\ \A r \in Requests : req[r].step \in CarryingSteps => <<req[r].kv, req[r].dek>> \in Known
BY DEF Known, Bindings, Carried

\* What a step stores or picks up must be known, or be the one new key.
LEMMA KeyStep ==
  ASSUME TypeInv, TypeInv', KeyInv, NEW new,
         \/ keyVersion' = keyVersion /\ new = {}
         \/ keyVersion' = keyVersion + 1 /\ \E d : new = {<<keyVersion', d>>},
         \A g \in grants' : g \in grants \/ <<g.kv, g.dek>> \in Known \cup new,
         \A x \in revisions' : x \in revisions \/ <<x.kv, x.dek>> \in Known \cup new,
         \A c \in Changes : changes'[c].status # "absent" =>
           <<changes'[c].kv, changes'[c].dek>> \in Known,
         \A p \in Requests : \/ req'[p] = req[p]
                             \/ /\ req'[p].step \notin OrderedSteps
                                /\ req'[p].step \in CarryingSteps =>
                                     <<req'[p].kv, req'[p].dek>> \in Known
  PROVE  KeyInv'
<1>1. Bindings' \subseteq Known \cup new
  BY KnownDocs DEF Bindings
<1>2. Carried' \subseteq Known
  BY KnownDocs DEF Carried
<1>3. keyVersion \in Nat
  BY HistoryTypes
<1>4. \A b \in Known : b[1] <= keyVersion
  BY DEF KeyInv, Known
<1>5. \A b, c \in Known : b[1] = c[1] => b[2] = c[2]
  BY DEF KeyInv, Known
<1>6. \A b \in Known : b[1] \in Nat
  <2>1. \A g \in grants : g.kv \in Nat
    BY DEF TypeInv, TypeOK, StoreTypeOK, Grant
  <2> QED
    BY <2>1, HistoryTypes DEF Known, Bindings, Carried
<1>7. \A b \in Known \cup new : b[1] <= keyVersion'
  BY <1>3, <1>4, <1>6
<1>8. \A b, c \in Known \cup new : b[1] = c[1] => b[2] = c[2]
  <2>1. CASE new = {}
    BY <1>5, <2>1
  <2>2. CASE keyVersion' = keyVersion + 1 /\ \E d : new = {<<keyVersion', d>>}
    <3>1. PICK d : new = {<<keyVersion', d>>}
      BY <2>2
    <3>2. \A b \in Known : b[1] # keyVersion'
      BY <1>3, <1>4, <1>6, <2>2
    <3> QED
      BY <1>5, <3>1, <3>2
  <2> QED
    BY <2>1, <2>2
<1>9. \A p \in Requests : req'[p].step \notin OrderedSteps
  BY DEF KeyInv
<1> QED
  BY <1>1, <1>2, <1>7, <1>8, <1>9 DEF KeyInv

LEMMA KeyInit == Init => KeyInv
<1> SUFFICES ASSUME Init PROVE KeyInv
  OBVIOUS
<1>1. Carried = {} /\ \A r \in Requests : req[r].step \notin OrderedSteps
  BY DEF Init, Idle, Carried, CarryingSteps, OrderedSteps
<1>2. Bindings = {<<1, 0>>} /\ keyVersion = 1
  BY DEF Init, StoreInit, Bindings, NoChange
<1> QED
  BY <1>1, <1>2 DEF KeyInv

\* The usual case: no revision or change request moves, grants come only from
\* what is known, and one slot moves on.
LEMMA KeySlot ==
  ASSUME TypeInv, TypeInv', KeyInv, NEW r \in Requests, NEW q, Continue(r, q),
         UNCHANGED <<keyVersion, revisions>>,
         \A g \in grants' : g \in grants \/ <<g.kv, g.dek>> \in Known,
         \A c \in Changes : changes'[c].status # "absent" =>
           <<changes'[c].kv, changes'[c].dek>> \in Known,
         q.step \notin OrderedSteps,
         q.step \in CarryingSteps => <<q.kv, q.dek>> \in Known
  PROVE  KeyInv'
<1>1. \A p \in Requests : req'[p] = IF p = r THEN q ELSE req[p]
  BY DEF Continue, TypeInv, WellFormed
<1> QED
  BY <1>1, KeyStep

LEMMA SubmissionKnown ==
  ASSUME TypeInv, NEW u \in Users, NEW s \in Submission(u)
  PROVE  s \in Request /\ <<s.kv, s.dek>> \in Known
<1>1. PICK g \in grants : /\ g.kv = keyVersion
                         /\ s = [Idle EXCEPT !.by = u, !.base = headRevision,
                                             !.kv = keyVersion, !.dek = g.dek]
  BY DEF Submission
<1>2. s.kv = g.kv /\ s.dek = g.dek
  BY <1>1 DEF Idle
<1> QED
  BY <1>2, KnownDocs, SubmissionType DEF TypeInv

LEMMA KeyWrites ==
  ASSUME TypeInv, TypeInv', KeyInv, NEW r \in Requests, NEW u \in Users, Writes(r, u)
  PROVE  KeyInv'
<1> USE DEF CarryingSteps, OrderedSteps
<1>0. UNCHANGED storeVars
  BY DEF Writes, PushRevision, CreateChangeRequest, ApproveChangeRequest, Rekey
<1>1. ASSUME NEW q, Continue(r, q), q.step \notin OrderedSteps,
             q.step \in CarryingSteps => <<q.kv, q.dek>> \in Known
      PROVE  KeyInv'
  BY <1>0, <1>1, KeySlot, KnownDocs DEF storeVars
<1>2. ASSUME NEW s \in Submission(u), NEW to \in {"write", "propose"},
             Continue(r, [s EXCEPT !.step = to])
      PROVE  KeyInv'
  <2> DEFINE q == [s EXCEPT !.step = to]
  <2>1. s \in Request /\ <<s.kv, s.dek>> \in Known
    BY SubmissionKnown
  <2>2. q.step = to /\ q.kv = s.kv /\ q.dek = s.dek
    BY <2>1 DEF Request
  <2> QED
    BY <1>1, <1>2, <2>1, <2>2
<1>3. ASSUME NEW c \in Changes, ApproveChangeRequest(r, u, c) PROVE KeyInv'
  <2> DEFINE q == [Idle EXCEPT
       !.step = IF changes[c].base = headRevision THEN "approve" ELSE "stalePending",
       !.by = u, !.change = c,
       !.base = changes[c].base, !.kv = changes[c].kv, !.dek = changes[c].dek]
  <2>1. q.step \in {"approve", "stalePending"} /\ q.kv = changes[c].kv /\ q.dek = changes[c].dek
    BY DEF Idle
  <2>2. changes[c].status = "pending" /\ Continue(r, q)
    BY <1>3 DEF ApproveChangeRequest, MayApprove
  <2> QED
    BY <1>1, <2>1, <2>2, KnownDocs
<1>4. ASSUME Rekey(r, u) PROVE KeyInv'
  <2> DEFINE q == [Idle EXCEPT !.step = "recipients", !.by = u,
       !.base = headRevision, !.kv = keyVersion + 1, !.dek = minted + 1]
  <2>1. q.step = "recipients" /\ Continue(r, q)
    BY <1>4 DEF Rekey, Idle
  <2> QED
    BY <1>1, <2>1
<1> QED
  BY <1>2, <1>3, <1>4 DEF Writes, PushRevision, CreateChangeRequest

LEMMA KeySharing ==
  ASSUME TypeInv, TypeInv', KeyInv, NEW r \in Requests, NEW u \in Users, Sharing(r, u)
  PROVE  KeyInv'
<1>0. /\ UNCHANGED <<keyVersion, revisions, changes>> /\ \A g \in grants' : g \in grants
      /\ Continue(r, req'[r])
  BY DEF Sharing, CreateGrants, UpdateMember, RemoveMember, CreateMachine, RevokeMachine,
         ResetKeys, DeleteRecipientGrants, storeVars, Continue, TypeInv, WellFormed
<1>1. ASSUME req'[r].step \notin OrderedSteps,
             req'[r].step \in CarryingSteps => <<req'[r].kv, req'[r].dek>> \in Known
      PROVE  KeyInv'
  BY <1>0, <1>1, KeySlot, KnownDocs
<1>2. \A q : Continue(r, q) => req'[r] = q
  BY DEF Continue, TypeInv, WellFormed
<1>3. ASSUME NEW x \in Recipients, CreateGrants(r, u, x) PROVE KeyInv'
  <2>1. PICK g \in grants : Continue(r, [Idle EXCEPT !.step = "share", !.by = u,
                                            !.kv = g.kv, !.dek = g.dek, !.to = {x}])
    BY <1>3 DEF CreateGrants
  <2>2. req'[r].step = "share" /\ req'[r].kv = g.kv /\ req'[r].dek = g.dek
    BY <1>2, <2>1 DEF Idle
  <2> QED
    BY <1>1, <2>2, KnownDocs DEF OrderedSteps
<1>4. ASSUME NEW m \in Machines, CreateMachine(r, u, m) PROVE KeyInv'
  <2>1. PICK s \in Submission(u) :
          Continue(r, [s EXCEPT !.step = "enroll", !.who = m, !.to = {m}])
    BY <1>4 DEF CreateMachine
  <2>2. s \in Request /\ <<s.kv, s.dek>> \in Known
    BY SubmissionKnown
  <2>3. req'[r].step = "enroll" /\ req'[r].kv = s.kv /\ req'[r].dek = s.dek
    BY <1>2, <2>1, <2>2 DEF Request
  <2> QED
    BY <1>1, <2>2, <2>3 DEF OrderedSteps
<1>5. CASE req'[r].step \in {"update", "remove", "ungrant", "deleteBundle"}
  BY <1>1, <1>5 DEF CarryingSteps, OrderedSteps
<1>6. \/ \E x \in Recipients : CreateGrants(r, u, x)
      \/ \E m \in Machines : CreateMachine(r, u, m)
      \/ req'[r].step \in {"update", "remove", "ungrant", "deleteBundle"}
  <2>1. ASSUME NEW t \in Users, UpdateMember(r, u, t) PROVE req'[r].step = "update"
    BY <1>2, <2>1, UpdateSlot
  <2>2. ASSUME NEW t \in Users, RemoveMember(r, u, t) PROVE req'[r].step = "remove"
    BY <1>2, <2>2 DEF RemoveMember, Idle
  <2>3. ASSUME NEW m \in Machines, RevokeMachine(r, u, m) PROVE req'[r].step = "ungrant"
    BY <1>2, <2>3 DEF RevokeMachine, Idle
  <2>4. ASSUME ResetKeys(r, u) PROVE req'[r].step = "deleteBundle"
    BY <1>2, <2>4 DEF ResetKeys, Idle
  <2> QED
    BY <2>1, <2>2, <2>3, <2>4 DEF Sharing
<1> QED
  BY <1>3, <1>4, <1>5, <1>6

\* A decision files nothing new.
LEMMA DecidedKnown ==
  ASSUME TypeInv, NEW c \in Changes, NEW from \in Statuses \ {"absent"},
         NEW to \in Statuses \ {"absent"}, NEW u \in Users,
         TransitionChangeRequest(c, from, to, u)
  PROVE  \A d \in Changes : changes'[d].status # "absent" =>
           <<changes'[d].kv, changes'[d].dek>> \in Known
BY TransitionKeepsContent, TransitionType, KnownDocs DEF OnlyDecides

LEMMA KeyImmediate ==
  ASSUME TypeInv, TypeInv', KeyInv, NEW u \in Users, Immediate(u)
  PROVE  KeyInv'
<1>1. UNCHANGED <<keyVersion, grants, revisions, req>>
  BY DEF Immediate, RejectChangeRequest, AddMember, RegisterMachine, PatchEnvironment,
     PutKeys
<1>2. \A c \in Changes : changes'[c].status # "absent" =>
        <<changes'[c].kv, changes'[c].dek>> \in Known
  <2>1. ASSUME NEW c \in Changes, RejectChangeRequest(u, c)
        PROVE  \A d \in Changes : changes'[d].status # "absent" =>
                 <<changes'[d].kv, changes'[d].dek>> \in Known
    BY <2>1, DecidedKnown DEF RejectChangeRequest, Statuses
  <2> QED
    BY <2>1, KnownDocs DEF Immediate, AddMember, RegisterMachine, PatchEnvironment,
     PutKeys
<1> QED
  BY <1>1, <1>2, KeyStep

\* Commands that store no key: they delete grants, or none of this.
LEMMA KeyQuiet ==
  ASSUME Transactions, TypeInv, TypeInv', KeyInv, NEW r \in Requests,
         \/ ApproveTransition(r) \/ MarkStale(r) \/ WriteConflict(r)
         \/ RekeyRecipients(r) \/ RekeyTxAborts(r) \/ RekeyRevoke(r) \/ RekeyUngrant(r)
         \/ Rollback(r) \/ WriteMember(r) \/ DeleteMember(r) \/ Ungrant(r) \/ FlagRekey(r)
         \/ DeleteBundle(r) \/ UndoEnroll(r) \/ Abort(r)
  PROVE  KeyInv'
<1> USE DEF CarryingSteps, OrderedSteps
<1>0. req[r] \in Request /\ Complete(req[r]) /\ req[r].step \notin OrderedSteps
  BY ReviewTypes DEF KeyInv
<1>8. ~UndoEnroll(r)
  BY <1>0 DEF UndoEnroll, At
<1>1. UNCHANGED <<keyVersion, revisions>> /\ \A g \in grants' : g \in grants
  BY <1>8 DEF ApproveTransition, MarkStale, WriteConflict, RekeyRecipients, RekeyTxAborts,
         RekeyRevoke, RekeyUngrant, Rollback, WriteMember, DeleteMember, Ungrant, FlagRekey,
         DeleteBundle, Abort, DeleteMachineGrants, DeleteGrantsByID,
         DeleteRecipientGrants, storeVars
<1>2. \A c \in Changes : changes'[c].status # "absent" =>
        <<changes'[c].kv, changes'[c].dek>> \in Known
  <2>1. CASE UNCHANGED changes
    BY <2>1, KnownDocs
  <2>2. CASE ApproveTransition(r) \/ MarkStale(r)
    <3>1. req[r].change \in Changes /\ req[r].by \in Users
      BY <1>0, <2>2 DEF ApproveTransition, MarkStale, At, Complete
    <3>2. UNCHANGED changes \/ \E from \in {"pending", "approved"}, to \in {"approved", "stale"} :
            TransitionChangeRequest(req[r].change, from, to, req[r].by)
      BY <2>2 DEF ApproveTransition, MarkStale
    <3> QED
      BY <2>1, <3>1, <3>2, DecidedKnown DEF Statuses
  <2> QED
    BY <1>8, <2>1, <2>2 DEF WriteConflict, RekeyRecipients, RekeyTxAborts, RekeyRevoke,
       RekeyUngrant, Rollback, WriteMember, DeleteMember, Ungrant, FlagRekey, DeleteBundle,
       Abort, storeVars
<1>3. ASSUME NEW q, Continue(r, q), q.step \notin OrderedSteps,
             q.step \in CarryingSteps => <<q.kv, q.dek>> \in Known
      PROVE  KeyInv'
  BY <1>1, <1>2, <1>3, KeySlot
<1>4. CASE Return(r)
  BY <1>3, <1>4 DEF Return, Idle
<1>5. ASSUME NEW s \in {"write", "staleApproved", "rollback", "ungrant", "flag", "rekeyUngrant"},
             GoTo(r, s), s = "write" => req[r].step = "approve"
      PROVE  KeyInv'
  <2> DEFINE q == [req[r] EXCEPT !.step = s]
  <2>1. q.step = s /\ q.kv = req[r].kv /\ q.dek = req[r].dek
    BY <1>0 DEF Request
  <2> QED
    BY <1>3, <1>5, <2>1, KnownDocs DEF GoTo
<1>6. CASE RekeyRecipients(r)
  <2>0. PICK ts \in ListedTokens :
          Continue(r, [req[r] EXCEPT !.step = "rekey", !.to = Entitled, !.tokens = ts])
    BY <1>6 DEF RekeyRecipients
  <2> DEFINE q == [req[r] EXCEPT !.step = "rekey", !.to = Entitled, !.tokens = ts]
  <2>1. q.step = "rekey" /\ Continue(r, q)
    BY <1>0, <2>0 DEF Request
  <2> QED
    BY <1>3, <2>1
<1>7. \/ Return(r) \/ RekeyRecipients(r)
      \/ \E s \in {"write", "staleApproved", "rollback", "ungrant", "flag", "rekeyUngrant"} :
           GoTo(r, s) /\ (s = "write" => req[r].step = "approve")
  BY <1>8 DEF ApproveTransition, MarkStale, WriteConflict, RekeyTxAborts, RekeyRevoke,
     RekeyUngrant, Rollback, WriteMember, DeleteMember, Ungrant, FlagRekey, DeleteBundle,
     Abort, At
<1> QED
  BY <1>4, <1>5, <1>6, <1>7

LEMMA KeyFile ==
  ASSUME TypeInv, TypeInv', KeyInv, NEW r \in Requests, NEW c \in Changes,
         InsertChangeRequest(r, c)
  PROVE  KeyInv'
<1>1. /\ req[r].step = "propose" /\ UNCHANGED <<keyVersion, revisions, grants>> /\ Return(r)
      /\ \A d \in Changes : changes'[d] = IF d = c THEN NewChange(req[r]) ELSE changes[d]
  BY ReviewTypes DEF InsertChangeRequest, At
<1>2. \A d \in Changes : changes'[d].status # "absent" =>
        <<changes'[d].kv, changes'[d].dek>> \in Known
  BY <1>1, KnownDocs DEF NewChange, CarryingSteps
<1> QED
  BY <1>1, <1>2, KeySlot DEF Return, Idle, CarryingSteps, OrderedSteps

LEMMA KeyShare ==
  ASSUME Transactions, TypeInv, TypeInv', KeyInv, NEW r \in Requests,
         ShareGrants(r) \/ EnrollMachine(r)
  PROVE  KeyInv'
<1>1. /\ Return(r) /\ UNCHANGED <<keyVersion, revisions, changes>>
      /\ req[r].step \in CarryingSteps
      /\ InsertGrants(req[r].kv, req[r].dek, req[r].to, "share") \/ UNCHANGED grants
  BY DEF ShareGrants, EnrollMachine, At, KeyInv, CarryingSteps, OrderedSteps
<1>2. <<req[r].kv, req[r].dek>> \in Known
  BY <1>1, KnownDocs
<1>3. \A g \in grants' : g \in grants \/ <<g.kv, g.dek>> \in Known
  BY <1>1, <1>2 DEF InsertGrants, GrantDocs
<1> QED
  BY <1>1, <1>3, KeySlot, KnownDocs DEF Return, Idle, CarryingSteps, OrderedSteps

LEMMA KeyWrite ==
  ASSUME Transactions, TypeInv, TypeInv', KeyInv, NEW r \in Requests, WriteRevision(r)
  PROVE  KeyInv'
<1>1. /\ Return(r) /\ UNCHANGED <<keyVersion, grants, changes>> /\ req[r].step = "write"
      /\ revisions' = revisions \cup {RevisionOf(req[r])}
  BY DEF WriteRevision, At, InsertRevision
<1>2. <<RevisionOf(req[r]).kv, RevisionOf(req[r]).dek>> \in Known
  BY <1>1, KnownDocs DEF RevisionOf, CarryingSteps
<1>3. \A p \in Requests : req'[p] = IF p = r THEN Idle ELSE req[p]
  BY <1>1 DEF Return, Continue, TypeInv, WellFormed
<1>4. \A x \in revisions' : x \in revisions \/ <<x.kv, x.dek>> \in Known
  BY <1>1, <1>2
<1> QED
  BY <1>1, <1>3, <1>4, KeyStep, KnownDocs DEF Idle, CarryingSteps, OrderedSteps

LEMMA KeyRekey ==
  ASSUME TypeInv, TypeInv', KeyInv, NEW r \in Requests, RekeyTx(r)
  PROVE  KeyInv'
<1> DEFINE q == req[r]
<1>1. /\ keyVersion' = keyVersion + 1 /\ keyVersion' = q.kv /\ UNCHANGED changes
      /\ Return(r) \/ GoTo(r, "rollback")
      /\ InsertRevision(RevisionOf(q)) \/ UNCHANGED revisions
  <2>1. keyVersion = q.kv - 1 /\ keyVersion' = q.kv
    BY DEF RekeyTx, CommitRekey
  <2> QED
    BY <2>1, HistoryTypes DEF RekeyTx, CommitUnheard
<1>2. PICK new : new = {<<q.kv, q.dek>>}
  OBVIOUS
<1>3. \E d : new = {<<keyVersion', d>>}
  BY <1>1, <1>2
<1>4. \A g \in grants' : g \in grants \/ <<g.kv, g.dek>> \in Known \cup new
  BY <1>2 DEF RekeyTx, GrantDocs
<1>5. \A x \in revisions' : x \in revisions \/ <<x.kv, x.dek>> \in Known \cup new
  BY <1>1, <1>2 DEF InsertRevision, RevisionOf
<1>6. \A c \in Changes : changes'[c].status # "absent" =>
        <<changes'[c].kv, changes'[c].dek>> \in Known
  BY <1>1, KnownDocs
<1>7. \A p \in Requests : req'[p] = req[p] \/ req'[p] = Idle \/ req'[p].step = "rollback"
  <2>1. [q EXCEPT !.step = "rollback"].step = "rollback"
    BY HistoryTypes DEF Request
  <2> QED
    BY <1>1, <2>1 DEF Return, GoTo, Continue, TypeInv, WellFormed
<1>8. \A p \in Requests : \/ req'[p] = req[p]
                          \/ /\ req'[p].step \notin OrderedSteps
                             /\ req'[p].step \in CarryingSteps =>
                                  <<req'[p].kv, req'[p].dek>> \in Known
  BY <1>7 DEF Idle, CarryingSteps, OrderedSteps
<1> QED
  BY <1>1, <1>3, <1>4, <1>5, <1>6, <1>8, KeyStep

LEMMA KeyNext ==
  ASSUME Transactions, TypeInv, KeyInv, [Next]_vars
  PROVE  KeyInv'
<1>0. TypeInv'
  BY TypeNext
<1>1. ASSUME NEW r \in Requests, Command(r) PROVE KeyInv'
  <2>1. ~RekeyGrants(r) /\ ~RekeyRevision(r) /\ ~RekeyCommit(r) /\ ~WriteHead(r)
    BY DEF KeyInv, OrderedSteps, RekeyGrants, RekeyRevision, RekeyCommit, WriteHead, At
  <2> QED
    BY <1>0, <1>1, <2>1, KeyQuiet, KeyFile, KeyShare, KeyWrite, KeyRekey DEF Command
<1>2. ASSUME NEW r \in Requests, NEW u \in Users, Writes(r, u) \/ Sharing(r, u)
      PROVE  KeyInv'
  BY <1>0, <1>2, KeyWrites, KeySharing
<1>3. ASSUME NEW u \in Users, Immediate(u) PROVE KeyInv'
  BY <1>0, <1>3, KeyImmediate
<1>4. CASE UNCHANGED vars \/ \E m \in Machines : ExpireMachine(m)
  BY <1>4 DEF vars, storeVars, ExpireMachine, KeyInv, Bindings, Carried
<1> QED
  BY <1>1, <1>2, <1>3, <1>4 DEF Next

(* On a replica set a key version names one DEK for good, whatever rekeys, *)
(* pushes, grants and removals race: a grant shares only what its giver    *)
(* was given, and the DEK of a rekey enters together with its version, in  *)
(* the one transaction whose compare-and-set makes that version current.   *)
THEOREM KeysCorrect ==
  ASSUME Transactions
  PROVE  Spec => []OneKeyPerVersion
<1>1. TypeInv /\ KeyInv /\ [Next]_vars => KeyInv'
  BY KeyNext
<1>2. KeyInv => OneKeyPerVersion
  BY DEF KeyInv, OneKeyPerVersion
<1> QED
  BY <1>1, <1>2, KeyInit, TypeCorrect, PTL DEF Spec

----------------------------------------------------------------------------
(* Machines *)

\* The handlers that write machine identities.
LEMMA MachineWriters ==
  ASSUME Next, machines' # machines
  PROVE  \/ \E r \in Requests : EnrollMachine(r) \/ UndoEnroll(r)
         \/ \E ms : RevokeMachines(ms)
         \/ \E u \in Users, m \in Machines : RegisterMachine(u, m)
         \/ \E m \in Machines : ExpireMachine(m)
<1>1. ASSUME NEW r \in Requests, Command(r)
      PROVE  EnrollMachine(r) \/ UndoEnroll(r) \/ \E ms : RevokeMachines(ms)
  BY <1>1 DEF Command, InsertChangeRequest, ApproveTransition, MarkStale, WriteRevision,
     WriteConflict, WriteHead, RekeyRecipients, RekeyTx, RekeyTxAborts, RekeyGrants,
     RekeyRevision, RekeyCommit, RekeyRevoke, RekeyUngrant, Rollback, ShareGrants,
     WriteMember, DeleteMember, Ungrant, FlagRekey, DeleteBundle, Abort, storeVars
<1>2. ASSUME NEW r \in Requests, NEW u \in Users, Writes(r, u) \/ Sharing(r, u)
      PROVE  \E ms : RevokeMachines(ms)
  BY <1>2 DEF Writes, Sharing, PushRevision, CreateChangeRequest, ApproveChangeRequest,
     Rekey, CreateGrants, UpdateMember, RemoveMember, CreateMachine, RevokeMachine,
     ResetKeys, storeVars
<1>3. ASSUME NEW u \in Users, Immediate(u)
      PROVE  \E m \in Machines : RegisterMachine(u, m)
  BY <1>3 DEF Immediate, RejectChangeRequest, AddMember, PatchEnvironment, PutKeys
<1> QED
  BY <1>1, <1>2, <1>3 DEF Next

(* A machine that was revoked does not come back, whoever creates the same *)
(* machine a second time: its creation is an insertion, and the one that   *)
(* failed is at most undone.                                               *)
THEOREM NotRevivedCorrect == Spec => RevokedNotRevived
<1>1. TypeInv /\ [Next]_vars =>
        [\A m \in Machines : machines[m] = "revoked" =>
           machines'[m] \in {"revoked", "absent"}]_vars
  <2> SUFFICES ASSUME TypeInv, Next, machines' # machines, NEW m \in Machines,
                      machines[m] = "revoked"
               PROVE  machines'[m] \in {"revoked", "absent"}
    BY DEF TypeInv, TypeOK, StoreTypeOK
  <2>0. machines \in [Machines -> {"absent", "active", "expired", "revoked"}]
    BY DEF TypeInv, TypeOK, StoreTypeOK
  <2>1. ASSUME NEW r \in Requests, EnrollMachine(r) \/ UndoEnroll(r)
        PROVE  machines'[m] \in {"revoked", "absent"}
    BY <2>0, <2>1 DEF EnrollMachine, UndoEnroll
  <2>2. ASSUME NEW ms, RevokeMachines(ms) PROVE machines'[m] \in {"revoked", "absent"}
    BY <2>0, <2>2 DEF RevokeMachines
  <2>3. ASSUME NEW u \in Users, NEW n \in Machines, RegisterMachine(u, n)
        PROVE  machines'[m] \in {"revoked", "absent"}
    BY <2>0, <2>3 DEF RegisterMachine
  <2>4. ASSUME NEW n \in Machines, ExpireMachine(n)
        PROVE  machines'[m] \in {"revoked", "absent"}
    BY <2>0, <2>4 DEF ExpireMachine
  <2> QED
    BY <2>1, <2>2, <2>3, <2>4, MachineWriters
<1> QED
  BY <1>1, TypeCorrect, PTL DEF Spec, RevokedNotRevived

----------------------------------------------------------------------------
(* Machines, while requests come one after the other *)

\* The server handles one request at a time.
OneByOne == \E r : Requests = {r}

Alive(m) == machines[m] \in {"active", "expired"}
ActiveToken(x) == x \in TokenMachines /\ machines[x] = "active"

Leaves(q, x) == q.who = x /\ q.step = "ungrant"
Retires(q, m) == m \in q.tokens /\ q.step \in {"rekeyRevoke", "rekeyUngrant"}

\* A machine with a grant exists, and q is the request that takes the grant
\* away where the machine is revoked.
Kept(q, g) ==
  g.to \in Machines =>
    /\ machines[g.to] # "absent"
    /\ machines[g.to] = "revoked" => Leaves(q, g.to) \/ Retires(q, g.to)

\* What q is going to wrap is for machines that live, and a rekey, which wraps
\* for no token, retires every token that has a key.
Wraps(q) ==
  /\ q.lost => q.who \in Users
  /\ q.step \in {"enroll", "enrollGrant"} => q.to = {q.who}
  /\ q.step = "enrollGrant" => Alive(q.who)
  /\ q.step \in {"share", "rekey"} => \A m \in q.to \cap Machines : Alive(m)
  /\ q.step = "rekey" => q.to \cap TokenMachines = {}
  /\ q.step \in {"rekey", "rekeyRevision", "rekeyCommit"} =>
       /\ q.tokens \subseteq TokenMachines
       /\ \A g \in grants : ActiveToken(g.to) => g.to \in q.tokens

MachineOk(q) == Wraps(q) /\ \A g \in grants : Kept(q, g)

MachineInv == \A r \in Requests : MachineOk(req[r])

LEMMA MachineTypes ==
  ASSUME TypeInv
  PROVE  /\ machines \in [Machines -> {"absent", "active", "expired", "revoked"}]
         /\ grants \in SUBSET Grant /\ keyVersion \in Nat
         /\ \A r \in Requests : req[r] \in Request /\ Complete(req[r])
BY DEF TypeInv, WellFormed, TypeOK, StoreTypeOK

LEMMA MachineInit == Init => MachineInv
<1> SUFFICES ASSUME Init, NEW r \in Requests PROVE MachineOk(req[r])
  BY DEF MachineInv
<1>1. /\ req[r] = Idle /\ grants = {[kv |-> 1, to |-> Creator, dek |-> 0, via |-> "share"]}
  BY DEF Init, StoreInit
<1>2. \A g \in grants : g.to \notin Machines
  BY <1>1
<1> QED
  BY <1>1, <1>2 DEF MachineOk, Wraps, Kept, Idle

\* What a step must see to that leaves n in the one slot.
LEMMA MachineSlot ==
  ASSUME TypeInv, NEW r, Requests = {r}, NEW n, Continue(r, n), MachineOk(n)'
  PROVE  MachineInv'
<1>1. req'[r] = n
  BY DEF Continue, TypeInv, WellFormed
<1> QED
  BY <1>1 DEF MachineInv, MachineOk, Wraps, Kept, Leaves, Retires, ActiveToken, Alive

\* A step of a request that does not take grants away, and writes nothing here.
LEMMA MachineStays ==
  ASSUME TypeInv, MachineInv, NEW r, Requests = {r}, NEW n, Continue(r, n), Wraps(n),
         req[r].step \notin {"ungrant", "rekeyRevoke", "rekeyUngrant"},
         UNCHANGED <<grants, machines, keyVersion>>
  PROVE  MachineInv'
<1>1. \A g \in grants : Kept(n, g)
  BY DEF MachineInv, MachineOk, Kept, Leaves, Retires
<1>2. MachineOk(n)'
  BY <1>1 DEF MachineOk, Wraps, Kept, Leaves, Retires, ActiveToken, Alive
<1> QED
  BY <1>2, MachineSlot

\* Steps that come with no promise about machines.
PlainSteps == Steps \ {"enroll", "enrollGrant", "share", "rekey", "rekeyRevision",
                       "rekeyCommit"}

LEMMA MachineGoes ==
  ASSUME TypeInv, MachineInv, NEW r, Requests = {r},
         Return(r) \/ \E s \in PlainSteps : GoTo(r, s),
         req[r].step \notin {"ungrant", "rekeyRevoke", "rekeyUngrant"},
         UNCHANGED <<grants, machines, keyVersion>>
  PROVE  MachineInv'
<1>1. req[r] \in Request /\ Wraps(req[r])
  BY MachineTypes DEF MachineInv, MachineOk
<1>2. CASE Return(r)
  <2>1. Wraps(Idle)
    BY DEF Wraps, Idle
  <2> QED
    BY <1>2, <2>1, MachineStays DEF Return
<1>3. ASSUME NEW s \in PlainSteps, GoTo(r, s) PROVE MachineInv'
  <2> DEFINE n == [req[r] EXCEPT !.step = s]
  <2>1. n.step = s /\ n.lost = req[r].lost /\ n.who = req[r].who
    BY <1>1 DEF Request
  <2>2. Wraps(n)
    BY <1>1, <2>1 DEF Wraps, PlainSteps
  <2> QED
    BY <1>3, <2>2, MachineStays DEF GoTo
<1> QED
  BY <1>2, <1>3

LEMMA MachineQuiet ==
  ASSUME TypeInv, MachineInv, NEW r, Requests = {r},
         \/ \E c \in Changes : InsertChangeRequest(r, c)
         \/ ApproveTransition(r) \/ MarkStale(r) \/ WriteRevision(r) \/ WriteConflict(r)
         \/ WriteHead(r) \/ RekeyTxAborts(r) \/ WriteMember(r) \/ DeleteMember(r)
         \/ FlagRekey(r) \/ DeleteBundle(r)
  PROVE  MachineInv'
<1>1. /\ UNCHANGED <<grants, machines, keyVersion>>
      /\ req[r].step \notin {"ungrant", "rekeyRevoke", "rekeyUngrant"}
  BY DEF InsertChangeRequest, ApproveTransition, MarkStale, WriteRevision, WriteConflict,
     WriteHead, RekeyTxAborts, WriteMember, DeleteMember, FlagRekey, DeleteBundle, storeVars, At
<1>2. Return(r) \/ \E s \in PlainSteps : GoTo(r, s)
  BY DEF InsertChangeRequest, ApproveTransition, MarkStale, WriteRevision, WriteConflict,
     WriteHead, RekeyTxAborts, WriteMember, DeleteMember, FlagRekey, DeleteBundle,
     PlainSteps, Steps
<1> QED
  BY <1>1, <1>2, MachineGoes

LEMMA MachineRekey ==
  ASSUME TypeInv, MachineInv, ~Faults, NEW r, Requests = {r},
         \/ RekeyRecipients(r) \/ RekeyTx(r) \/ RekeyGrants(r) \/ RekeyRevision(r)
         \/ RekeyCommit(r) \/ RekeyRevoke(r) \/ RekeyUngrant(r) \/ Rollback(r)
  PROVE  MachineInv'
<1> DEFINE q == req[r]
<1>0. /\ q \in Request /\ MachineOk(q) /\ grants \in SUBSET Grant
      /\ machines \in [Machines -> {"absent", "active", "expired", "revoked"}]
  BY MachineTypes DEF MachineInv
<1>1. CASE RekeyRecipients(r)
  <2> DEFINE n == [q EXCEPT !.step = "rekey", !.to = Entitled,
                            !.tokens = ActiveMachines \cap TokenMachines]
  <2>1. /\ n.step = "rekey" /\ n.to = Entitled /\ n.lost = q.lost /\ n.who = q.who
        /\ n.tokens = ActiveMachines \cap TokenMachines
    BY <1>0 DEF Request
  <2>2. (\A m \in Entitled \cap Machines : Alive(m)) /\ Entitled \cap TokenMachines = {}
    BY DEF Entitled, ActiveMachines, Alive
  <2>3. \A g \in grants : ActiveToken(g.to) => g.to \in ActiveMachines \cap TokenMachines
    BY DEF ActiveToken, ActiveMachines
  <2>4. Wraps(n)
    BY <1>0, <2>1, <2>2, <2>3 DEF Wraps, MachineOk
  <2> QED
    BY <1>1, <2>4, MachineStays DEF RekeyRecipients, ListedTokens, At, storeVars
<1>2. CASE RekeyTx(r)
  <2> DEFINE D == GrantDocs(q.kv, q.dek, {x \in q.to : ~HasGrant(x, q.kv)}, "rekey")
  <2>1. /\ q.step = "rekey" /\ keyVersion' = q.kv /\ RevokeMachines(q.tokens)
        /\ grants' = {g \in grants : g.to \notin q.tokens} \cup D /\ Continue(r, Idle)
    BY <1>2 DEF RekeyTx, At, CommitRekey, CommitUnheard, Return
  <2>2. \A g \in D : g.to \in q.to
    BY DEF GrantDocs
  <2>3. \A m \in Machines : machines'[m] = (IF m \in q.tokens /\ machines[m] # "absent"
                                              THEN "revoked" ELSE machines[m])
    BY <2>1 DEF RevokeMachines
  <2>4. \A g \in grants' : g.to \in Machines => Kept(Idle, g)'
    <3>1. ASSUME NEW g \in grants, g.to \notin q.tokens, g.to \in Machines PROVE Kept(Idle, g)'
      <4>1. machines'[g.to] = machines[g.to] /\ machines[g.to] \notin {"absent", "revoked"}
        BY <1>0, <2>1, <2>3, <3>1 DEF MachineOk, Kept, Leaves, Retires, Wraps
      <4> QED
        BY <4>1 DEF Kept, ActiveToken
    <3>2. ASSUME NEW g \in D, g.to \in Machines PROVE Kept(Idle, g)'
      <4>1. Alive(g.to) /\ g.to \notin TokenMachines /\ g.to \notin q.tokens
        BY <1>0, <2>1, <2>2, <3>2 DEF MachineOk, Wraps
      <4> QED
        BY <2>3, <3>2, <4>1 DEF Kept, ActiveToken, Alive
    <3> QED
      BY <2>1, <3>1, <3>2
  <2>5. Wraps(Idle)'
    BY DEF Wraps, Idle
  <2>6. MachineOk(Idle)'
    BY <2>4, <2>5 DEF MachineOk, Kept
  <2> QED
    BY <2>1, <2>6, MachineSlot
<1>3. CASE RekeyGrants(r)
  <2> DEFINE D == GrantDocs(q.kv, q.dek, {x \in q.to : ~HasGrant(x, q.kv)}, "rekey")
  <2>0. PICK s \in {"rekeyRevision", "rekeyCommit"} : GoTo(r, s)
    BY <1>3 DEF RekeyGrants
  <2>a. PICK n : n = [q EXCEPT !.step = s]
    OBVIOUS
  <2>1. /\ q.step = "rekey" /\ UNCHANGED <<keyVersion, machines>> /\ Continue(r, n)
        /\ grants' = grants \cup D
    BY <1>3, <2>0, <2>a DEF RekeyGrants, At, InsertGrants, GoTo
  <2>2. /\ n.step \in {"rekeyRevision", "rekeyCommit"} /\ n.lost = q.lost /\ n.who = q.who
        /\ n.tokens = q.tokens
    BY <1>0, <2>a DEF Request
  <2>3. \A g \in D : g.to \in q.to
    BY DEF GrantDocs
  <2>4. \A g \in D : g.to \in Machines => Alive(g.to) /\ g.to \notin TokenMachines
    BY <1>0, <2>1, <2>3 DEF MachineOk, Wraps
  <2> HIDE DEF D
  <2>5. Wraps(n)'
    BY <1>0, <2>1, <2>2, <2>4 DEF MachineOk, Wraps, ActiveToken, Alive
  <2>6. ASSUME NEW g \in grants PROVE Kept(n, g)'
    BY <1>0, <2>1, <2>2, <2>6 DEF MachineOk, Kept, Leaves, Retires, ActiveToken
  <2>7. ASSUME NEW g \in D PROVE Kept(n, g)'
    BY <2>1, <2>4, <2>7 DEF Kept, ActiveToken, Alive
  <2>8. MachineOk(n)'
    BY <2>1, <2>5, <2>6, <2>7 DEF MachineOk, Kept
  <2> QED
    BY <2>1, <2>8, MachineSlot
<1>4. CASE RekeyRevision(r)
  <2>1. /\ q.step = "rekeyRevision" /\ UNCHANGED <<grants, machines, keyVersion>>
        /\ GoTo(r, "rekeyCommit") \/ GoTo(r, "rollback")
    BY <1>4 DEF RekeyRevision, At
  <2>2. CASE GoTo(r, "rekeyCommit")
    <3> DEFINE n == [q EXCEPT !.step = "rekeyCommit"]
    <3>1. /\ n.step = "rekeyCommit" /\ n.lost = q.lost /\ n.who = q.who
          /\ n.tokens = q.tokens
      BY <1>0 DEF Request
    <3>2. Wraps(n)
      BY <1>0, <2>1, <3>1 DEF MachineOk, Wraps
    <3> QED
      BY <2>1, <2>2, <3>2, MachineStays DEF GoTo
  <2>3. CASE GoTo(r, "rollback")
    BY <2>1, <2>3, MachineGoes DEF PlainSteps, Steps
  <2> QED
    BY <2>1, <2>2, <2>3
<1>5. CASE RekeyCommit(r)
  <2>1. /\ q.step = "rekeyCommit" /\ UNCHANGED <<grants, machines>>
    BY <1>5 DEF RekeyCommit, At
  <2>2. CASE GoTo(r, "rollback") /\ UNCHANGED keyVersion
    BY <2>1, <2>2, MachineGoes DEF PlainSteps, Steps
  <2>3. CASE q.tokens = {} /\ Return(r)
    <3>1. \A g \in grants : ~ActiveToken(g.to)
      BY <1>0, <2>1, <2>3 DEF MachineOk, Wraps
    <3>2. \A g \in grants : Kept(Idle, g)'
      BY <1>0, <2>1, <2>3, <3>1 DEF MachineOk, Kept, Leaves, Retires, ActiveToken
    <3>3. MachineOk(Idle)'
      BY <2>1, <3>2 DEF MachineOk, Wraps, Idle
    <3> QED
      BY <2>3, <3>3, MachineSlot DEF Return
  <2>4. CASE GoTo(r, "rekeyRevoke")
    <3>a. PICK n : n = [q EXCEPT !.step = "rekeyRevoke"]
      OBVIOUS
    <3>1. n.step = "rekeyRevoke" /\ n.lost = q.lost /\ n.who = q.who /\ n.tokens = q.tokens
      BY <1>0, <3>a DEF Request
    <3>2. \A g \in grants : Kept(n, g)'
      BY <1>0, <2>1, <3>1 DEF MachineOk, Wraps, Kept, Leaves, Retires, ActiveToken
    <3>3. MachineOk(n)'
      BY <1>0, <2>1, <3>1, <3>2 DEF MachineOk, Wraps
    <3> QED
      BY <2>4, <3>a, <3>3, MachineSlot DEF GoTo
  <2> QED
    BY <1>5, <2>2, <2>3, <2>4 DEF RekeyCommit, CommitUnheard
<1>6. CASE RekeyRevoke(r)
  <2>a. PICK n : n = [q EXCEPT !.step = "rekeyUngrant"]
    OBVIOUS
  <2>1. /\ q.step = "rekeyRevoke" /\ UNCHANGED <<grants, keyVersion>>
        /\ RevokeMachines(q.tokens) /\ Continue(r, n)
    BY <1>6, <2>a DEF RekeyRevoke, At, GoTo
  <2>2. n.step = "rekeyUngrant" /\ n.lost = q.lost /\ n.who = q.who /\ n.tokens = q.tokens
    BY <1>0, <2>a DEF Request
  <2>3. \A m \in Machines : machines'[m] = (IF m \in q.tokens /\ machines[m] # "absent"
                                              THEN "revoked" ELSE machines[m])
    BY <2>1 DEF RevokeMachines
  <2>4. ASSUME NEW g \in grants PROVE Kept(n, g)'
    BY <1>0, <2>1, <2>2, <2>3 DEF MachineOk, Kept, Leaves, Retires, ActiveToken
  <2>5. MachineOk(n)'
    BY <1>0, <2>1, <2>2, <2>4 DEF MachineOk, Wraps
  <2> QED
    BY <2>1, <2>5, MachineSlot
<1>7. CASE RekeyUngrant(r)
  <2>1. /\ q.step = "rekeyUngrant" /\ UNCHANGED <<machines, keyVersion>> /\ Continue(r, Idle)
        /\ grants' = {g \in grants : g.to \notin q.tokens}
    BY <1>7 DEF RekeyUngrant, At, DeleteMachineGrants, Return
  <2>2. \A g \in grants' : Kept(Idle, g)'
    BY <1>0, <2>1 DEF MachineOk, Kept, Leaves, Retires, ActiveToken
  <2>3. MachineOk(Idle)'
    BY <2>1, <2>2 DEF MachineOk, Wraps, Idle
  <2> QED
    BY <2>1, <2>3, MachineSlot
<1>8. CASE Rollback(r)
  <2>1. /\ q.step = "rollback" /\ UNCHANGED <<machines, keyVersion>> /\ Continue(r, Idle)
        /\ grants' \subseteq grants
    BY <1>8 DEF Rollback, At, DeleteGrantsByID, Return
  <2>2. \A g \in grants' : Kept(Idle, g)'
    BY <1>0, <2>1 DEF MachineOk, Kept, Leaves, Retires, ActiveToken
  <2>3. MachineOk(Idle)'
    BY <2>1, <2>2 DEF MachineOk, Wraps, Idle
  <2> QED
    BY <2>1, <2>3, MachineSlot
<1> QED
  BY <1>1, <1>2, <1>3, <1>4, <1>5, <1>6, <1>7, <1>8

LEMMA MachineGrants ==
  ASSUME TypeInv, MachineInv, ~Faults, NEW r, Requests = {r},
         ShareGrants(r) \/ Ungrant(r) \/ EnrollMachine(r)
  PROVE  MachineInv'
<1> DEFINE q == req[r]
<1>0. /\ q \in Request /\ MachineOk(q) /\ Complete(q) /\ grants \in SUBSET Grant
      /\ machines \in [Machines -> {"absent", "active", "expired", "revoked"}]
  BY MachineTypes DEF MachineInv
<1>1. CASE ShareGrants(r)
  <2> DEFINE D == GrantDocs(q.kv, q.dek, {x \in q.to : ~HasGrant(x, q.kv)}, "share")
  <2>1. /\ q.step \in {"share", "enrollGrant"} /\ UNCHANGED <<machines, keyVersion>>
        /\ Continue(r, Idle) /\ grants' = grants \cup D
    BY <1>1 DEF ShareGrants, At, InsertGrants, Return
  <2>2. \A g \in D : g.to \in q.to /\ g.kv = q.kv
    BY DEF GrantDocs
  <2>3. ASSUME NEW g \in D, g.to \in Machines PROVE Alive(g.to)
    BY <1>0, <2>1, <2>2, <2>3 DEF MachineOk, Wraps
  <2> HIDE DEF D
  <2>4. \A g \in D : Kept(Idle, g)'
    BY <2>1, <2>3 DEF Kept, ActiveToken, Alive
  <2>5. \A g \in grants : Kept(Idle, g)'
    BY <1>0, <2>1 DEF MachineOk, Kept, Leaves, Retires, ActiveToken
  <2>6. MachineOk(Idle)'
    BY <2>1, <2>4, <2>5 DEF MachineOk, Wraps, Idle
  <2> QED
    BY <2>1, <2>6, MachineSlot
<1>2. CASE Ungrant(r)
  <2> DEFINE s == IF q.lost THEN "flag" ELSE "idle"
  <2>1. /\ q.step = "ungrant" /\ UNCHANGED <<machines, keyVersion>>
        /\ grants' = {g \in grants : g.to # q.who}
        /\ GoTo(r, "flag") \/ Return(r)
    BY <1>2 DEF Ungrant, At, DeleteRecipientGrants
  <2>2. ASSUME NEW n \in Request, n.step \in {"flag", "idle"}, n.lost => n.who \in Users
        PROVE  MachineOk(n)'
    <3>1. \A g \in grants' : Kept(n, g)'
      BY <1>0, <2>1, <2>2 DEF MachineOk, Kept, Leaves, Retires, ActiveToken
    <3> QED
      BY <2>2, <3>1 DEF MachineOk, Wraps
  <2>3. CASE Return(r)
    <3>1. MachineOk(Idle)'
      BY <2>2, IdleType DEF Idle
    <3> QED
      BY <2>3, <3>1, MachineSlot DEF Return
  <2>4. CASE GoTo(r, "flag")
    <3>1. PICK n : n = [q EXCEPT !.step = "flag"]
      OBVIOUS
    <3>2. n \in Request /\ n.step = "flag" /\ n.lost = q.lost /\ n.who = q.who
      BY <1>0, <3>1 DEF Request, Steps
    <3>3. MachineOk(n)'
      BY <1>0, <2>2, <3>2 DEF MachineOk, Wraps
    <3> QED
      BY <2>4, <3>1, <3>3, MachineSlot DEF GoTo
  <2> QED
    BY <2>1, <2>3, <2>4
<1>3. CASE EnrollMachine(r)
  <2> DEFINE D == GrantDocs(q.kv, q.dek, {x \in q.to : ~HasGrant(x, q.kv)}, "share")
  <2>1. /\ q.step = "enroll" /\ UNCHANGED keyVersion /\ q.who \in Machines
        /\ q.to = {q.who}
    BY <1>0, <1>3 DEF EnrollMachine, At, Complete, MachineOk, Wraps
  <2>2. CASE Return(r) /\ UNCHANGED <<machines, grants>>
    BY <2>1, <2>2, MachineGoes
  <2>3. CASE /\ machines[q.who] = "absent" /\ machines' = [machines EXCEPT ![q.who] = "active"]
             /\ \/ grants' = grants \cup D /\ Return(r)
                \/ UNCHANGED grants /\ GoTo(r, "enrollGrant")
    <3>1. /\ \A g \in grants : g.to # q.who
          /\ machines'[q.who] = "active"
          /\ \A m \in Machines \ {q.who} : machines'[m] = machines[m]
      BY <1>0, <2>1, <2>3 DEF MachineOk, Kept
    <3>2. \A g \in D : g.to = q.who
      BY <2>1 DEF GrantDocs
    <3> HIDE DEF D
    <3>3. ASSUME NEW n, n.step \in {"idle", "enrollGrant"}, NEW g \in grants PROVE Kept(n, g)'
      BY <1>0, <2>1, <3>1, <3>3 DEF MachineOk, Kept, Leaves, Retires, ActiveToken
    <3>4. \A g \in D : Kept(Idle, g)'
      BY <2>1, <3>1, <3>2 DEF Kept, ActiveToken
    <3>5. CASE grants' = grants \cup D /\ Return(r)
      <4>1. Idle.step = "idle"
        BY DEF Idle
      <4>2. \A g \in grants : Kept(Idle, g)'
        BY <3>3, <4>1
      <4>3. MachineOk(Idle)'
        BY <3>4, <3>5, <4>2 DEF MachineOk, Wraps, Idle
      <4> QED
        BY <3>5, <4>3, MachineSlot DEF Return
    <3>6. CASE UNCHANGED grants /\ GoTo(r, "enrollGrant")
      <4>1. PICK n : n = [q EXCEPT !.step = "enrollGrant"]
        OBVIOUS
      <4>2. /\ n.step = "enrollGrant" /\ n.lost = q.lost /\ n.who = q.who /\ n.to = q.to
            /\ n.kv = q.kv
        BY <1>0, <4>1 DEF Request
      <4>3. Wraps(n)'
        BY <1>0, <2>1, <3>1, <4>2 DEF MachineOk, Wraps, Alive
      <4>4. MachineOk(n)'
        BY <3>3, <3>6, <4>2, <4>3 DEF MachineOk
      <4> QED
        BY <3>6, <4>1, <4>4, MachineSlot DEF GoTo
    <3> QED
      BY <2>3, <3>5, <3>6
  <2> QED
    BY <1>3, <2>2, <2>3 DEF EnrollMachine, InsertGrants
<1> QED
  BY <1>1, <1>2, <1>3

LEMMA MachineCalls ==
  ASSUME TypeInv, MachineInv, NEW r, Requests = {r}, NEW u \in Users,
         Writes(r, u) \/ Sharing(r, u)
  PROVE  MachineInv'
<1>0. /\ req[r] = Idle /\ MachineOk(Idle) /\ grants \in SUBSET Grant
      /\ machines \in [Machines -> {"absent", "active", "expired", "revoked"}]
  <2>1. req[r] = Idle
    BY DEF Writes, Sharing, PushRevision, CreateChangeRequest, ApproveChangeRequest, Rekey,
       CreateGrants, UpdateMember, RemoveMember, CreateMachine, RevokeMachine, ResetKeys, Calls
  <2> QED
    BY <2>1, MachineTypes DEF MachineInv
<1>1. ASSUME NEW n, Continue(r, n), Wraps(n), UNCHANGED <<grants, machines, keyVersion>>
      PROVE  MachineInv'
  BY <1>0, <1>1, MachineStays DEF Idle
<1>2. \A s \in Submission(u) : s.lost = FALSE
  BY DEF Submission, Idle
<1>3. CASE PushRevision(r, u) \/ CreateChangeRequest(r, u)
  <2>1. PICK s \in Submission(u), to \in {"write", "propose"} : Continue(r, [s EXCEPT !.step = to])
    BY <1>3 DEF PushRevision, CreateChangeRequest
  <2>2. s \in Request
    BY SubmissionType DEF TypeInv
  <2>3. [s EXCEPT !.step = to].step = to /\ [s EXCEPT !.step = to].lost = FALSE
    BY <1>2, <2>2 DEF Request
  <2>4. Wraps([s EXCEPT !.step = to])
    BY <2>3 DEF Wraps
  <2> QED
    BY <1>1, <1>3, <2>1, <2>4 DEF PushRevision, CreateChangeRequest, storeVars
<1>4. CASE (\E c \in Changes : ApproveChangeRequest(r, u, c)) \/ Rekey(r, u)
  <2>1. \E n : Continue(r, n) /\ n.step \in {"approve", "stalePending", "recipients"}
                /\ n.lost = FALSE
    <3>1. ASSUME NEW c \in Changes, ApproveChangeRequest(r, u, c)
          PROVE  \E n : Continue(r, n) /\ n.step \in {"approve", "stalePending", "recipients"}
                        /\ n.lost = FALSE
      <4> DEFINE n == [Idle EXCEPT
            !.step = IF changes[c].base = headRevision THEN "approve" ELSE "stalePending",
            !.by = u, !.change = c,
            !.base = changes[c].base, !.kv = changes[c].kv, !.dek = changes[c].dek]
      <4>1. n.step \in {"approve", "stalePending"} /\ n.lost = FALSE
        BY DEF Idle
      <4>2. Continue(r, n)
        BY <3>1 DEF ApproveChangeRequest
      <4> QED
        BY <4>1, <4>2
    <3>2. ASSUME Rekey(r, u)
          PROVE  \E n : Continue(r, n) /\ n.step \in {"approve", "stalePending", "recipients"}
                        /\ n.lost = FALSE
      <4> DEFINE n == [Idle EXCEPT !.step = "recipients", !.by = u,
            !.base = headRevision, !.kv = keyVersion + 1, !.dek = minted + 1]
      <4>1. n.step = "recipients" /\ n.lost = FALSE
        BY DEF Idle
      <4>2. Continue(r, n)
        BY <3>2 DEF Rekey
      <4> QED
        BY <4>1, <4>2
    <3> QED
      BY <1>4, <3>1, <3>2
  <2>2. \A n : n.step \in {"approve", "stalePending", "recipients"} /\ n.lost = FALSE => Wraps(n)
    BY DEF Wraps
  <2> QED
    BY <1>1, <1>4, <2>1, <2>2 DEF ApproveChangeRequest, Rekey, storeVars
<1>5. ASSUME NEW x \in Recipients, CreateGrants(r, u, x) PROVE MachineInv'
  <2>0. PICK g : Continue(r, [Idle EXCEPT !.step = "share", !.by = u, !.kv = g.kv,
                                          !.dek = g.dek, !.to = {x}])
    BY <1>5 DEF CreateGrants
  <2>a. PICK n : n = [Idle EXCEPT !.step = "share", !.by = u, !.kv = g.kv,
                                  !.dek = g.dek, !.to = {x}]
    OBVIOUS
  <2>1. Continue(r, n) /\ n.step = "share" /\ n.lost = FALSE /\ n.to = {x}
    BY <2>0, <2>a DEF Idle
  <2>2. x \in Machines => Alive(x)
    BY <1>5 DEF CreateGrants, EntitledToGrant, ActiveMachines, Alive
  <2>3. Wraps(n)
    BY <2>1, <2>2 DEF Wraps
  <2> QED
    BY <1>1, <1>5, <2>1, <2>3 DEF CreateGrants, storeVars
<1>6. ASSUME NEW t \in Users, UpdateMember(r, u, t) \/ RemoveMember(r, u, t) PROVE MachineInv'
  <2>1. \E n : Continue(r, n) /\ n.step \in {"update", "remove"} /\ n.who = t
    <3>1. CASE UpdateMember(r, u, t)
      <4>1. PICK ro, ac, l :
              Continue(r, [Idle EXCEPT !.step = "update", !.by = u, !.who = t,
                                       !.role = ro, !.access = ac, !.lost = l])
        BY <3>1 DEF UpdateMember
      <4> DEFINE n == [Idle EXCEPT !.step = "update", !.by = u, !.who = t, !.role = ro,
                                   !.access = ac, !.lost = l]
      <4>2. n.step = "update" /\ n.who = t
        BY DEF Idle
      <4> QED
        BY <4>1, <4>2
    <3>2. CASE RemoveMember(r, u, t)
      <4> DEFINE n == [Idle EXCEPT !.step = "remove", !.by = u, !.who = t,
                                   !.lost = access[t] # "none"]
      <4>1. n.step = "remove" /\ n.who = t
        BY DEF Idle
      <4>2. Continue(r, n)
        BY <3>2 DEF RemoveMember
      <4> QED
        BY <4>1, <4>2
    <3> QED
      BY <1>6, <3>1, <3>2
  <2>2. \A n : n.step \in {"update", "remove"} /\ n.who = t => Wraps(n)
    BY DEF Wraps
  <2> QED
    BY <1>1, <1>6, <2>1, <2>2 DEF UpdateMember, RemoveMember, storeVars
<1>7. ASSUME NEW m \in Machines, CreateMachine(r, u, m) PROVE MachineInv'
  <2>1. PICK s \in Submission(u) :
          Continue(r, [s EXCEPT !.step = "enroll", !.who = m, !.to = {m}])
    BY <1>7 DEF CreateMachine
  <2>2. s \in Request
    BY SubmissionType DEF TypeInv
  <2>3. PICK n : n = [s EXCEPT !.step = "enroll", !.who = m, !.to = {m}]
    OBVIOUS
  <2>4. /\ n.step = "enroll" /\ n.who = m /\ n.to = {m} /\ n.lost = FALSE
    BY <1>2, <2>2, <2>3 DEF Request
  <2>5. Wraps(n)
    BY <2>4 DEF Wraps
  <2> QED
    BY <1>1, <1>7, <2>1, <2>3, <2>5 DEF CreateMachine, storeVars
<1>8. ASSUME NEW m \in Machines, RevokeMachine(r, u, m) PROVE MachineInv'
  <2>a. PICK n : n = [Idle EXCEPT !.step = "ungrant", !.by = u, !.who = m]
    OBVIOUS
  <2>1. Continue(r, n) /\ n.step = "ungrant" /\ n.who = m /\ n.lost = FALSE
    BY <1>8, <2>a DEF RevokeMachine, Idle
  <2>2. /\ UNCHANGED <<grants, keyVersion>>
        /\ \A k \in Machines : machines'[k] = (IF k = m THEN "revoked" ELSE machines[k])
    BY <1>8 DEF RevokeMachine, RevokeMachines
  <2>3. \A g \in grants : Kept(n, g)'
    BY <1>0, <2>1, <2>2 DEF MachineOk, Kept, Leaves, Retires, ActiveToken, Idle
  <2>4. MachineOk(n)'
    BY <2>1, <2>2, <2>3 DEF MachineOk, Wraps
  <2> QED
    BY <2>1, <2>4, MachineSlot
<1>9. CASE ResetKeys(r, u)
  <2>a. PICK n : n = [Idle EXCEPT !.step = "deleteBundle", !.by = u, !.who = u]
    OBVIOUS
  <2>1. Continue(r, n) /\ n.step = "deleteBundle" /\ n.lost = FALSE
    BY <1>9, <2>a DEF ResetKeys, Idle
  <2>2. UNCHANGED <<machines, keyVersion>> /\ grants' \subseteq grants
    BY <1>9 DEF ResetKeys, DeleteRecipientGrants
  <2>3. \A g \in grants' : Kept(n, g)'
    BY <1>0, <2>1, <2>2 DEF MachineOk, Kept, Leaves, Retires, ActiveToken, Idle
  <2>4. MachineOk(n)'
    BY <2>1, <2>2, <2>3 DEF MachineOk, Wraps
  <2> QED
    BY <2>1, <2>4, MachineSlot
<1> QED
  BY <1>3, <1>4, <1>5, <1>6, <1>7, <1>8, <1>9 DEF Writes, Sharing

\* Machines that are registered without a key, and machines that expire.
LEMMA MachineAlone ==
  ASSUME TypeInv, MachineInv,
         \/ \E u \in Users : Immediate(u)
         \/ \E m \in Machines : ExpireMachine(m)
  PROVE  MachineInv'
<1>0. machines \in [Machines -> {"absent", "active", "expired", "revoked"}]
  BY MachineTypes
<1>1. UNCHANGED <<grants, keyVersion, req>>
  BY DEF Immediate, RejectChangeRequest, AddMember, RegisterMachine, PatchEnvironment,
     PutKeys, ExpireMachine
<1>2. \A x \in Machines : \/ machines'[x] = machines[x]
                          \/ machines[x] = "absent" /\ machines'[x] = "active"
                          \/ machines[x] = "active" /\ machines'[x] = "expired"
  BY <1>0 DEF Immediate, RejectChangeRequest, AddMember, RegisterMachine, PatchEnvironment,
     PutKeys, ExpireMachine
<1>3. ASSUME NEW r \in Requests PROVE MachineOk(req[r])'
  <2> DEFINE q == req[r]
  <2>1. MachineOk(q) /\ Complete(q)
    BY MachineTypes DEF MachineInv
  <2>2. \A g \in grants : Kept(q, g)'
    BY <1>1, <1>2, <2>1 DEF MachineOk, Kept, Leaves, Retires, ActiveToken
  <2>3. \A g \in grants : ActiveToken(g.to)' => ActiveToken(g.to)
    BY <1>1, <1>2, <2>1 DEF MachineOk, Kept, ActiveToken
  <2>4. \A m \in Machines : Alive(m) => Alive(m)'
    BY <1>2 DEF Alive
  <2>5. Wraps(q)'
    BY <1>1, <2>1, <2>3, <2>4 DEF MachineOk, Wraps, Complete
  <2> QED
    BY <1>1, <2>2, <2>5 DEF MachineOk
<1> QED
  BY <1>3 DEF MachineInv

LEMMA MachineNext ==
  ASSUME OneByOne, ~Faults, TypeInv, MachineInv, [Next]_vars
  PROVE  MachineInv'
<1>0. PICK r : Requests = {r}
  BY DEF OneByOne
<1>1. ASSUME Command(r) PROVE MachineInv'
  BY <1>0, <1>1, MachineQuiet, MachineRekey, MachineGrants DEF Command, UndoEnroll, Abort
<1>2. CASE UNCHANGED vars
  BY <1>2 DEF vars, storeVars, MachineInv, MachineOk, Wraps, Kept, Leaves, Retires,
     ActiveToken, Alive
<1> QED
  BY <1>0, <1>1, <1>2, MachineCalls, MachineAlone DEF Next

LEMMA SecrecyRefines == SecrecySpec => Spec
<1>1. SecrecyInit => Init
  BY DEF SecrecyInit
<1>2. [SecrecyNext]_secrecyVars => [Next]_vars
  BY DEF SecrecyNext, secrecyVars
<1> QED
  BY <1>1, <1>2, PTL DEF SecrecySpec, Spec

\* Tokens that a rekey left behind are revoked, or q is about to revoke them.
Gone(q, m) ==
  /\ m \in Machines
  /\ \/ machines[m] = "revoked"
     \/ m \in q.tokens /\ q.step = "rekeyRevoke" /\ machines[m] # "absent"

RetiredInv == \A r \in Requests : \A m \in retired : Gone(req[r], m)

LEMMA MachineImplied == OneByOne /\ MachineInv /\ RetiredInv => MachinesKeepNoOldKey
BY DEF OneByOne, MachineInv, MachineOk, Kept, Leaves, Retires, RetiredInv, Gone,
   MachinesKeepNoOldKey, Evicting, Retiring

\* Without failures a machine that was inserted stays, and a revoked one revoked.
LEMMA MachinesLast ==
  ASSUME TypeInv, ~Faults, [Next]_vars, NEW m \in Machines, machines[m] # "absent"
  PROVE  /\ machines'[m] # "absent"
         /\ machines[m] = "revoked" => machines'[m] = "revoked"
<1>0. machines \in [Machines -> {"absent", "active", "expired", "revoked"}]
  BY MachineTypes
<1>1. ASSUME NEW r \in Requests, EnrollMachine(r) \/ UndoEnroll(r)
      PROVE  machines'[m] = machines[m]
  BY <1>0, <1>1 DEF EnrollMachine, UndoEnroll
<1>2. ASSUME NEW ms, RevokeMachines(ms) PROVE machines'[m] \in {machines[m], "revoked"}
  BY <1>0, <1>2 DEF RevokeMachines
<1>3. ASSUME NEW u \in Users, NEW n \in Machines, RegisterMachine(u, n)
      PROVE  machines'[m] = machines[m]
  BY <1>0, <1>3 DEF RegisterMachine
<1>4. ASSUME NEW n \in Machines, ExpireMachine(n)
      PROVE  machines'[m] # "absent" /\ (machines[m] = "revoked" => machines'[m] = "revoked")
  BY <1>0, <1>4 DEF ExpireMachine
<1>5. CASE machines' # machines
  BY <1>1, <1>2, <1>3, <1>4, <1>5, MachineWriters DEF vars, storeVars
<1> QED
  BY <1>5

\* The key version moves with the commit of a rekey, and with nothing else.
LEMMA Committers ==
  ASSUME Next, keyVersion' # keyVersion
  PROVE  \E r \in Requests : RekeyTx(r) \/ RekeyCommit(r)
<1>1. ASSUME NEW r \in Requests, Command(r) PROVE RekeyTx(r) \/ RekeyCommit(r)
  BY <1>1 DEF Command, InsertChangeRequest, ApproveTransition, MarkStale, WriteRevision,
     WriteConflict, WriteHead, RekeyRecipients, RekeyTxAborts, RekeyGrants, RekeyRevision,
     RekeyRevoke, RekeyUngrant, Rollback, ShareGrants, WriteMember, DeleteMember, Ungrant,
     FlagRekey, DeleteBundle, EnrollMachine, UndoEnroll, Abort, storeVars
<1>2. ASSUME NEW r \in Requests, NEW u \in Users PROVE ~Writes(r, u) /\ ~Sharing(r, u)
  BY DEF Writes, Sharing, PushRevision, CreateChangeRequest, ApproveChangeRequest, Rekey,
     CreateGrants, UpdateMember, RemoveMember, CreateMachine, RevokeMachine, ResetKeys,
     storeVars
<1>3. ASSUME NEW u \in Users PROVE ~Immediate(u)
  BY DEF Immediate, RejectChangeRequest, AddMember, RegisterMachine, PatchEnvironment, PutKeys
<1> QED
  BY <1>1, <1>2, <1>3 DEF Next, ExpireMachine

\* A request that is about to revoke tokens does so next.
LEMMA RevokesNext ==
  ASSUME TypeInv, ~Faults, [Next]_vars, NEW r, Requests = {r}, req[r].step = "rekeyRevoke"
  PROVE  req'[r] = req[r] \/ RekeyRevoke(r)
<1>1. ASSUME Command(r) PROVE RekeyRevoke(r)
  BY <1>1 DEF Command, InsertChangeRequest, ApproveTransition, MarkStale, WriteRevision,
     WriteConflict, WriteHead, RekeyRecipients, RekeyTx, RekeyTxAborts, RekeyGrants,
     RekeyRevision, RekeyCommit, RekeyUngrant, Rollback, ShareGrants, WriteMember,
     DeleteMember, Ungrant, FlagRekey, DeleteBundle, EnrollMachine, UndoEnroll, Abort, At
<1>2. ASSUME NEW u \in Users PROVE ~Writes(r, u) /\ ~Sharing(r, u)
  <2>1. req[r] # Idle
    BY DEF Idle
  <2> QED
    BY <2>1 DEF Writes, Sharing, PushRevision, CreateChangeRequest, ApproveChangeRequest,
       Rekey, CreateGrants, UpdateMember, RemoveMember, CreateMachine, RevokeMachine,
       ResetKeys, Calls
<1>3. ASSUME NEW u \in Users, Immediate(u) PROVE req'[r] = req[r]
  BY <1>3 DEF Immediate, RejectChangeRequest, AddMember, RegisterMachine, PatchEnvironment,
     PutKeys
<1> QED
  BY <1>1, <1>2, <1>3 DEF Next, ExpireMachine, vars

LEMMA RetiredStays ==
  ASSUME OneByOne, ~Faults, TypeInv, RetiredInv, [Next]_vars, UNCHANGED retired
  PROVE  RetiredInv'
<1>0. PICK r : Requests = {r}
  BY DEF OneByOne
<1>1. machines \in [Machines -> {"absent", "active", "expired", "revoked"}]
  BY MachineTypes
<1>2. SUFFICES ASSUME NEW m \in retired PROVE Gone(req[r], m)'
  BY <1>0 DEF RetiredInv
<1>3. Gone(req[r], m)
  BY <1>0 DEF RetiredInv
<1>4. CASE machines[m] = "revoked"
  BY <1>3, <1>4, MachinesLast DEF Gone
<1>5. CASE m \in req[r].tokens /\ req[r].step = "rekeyRevoke" /\ machines[m] # "absent"
  <2>1. CASE req'[r] = req[r]
    BY <1>3, <1>5, <2>1, MachinesLast DEF Gone
  <2>2. CASE RekeyRevoke(r)
    BY <1>1, <1>3, <1>5, <2>2 DEF RekeyRevoke, RevokeMachines, Gone
  <2> QED
    BY <1>0, <1>5, <2>1, <2>2, RevokesNext
<1> QED
  BY <1>3, <1>4, <1>5 DEF Gone

\* The rekey that takes effect revokes every token with a key, or is about to.
LEMMA RetiredGrows ==
  ASSUME OneByOne, ~Faults, TypeInv, MachineInv, RetiredInv, Next,
         keyVersion' # keyVersion, retired' = retired \cup KeyedTokens
  PROVE  RetiredInv'
<1>0. PICK r : Requests = {r}
  BY DEF OneByOne
<1>1. /\ machines \in [Machines -> {"absent", "active", "expired", "revoked"}]
      /\ req[r] \in Request /\ MachineOk(req[r])
  BY <1>0, MachineTypes DEF MachineInv
<1>2. RekeyTx(r) \/ RekeyCommit(r)
  BY <1>0, Committers
<1>3. req[r].step \in {"rekey", "rekeyCommit"}
  BY <1>2 DEF RekeyTx, RekeyCommit, At
<1>4. SUFFICES ASSUME NEW m \in retired' PROVE Gone(req[r], m)'
  BY <1>0 DEF RetiredInv
<1>5. CASE m \in retired
  <2>1. m \in Machines /\ machines[m] = "revoked"
    BY <1>0, <1>3, <1>5 DEF RetiredInv, Gone
  <2> QED
    BY <2>1, MachinesLast DEF Gone
<1>6. CASE m \in KeyedTokens
  <2>1. m \in Machines /\ machines[m] = "active" /\ m \in req[r].tokens
    BY <1>1, <1>3, <1>6 DEF KeyedTokens, ActiveMachines, ActiveToken, MachineOk, Wraps
  <2>2. CASE RekeyTx(r)
    BY <1>1, <2>1, <2>2 DEF RekeyTx, RevokeMachines, Gone
  <2>3. CASE RekeyCommit(r)
    <3>1. UNCHANGED machines /\ GoTo(r, "rekeyRevoke")
      BY <2>1, <2>3 DEF RekeyCommit, CommitUnheard
    <3>2. PICK n : n = [req[r] EXCEPT !.step = "rekeyRevoke"]
      OBVIOUS
    <3>3. n.step = "rekeyRevoke" /\ n.tokens = req[r].tokens
      BY <1>1, <3>2 DEF Request
    <3>4. req'[r] = n
      BY <1>0, <3>1, <3>2 DEF GoTo, Continue, TypeInv, WellFormed
    <3> QED
      BY <2>1, <3>1, <3>3, <3>4 DEF Gone
  <2> QED
    BY <1>2, <2>2, <2>3
<1> QED
  BY <1>5, <1>6

LEMMA RetiredNext ==
  ASSUME OneByOne, ~Faults, TypeInv, MachineInv, RetiredInv, [SecrecyNext]_secrecyVars
  PROVE  RetiredInv'
<1>1. [Next]_vars
  BY DEF SecrecyNext, secrecyVars
<1>2. CASE UNCHANGED retired
  BY <1>1, <1>2, RetiredStays
<1>3. CASE ~UNCHANGED retired
  <2>1. Next /\ keyVersion' # keyVersion /\ retired' = retired \cup KeyedTokens
    BY <1>3 DEF SecrecyNext, secrecyVars
  <2> QED
    BY <2>1, RetiredGrows
<1> QED
  BY <1>2, <1>3

(* While requests come one after the other and none of them fails, a       *)
(* revoked machine is left no wrapped key, and a rekey revokes every token *)
(* that holds a key when it takes effect: the list of token machines it    *)
(* read has them all, whatever is registered or expires before it commits. *)
THEOREM MachineKeysCorrect ==
  ASSUME OneByOne, ~Faults
  PROVE  SecrecySpec => []MachinesKeepNoOldKey
<1>1. TypeInv /\ MachineInv /\ [Next]_vars => MachineInv'
  BY MachineNext
<1>2. TypeInv /\ MachineInv /\ RetiredInv /\ [SecrecyNext]_secrecyVars => RetiredInv'
  BY RetiredNext
<1>3. MachineInv /\ RetiredInv => MachinesKeepNoOldKey
  BY MachineImplied
<1>4. SecrecyInit => RetiredInv
  BY DEF SecrecyInit, RetiredInv
<1> QED
  BY <1>1, <1>2, <1>3, <1>4, MachineInit, SecrecyRefines, TypeCorrect, PTL
     DEF SecrecySpec, Spec

----------------------------------------------------------------------------
(* Secrecy, while requests come one after the other *)

Rekeying == {"recipients", "rekey", "rekeyRevision", "rekeyCommit"}

\* The last revision there may be, with what q has written so far.
ChainEnd(q) ==
  IF q.step = "bump" THEN Raised(q.base + 1)
  ELSE IF q.step = "rekeyCommit" THEN RekeyHead(q) ELSE headRevision

\* Somebody who has the current key calls for a rekey if he may not read.
Harmless(u) == <<u, keyVersion>> \in held => CanRead(u) \/ rekeyRequired

\* What q read is still so: a rekey succeeds, its recipients may read, and a
\* member's change is known to take his access away or not.
Foresees(q) ==
  /\ q.step # "rollback"
  /\ q.step \in Rekeying => q.kv = keyVersion + 1 /\ q.base = headRevision
  /\ q.step = "rekeyRevision" => HasRevision(q)
  /\ q.step \in {"share", "rekey"} => \A u \in q.to \cap Users : CanRead(u)
  /\ q.step \in {"share", "enroll", "enrollGrant"} => q.kv <= keyVersion
  /\ q.step \in {"enroll", "enrollGrant"} => q.to \subseteq Machines
  /\ q.step \in {"update", "remove"} =>
       /\ role[q.who] # "none"
       /\ ~q.lost => access[q.who] = "none" \/ (q.step = "update" /\ q.access # "none")
  /\ q.step = "update" => q.role # "none"
  /\ q.step = "ungrant" /\ ~q.lost /\ q.who \in Users => Harmless(q.who)

\* Nobody has a key of the future, but for the readers whom q has just given
\* the one it is about to make current.
NoneAhead(q) ==
  \A u \in Users, v \in Nat : <<u, v>> \in held =>
    \/ v <= keyVersion
    \/ q.step \in {"rekeyRevision", "rekeyCommit"} /\ v = keyVersion + 1 /\ CanRead(u)

Shielded(q) ==
  \A u \in Users : Harmless(u) \/ (q.who = u /\ q.step \in {"ungrant", "flag"})

SecretOk(q) ==
  /\ Foresees(q) /\ NoneAhead(q) /\ Shielded(q)
  /\ \A x \in revisions : x.n <= ChainEnd(q)

SecretInv ==
  /\ Delivered(grants) \subseteq held
  /\ \A r \in Requests : SecretOk(req[r])

LEMMA SecretImplied == OneByOne /\ SecretInv => KeyKnownOnlyToReaders
BY DEF OneByOne, SecretInv, SecretOk, Shielded, Harmless, KeyKnownOnlyToReaders, Evicting

LEMMA SecretTypes ==
  ASSUME TypeInv
  PROVE  /\ keyVersion \in Nat /\ headRevision \in Nat
         /\ grants \in SUBSET Grant /\ \A x \in revisions : x.n \in Nat
         /\ role \in [Users -> Roles] /\ access \in [Users -> Permissions]
         /\ \A r \in Requests : req[r] \in Request /\ Complete(req[r])
BY DEF TypeInv, WellFormed, TypeOK, StoreTypeOK, Revision

LEMMA SecretInit == SecrecyInit => SecretInv
<1> SUFFICES ASSUME SecrecyInit PROVE SecretInv
  OBVIOUS
<1>1. /\ keyVersion = 1 /\ revisions = {} /\ CanRead(Creator)
      /\ grants = {[kv |-> 1, to |-> Creator, dek |-> 0, via |-> "share"]}
      /\ held = Delivered(grants) /\ \A r \in Requests : req[r] = Idle
  BY DEF SecrecyInit, Init, StoreInit, CanRead
<1>2. held = {<<Creator, 1>>}
  BY <1>1 DEF Delivered
<1>3. Foresees(Idle)
  BY DEF Foresees, Idle, Rekeying
<1>4. NoneAhead(Idle) /\ Shielded(Idle)
  BY <1>1, <1>2 DEF NoneAhead, Shielded, Harmless
<1> QED
  BY <1>1, <1>3, <1>4 DEF SecretInv, SecretOk

\* What a step must see to that leaves n in the one slot.
LEMMA SecretSlot ==
  ASSUME TypeInv, NEW r, Requests = {r}, NEW n, Continue(r, n),
         held' = held \cup Delivered(grants'),
         Foresees(n)', NoneAhead(n)', Shielded(n)', \A x \in revisions' : x.n <= ChainEnd(n)'
  PROVE  SecretInv'
<1>1. req'[r] = n
  BY DEF Continue, TypeInv, WellFormed
<1>2. SecretOk(n)'
  BY DEF SecretOk
<1>3. SecretOk(req[r])'
  BY <1>1, <1>2 DEF SecretOk, Foresees, NoneAhead, Shielded, ChainEnd, Harmless, Raised,
     RekeyHead, HasRevision, CanRead
<1> QED
  BY <1>3 DEF SecretInv

LEMMA HeldShrinks ==
  ASSUME SecretInv, held' = held \cup Delivered(grants'), grants' \subseteq grants
  PROVE  held' = held
BY DEF SecretInv, Delivered

\* Steps after which nothing written waits for another write.
RestingSteps == Steps \ {"bump", "rekeyRevision", "rekeyCommit", "ungrant", "flag"}

\* A step that writes nothing here, and gives nobody a key.
LEMMA SecretStays ==
  ASSUME TypeInv, SecretInv, NEW r, Requests = {r}, NEW n, Continue(r, n),
         held' = held \cup Delivered(grants'), grants' \subseteq grants,
         UNCHANGED <<keyVersion, headRevision, rekeyRequired, role, access, revisions>>,
         Foresees(n), n.step \notin {"bump", "rekeyCommit"}, req[r].step \in RestingSteps
  PROVE  SecretInv'
<1>1. held' = held
  BY HeldShrinks
<1>2. SecretOk(req[r])
  BY DEF SecretInv
<1>3. NoneAhead(n)' /\ Shielded(n)'
  BY <1>1, <1>2 DEF SecretOk, NoneAhead, Shielded, RestingSteps, Harmless, CanRead
<1>4. \A x \in revisions : x.n <= headRevision
  BY <1>2 DEF SecretOk, ChainEnd, RestingSteps
<1>5. \A x \in revisions' : x.n <= ChainEnd(n)'
  BY <1>4 DEF ChainEnd
<1>6. Foresees(n)'
  BY <1>1 DEF Foresees, HasRevision, CanRead, Harmless
<1> QED
  BY <1>3, <1>5, <1>6, SecretSlot

\* Steps that come with no promise.
CarelessSteps == {"idle", "write", "propose", "approve", "stalePending", "staleApproved",
                  "rekeyRevoke", "rekeyUngrant", "deleteBundle"}

LEMMA Careless == \A n : n.step \in CarelessSteps => Foresees(n)
BY DEF Foresees, CarelessSteps, Rekeying

LEMMA SecretQuiet ==
  ASSUME TypeInv, SecretInv, NEW r, Requests = {r}, held' = held \cup Delivered(grants'),
         \/ \E c \in Changes : InsertChangeRequest(r, c)
         \/ ApproveTransition(r) \/ MarkStale(r) \/ WriteConflict(r) \/ RekeyTxAborts(r)
         \/ RekeyRevoke(r) \/ RekeyUngrant(r) \/ DeleteBundle(r)
  PROVE  SecretInv'
<1>1. /\ UNCHANGED <<keyVersion, headRevision, rekeyRequired, role, access, revisions>>
      /\ grants' \subseteq grants /\ req[r].step \in RestingSteps
  BY DEF InsertChangeRequest, ApproveTransition, MarkStale, WriteConflict, RekeyTxAborts,
     RekeyRevoke, RekeyUngrant, DeleteBundle, DeleteMachineGrants, storeVars, At,
     RestingSteps, Steps
<1>2. Return(r) \/ \E s \in CarelessSteps : GoTo(r, s)
  BY DEF InsertChangeRequest, ApproveTransition, MarkStale, WriteConflict, RekeyTxAborts,
     RekeyRevoke, RekeyUngrant, DeleteBundle, CarelessSteps
<1>3. CASE Return(r)
  <2>1. Idle.step = "idle"
    BY DEF Idle
  <2>2. Foresees(Idle)
    BY <2>1, Careless DEF CarelessSteps
  <2> QED
    BY <1>1, <1>3, <2>1, <2>2, SecretStays DEF Return
<1>4. ASSUME NEW s \in CarelessSteps, GoTo(r, s) PROVE SecretInv'
  <2>1. PICK n : n = [req[r] EXCEPT !.step = s]
    OBVIOUS
  <2>2. n.step = s
    BY <2>1, SecretTypes DEF Request
  <2>3. Foresees(n) /\ n.step \notin {"bump", "rekeyCommit"}
    BY <2>2, Careless DEF CarelessSteps
  <2> QED
    BY <1>1, <1>4, <2>1, <2>3, SecretStays DEF GoTo
<1> QED
  BY <1>2, <1>3, <1>4

LEMMA SecretChain ==
  ASSUME TypeInv, SecretInv, NEW r, Requests = {r}, held' = held \cup Delivered(grants'),
         WriteRevision(r) \/ WriteHead(r)
  PROVE  SecretInv'
<1> DEFINE q == req[r]
<1>0. /\ q \in Request /\ SecretOk(q) /\ headRevision \in Nat /\ q.base \in Nat
      /\ \A x \in revisions : x.n \in Nat
  BY SecretTypes DEF SecretInv, Request
<1>1. /\ UNCHANGED <<keyVersion, rekeyRequired, role, access, grants>>
      /\ q.step \in {"write", "bump"}
  BY DEF WriteRevision, WriteHead, At
<1>2. held' = held
  BY <1>1, HeldShrinks
<1>3. ASSUME NEW n, Foresees(n)' PROVE NoneAhead(n)' /\ Shielded(n)'
  BY <1>0, <1>1, <1>2 DEF SecretOk, NoneAhead, Shielded, Harmless, CanRead
<1>4. \A n : n.step \in {"idle", "bump"} => Foresees(n)'
  BY DEF Foresees, Rekeying
<1>5. CASE WriteHead(r)
  <2>1. headRevision' = Raised(q.base + 1) /\ revisions' = revisions /\ q.step = "bump"
        /\ Continue(r, Idle)
    BY <1>5 DEF WriteHead, BumpHead, At, Return
  <2>2. Idle.step = "idle"
    BY DEF Idle
  <2>3. \A x \in revisions' : x.n <= ChainEnd(Idle)'
    BY <1>0, <2>1, <2>2 DEF SecretOk, ChainEnd
  <2> QED
    BY <1>3, <1>4, <2>1, <2>2, <2>3, SecretSlot
<1>6. CASE WriteRevision(r)
  <2>1. /\ q.step = "write" /\ revisions' = revisions \cup {RevisionOf(q)}
        /\ RevisionOf(q).n = q.base + 1
    BY <1>6 DEF WriteRevision, At, InsertRevision, RevisionOf
  <2>2. /\ \A x \in revisions' : x.n <= Raised(q.base + 1)
    BY <1>0, <2>1 DEF SecretOk, ChainEnd, Raised
  <2>3. CASE headRevision' = Raised(q.base + 1) /\ Return(r)
    <3>1. Idle.step = "idle"
      BY DEF Idle
    <3>2. \A x \in revisions' : x.n <= ChainEnd(Idle)'
      BY <2>2, <2>3, <3>1 DEF ChainEnd
    <3> QED
      BY <1>3, <1>4, <2>3, <3>1, <3>2, SecretSlot DEF Return
  <2>4. CASE UNCHANGED headRevision /\ GoTo(r, "bump")
    <3>1. PICK n : n = [q EXCEPT !.step = "bump"]
      OBVIOUS
    <3>2. n.step = "bump" /\ n.base = q.base
      BY <1>0, <3>1 DEF Request
    <3>3. \A x \in revisions' : x.n <= ChainEnd(n)'
      BY <2>2, <2>4, <3>2 DEF ChainEnd, Raised
    <3>4. Foresees(n)'
      BY <1>4, <3>2
    <3>5. NoneAhead(n)' /\ Shielded(n)'
      BY <1>3, <3>4
    <3>6. Continue(r, n)
      BY <2>4, <3>1 DEF GoTo
    <3> QED
      BY <3>3, <3>4, <3>5, <3>6, SecretSlot
  <2> QED
    BY <1>6, <2>3, <2>4 DEF WriteRevision, BumpHead
<1> QED
  BY <1>5, <1>6

LEMMA SecretRekey ==
  ASSUME TypeInv, SecretInv, ~Faults, NEW r, Requests = {r}, held' = held \cup Delivered(grants'),
         \/ RekeyRecipients(r) \/ RekeyTx(r) \/ RekeyGrants(r) \/ RekeyRevision(r)
         \/ RekeyCommit(r)
  PROVE  SecretInv'
<1> DEFINE q == req[r]
<1>0. /\ q \in Request /\ SecretOk(q) /\ headRevision \in Nat /\ q.base \in Nat
      /\ keyVersion \in Nat /\ q.kv \in Nat /\ \A x \in revisions : x.n \in Nat
  BY SecretTypes DEF SecretInv, Request
<1>1. /\ UNCHANGED <<role, access>> /\ q.step \in Rekeying
      /\ q.kv = keyVersion + 1 /\ q.base = headRevision
  BY <1>0 DEF RekeyRecipients, RekeyTx, RekeyGrants, RekeyRevision, RekeyCommit, At,
     Rekeying, storeVars, SecretOk, Foresees
<1>2. CASE RekeyRecipients(r)
  <2>1. PICK n : n = [q EXCEPT !.step = "rekey", !.to = Entitled,
                               !.tokens = ActiveMachines \cap TokenMachines]
    OBVIOUS
  <2>2. n.step = "rekey" /\ n.to = Entitled /\ n.kv = q.kv /\ n.base = q.base
    BY <1>0, <2>1 DEF Request
  <2>3. \A u \in Entitled \cap Users : CanRead(u)
    BY DEF Entitled, ActiveMachines
  <2>4. Foresees(n)
    BY <1>1, <2>2, <2>3 DEF Foresees
  <2> QED
    BY <1>2, <2>1, <2>2, <2>4, SecretStays DEF RekeyRecipients, ListedTokens, At, storeVars,
       RestingSteps, Steps
<1>3. CASE RekeyTx(r)
  <2> DEFINE D == GrantDocs(q.kv, q.dek, {x \in q.to : ~HasGrant(x, q.kv)}, "rekey")
  <2>1. /\ q.step = "rekey" /\ keyVersion' = q.kv /\ headRevision' = Raised(RekeyHead(q))
        /\ grants' = {g \in grants : g.to \notin q.tokens} \cup D /\ Continue(r, Idle)
        /\ \/ HasRevision(q) /\ revisions' = revisions \cup {RevisionOf(q)}
           \/ ~HasRevision(q) /\ UNCHANGED revisions
    BY <1>3 DEF RekeyTx, At, CommitRekey, CommitUnheard, BumpHead, Return, InsertRevision
  <2>2. \A g \in D : g.to \in q.to /\ g.kv = q.kv
    BY DEF GrantDocs
  <2> HIDE DEF D
  <2>3. ASSUME NEW u \in Users, NEW v \in Nat, <<u, v>> \in held'
        PROVE  v <= keyVersion \/ (v = keyVersion + 1 /\ CanRead(u))
    <3>1. CASE <<u, v>> \in held
      BY <1>0, <2>1, <3>1 DEF SecretOk, NoneAhead
    <3>2. CASE <<u, v>> \notin held
      <4>1. PICK g \in grants' : <<u, v>> = <<g.to, g.kv>>
        BY <2>3, <3>2 DEF Delivered
      <4>2. g \in D
        BY <2>1, <3>2, <4>1 DEF SecretInv, Delivered
      <4> QED
        BY <1>0, <1>1, <2>1, <2>2, <4>1, <4>2 DEF SecretOk, Foresees
    <3> QED
      BY <3>1, <3>2
  <2>4. Idle.step = "idle" /\ Foresees(Idle)'
    BY DEF Idle, Foresees, Rekeying
  <2>5. NoneAhead(Idle)'
    BY <1>0, <1>1, <2>1, <2>3 DEF NoneAhead
  <2>8. Shielded(Idle)'
    <3>1. keyVersion' \in Nat /\ keyVersion' = keyVersion + 1
      BY <1>0, <1>1, <2>1
    <3>2. ASSUME NEW u \in Users, <<u, keyVersion'>> \in held' PROVE CanRead(u)'
      <4>1. CanRead(u)
        BY <1>0, <2>3, <3>1, <3>2
      <4> QED
        BY <1>1, <4>1 DEF CanRead
    <3> QED
      BY <3>2 DEF Shielded, Harmless
  <2>6. \A x \in revisions' : x.n <= headRevision'
    BY <1>0, <1>1, <2>1 DEF SecretOk, ChainEnd, Raised, RekeyHead, RevisionOf, HasRevision
  <2>7. \A x \in revisions' : x.n <= ChainEnd(Idle)'
    BY <2>4, <2>6 DEF ChainEnd
  <2> QED
    BY <2>1, <2>4, <2>5, <2>7, <2>8, SecretSlot
<1>4. CASE RekeyGrants(r)
  <2> DEFINE D == GrantDocs(q.kv, q.dek, {x \in q.to : ~HasGrant(x, q.kv)}, "rekey")
  <2>1. PICK s : /\ s = (IF HasRevision(q) THEN "rekeyRevision" ELSE "rekeyCommit")
                 /\ GoTo(r, s)
    BY <1>4 DEF RekeyGrants
  <2>2. PICK n : n = [q EXCEPT !.step = s]
    OBVIOUS
  <2>3. n.step = s /\ n.kv = q.kv /\ n.base = q.base
    BY <1>0, <2>2 DEF Request
  <2>4. /\ q.step = "rekey" /\ grants' = grants \cup D /\ Continue(r, n)
        /\ UNCHANGED <<keyVersion, headRevision, rekeyRequired, revisions>>
    BY <1>4, <2>1, <2>2 DEF RekeyGrants, At, InsertGrants, GoTo
  <2>5. \A g \in D : g.to \in q.to /\ g.kv = q.kv
    BY DEF GrantDocs
  <2> HIDE DEF D
  <2>6. ASSUME NEW u \in Users, NEW v \in Nat, <<u, v>> \in held'
        PROVE  \/ v <= keyVersion /\ <<u, v>> \in held
               \/ v = keyVersion + 1 /\ CanRead(u)
    <3>1. CASE <<u, v>> \in held
      BY <1>0, <2>4, <3>1 DEF SecretOk, NoneAhead
    <3>2. CASE <<u, v>> \notin held
      <4>1. PICK g \in grants' : <<u, v>> = <<g.to, g.kv>>
        BY <2>6, <3>2 DEF Delivered
      <4>2. g \in D
        BY <2>4, <3>2, <4>1 DEF SecretInv, Delivered
      <4> QED
        BY <1>0, <1>1, <2>4, <2>5, <4>1, <4>2 DEF SecretOk, Foresees
    <3> QED
      BY <3>1, <3>2
  <2>7. Foresees(n)'
    BY <1>1, <2>1, <2>3, <2>4 DEF Foresees, HasRevision
  <2>8. NoneAhead(n)'
    BY <2>1, <2>3, <2>4, <2>6, <1>1 DEF NoneAhead, CanRead
  <2>9. Shielded(n)'
    BY <1>0, <1>1, <2>4, <2>6 DEF SecretOk, Shielded, Harmless, CanRead
  <2>10. \A x \in revisions' : x.n <= ChainEnd(n)'
    BY <1>0, <1>1, <2>1, <2>3, <2>4 DEF SecretOk, ChainEnd, RekeyHead, HasRevision
  <2> QED
    BY <2>4, <2>7, <2>8, <2>9, <2>10, SecretSlot
<1>5. CASE RekeyRevision(r)
  <2>1. /\ q.step = "rekeyRevision" /\ HasRevision(q)
        /\ UNCHANGED <<keyVersion, headRevision, rekeyRequired, grants>>
    BY <1>0, <1>5 DEF RekeyRevision, At, SecretOk, Foresees
  <2>2. ~RevisionExists(q.base + 1)
    BY <1>0, <1>1, <2>1 DEF SecretOk, ChainEnd, RevisionExists
  <2>3. revisions' = revisions \cup {RevisionOf(q)} /\ GoTo(r, "rekeyCommit")
    BY <1>5, <2>2 DEF RekeyRevision, InsertRevision
  <2>4. PICK n : n = [q EXCEPT !.step = "rekeyCommit"]
    OBVIOUS
  <2>5. n.step = "rekeyCommit" /\ n.kv = q.kv /\ n.base = q.base
    BY <1>0, <2>4 DEF Request
  <2>6. held' = held
    BY <2>1, HeldShrinks
  <2>7. Foresees(n)' /\ NoneAhead(n)' /\ Shielded(n)'
    BY <1>0, <1>1, <2>1, <2>5, <2>6 DEF SecretOk, Foresees, NoneAhead, Shielded, Harmless,
       CanRead
  <2>8. \A x \in revisions' : x.n <= ChainEnd(n)'
    BY <1>0, <1>1, <2>1, <2>3, <2>5 DEF SecretOk, ChainEnd, RekeyHead, HasRevision, RevisionOf
  <2> QED
    BY <2>3, <2>4, <2>7, <2>8, SecretSlot DEF GoTo
<1>6. CASE RekeyCommit(r)
  <2>1. /\ q.step = "rekeyCommit" /\ keyVersion' = q.kv /\ rekeyRequired' = FALSE
        /\ headRevision' = Raised(RekeyHead(q)) /\ UNCHANGED <<grants, revisions>>
        /\ Return(r) \/ GoTo(r, "rekeyRevoke")
    BY <1>0, <1>1, <1>6 DEF RekeyCommit, At, CommitRekey, CommitUnheard, BumpHead
  <2>2. held' = held
    BY <2>1, HeldShrinks
  <2>3. ASSUME NEW n, n.step \in {"idle", "rekeyRevoke"}, Continue(r, n) PROVE SecretInv'
    <3>1. Foresees(n)'
      BY <2>3 DEF Foresees, Rekeying
    <3>2. NoneAhead(n)' /\ Shielded(n)'
      BY <1>0, <1>1, <2>1, <2>2 DEF SecretOk, NoneAhead, Shielded, Harmless, CanRead
    <3>3. \A x \in revisions' : x.n <= ChainEnd(n)'
      BY <1>0, <1>1, <2>1, <2>3 DEF SecretOk, ChainEnd, Raised, RekeyHead, HasRevision
    <3> QED
      BY <2>3, <3>1, <3>2, <3>3, SecretSlot
  <2>4. CASE Return(r)
    <3>1. Idle.step = "idle"
      BY DEF Idle
    <3> QED
      BY <2>3, <2>4, <3>1 DEF Return
  <2>5. CASE GoTo(r, "rekeyRevoke")
    <3>1. PICK n : n = [q EXCEPT !.step = "rekeyRevoke"]
      OBVIOUS
    <3>2. n.step = "rekeyRevoke"
      BY <1>0, <3>1 DEF Request
    <3>3. Continue(r, n)
      BY <2>5, <3>1 DEF GoTo
    <3> QED
      BY <2>3, <3>2, <3>3
  <2> QED
    BY <2>1, <2>4, <2>5
<1> QED
  BY <1>2, <1>3, <1>4, <1>5, <1>6

LEMMA SecretShares ==
  ASSUME TypeInv, SecretInv, NEW r, Requests = {r}, held' = held \cup Delivered(grants'),
         ShareGrants(r) \/ EnrollMachine(r)
  PROVE  SecretInv'
<1> DEFINE q == req[r]
           D == GrantDocs(q.kv, q.dek, {x \in q.to : ~HasGrant(x, q.kv)}, "share")
<1>0. /\ q \in Request /\ SecretOk(q) /\ Complete(q) /\ keyVersion \in Nat /\ q.kv \in Nat
  BY SecretTypes DEF SecretInv, Request
<1>1. /\ UNCHANGED <<keyVersion, headRevision, rekeyRequired, role, access, revisions>>
      /\ q.step \in {"share", "enroll", "enrollGrant"}
  BY DEF ShareGrants, EnrollMachine, At
<1>2. grants' = grants \/ grants' = grants \cup D
  BY DEF ShareGrants, EnrollMachine, InsertGrants
<1>3. \A g \in D : g.to \in q.to /\ g.kv = q.kv
  BY DEF GrantDocs
<1> HIDE DEF D
<1>4. \A g \in D : g.kv <= keyVersion /\ (g.to \in Users => CanRead(g.to))
  BY <1>0, <1>1, <1>3 DEF SecretOk, Foresees
<1>5. ASSUME NEW u \in Users, NEW v \in Nat, <<u, v>> \in held'
      PROVE  v <= keyVersion /\ (<<u, v>> \in held \/ CanRead(u))
  <2>1. CASE <<u, v>> \in held
    BY <1>0, <1>1, <2>1 DEF SecretOk, NoneAhead
  <2>2. CASE <<u, v>> \notin held
    <3>1. PICK g \in grants' : <<u, v>> = <<g.to, g.kv>>
      BY <1>5, <2>2 DEF Delivered
    <3>2. g \in D
      BY <1>2, <2>2, <3>1 DEF SecretInv, Delivered
    <3> QED
      BY <1>4, <3>1, <3>2
  <2> QED
    BY <2>1, <2>2
<1>6. \A x \in revisions : x.n <= headRevision
  BY <1>0, <1>1 DEF SecretOk, ChainEnd
<1>7. ASSUME NEW n, n.step \in {"idle", "enrollGrant"}, Continue(r, n), Foresees(n)'
      PROVE  SecretInv'
  <2>1. NoneAhead(n)' /\ Shielded(n)'
    BY <1>0, <1>1, <1>5 DEF SecretOk, NoneAhead, Shielded, Harmless, CanRead
  <2>2. \A x \in revisions' : x.n <= ChainEnd(n)'
    BY <1>1, <1>6, <1>7 DEF ChainEnd
  <2> QED
    BY <1>7, <2>1, <2>2, SecretSlot
<1>8. CASE Return(r)
  <2>1. Idle.step = "idle" /\ Foresees(Idle)'
    BY DEF Idle, Foresees, Rekeying
  <2> QED
    BY <1>7, <1>8, <2>1 DEF Return
<1>9. CASE GoTo(r, "enrollGrant") /\ q.step = "enroll"
  <2>1. PICK n : n = [q EXCEPT !.step = "enrollGrant"]
    OBVIOUS
  <2>2. n.step = "enrollGrant" /\ n.kv = q.kv /\ n.to = q.to
    BY <1>0, <2>1 DEF Request
  <2>3. Foresees(n)'
    BY <1>0, <1>1, <1>9, <2>2 DEF SecretOk, Foresees, Rekeying
  <2>4. Continue(r, n)
    BY <1>9, <2>1 DEF GoTo
  <2> QED
    BY <1>7, <2>2, <2>3, <2>4
<1> QED
  BY <1>8, <1>9 DEF ShareGrants, EnrollMachine, At

LEMMA SecretMembers ==
  ASSUME TypeInv, SecretInv, NEW r, Requests = {r}, held' = held \cup Delivered(grants'),
         WriteMember(r) \/ DeleteMember(r) \/ Ungrant(r) \/ FlagRekey(r)
  PROVE  SecretInv'
<1> DEFINE q == req[r]
<1>0. /\ q \in Request /\ SecretOk(q) /\ Complete(q)
      /\ role \in [Users -> Roles] /\ access \in [Users -> Permissions]
  BY SecretTypes DEF SecretInv
<1>1. /\ UNCHANGED <<keyVersion, headRevision, revisions>> /\ grants' \subseteq grants
      /\ q.step \in {"update", "remove", "ungrant", "flag"}
  BY DEF WriteMember, DeleteMember, Ungrant, FlagRekey, At, DeleteRecipientGrants
<1>2. held' = held
  BY <1>1, HeldShrinks
<1>3. ASSUME NEW n, n.step \in {"idle", "ungrant", "flag"}, Continue(r, n),
             Shielded(n)', n.step = "ungrant" /\ ~n.lost /\ n.who \in Users => Harmless(n.who)'
      PROVE  SecretInv'
  <2>1. Foresees(n)'
    BY <1>3 DEF Foresees, Rekeying
  <2>2. NoneAhead(n)'
    BY <1>0, <1>1, <1>2 DEF SecretOk, NoneAhead
  <2>3. \A x \in revisions' : x.n <= ChainEnd(n)'
    BY <1>0, <1>1, <1>3 DEF SecretOk, ChainEnd
  <2> QED
    BY <1>3, <2>1, <2>2, <2>3, SecretSlot
<1>4. Idle.step = "idle" /\ (Return(r) <=> Continue(r, Idle))
  BY DEF Idle, Return
<1>5. ASSUME NEW s \in {"ungrant", "flag"}, GoTo(r, s)
      PROVE  \E n : Continue(r, n) /\ n.step = s /\ n.lost = q.lost /\ n.who = q.who
  <2>1. PICK n : n = [q EXCEPT !.step = s]
    OBVIOUS
  <2>2. n.step = s /\ n.lost = q.lost /\ n.who = q.who
    BY <1>0, <2>1 DEF Request
  <2> QED
    BY <1>5, <2>1, <2>2 DEF GoTo
<1>6. CASE WriteMember(r)
  <2>w. PICK w : w = q.who
    OBVIOUS
  <2>1. /\ q.step = "update" /\ w \in Users /\ UNCHANGED rekeyRequired
        /\ role[w] # "none" /\ q.role # "none"
        /\ ~q.lost => access[w] = "none" \/ q.access # "none"
    BY <1>0, <1>6, <2>w DEF WriteMember, At, Complete, SecretOk, Foresees
  <2>p. PICK ro, ac : ro = q.role /\ ac = q.access
    OBVIOUS
  <2>2. /\ role' = [role EXCEPT ![w] = ro]
        /\ access' = [access EXCEPT ![w] = ac]
    BY <1>6, <2>1, <2>w, <2>p DEF WriteMember
  <2>q. /\ \A u \in Users \ {w} : Harmless(u)
        /\ ~q.lost => Harmless(w)
    BY <1>0, <2>1, <2>w DEF SecretOk, Shielded
  <2>3. \A u \in Users \ {w} : Harmless(u)'
    BY <1>0, <1>1, <1>2, <2>1, <2>2, <2>q DEF Harmless, CanRead
  <2>4. CASE q.lost
    <3>1. PICK n : Continue(r, n) /\ n.step = "ungrant" /\ n.lost /\ n.who = w
      BY <1>5, <1>6, <2>4, <2>w DEF WriteMember
    <3>2. Shielded(n)'
      BY <2>3, <3>1 DEF Shielded
    <3> QED
      BY <1>3, <3>1, <3>2
  <2>5. CASE ~q.lost
    <3>1. Continue(r, Idle)
      BY <1>4, <1>6, <2>5 DEF WriteMember
    <3>3. Harmless(w)'
      <4>1. role'[w] = ro /\ access'[w] = ac /\ ro # "none"
        BY <1>0, <2>1, <2>2, <2>p
      <4>2. access[w] = "none" \/ ac # "none"
        BY <2>1, <2>5, <2>p
      <4> QED
        BY <1>0, <1>1, <1>2, <2>1, <2>5, <2>q, <4>1, <4>2 DEF Harmless, CanRead
    <3>4. Shielded(Idle)'
      BY <2>3, <3>3 DEF Shielded
    <3> QED
      BY <1>3, <1>4, <3>1, <3>4
  <2> QED
    BY <2>4, <2>5
<1>7. CASE DeleteMember(r)
  <2>w. PICK w, lost : w = q.who /\ lost = q.lost
    OBVIOUS
  <2>1. /\ q.step = "remove" /\ w \in Users /\ UNCHANGED rekeyRequired
        /\ ~lost => access[w] = "none"
        /\ role' = [role EXCEPT ![w] = "none"]
        /\ access' = [access EXCEPT ![w] = "none"] /\ GoTo(r, "ungrant")
    BY <1>0, <1>7, <2>w DEF DeleteMember, At, Complete, SecretOk, Foresees
  <2>2. PICK n : Continue(r, n) /\ n.step = "ungrant" /\ n.lost = lost /\ n.who = w
    BY <1>5, <2>1, <2>w
  <2>q. /\ \A u \in Users \ {w} : Harmless(u)
        /\ ~lost => Harmless(w)
    BY <1>0, <2>1, <2>w DEF SecretOk, Shielded
  <2>3. \A u \in Users \ {w} : Harmless(u)'
    BY <1>0, <1>1, <1>2, <2>1, <2>q DEF Harmless, CanRead
  <2>4. Shielded(n)'
    BY <2>2, <2>3 DEF Shielded
  <2>5. ~lost => Harmless(w)'
    BY <1>0, <1>1, <1>2, <2>1, <2>q DEF Harmless, CanRead
  <2> QED
    BY <1>3, <2>2, <2>4, <2>5
<1>8. CASE Ungrant(r)
  <2>1. q.step = "ungrant" /\ UNCHANGED <<rekeyRequired, role, access>>
    BY <1>8 DEF Ungrant, At
  <2>2. \A u \in Users : Harmless(u) => Harmless(u)'
    BY <1>1, <1>2, <2>1 DEF Harmless, CanRead
  <2>3. CASE q.lost
    <3>1. PICK n : Continue(r, n) /\ n.step = "flag" /\ n.lost = q.lost /\ n.who = q.who
      BY <1>5, <1>8, <2>3 DEF Ungrant
    <3>2. Shielded(n)'
      BY <1>0, <2>1, <2>2, <3>1 DEF SecretOk, Shielded
    <3> QED
      BY <1>3, <3>1, <3>2
  <2>4. CASE ~q.lost
    <3>1. Continue(r, Idle)
      BY <1>4, <1>8, <2>4 DEF Ungrant
    <3>2. Shielded(Idle)'
      BY <1>0, <2>1, <2>2, <2>4 DEF SecretOk, Shielded, Foresees
    <3> QED
      BY <1>3, <1>4, <3>1, <3>2
  <2> QED
    BY <2>3, <2>4
<1>9. CASE FlagRekey(r)
  <2>1. rekeyRequired' /\ Continue(r, Idle)
    BY <1>4, <1>9 DEF FlagRekey, SetRekeyRequired
  <2>2. Shielded(Idle)'
    BY <2>1 DEF Shielded, Harmless
  <2> QED
    BY <1>3, <1>4, <2>1, <2>2
<1> QED
  BY <1>6, <1>7, <1>8, <1>9

LEMMA SecretCalls ==
  ASSUME TypeInv, SecretInv, NEW r, Requests = {r}, held' = held \cup Delivered(grants'),
         NEW u \in Users, Writes(r, u) \/ Sharing(r, u)
  PROVE  SecretInv'
<1>0. /\ req[r] = Idle /\ SecretOk(Idle) /\ headRevision \in Nat /\ keyVersion \in Nat
      /\ role \in [Users -> Roles] /\ access \in [Users -> Permissions]
      /\ grants \in SUBSET Grant
  <2>1. req[r] = Idle
    BY DEF Writes, Sharing, PushRevision, CreateChangeRequest, ApproveChangeRequest, Rekey,
       CreateGrants, UpdateMember, RemoveMember, CreateMachine, RevokeMachine, ResetKeys, Calls
  <2> QED
    BY <2>1, SecretTypes DEF SecretInv
<1>1. /\ UNCHANGED <<keyVersion, headRevision, rekeyRequired, role, access, revisions>>
      /\ grants' \subseteq grants
  BY DEF Writes, Sharing, PushRevision, CreateChangeRequest, ApproveChangeRequest, Rekey,
     CreateGrants, UpdateMember, RemoveMember, CreateMachine, RevokeMachine, ResetKeys,
     storeVars, DeleteRecipientGrants
<1>2. ASSUME NEW n, Continue(r, n), Foresees(n), n.step \notin {"bump", "rekeyCommit"}
      PROVE  SecretInv'
  <2>1. req[r].step \in RestingSteps
    BY <1>0 DEF Idle, RestingSteps, Steps
  <2> QED
    BY <1>1, <1>2, <2>1, SecretStays
<1>3. ASSUME NEW n, Continue(r, n), n.step \in CarelessSteps PROVE SecretInv'
  BY <1>2, <1>3, Careless DEF CarelessSteps
<1>4. \A s \in Submission(u) : s \in Request /\ s.kv = keyVersion
  BY SubmissionType DEF TypeInv, Submission, Idle
<1>5. ASSUME PushRevision(r, u) \/ CreateChangeRequest(r, u) PROVE SecretInv'
  <2>1. PICK s \in Submission(u), to \in {"write", "propose"} : Continue(r, [s EXCEPT !.step = to])
    BY <1>5 DEF PushRevision, CreateChangeRequest
  <2>2. PICK n : n = [s EXCEPT !.step = to]
    OBVIOUS
  <2>3. n.step = to
    BY <1>4, <2>2 DEF Request
  <2> QED
    BY <1>3, <2>1, <2>2, <2>3 DEF CarelessSteps
<1>6. ASSUME NEW c \in Changes, ApproveChangeRequest(r, u, c) PROVE SecretInv'
  <2>1. PICK n : n = [Idle EXCEPT
            !.step = IF changes[c].base = headRevision THEN "approve" ELSE "stalePending",
            !.by = u, !.change = c,
            !.base = changes[c].base, !.kv = changes[c].kv, !.dek = changes[c].dek]
    OBVIOUS
  <2>2. n.step \in {"approve", "stalePending"}
    BY <2>1 DEF Idle
  <2>3. Continue(r, n)
    BY <1>6, <2>1 DEF ApproveChangeRequest
  <2> QED
    BY <1>3, <2>2, <2>3 DEF CarelessSteps
<1>7. ASSUME Rekey(r, u) PROVE SecretInv'
  <2>1. PICK n : n = [Idle EXCEPT !.step = "recipients", !.by = u,
            !.base = headRevision, !.kv = keyVersion + 1, !.dek = minted + 1]
    OBVIOUS
  <2>2. n.step = "recipients" /\ n.base = headRevision /\ n.kv = keyVersion + 1
    BY <2>1 DEF Idle
  <2>3. Continue(r, n)
    BY <1>7, <2>1 DEF Rekey
  <2>4. Foresees(n)
    BY <2>2 DEF Foresees
  <2> QED
    BY <1>2, <2>2, <2>3, <2>4
<1>8. ASSUME NEW x \in Recipients, CreateGrants(r, u, x) PROVE SecretInv'
  <2>1. PICK g \in grants : /\ g.to = u /\ g.kv \in 1..keyVersion
                            /\ Continue(r, [Idle EXCEPT !.step = "share", !.by = u, !.kv = g.kv,
                                                        !.dek = g.dek, !.to = {x}])
    BY <1>8 DEF CreateGrants
  <2>2. PICK n : n = [Idle EXCEPT !.step = "share", !.by = u, !.kv = g.kv,
                                  !.dek = g.dek, !.to = {x}]
    OBVIOUS
  <2>3. n.step = "share" /\ n.kv = g.kv /\ n.to = {x}
    BY <2>2 DEF Idle
  <2>4. g.kv <= keyVersion
    BY <1>0, <2>1
  <2>5. x \in Users => CanRead(x)
    BY <1>8 DEF CreateGrants, EntitledToGrant
  <2>6. Foresees(n)
    BY <2>3, <2>4, <2>5 DEF Foresees, Rekeying
  <2> QED
    BY <1>2, <2>1, <2>2, <2>3, <2>6
<1>9. ASSUME NEW t \in Users, UpdateMember(r, u, t) PROVE SecretInv'
  <2>1. PICK ro, ac :
          /\ Continue(r, [Idle EXCEPT !.step = "update", !.by = u, !.who = t, !.role = ro,
                !.access = ac, !.lost = access[t] # "none" /\ ac = "none"])
          /\ role[t] # "none" /\ ro # "none"
    <3>1. PICK p \in MemberPatches, keepRole \in BOOLEAN :
            \E ac : Continue(r, [Idle EXCEPT !.step = "update", !.by = u, !.who = t,
              !.role = IF keepRole THEN role[t] ELSE p[1],
              !.access = ac, !.lost = access[t] # "none" /\ ac = "none"])
      BY <1>9 DEF UpdateMember
    <3>2. role[t] # "none" /\ p[1] # "none"
      BY <1>9 DEF UpdateMember
    <3> QED
      BY <3>1, <3>2
  <2>2. PICK n : n = [Idle EXCEPT !.step = "update", !.by = u, !.who = t, !.role = ro,
                        !.access = ac, !.lost = access[t] # "none" /\ ac = "none"]
    OBVIOUS
  <2>3. /\ n.step = "update" /\ n.who = t /\ n.role = ro /\ n.access = ac
        /\ n.lost = (access[t] # "none" /\ ac = "none")
    BY <2>2 DEF Idle
  <2>4. Foresees(n)
    BY <2>1, <2>3 DEF Foresees, Rekeying
  <2> QED
    BY <1>2, <2>1, <2>2, <2>3, <2>4
<1>10. ASSUME NEW t \in Users, RemoveMember(r, u, t) PROVE SecretInv'
  <2>1. PICK n : n = [Idle EXCEPT !.step = "remove", !.by = u, !.who = t,
                                  !.lost = access[t] # "none"]
    OBVIOUS
  <2>2. n.step = "remove" /\ n.who = t /\ n.lost = (access[t] # "none")
    BY <2>1 DEF Idle
  <2>3. Continue(r, n) /\ role[t] # "none"
    BY <1>10, <2>1 DEF RemoveMember
  <2>4. Foresees(n)
    BY <2>2, <2>3 DEF Foresees, Rekeying
  <2> QED
    BY <1>2, <2>2, <2>3, <2>4
<1>11. ASSUME NEW m \in Machines, CreateMachine(r, u, m) PROVE SecretInv'
  <2>1. PICK s \in Submission(u) :
          Continue(r, [s EXCEPT !.step = "enroll", !.who = m, !.to = {m}])
    BY <1>11 DEF CreateMachine
  <2>2. PICK n : n = [s EXCEPT !.step = "enroll", !.who = m, !.to = {m}]
    OBVIOUS
  <2>3. n.step = "enroll" /\ n.kv = keyVersion /\ n.to = {m}
    BY <1>4, <2>2 DEF Request
  <2>4. Foresees(n)
    BY <1>0, <2>3 DEF Foresees, Rekeying
  <2> QED
    BY <1>2, <2>1, <2>2, <2>3, <2>4
<1>12. ASSUME NEW m \in Machines, RevokeMachine(r, u, m) PROVE SecretInv'
  <2>1. PICK n : n = [Idle EXCEPT !.step = "ungrant", !.by = u, !.who = m]
    OBVIOUS
  <2>2. n.step = "ungrant" /\ n.who = m
    BY <2>1 DEF Idle
  <2>3. Continue(r, n)
    BY <1>12, <2>1 DEF RevokeMachine
  <2>4. Foresees(n)
    BY <2>2 DEF Foresees, Rekeying
  <2> QED
    BY <1>2, <2>2, <2>3, <2>4
<1>13. ASSUME ResetKeys(r, u) PROVE SecretInv'
  <2>1. PICK n : n = [Idle EXCEPT !.step = "deleteBundle", !.by = u, !.who = u]
    OBVIOUS
  <2>2. n.step = "deleteBundle"
    BY <2>1 DEF Idle
  <2>3. Continue(r, n)
    BY <1>13, <2>1 DEF ResetKeys
  <2> QED
    BY <1>3, <2>2, <2>3 DEF CarelessSteps
<1> QED
  BY <1>5, <1>6, <1>7, <1>8, <1>9, <1>10, <1>11, <1>12, <1>13 DEF Writes, Sharing

\* Members added, keys uploaded, machines registered or expired meanwhile.
LEMMA SecretAlone ==
  ASSUME TypeInv, SecretInv, held' = held \cup Delivered(grants'),
         \/ \E u \in Users : Immediate(u)
         \/ \E m \in Machines : ExpireMachine(m)
  PROVE  SecretInv'
<1>0. role \in [Users -> Roles] /\ access \in [Users -> Permissions]
  BY SecretTypes
<1>1. UNCHANGED <<keyVersion, headRevision, rekeyRequired, grants, revisions, req>>
  BY DEF Immediate, RejectChangeRequest, AddMember, RegisterMachine, PatchEnvironment,
     PutKeys, ExpireMachine
<1>2. held' = held
  BY <1>1, HeldShrinks
<1>3. \A t \in Users : role[t] # "none" => role'[t] = role[t] /\ access'[t] = access[t]
  BY <1>0 DEF Immediate, RejectChangeRequest, AddMember, RegisterMachine, PatchEnvironment,
     PutKeys, ExpireMachine
<1>4. \A t \in Users : CanRead(t) => CanRead(t)'
  BY <1>3 DEF CanRead
<1>5. ASSUME NEW r \in Requests PROVE SecretOk(req[r])'
  <2> DEFINE q == req[r]
  <2>1. SecretOk(q) /\ Complete(q)
    BY SecretTypes DEF SecretInv
  <2>2. \A t \in Users : Harmless(t) => Harmless(t)'
    BY <1>1, <1>2, <1>4 DEF Harmless
  <2>3. Foresees(q)'
    BY <1>1, <1>3, <1>4, <2>1, <2>2 DEF SecretOk, Foresees, Complete, HasRevision
  <2>4. NoneAhead(q)' /\ Shielded(q)'
    BY <1>1, <1>2, <1>4, <2>1, <2>2 DEF SecretOk, NoneAhead, Shielded
  <2>5. \A x \in revisions' : x.n <= ChainEnd(q)'
    BY <1>1, <2>1 DEF SecretOk, ChainEnd, Raised, RekeyHead, HasRevision
  <2> QED
    BY <2>3, <2>4, <2>5 DEF SecretOk
<1> QED
  BY <1>1, <1>2, <1>5 DEF SecretInv

LEMMA SecretNext ==
  ASSUME OneByOne, ~Faults, TypeInv, SecretInv, [SecrecyNext]_secrecyVars
  PROVE  SecretInv'
<1>0. PICK r : Requests = {r}
  BY DEF OneByOne
<1>1. ASSUME Command(r), held' = held \cup Delivered(grants') PROVE SecretInv'
  <2>1. ~Rollback(r)
    BY <1>0 DEF SecretInv, SecretOk, Foresees, Rollback, At
  <2> QED
    BY <1>0, <1>1, <2>1, SecretQuiet, SecretChain, SecretRekey, SecretShares, SecretMembers
       DEF Command, UndoEnroll, Abort
<1>2. CASE UNCHANGED secrecyVars
  BY <1>2 DEF secrecyVars, vars, storeVars, SecretInv, SecretOk, Foresees, NoneAhead, Shielded, ChainEnd,
     Harmless, Raised, RekeyHead, HasRevision, CanRead
<1> QED
  BY <1>0, <1>1, <1>2, SecretCalls, SecretAlone DEF SecrecyNext, Next

(* While requests come one after the other and none of them fails, whoever *)
(* was ever given the current key may read the environment, or a rekey is  *)
(* due: a rekey, which clears the flag, then succeeds, wraps its key for   *)
(* those who may read at that moment and finds them still readers when it  *)
(* makes the key current, and no key is ahead of the environment's.        *)
THEOREM SecrecyCorrect ==
  ASSUME OneByOne, ~Faults
  PROVE  SecrecySpec => []KeyKnownOnlyToReaders
<1>1. TypeInv /\ SecretInv /\ [SecrecyNext]_secrecyVars => SecretInv'
  BY SecretNext
<1>2. SecretInv => KeyKnownOnlyToReaders
  BY SecretImplied
<1> QED
  BY <1>1, <1>2, SecretInit, SecrecyRefines, TypeCorrect, PTL DEF SecrecySpec
=============================================================================
