--------------------------- MODULE VaultInvariants ---------------------------
(***************************************************************************)
(* Why the properties of VaultProperties hold: what a request in flight    *)
(* still knows about the documents when it comes to write them.  Each      *)
(* invariant here is inductive (together with TypeInv).                    *)
(***************************************************************************)
EXTENDS VaultProperties

----------------------------------------------------------------------------
(* History *)

\* Nothing up to revision n is sealed under a key later than v.
SealedBy(n, v) == \A x \in revisions : x.n <= n => x.kv <= v

\* The revision on top of q's base exists, under q's key version.
Landed(q) == \E x \in revisions : x.n = q.base + 1 /\ x.kv = q.kv

\* What q read is in the past, and its writes so far are in place.
KnowsItsBase(q) ==
  /\ q.base <= headRevision
  /\ SealedBy(q.base, q.kv)
  /\ q.step \in {"write", "bump", "propose", "approve"} => q.kv <= keyVersion
  /\ q.step \in {"bump", "rekeyRevision", "rekeyCommit"} => ~Transactions
  /\ q.step = "bump" => Landed(q)
  /\ q.step = "rekeyRevision" => HasRevision(q)
  /\ q.step = "rekeyCommit" /\ HasRevision(q) => Landed(q)

(* A write lands on the head or fails: whatever a push, an approval or a   *)
(* rekey read, its base is a revision of the chain and nothing up to it is *)
(* sealed under a later key than the one the write brings.                 *)
HistoryInv ==
  /\ ChainIsGapFree
  /\ KeyVersionsOrdered
  /\ SealedBy(headRevision, keyVersion)
  /\ \A r \in Requests : KnowsItsBase(req[r])
  /\ \A c \in Changes : /\ changes[c].base <= headRevision
                        /\ changes[c].kv <= keyVersion
                        /\ SealedBy(changes[c].base, changes[c].kv)

----------------------------------------------------------------------------
(* Review *)

\* q has approved its change request and not yet merged or dropped it.
Merging(q) == q.change # None /\ q.step \in {"write", "staleApproved"}

KnowsItsReview(q) ==
  /\ q.step = "approve" => changes[q.change].author # q.by
  /\ q.step = "approve" \/ Merging(q) => q.base = changes[q.change].base
  /\ Merging(q) => /\ changes[q.change].status = "approved"
                   /\ changes[q.change].reviewer = q.by
                   /\ changes[q.change].author # q.by
                   /\ ~Merged(q.change)
  /\ q.step = "staleApproved" => RevisionExists(q.base + 1)
  /\ q.step \in {"recipients", "rekey", "rekeyRevision"} => q.change = None

(* Between its decision and its revision an approval is alone with its     *)
(* change request.                                                         *)
ReviewInv ==
  /\ ReviewedByAnother
  /\ \A r \in Requests : KnowsItsReview(req[r])
  /\ \A r, s \in Requests :
       Merging(req[r]) /\ Merging(req[s]) /\ req[r].change = req[s].change => r = s

----------------------------------------------------------------------------
(* Keys *)

CarryingSteps == {"write", "propose", "approve", "share", "enroll"}
OrderedSteps == {"bump", "rekeyRevision", "rekeyCommit", "enrollGrant"}

\* The keys that requests in flight are about to store something under.
Carried ==
  {<<req[r].kv, req[r].dek>> : r \in {s \in Requests : req[s].step \in CarryingSteps}}

(* With transactions, what is stored and what is about to be stored agree  *)
(* on the DEK of each key version, and none is ahead of the environment's. *)
KeyInv ==
  /\ \A b \in Bindings \cup Carried : b[1] <= keyVersion
  /\ \A b, c \in Bindings \cup Carried : b[1] = c[1] => b[2] = c[2]
  /\ \A r \in Requests : req[r].step \notin OrderedSteps
=============================================================================
