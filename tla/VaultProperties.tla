-------------------------- MODULE VaultProperties --------------------------
(***************************************************************************)
(* What must be true of one environment's history and keys, whatever       *)
(* requests interleave.                                                    *)
(***************************************************************************)
EXTENDS VaultService, Sequences

----------------------------------------------------------------------------
(* Types *)

\* What a request remembers is complete for the step it is at.
Complete(q) ==
  /\ q.step # "idle" => q.by \in Users
  /\ q.step \in {"update", "remove", "deleteBundle"} => q.who \in Users
  /\ q.step \in {"enroll", "enrollGrant"} => q.who \in Machines
  /\ q.step \in {"approve", "stalePending", "staleApproved"} => q.change \in Changes
  /\ q.change # None => changes[q.change].status # "absent"

(* Every document and every request in flight is well formed; a change     *)
(* request that exists has an author, so that the revision an approval     *)
(* makes of it can be attributed, and a handler that is at a write has     *)
(* read what it writes.                                                    *)
WellFormed ==
  /\ req \in [Requests -> Request]
  /\ \A r \in Requests : Complete(req[r])
  /\ \A c \in Changes : changes[c].status # "absent" => changes[c].author \in Users

TypeInv == TypeOK /\ WellFormed

----------------------------------------------------------------------------
(* The revision chain *)

(* Revision numbers are taken once, every number up to the head is there,  *)
(* and nothing lies beyond the head: with transactions at all, without     *)
(* them at most the one revision whose BumpHead is still to come (or was   *)
(* lost).  This is what the unique index of InsertRevision and the base    *)
(* check of PushRevision, ApproveChangeRequest and Rekey are for.          *)
ChainIsGapFree ==
  /\ \A x, y \in revisions : x.n = y.n => x = y
  /\ \A n \in 1..headRevision : RevisionExists(n)
  /\ \A x \in revisions : x.n \in 1..(IF Transactions THEN headRevision
                                                      ELSE headRevision + 1)

(* Along the chain key versions never decrease: a snapshot sealed under an *)
(* old key never lands on top of a rekey's revision, although PushRevision *)
(* and ApproveChangeRequest check key_version long before they insert, or  *)
(* (an approval) not at all.                                               *)
KeyVersionsOrdered ==
  \A x, y \in revisions : x.n < y.n => x.kv <= y.kv

----------------------------------------------------------------------------
(* Keys *)

\* Every (key version, DEK) pair that a stored document vouches for.
Bindings ==
  {<<g.kv, g.dek>> : g \in grants}
    \cup {<<x.kv, x.dek>> : x \in revisions}
    \cup {<<changes[c].kv, changes[c].dek>> :
            c \in {d \in Changes : changes[d].status # "absent"}}

(* A key version names one DEK: whoever holds a grant of version v opens   *)
(* every revision and every change request labelled v.  Two concurrent     *)
(* rekeys mint two DEKs for the same version; the transaction and the      *)
(* compare-and-set of CommitRekey must leave no trace of the loser.        *)
OneKeyPerVersion ==
  \A b, c \in Bindings : b[1] = c[1] => b[2] = c[2]

----------------------------------------------------------------------------
(* Change requests *)

Merged(c) == \E x \in revisions : x.change = c

(* A revision that came from a change request carries the signature of its *)
(* author, was approved by somebody else and stays approved, and no change *)
(* request is merged twice, even when two admins approve or reject it at   *)
(* the same time.                                                          *)
ReviewedByAnother ==
  /\ \A x \in revisions : x.change # None =>
       /\ changes[x.change].status = "approved"
       /\ changes[x.change].reviewer \notin {None, x.author}
       /\ changes[x.change].author = x.author
  /\ \A x, y \in revisions : x.change = y.change /\ x.change # None => x = y

Decisions == {<<"absent", "pending">>, <<"pending", "approved">>,
              <<"pending", "rejected">>, <<"pending", "stale">>,
              <<"approved", "stale">>}

(* A decision is final: a rejected or stale change request never comes     *)
(* back, an approved one turns stale only because another revision took    *)
(* its place, and nobody rewrites the reviewed content.                    *)
DecisionsAreFinal ==
  [][\A c \in Changes : changes'[c] # changes[c] =>
       /\ <<changes[c].status, changes'[c].status>> \in Decisions
       /\ changes[c].status = "approved" =>
            RevisionExists(changes[c].base + 1) /\ ~Merged(c)
       /\ changes[c].status # "absent" =>
            changes'[c] = [changes[c] EXCEPT !.status = changes'[c].status,
                                             !.reviewer = changes'[c].reviewer]]_vars

(* An approved change request is merged, or the handler that approved it   *)
(* is still about to merge it or to mark it stale.  The approval is        *)
(* written before, and outside of, the transaction that inserts the        *)
(* revision; this holds as long as no handler fails in between.            *)
ApprovedIsMerged ==
  \A c \in Changes : changes[c].status = "approved" =>
    Merged(c) \/ \E r \in Requests :
                   req[r].change = c /\ req[r].step \in {"write", "staleApproved"}

----------------------------------------------------------------------------
(* Machines *)

\* A handler is on its way to delete the grants of x or to flag the rekey.
Evicting(x) == \E r \in Requests : req[r].who = x /\ req[r].step \in {"ungrant", "flag"}

\* A rekey without transactions is on its way to retire token machine m.
Retiring(m) == \E r \in Requests : m \in req[r].tokens
                                  /\ req[r].step \in {"rekeyRevoke", "rekeyUngrant"}

(* Machine ids are chosen by the client, so two requests may create the    *)
(* same machine: whatever happens to them, a machine that was revoked in   *)
(* between does not come back (at most its failed creation is undone).     *)
RevokedNotRevived ==
  [][\A m \in Machines : machines[m] = "revoked" =>
       machines'[m] \in {"revoked", "absent"}]_vars

----------------------------------------------------------------------------
(* Refinement *)

EntryAt(n) ==
  LET x == CHOOSE y \in revisions : y.n = n
  IN  [kv |-> x.kv, dek |-> x.dek, author |-> x.author, change |-> x.change]

Log == INSTANCE RevisionLog WITH
         Authors <- Users, ChangeIds <- Changes, Direct <- None,
         log <- [n \in 1..headRevision |-> EntryAt(n)]

(* Read through head_revision, the history of an environment is an         *)
(* append-only log: each committed push, approval or rekey appends one     *)
(* entry, everything else leaves it alone, and no entry ever changes.      *)
ImplementsLog == Log!Spec

----------------------------------------------------------------------------
(* Statements of the code and its tests that some interleaving refutes *)

(* "key_version is not current", "environment must be rekeyed before new   *)
(* writes" (PushRevision and CreateChangeRequest): what is committed other *)
(* than by a rekey is sealed under the key version current at that moment, *)
(* and while no rekey is required.                                         *)
WritesAreChecked ==
  [][keyVersion' = keyVersion =>
       \A x \in revisions' \ revisions : x.kv = keyVersion /\ ~rekeyRequired]_vars

(* "fn must order its writes to leave a consistent state if interrupted"   *)
(* (withTx): once every handler has ended, a key version still names one   *)
(* DEK, even if a rekey died between its writes.                           *)
KeysAgreeAtRest ==
  (\A r \in Requests : req[r] = Idle) => OneKeyPerVersion

(* "Every submitted grant must target an entitled recipient. Extras would  *)
(* be stored and later served by grants/mine, handing the DEK to a member  *)
(* who was deliberately excluded from this environment" (Rekey): once      *)
(* every handler has ended, a user without access holds no grant of the    *)
(* current key version, or the environment is flagged.                     *)
ExcludedFromRekey ==
  (\A r \in Requests : req[r] = Idle) =>
    \A g \in grants : g.to \in Users /\ g.kv = keyVersion =>
      CanRead(g.to) \/ rekeyRequired
=============================================================================
