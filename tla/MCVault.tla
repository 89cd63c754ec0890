------------------------------ MODULE MCVault ------------------------------
(***************************************************************************)
(* Small instances of one environment for TLC: the values that its configs *)
(* give to the sets, and the symmetry between interchangeable ids.         *)
(***************************************************************************)
EXTENDS VaultInvariants, TLC

\* Two writers, a reviewer and a rekey racing each other.
HistoryOps == {"push", "propose", "approve", "reject", "rekey", "addMember",
               "keys", "protect"}
OrderedOps == {"push", "propose", "approve", "rekey", "addMember", "keys"}

\* A change request that outlives a rekey, or the removal of a member.
FlagOps == {"propose", "approve", "addMember", "removeMember", "rekey", "keys"}

\* Rekeys that die, and rekeys that overlap membership changes.
OrphanOps == {"rekey", "addMember", "keys"}
RaceOps == {"rekey", "addMember", "updateMember", "keys"}

\* Where a rekey is one transaction and nothing fails, these are the commands a
\* request of HistoryOps is ever about to issue.
WritingCommand(r) ==
  \/ \E c \in Changes : InsertChangeRequest(r, c)
  \/ ApproveTransition(r) \/ MarkStale(r) \/ WriteRevision(r) \/ WriteConflict(r)
  \/ RekeyRecipients(r) \/ RekeyTx(r) \/ RekeyTxAborts(r)

TransactionalNext ==
  \/ \E r \in Requests : WritingCommand(r) \/ \E u \in Users : Writes(r, u)
  \/ \E u \in Users : \/ \E c \in Changes : RejectChangeRequest(u, c)
                      \/ \E t \in Users : AddMember(u, t)
                      \/ PatchEnvironment(u) \/ PutKeys(u)

TransactionalSpec == Init /\ [][TransactionalNext]_vars

Writers == {<<"admin", "write">>, <<"member", "write">>}
AdminPatch == {"admin"} \X {"none", "write"}

Symmetry == Permutations(Requests) \cup Permutations(Changes)
=============================================================================
