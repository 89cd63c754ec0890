---------------------------- MODULE RevisionLog ----------------------------
(***************************************************************************)
(* What one environment promises to its readers (Head, GetRevision and     *)
(* ListRevisions of apps/server/internal/vault/service.go): its history is *)
(* a log.  Entries are only ever appended, one at a time; the key versions *)
(* along the log never decrease; a change request is merged at most once.  *)
(***************************************************************************)
EXTENDS Naturals, Sequences

CONSTANTS
  Authors,     \* who may sign an entry
  ChangeIds,   \* change requests an entry may come from
  Direct       \* the origin of an entry that is not a merged change request

VARIABLE log

Entry == [kv : Nat, dek : Nat, author : Authors, change : ChangeIds \cup {Direct}]

KeyOrdered(e) == \A i \in 1..Len(log) : log[i].kv <= e.kv

NotMerged(e) == e.change = Direct \/ \A i \in 1..Len(log) : log[i].change # e.change

Commit(e) ==
  /\ e \in Entry
  /\ KeyOrdered(e)
  /\ NotMerged(e)
  /\ log' = Append(log, e)

Init == log = << >>

\* The next entry is read off log', so that the relation can be evaluated.
Next == Len(log') > Len(log) /\ Commit(log'[Len(log')])

Spec == Init /\ [][Next]_log
=============================================================================
