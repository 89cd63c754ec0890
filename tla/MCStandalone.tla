---------------------------- MODULE MCStandalone ----------------------------
(***************************************************************************)
(* Two small instances of one environment on a standalone mongod, in one   *)
(* run: its history, or the machines of an environment without one.  Each  *)
(* has its own bounds.                                                     *)
(***************************************************************************)
EXTENDS MCVault

\* Requests that create, revoke or retire the same machine, and the membership
\* changes and rekeys beside them.
CreateOps == {"createMachine", "revokeMachine", "expireMachine", "grant", "rekey",
              "addMember", "updateMember", "removeMember", "reset"}

\* Both, on a standalone mongod.
StandaloneOps == OrderedOps \cup CreateOps

AnyWriter == Writers \cup {<<"admin", "none">>}

VARIABLE running

StandaloneInit ==
  /\ Init
  /\ \/ running = "history"
     \/ running = "machines" /\ ~protected

HistoryNext ==
  \/ \E r \in Requests : Command(r) \/ \E u \in Users : Writes(r, u)
  \/ \E u \in Users : PutKeys(u) \/ \E t \in Users : AddMember(u, t) /\ access'[t] # "none"

\* Where no history is written, members differ in whether they may read.
OnlyLosesAccess(q) ==
  q.step = "update" => q.role = "admin" /\ q.access \in {"none", access[q.who]}

MachinesNext ==
  \/ \E r \in Requests :
       \/ Command(r)
       \/ \E u \in Users : \/ Sharing(r, u) /\ OnlyLosesAccess(req'[r])
                           \/ minted = 0 /\ Rekey(r, u)
  \/ \E u \in Users : \/ \E m \in Machines : RegisterMachine(u, m)
                      \/ \E t \in Users : AddMember(u, t) /\ access'[t] = "none"
  \/ \E m \in Machines : ExpireMachine(m)

StandaloneNext ==
  /\ \/ running = "history" /\ HistoryNext
     \/ running = "machines" /\ MachinesNext
  /\ UNCHANGED running

StandaloneSpec == StandaloneInit /\ [][StandaloneNext]_<<vars, running>>
=============================================================================
