------------------------------ MODULE CliSync ------------------------------
(***************************************************************************)
(* The command line clients of one environment: editing a local encrypted  *)
(* working copy, pulling with a three-way merge, pushing with retries and  *)
(* rekeying (cmd/flow.go, cmd/rekey.go and the editing commands), over     *)
(* localstore/store.go and lvcrypto/merge.go.                              *)
(*                                                                         *)
(* A terminal runs one command at a time; every command works on a copy of *)
(* the machine's state.json, which it saves as a whole.  The server side   *)
(* is VaultService with its transactions folded into single steps.         *)
(***************************************************************************)
EXTENDS Integers, Sequences, FiniteSets

CONSTANTS
  Clients,       \* members of the vault, each on a machine of his own
  Terminals,     \* commands that may run at once on one machine
  Admins,        \* the vault admins among them
  Keys, Values,  \* names and values of secrets
  Deleted,       \* the state of a missing key, and of a tombstone
  None,
  MaxCommands,   \* bounds the commands started
  MaxFailures    \* bounds the commands killed, or cut off from the server

ASSUME CliAssumption ==
  /\ Admins \subseteq Clients
  /\ Deleted \notin Values /\ None \notin Values \cup {Deleted}
  /\ MaxCommands \in Nat /\ MaxFailures \in Nat

VARIABLES
  history,      \* the revisions of the environment
  keyVersion,   \* its current key version
  granted,      \* for each client, the key versions the server has a grant of
  protected,    \* whether members must ask for a review
  requests,     \* change requests that are pending
  disk,         \* each client's saved state
  proc,         \* what each terminal is doing
  edits,        \* for each client and key, the local edit he still owes
  commands, failures

serverVars == <<history, keyVersion, granted, protected, requests>>
vars == <<serverVars, disk, proc, edits, commands, failures>>

Procs == Clients \X Terminals
Machine(p) == p[1]

Snapshot == [Keys -> Values \cup {Deleted}]
Empty == [k \in Keys |-> Deleted]
NoEdits == [k \in Keys |-> None]

\* touched: the keys its author had edited.
Revision == [content : Snapshot, kv : Nat, by : Clients, touched : SUBSET Keys]

\* sealed: the key version the working copy is encrypted under, 0 if there is
\* none.  The base is the revision itself, encrypted under its own version.
State == [kv : Nat, base : Nat, sealed : Nat, working : Snapshot,
          dirty : BOOLEAN, held : SUBSET Nat]

Fresh == [kv |-> 0, base |-> 0, sealed |-> 0, working |-> Empty,
          dirty |-> FALSE, held |-> {}]

Stages == {"idle", "edit", "remove", "pull", "push", "repull", "pushed", "rekey",
           "reseal", "rekeyed"}

\* kv and head: what a rekey has read; head: what a push has published.
Idle == [at |-> "idle", mem |-> Fresh, kv |-> 0, head |-> 0]

Init ==
  /\ history = <<>> /\ keyVersion = 1
  /\ granted \in [Clients -> {{}, {1}}] /\ \E c \in Admins : granted[c] = {1}
  /\ protected \in BOOLEAN
  /\ requests = {}
  /\ disk = [c \in Clients |-> Fresh]
  /\ proc = [p \in Procs |-> Idle]
  /\ edits = [c \in Clients |-> NoEdits]
  /\ commands = 0 /\ failures = 0

----------------------------------------------------------------------------
(* Three-way merge *)

MergeBug(base, local, remote) ==
  [k \in Keys |-> IF remote[k] # base[k] THEN remote[k] ELSE local[k]]

Merge(base, local, remote) ==
  [k \in Keys |-> IF local[k] = base[k] THEN remote[k] ELSE local[k]]

Conflicts(base, local, remote) ==
  {k \in Keys : local[k] # base[k] /\ remote[k] # base[k] /\ local[k] # remote[k]}

\* Drops the entries in conflict and puts none in their place.
ResolveBug(merged, remote, conflicts) ==
  [k \in Keys \ conflicts |-> merged[k]]

Resolve(merged, remote, conflicts) ==
  [k \in Keys |-> IF k \in conflicts THEN remote[k] ELSE merged[k]]

----------------------------------------------------------------------------
(* The local store *)

Latest == Len(history)
ContentAt(n) == IF n = 0 THEN Empty ELSE history[n].content
KeyAt(n) == IF n = 0 THEN 0 ELSE history[n].kv
HeadKey == IF Latest = 0 THEN keyVersion ELSE KeyAt(Latest)

Lowest(vs) == CHOOSE v \in vs : \A w \in vs : v <= w
AtLeastOne(v) == IF v = 0 THEN 1 ELSE v

\* A blob is readable if there is none, or with a grant of the one key version
\* the state names.
Opens(st, sealed) == sealed = 0 \/ (sealed = st.kv /\ st.kv \in st.held)

Readable(st) == Opens(st, st.sealed)
Working(st) == IF Readable(st) THEN st.working ELSE Empty
Base(st) == IF Opens(st, KeyAt(st.base)) THEN ContentAt(st.base) ELSE Empty

\* Adopts the newest grant at once.
PutGrantsBug(st, vs) ==
  LET held == st.held \cup vs IN
  [st EXCEPT !.held = held,
             !.kv = IF held = {} THEN 0 ELSE CHOOSE v \in held : \A w \in held : w <= v]

\* Grants arrive in the order of their key versions; only the first one ever
\* seen sets the version of the state.
PutGrants(st, vs) ==
  [st EXCEPT !.held = @ \cup vs,
             !.kv = IF @ = 0 /\ vs # {} THEN Lowest(vs) ELSE @]

\* Refuses (CanSeal) without a grant; the caller's other changes go with it.
CanSeal(st) == AtLeastOne(st.kv) \in st.held
SetWorking(st, snap, dirty) ==
  LET kv == AtLeastOne(st.kv) IN
  [st EXCEPT !.kv = kv, !.sealed = kv, !.working = snap, !.dirty = dirty]

SetBaseBug(st, n, kv) == [st EXCEPT !.kv = kv]
SetBase(st, n, kv) == [st EXCEPT !.base = n, !.kv = kv]

SyncGrants(c) == PutGrants(disk[c], granted[c])

----------------------------------------------------------------------------
(* Commands *)

At(p, stage) == proc[p].at = stage
Ends(p) == proc' = [proc EXCEPT ![p] = Idle]
Goes(p, stage, st) == proc' = [proc EXCEPT ![p].at = stage, ![p].mem = st]
Saves(p, st) == disk' = [disk EXCEPT ![Machine(p)] = st]

Start(p) ==
  /\ At(p, "idle") /\ commands < MaxCommands
  /\ commands' = commands + 1
  /\ UNCHANGED <<history, keyVersion, protected, requests, edits, failures>>

\* Every command but "lv remove" begins by fetching its grants and saving them.
Begin(p, stage) ==
  /\ Start(p)
  /\ LET st == SyncGrants(Machine(p)) IN Saves(p, st) /\ Goes(p, stage, st)
  /\ UNCHANGED granted

BeginEdit(p) == Begin(p, "edit")
BeginRemove(p) ==
  Start(p) /\ Goes(p, "remove", disk[Machine(p)]) /\ UNCHANGED <<disk, granted>>
BeginPull(p) == Begin(p, "pull")
BeginPush(p) == Begin(p, "push")

BeginRekeyBug(p) == Begin(p, "rekey")

\* checkRekeyable: only without unpushed edits.
BeginRekey(p) == ~disk[Machine(p)].dirty /\ Begin(p, "rekey")

\* What lv add, import, rotate and remove may make of a working copy.
Added(w) == {[w EXCEPT ![k] = v] : k \in Keys, v \in Values}
Imported(w) ==
  {new \in Snapshot : \A k \in Keys : new[k] = w[k] \/ new[k] # Deleted}
Rotated(w) ==
  {new \in Snapshot :
     \A k \in Keys : new[k] = w[k] \/ (w[k] # Deleted /\ new[k] # Deleted)}
Removed(w) == {[w EXCEPT ![k] = Deleted] : k \in Keys}

Saved(p, new) ==
  LET st == proc[p].mem
      c == Machine(p) IN
  /\ Readable(st) /\ CanSeal(st)
  /\ Saves(p, SetWorking(st, new, TRUE))
  /\ edits' = [edits EXCEPT ![c] = [k \in Keys |->
                 IF new[k] = st.working[k] THEN edits[c][k]
                 ELSE IF new[k] = Base(st)[k] THEN None ELSE new[k]]]
  /\ Ends(p)
  /\ UNCHANGED <<serverVars, commands, failures>>

Edit(p) ==
  /\ At(p, "edit")
  /\ LET w == proc[p].mem.working IN
       \E new \in Added(w) \cup Imported(w) \cup Rotated(w) : Saved(p, new)

Remove(p) ==
  /\ At(p, "remove")
  /\ \E new \in Removed(proc[p].mem.working) : Saved(p, new)

\* What he owes after a merge: nothing more for the keys that agree with the
\* head or that he gave up, and a decision on the keys reported in conflict.
Owed(c, local, remote, conflicts, theirs) ==
  [k \in Keys |-> IF edits[c][k] = remote[k] THEN None
                  ELSE IF k \notin conflicts THEN edits[c][k]
                  ELSE IF theirs THEN None ELSE local[k]]

StillDirtyBug(st, local, remote, left) == left # {}
StillDirty(st, local, remote, left) == left # {} \/ (st.dirty /\ local # remote)

\* The pull of an environment nobody has pushed to.
AdoptEmpty(p, next) ==
  LET st == PutGrants(proc[p].mem, granted[Machine(p)])
      new == SetWorking(SetBase(st, 0, keyVersion), Working(st), st.dirty) IN
  /\ Latest = 0 /\ keyVersion \in st.held
  /\ Saves(p, new) /\ (IF next = "idle" THEN Ends(p) ELSE Goes(p, next, new))
  /\ UNCHANGED edits

AdoptHead(p, theirs, next) ==
  LET c == Machine(p)
      st == PutGrants(proc[p].mem, granted[c])
      remote == ContentAt(Latest)
      local == Working(st)
      conflicts == Conflicts(Base(st), local, remote)
      merged == Merge(Base(st), local, remote)
      left == IF theirs THEN {} ELSE conflicts
      new == SetWorking(SetBase(st, Latest, HeadKey),
                        IF theirs THEN Resolve(merged, remote, conflicts) ELSE merged,
                        StillDirty(st, local, remote, left)) IN
  /\ Latest > 0 /\ HeadKey \in st.held
  /\ Saves(p, new)
  /\ IF left # {} \/ next = "idle" THEN Ends(p) ELSE Goes(p, next, new)
  /\ edits' = [edits EXCEPT ![c] = Owed(c, local, remote, conflicts, theirs)]

Pull(p) ==
  /\ At(p, "pull")
  /\ \/ AdoptEmpty(p, "idle")
     \/ \E theirs \in BOOLEAN : AdoptHead(p, theirs, "idle")
  /\ UNCHANGED <<serverVars, commands, failures>>

\* Of push, when the server reports that the remote has moved.
PullAgain(p) ==
  /\ At(p, "repull")
  /\ AdoptEmpty(p, "push") \/ AdoptHead(p, FALSE, "push")
  /\ UNCHANGED <<serverVars, commands, failures>>

CanPush(st) == Readable(st) /\ CanSeal(st)
Touched(c) == {k \in Keys : edits[c][k] # None}
NeedsReview(c) == protected /\ c \notin Admins

Built(c, st) == [content |-> st.working, kv |-> AtLeastOne(st.kv), by |-> c,
                 touched |-> Touched(c)]

\* The server accepts under the current key, on top of the head.
AcceptedBug(st) == AtLeastOne(st.kv) = keyVersion
Accepted(st) == AtLeastOne(st.kv) = keyVersion /\ st.base = Latest

PushRevision(p) ==
  LET st == proc[p].mem
      c == Machine(p) IN
  /\ At(p, "push") /\ CanPush(st) /\ ~NeedsReview(c)
  /\ IF Accepted(st)
       THEN /\ history' = Append(history, Built(c, st))
            /\ proc' = [proc EXCEPT ![p].at = "pushed", ![p].head = Latest + 1]
       ELSE Goes(p, "repull", st) /\ UNCHANGED history
  /\ UNCHANGED <<keyVersion, granted, protected, requests, disk, edits, commands,
                 failures>>

\* Refused with protected_env, the push becomes a change request; a conflict of
\* that request is only reported.
SubmitChange(p) ==
  LET st == proc[p].mem
      c == Machine(p) IN
  /\ At(p, "push") /\ CanPush(st) /\ NeedsReview(c)
  /\ requests' = IF Accepted(st)
       THEN requests \cup {[base |-> st.base, doc |-> Built(c, st)]} ELSE requests
  /\ Ends(p)
  /\ UNCHANGED <<history, keyVersion, granted, protected, disk, edits, commands,
                 failures>>

\* The answer to a push: the working copy is the new base.
RecordPush(p) ==
  LET st == proc[p].mem
      c == Machine(p)
      pushed == history[proc[p].head] IN
  /\ At(p, "pushed")
  /\ Saves(p, [SetBase(st, proc[p].head, pushed.kv) EXCEPT !.dirty = FALSE])
  /\ edits' = [edits EXCEPT ![c] = [k \in Keys |->
                 IF edits[c][k] = pushed.content[k] THEN None ELSE edits[c][k]]]
  /\ Ends(p)
  /\ UNCHANGED <<serverVars, commands, failures>>

\* GetVault and HeadRevision of a rekey, which must decrypt the head.
ReadHead(p) ==
  /\ At(p, "rekey")
  /\ HeadKey = keyVersion /\ keyVersion \in proc[p].mem.held
  /\ proc' = [proc EXCEPT ![p].at = "reseal", ![p].kv = keyVersion, ![p].head = Latest]
  /\ UNCHANGED <<serverVars, disk, edits, commands, failures>>

\* A new key version for every member, and the head sealed under it.
Rekey(p) ==
  LET q == proc[p]
      c == Machine(p) IN
  /\ At(p, "reseal") /\ c \in Admins
  /\ keyVersion \in granted[c]
  /\ q.kv = keyVersion /\ q.head = Latest
  /\ keyVersion' = keyVersion + 1
  /\ granted' = [d \in Clients |-> granted[d] \cup {keyVersion + 1}]
  /\ history' = IF Latest = 0 THEN history
                ELSE Append(history, [content |-> ContentAt(Latest), by |-> c,
                                      kv |-> keyVersion + 1, touched |-> {}])
  /\ proc' = [proc EXCEPT ![p].at = "rekeyed"]
  /\ UNCHANGED <<protected, requests, disk, edits, commands, failures>>

RecordRekey(p) ==
  LET q == proc[p]
      n == IF q.head = 0 THEN 0 ELSE q.head + 1
      st == SetBase(PutGrants(q.mem, {q.kv + 1}), n, q.kv + 1) IN
  /\ At(p, "rekeyed")
  /\ Saves(p, SetWorking(st, ContentAt(n), FALSE))
  /\ Ends(p)
  /\ UNCHANGED <<serverVars, edits, commands, failures>>

\* The members without the current key.
Pending == {d \in Clients : keyVersion \notin granted[d]}

\* Wraps the current key for them; the server refuses a caller without it.
GrantPending(p) ==
  /\ Start(p) /\ keyVersion \in granted[Machine(p)]
  /\ granted' = [d \in Clients |->
       IF d \in Pending THEN granted[d] \cup {keyVersion} ELSE granted[d]]
  /\ Saves(p, SyncGrants(Machine(p)))
  /\ UNCHANGED proc

\* A refusal: no grant, an unreadable copy, a head that moved.
Refused(p) ==
  LET q == proc[p]
      next == PutGrants(q.mem, granted[Machine(p)]) IN
  \/ (At(p, "edit") \/ At(p, "remove")) /\ ~(Readable(q.mem) /\ CanSeal(q.mem))
  \/ (At(p, "pull") \/ At(p, "repull")) /\ HeadKey \notin next.held
  \/ At(p, "push") /\ ~CanPush(q.mem)
  \/ At(p, "rekey") /\ ~(HeadKey = keyVersion /\ keyVersion \in q.mem.held)
  \/ /\ At(p, "reseal")
     /\ ~(Machine(p) \in Admins /\ keyVersion \in granted[Machine(p)]
          /\ q.kv = keyVersion /\ q.head = Latest)

GiveUp(p) ==
  /\ Refused(p) /\ Ends(p)
  /\ UNCHANGED <<serverVars, disk, edits, commands, failures>>

\* The command is killed, or an answer of the server does not arrive.
Die(p) ==
  /\ ~At(p, "idle") /\ failures < MaxFailures
  /\ failures' = failures + 1
  /\ Ends(p)
  /\ UNCHANGED <<serverVars, disk, edits, commands>>

\* Another admin merges a change request, or finds that the head has moved.
ApproveRequest(r) ==
  /\ requests' = requests \ {r}
  /\ history' = IF r.base = Latest THEN Append(history, r.doc) ELSE history
  /\ UNCHANGED <<keyVersion, granted, protected, disk, proc, edits, commands, failures>>

Starts(p) == BeginEdit(p) \/ BeginRemove(p) \/ BeginPull(p) \/ BeginPush(p)
             \/ BeginRekey(p) \/ GrantPending(p)

Continues(p) ==
  \/ Edit(p) \/ Remove(p) \/ Pull(p) \/ PullAgain(p) \/ PushRevision(p) \/ SubmitChange(p)
  \/ RecordPush(p) \/ ReadHead(p) \/ Rekey(p) \/ RecordRekey(p) \/ GiveUp(p)

Next ==
  \/ \E p \in Procs : Starts(p) \/ Continues(p) \/ Die(p)
  \/ \E r \in requests : ApproveRequest(r)

\* A command that has started runs on: nothing in it waits for anybody.
Fairness == \A p \in Procs : WF_vars(Continues(p))

Spec == Init /\ [][Next]_vars /\ Fairness
----------------------------------------------------------------------------
(* Properties *)

TypeInv ==
  /\ history \in Seq(Revision) /\ keyVersion \in Nat
  /\ granted \in [Clients -> SUBSET Nat] /\ protected \in BOOLEAN
  /\ requests \in SUBSET [base : Nat, doc : Revision]
  /\ disk \in [Clients -> State]
  /\ proc \in [Procs -> [at : Stages, mem : State, kv : Nat, head : Nat]]
  /\ edits \in [Clients -> [Keys -> Values \cup {Deleted, None}]]
  /\ commands \in 0..MaxCommands /\ failures \in 0..MaxFailures

\* A saved state is never stranded: its working copy and its base can be opened
\* with the grants saved beside them, whatever rekeys happened meanwhile
\* (PutGrant, SetBase and SetWorking of localstore/store.go).
LocalReadable ==
  \A c \in Clients : Readable(disk[c]) /\ Opens(disk[c], KeyAt(disk[c].base))

\* A working copy that is not marked dirty is exactly its base revision, so that
\* a rekey, which only looks at the mark, overwrites nothing (checkRekeyable).
CleanIsBase ==
  \A c \in Clients : disk[c].dirty \/ Working(disk[c]) = ContentAt(disk[c].base)

\* No edit is silently lost: until the head has agreed with it, or its author
\* has settled the reported conflict with --theirs, it is in the working copy
\* (pull, push and the comment of PutGrant in localstore/store.go).
EditsKept ==
  \A c \in Clients : \A k \in Keys :
    edits[c][k] # None => Working(disk[c])[k] = edits[c][k]

\* No teammate's change is silently reverted: a revision differs from the one
\* before it only in keys its author edited or was told are in conflict.
OwnEditsOnly ==
  \A n \in 1..Latest : \A k \in Keys :
    ContentAt(n)[k] # ContentAt(n - 1)[k] => k \in history[n].touched

\* A push that has begun comes to an end although it calls itself again after
\* every conflict - except under a head sealed under an outdated key, which the
\* server refuses and a pull keeps restoring.
PushEnds ==
  \A p \in Procs : proc[p].at \in {"push", "repull", "pushed"}
                     ~> (At(p, "idle") \/ HeadKey # keyVersion)
=============================================================================
