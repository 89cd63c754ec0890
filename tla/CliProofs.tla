----------------------------- MODULE CliProofs -----------------------------
(***************************************************************************)
(* What the clients keep on disk and what they push, for any clients,      *)
(* secrets and values: first for any terminals that share a machine's      *)
(* state.json, then for one terminal per machine.                          *)
(***************************************************************************)
EXTENDS CliSync, TLAPS, WellFoundedInduction

USE CliAssumption DEF CliAssumption

----------------------------------------------------------------------------
(* A least key version *)

LEMMA LowestIsLeast ==
  ASSUME NEW vs \in SUBSET Nat, vs # {}
  PROVE  Lowest(vs) \in vs
<1> DEFINE Less == {ss \in Nat \X Nat : ss[1] < ss[2]}
<1>1. IsWellFoundedOn(Less, Nat)
  BY NatLessThanWellFounded DEF OpToRel
<1> HIDE DEF Less
<1>2. PICK v \in vs : \A w \in vs : <<w, v>> \notin Less
  BY <1>1, WFMin
<1>3. ASSUME NEW w \in vs PROVE v <= w
  <2>1. ~(w < v)
    BY <1>2 DEF Less
  <2> QED  BY <2>1
<1> QED  BY <1>3 DEF Lowest

----------------------------------------------------------------------------
(* States *)

\* A history, and what it is at a revision.
ContentIn(h, n) == IF n = 0 THEN Empty ELSE h[n].content
KeyIn(h, n) == IF n = 0 THEN 0 ELSE h[n].kv

\* What holds of every state that a command has in its hands or on disk.
Sound(h, st) ==
  /\ st \in State /\ st.base <= Len(h)
  /\ Readable(st) /\ Opens(st, KeyIn(h, st.base))
  /\ st.dirty \/ st.working = ContentIn(h, st.base)

\* What a command knows besides: the revision it has pushed, or the head that
\* its rekey has sealed again.
Knows(h, q) ==
  /\ q.at = "pushed" =>
       /\ q.head \in 1..Len(h) /\ h[q.head].content = q.mem.working
       /\ h[q.head].kv = AtLeastOne(q.mem.kv) /\ h[q.head].kv \in q.mem.held
  /\ q.at = "rekeyed" /\ q.head > 0 =>
       q.head + 1 <= Len(h) /\ h[q.head + 1].kv = q.kv + 1

Process == [at : Stages, mem : State, kv : Nat, head : Nat]

LEMMA EmptyTyped == Empty \in Snapshot
BY DEF Empty, Snapshot

LEMMA FreshSound == ASSUME NEW h, Len(h) >= 0 PROVE Sound(h, Fresh)
BY EmptyTyped DEF Sound, Fresh, State, Readable, Opens, KeyIn, ContentIn

LEMMA PutGrantsSound ==
  ASSUME NEW h \in Seq(Revision), NEW st, Sound(h, st), NEW vs \in SUBSET Nat
  PROVE  /\ Sound(h, PutGrants(st, vs))
         /\ PutGrants(st, vs).base = st.base
         /\ PutGrants(st, vs).working = st.working
         /\ PutGrants(st, vs).dirty = st.dirty
         /\ PutGrants(st, vs).held = st.held \cup vs
<1> DEFINE new == PutGrants(st, vs)
<1>1. vs # {} => Lowest(vs) \in Nat
  BY LowestIsLeast
<1>2. /\ new \in State
      /\ new.base = st.base /\ new.working = st.working /\ new.dirty = st.dirty
      /\ new.sealed = st.sealed /\ new.held = st.held \cup vs
      /\ st.kv # 0 => new.kv = st.kv
  BY <1>1 DEF Sound, State, PutGrants
<1>3. ASSUME NEW s, Opens(st, s) PROVE Opens(new, s)
  BY <1>2, <1>3 DEF Opens
<1> HIDE DEF new
<1>4. Sound(h, new)
  BY <1>2, <1>3 DEF Sound, Readable
<1> QED  BY <1>2, <1>4 DEF new

LEMMA SetWorkingSound ==
  ASSUME NEW h \in Seq(Revision), NEW st \in State, NEW snap \in Snapshot,
         NEW dirty \in BOOLEAN, st.base <= Len(h), CanSeal(st), Opens(st, KeyIn(h, st.base)),
         dirty \/ snap = ContentIn(h, st.base)
  PROVE  /\ Sound(h, SetWorking(st, snap, dirty))
         /\ SetWorking(st, snap, dirty).base = st.base
         /\ SetWorking(st, snap, dirty).working = snap
         /\ SetWorking(st, snap, dirty).dirty = dirty
<1> DEFINE new == SetWorking(st, snap, dirty)
<1>1. AtLeastOne(st.kv) \in Nat /\ (st.kv # 0 => AtLeastOne(st.kv) = st.kv)
  BY DEF State, AtLeastOne
<1>2. /\ new \in State
      /\ new.base = st.base /\ new.working = snap /\ new.dirty = dirty
      /\ new.sealed = new.kv /\ new.kv = AtLeastOne(st.kv) /\ new.held = st.held
  BY <1>1 DEF State, SetWorking
<1> HIDE DEF new
<1>3. Readable(new)
  BY <1>2 DEF CanSeal, Readable, Opens
<1>4. Opens(new, KeyIn(h, new.base))
  BY <1>1, <1>2 DEF CanSeal, Opens
<1>5. Sound(h, new)
  BY <1>2, <1>3, <1>4 DEF Sound
<1> QED  BY <1>2, <1>5 DEF new

\* Revisions are only appended.
Grown == /\ Len(history) <= Len(history')
         /\ \A n \in 1..Len(history) : history'[n] = history[n]

LEMMA GrownSound ==
  ASSUME Grown, history \in Seq(Revision), history' \in Seq(Revision), NEW st, Sound(history, st)
  PROVE  Sound(history', st)
<1>1. st.base \in Nat /\ st.base <= Len(history) /\ Len(history) \in Nat /\ Len(history') \in Nat
  BY DEF Sound, State
<1>2. st.base <= Len(history')
  BY <1>1 DEF Grown
<1>3. KeyIn(history', st.base) = KeyIn(history, st.base)
      /\ ContentIn(history', st.base) = ContentIn(history, st.base)
  BY <1>1 DEF Grown, KeyIn, ContentIn
<1> QED  BY <1>2, <1>3 DEF Sound

LEMMA GrownKnows ==
  ASSUME Grown, history \in Seq(Revision), history' \in Seq(Revision),
         NEW q \in Process, Knows(history, q)
  PROVE  Knows(history', q)
<1>1. q.head \in Nat /\ Len(history) \in Nat /\ Len(history') \in Nat
  BY DEF Process
<1>2. ASSUME NEW n \in Nat, n > 0, n <= Len(history)
      PROVE  n <= Len(history') /\ history'[n] = history[n]
  BY <1>1, <1>2 DEF Grown
<1>3. q.at = "pushed" => q.head \in 1..Len(history') /\ history'[q.head] = history[q.head]
  BY <1>1, <1>2 DEF Knows
<1>4. q.at = "rekeyed" /\ q.head > 0 =>
        q.head + 1 <= Len(history') /\ history'[q.head + 1] = history[q.head + 1]
  BY <1>1, <1>2 DEF Knows
<1> QED  BY <1>3, <1>4 DEF Knows

----------------------------------------------------------------------------
(* Merging *)

LEMMA MergeTyped ==
  ASSUME NEW base \in Snapshot, NEW local \in Snapshot, NEW remote \in Snapshot
  PROVE  /\ Merge(base, local, remote) \in Snapshot
         /\ Conflicts(base, local, remote) \subseteq Keys
BY DEF Snapshot, Merge, Conflicts

LEMMA ResolveTyped ==
  ASSUME NEW merged \in Snapshot, NEW remote \in Snapshot, NEW conflicts
  PROVE  Resolve(merged, remote, conflicts) \in Snapshot
BY DEF Snapshot, Resolve

\* Without a change of one's own, or with the head's, a merge gives the head.
LEMMA MergeAdopts ==
  ASSUME NEW base \in Snapshot, NEW local \in Snapshot, NEW remote \in Snapshot,
         local = base \/ local = remote
  PROVE  /\ Conflicts(base, local, remote) = {}
         /\ Merge(base, local, remote) = remote
         /\ Resolve(remote, remote, {}) = remote
BY DEF Snapshot, Merge, Conflicts, Resolve

----------------------------------------------------------------------------
(* The invariant of the saved states *)

ServerOk ==
  /\ history \in Seq(Revision) /\ keyVersion \in Nat /\ keyVersion > 0
  /\ \A n \in 1..Len(history) : history[n].kv > 0
  /\ granted \in [Clients -> SUBSET Nat] /\ protected \in BOOLEAN
  /\ requests \in SUBSET [base : Nat, doc : Revision]
  /\ \A r \in requests : r.doc.kv > 0

ClientsOk ==
  /\ disk \in [Clients -> State] /\ \A c \in Clients : Sound(history, disk[c])
  /\ proc \in [Procs -> Process]
  /\ \A p \in Procs : Sound(history, proc[p].mem) /\ Knows(history, proc[p])

CountsOk ==
  /\ edits \in [Clients -> [Keys -> Values \cup {Deleted, None}]]
  /\ commands \in 0..MaxCommands /\ failures \in 0..MaxFailures

LocalInv == ServerOk /\ ClientsOk /\ CountsOk

LEMMA LocalImplied == LocalInv => TypeInv /\ LocalReadable /\ CleanIsBase
<1> SUFFICES ASSUME LocalInv PROVE TypeInv /\ LocalReadable /\ CleanIsBase
  OBVIOUS
<1>1. TypeInv
  BY DEF LocalInv, ServerOk, ClientsOk, CountsOk, TypeInv, Process
<1>2. ASSUME NEW c \in Clients
      PROVE  /\ Readable(disk[c]) /\ Opens(disk[c], KeyAt(disk[c].base))
             /\ disk[c].dirty \/ Working(disk[c]) = ContentAt(disk[c].base)
  BY DEF LocalInv, ClientsOk, Sound, KeyIn, KeyAt, ContentIn, ContentAt, Working
<1> QED  BY <1>1, <1>2 DEF LocalReadable, CleanIsBase

LEMMA MachineOf == \A p \in Procs : Machine(p) \in Clients
BY DEF Procs, Machine

\* Its terms at a process.
LEMMA InHand ==
  ASSUME LocalInv, NEW p \in Procs
  PROVE  /\ proc[p] \in Process /\ proc[p].mem \in State
         /\ Sound(history, proc[p].mem) /\ Knows(history, proc[p])
         /\ Machine(p) \in Clients /\ disk[Machine(p)] \in State
         /\ Sound(history, disk[Machine(p)]) /\ granted[Machine(p)] \in SUBSET Nat
         /\ history \in Seq(Revision) /\ Len(history) \in Nat
         /\ edits[Machine(p)] \in [Keys -> Values \cup {Deleted, None}]
BY MachineOf DEF LocalInv, ServerOk, ClientsOk, CountsOk, Process

LEMMA ContentTyped ==
  ASSUME NEW h \in Seq(Revision), NEW n \in Nat, n <= Len(h)
  PROVE  ContentIn(h, n) \in Snapshot
<1>1. n > 0 => h[n] \in Revision
  OBVIOUS
<1> QED  BY <1>1, EmptyTyped DEF ContentIn, Revision

LEMMA GrownRest == history \in Seq(Revision) /\ UNCHANGED history => Grown
BY DEF Grown

\* A revision was appended.
LEMMA GrownAppend ==
  ASSUME history \in Seq(Revision), NEW rev \in Revision, history' = Append(history, rev)
  PROVE  /\ Grown /\ history' \in Seq(Revision)
         /\ Len(history') = Len(history) + 1 /\ history'[Len(history) + 1] = rev
BY DEF Grown

\* Process p goes on to q, and its machine's state is st.
LEMMA CommandSound ==
  ASSUME LocalInv, NEW p \in Procs, NEW q \in Process, NEW st \in State,
         proc' = [proc EXCEPT ![p] = q], disk' = [disk EXCEPT ![Machine(p)] = st],
         Grown, history' \in Seq(Revision),
         Sound(history', st), Sound(history', q.mem), Knows(history', q)
  PROVE  ClientsOk'
<1>0. history \in Seq(Revision)
  BY DEF LocalInv, ServerOk
<1>1. disk' \in [Clients -> State] /\ proc' \in [Procs -> Process]
  BY DEF LocalInv, ClientsOk
<1>2. ASSUME NEW c \in Clients PROVE Sound(history', disk'[c])
  <2>1. disk'[c] = IF c = Machine(p) THEN st ELSE disk[c]
    BY DEF LocalInv, ClientsOk
  <2>2. Sound(history, disk[c])
    BY DEF LocalInv, ClientsOk
  <2> QED  BY <1>0, <2>1, <2>2, GrownSound
<1>3. ASSUME NEW r \in Procs PROVE Sound(history', proc'[r].mem) /\ Knows(history', proc'[r])
  <2>1. proc'[r] = IF r = p THEN q ELSE proc[r]
    BY DEF LocalInv, ClientsOk
  <2>2. proc[r] \in Process /\ Sound(history, proc[r].mem) /\ Knows(history, proc[r])
    BY DEF LocalInv, ClientsOk
  <2> QED  BY <1>0, <2>1, <2>2, GrownSound, GrownKnows
<1> QED  BY <1>1, <1>2, <1>3 DEF ClientsOk

LEMMA GoesTo ==
  ASSUME LocalInv, NEW p \in Procs, NEW stage, NEW st, Goes(p, stage, st)
  PROVE  proc' = [proc EXCEPT ![p] = [proc[p] EXCEPT !.at = stage, !.mem = st]]
BY DEF LocalInv, ClientsOk, Process, Goes

LEMMA IdleKnows ==
  ASSUME NEW h \in Seq(Revision)
  PROVE  Idle \in Process /\ Sound(h, Idle.mem) /\ Knows(h, Idle) /\ Idle.at = "idle"
<1>1. Fresh \in State
  BY EmptyTyped DEF Fresh, State
<1>2. Len(h) >= 0
  OBVIOUS
<1> QED  BY <1>1, <1>2, FreshSound DEF Idle, Process, Stages, Knows

\* A command that ends, or goes on to a stage that needs to know nothing more,
\* with a sound state on disk and in its hands.
LEMMA EndsSound ==
  ASSUME LocalInv, NEW p \in Procs, NEW st, Saves(p, st), Ends(p),
         Grown, history' \in Seq(Revision), Sound(history', st)
  PROVE  ClientsOk'
<1>1. st \in State
  BY DEF Sound
<1> QED  BY <1>1, IdleKnows, CommandSound DEF Saves, Ends

LEMMA GoesSound ==
  ASSUME LocalInv, NEW p \in Procs, NEW st, Saves(p, st), NEW stage \in Stages,
         stage \notin {"pushed", "rekeyed"}, Goes(p, stage, st),
         Grown, history' \in Seq(Revision), Sound(history', st)
  PROVE  ClientsOk'
<1> DEFINE q == [proc[p] EXCEPT !.at = stage, !.mem = st]
<1>1. st \in State
  BY DEF Sound
<1>2. q \in Process /\ q.mem = st /\ q.at = stage
  BY <1>1, InHand DEF Process
<1>3. Knows(history', q)
  BY <1>2 DEF Knows
<1>4. proc' = [proc EXCEPT ![p] = q]
  BY GoesTo
<1> HIDE DEF q
<1> QED  BY <1>1, <1>2, <1>3, <1>4, CommandSound DEF Saves

\* The machine's state stays as it is.
LEMMA DiskRests ==
  ASSUME LocalInv, NEW p \in Procs, UNCHANGED disk
  PROVE  Saves(p, disk[Machine(p)])
BY InHand DEF LocalInv, ClientsOk, Saves

LEMMA ServerRests == LocalInv /\ UNCHANGED serverVars => ServerOk' /\ Grown
BY GrownRest DEF LocalInv, ServerOk, serverVars

LEMMA CountsRest == LocalInv /\ UNCHANGED <<edits, commands, failures>> => CountsOk'
BY DEF LocalInv, CountsOk

----------------------------------------------------------------------------
(* The saved states under each action *)

LEMMA InitLocal == Init => LocalInv
<1> SUFFICES ASSUME Init PROVE LocalInv  OBVIOUS
<1>1. <<>> \in Seq(Revision) /\ Len(<<>>) = 0
  OBVIOUS
<1>2. ServerOk
  BY <1>1 DEF Init, ServerOk
<1>3. Sound(history, Fresh) /\ Fresh \in State
  BY <1>1, FreshSound DEF Init, Sound
<1>4. Idle \in Process /\ Sound(history, Idle.mem) /\ Knows(history, Idle)
  BY <1>1, IdleKnows DEF Init
<1>5. ClientsOk
  BY <1>3, <1>4 DEF Init, ClientsOk
<1>6. CountsOk
  BY DEF Init, NoEdits, CountsOk
<1> QED  BY <1>2, <1>5, <1>6 DEF LocalInv

LEMMA StartLocal ==
  ASSUME LocalInv, NEW p \in Procs, Start(p)
  PROVE  CountsOk' /\ Grown /\ (granted' \in [Clients -> SUBSET Nat] => ServerOk')
BY GrownRest DEF LocalInv, ServerOk, CountsOk, Start

LEMMA SyncSound ==
  ASSUME LocalInv, NEW p \in Procs
  PROVE  Sound(history, SyncGrants(Machine(p)))
BY InHand, PutGrantsSound DEF SyncGrants

LEMMA BeginLocal ==
  ASSUME LocalInv, NEW p \in Procs, NEW stage \in {"edit", "pull", "push", "rekey"},
         Begin(p, stage)
  PROVE  LocalInv'
<1> DEFINE st == SyncGrants(Machine(p))
<1>1. Start(p) /\ Saves(p, st) /\ Goes(p, stage, st) /\ UNCHANGED <<granted, history>>
  BY DEF Begin, Start
<1>2. CountsOk' /\ Grown /\ ServerOk'
  BY <1>1, StartLocal DEF LocalInv, ServerOk
<1>3. Sound(history', st) /\ history' \in Seq(Revision)
  BY <1>1, SyncSound DEF LocalInv, ServerOk
<1>4. stage \in Stages /\ stage \notin {"pushed", "rekeyed"}
  BY DEF Stages
<1> HIDE DEF st
<1> QED  BY <1>1, <1>2, <1>3, <1>4, GoesSound DEF LocalInv

LEMMA BeginRemoveLocal ==
  ASSUME LocalInv, NEW p \in Procs, BeginRemove(p)
  PROVE  LocalInv'
<1> DEFINE st == disk[Machine(p)]
<1>1. Start(p) /\ Saves(p, st) /\ Goes(p, "remove", st) /\ UNCHANGED <<granted, history>>
  BY DiskRests DEF BeginRemove, Start
<1>2. CountsOk' /\ Grown /\ ServerOk'
  BY <1>1, StartLocal DEF LocalInv, ServerOk
<1>3. Sound(history', st) /\ history' \in Seq(Revision)
  BY <1>1, InHand
<1> HIDE DEF st
<1> QED  BY <1>1, <1>2, <1>3, GoesSound DEF LocalInv, Stages

LEMMA GrantPendingLocal ==
  ASSUME LocalInv, NEW p \in Procs, GrantPending(p)
  PROVE  LocalInv'
<1> DEFINE st == SyncGrants(Machine(p))
<1>1. Start(p) /\ Saves(p, st) /\ UNCHANGED <<proc, history>> /\ At(p, "idle")
  BY DEF GrantPending, Start
<1>2. granted' \in [Clients -> SUBSET Nat]
  BY DEF GrantPending, Pending, LocalInv, ServerOk
<1>3. CountsOk' /\ Grown /\ ServerOk'
  BY <1>1, <1>2, StartLocal
<1>4. Sound(history', st) /\ history' \in Seq(Revision) /\ st \in State
  BY <1>1, SyncSound DEF LocalInv, ServerOk, Sound
<1>5. /\ proc[p] \in Process /\ proc' = [proc EXCEPT ![p] = proc[p]]
      /\ Sound(history', proc[p].mem) /\ Knows(history', proc[p])
  BY <1>1, InHand DEF LocalInv, ClientsOk
<1> HIDE DEF st
<1>6. ClientsOk'
  BY <1>1, <1>3, <1>4, <1>5, CommandSound DEF Saves
<1> QED  BY <1>3, <1>6 DEF LocalInv

LEMMA EditsTyped ==
  \A p \in Procs : LET w == proc[p].mem.working IN
    w \in Snapshot => Added(w) \cup Imported(w) \cup Rotated(w) \cup Removed(w) \subseteq Snapshot
BY DEF Snapshot, Added, Imported, Rotated, Removed

LEMMA SavedLocal ==
  ASSUME LocalInv, NEW p \in Procs, NEW new \in Snapshot, Saved(p, new)
  PROVE  LocalInv'
<1> DEFINE st == proc[p].mem
           next == SetWorking(st, new, TRUE)
<1>1. /\ Readable(st) /\ CanSeal(st) /\ Saves(p, next) /\ Ends(p)
      /\ UNCHANGED <<serverVars, commands, failures>>
  BY DEF Saved
<1>2. ServerOk' /\ Grown /\ history' = history /\ history \in Seq(Revision)
  BY <1>1, ServerRests DEF serverVars, LocalInv, ServerOk
<1>3. Sound(history, next)
  BY <1>1, <1>2, InHand, SetWorkingSound DEF Sound
<1>4. CountsOk'
  <2>1. edits' \in [Clients -> [Keys -> Values \cup {Deleted, None}]]
    <3> DEFINE mine == [k \in Keys |->
                 IF new[k] = st.working[k] THEN edits[Machine(p)][k]
                 ELSE IF new[k] = Base(st)[k] THEN None ELSE new[k]]
    <3>1. edits' = [edits EXCEPT ![Machine(p)] = mine]
      BY DEF Saved
    <3>2. mine \in [Keys -> Values \cup {Deleted, None}]
      BY InHand DEF Snapshot
    <3> HIDE DEF mine
    <3> QED  BY <3>1, <3>2 DEF LocalInv, CountsOk
  <2> QED  BY <1>1, <2>1 DEF LocalInv, CountsOk
<1> HIDE DEF next
<1>5. ClientsOk'
  BY <1>1, <1>2, <1>3, EndsSound
<1> QED  BY <1>2, <1>4, <1>5 DEF LocalInv

LEMMA EditLocal ==
  ASSUME LocalInv, NEW p \in Procs, Edit(p) \/ Remove(p)
  PROVE  LocalInv'
<1>1. proc[p].mem.working \in Snapshot
  BY InHand DEF State
<1>2. PICK new \in Snapshot : Saved(p, new)
  BY <1>1, EditsTyped DEF Edit, Remove
<1> QED  BY <1>2, SavedLocal

\* What a pull makes of the state, once it has the grants.
LEMMA Synced ==
  ASSUME LocalInv, NEW p \in Procs, NEW st, st = PutGrants(proc[p].mem, granted[Machine(p)])
  PROVE  /\ Sound(history, st) /\ st \in State /\ st.base = proc[p].mem.base
         /\ st.working = proc[p].mem.working /\ st.dirty = proc[p].mem.dirty
         /\ Working(st) = st.working /\ Base(st) = ContentIn(history, st.base)
         /\ st.working \in Snapshot /\ Base(st) \in Snapshot
<1>1. /\ Sound(history, st) /\ st.base = proc[p].mem.base
      /\ st.working = proc[p].mem.working /\ st.dirty = proc[p].mem.dirty
  BY InHand, PutGrantsSound
<1>2. st \in State /\ st.base \in Nat /\ st.base <= Len(history) /\ st.working \in Snapshot
  BY <1>1 DEF Sound, State
<1>3. Working(st) = st.working /\ Base(st) = ContentIn(history, st.base)
  BY <1>1 DEF Sound, Working, Base, KeyIn, KeyAt, ContentIn, ContentAt
<1>4. Base(st) \in Snapshot
  BY <1>2, <1>3, InHand, ContentTyped
<1> QED  BY <1>1, <1>2, <1>3, <1>4

LEMMA SetBaseTyped ==
  ASSUME NEW st \in State, NEW n \in Nat, NEW kv \in Nat
  PROVE  /\ SetBase(st, n, kv) \in State
         /\ SetBase(st, n, kv).base = n /\ SetBase(st, n, kv).kv = kv
         /\ SetBase(st, n, kv).held = st.held /\ SetBase(st, n, kv).working = st.working
         /\ SetBase(st, n, kv).sealed = st.sealed /\ SetBase(st, n, kv).dirty = st.dirty
BY DEF SetBase, State

\* A new base, and a working copy sealed under the base's key version.
LEMMA AdoptSound ==
  ASSUME NEW h \in Seq(Revision), NEW st \in State, NEW n \in Nat, n <= Len(h),
         NEW kv \in Nat, kv > 0, kv \in st.held, KeyIn(h, n) = 0 \/ KeyIn(h, n) = kv,
         NEW snap \in Snapshot, NEW dirty \in BOOLEAN, dirty \/ snap = ContentIn(h, n)
  PROVE  /\ Sound(h, SetWorking(SetBase(st, n, kv), snap, dirty))
         /\ SetWorking(SetBase(st, n, kv), snap, dirty).base = n
         /\ SetWorking(SetBase(st, n, kv), snap, dirty).working = snap
         /\ SetWorking(SetBase(st, n, kv), snap, dirty).dirty = dirty
<1> DEFINE at == SetBase(st, n, kv)
<1>1. at \in State /\ at.base = n /\ at.kv = kv /\ at.held = st.held
  BY SetBaseTyped
<1> HIDE DEF at
<1>2. CanSeal(at) /\ Opens(at, KeyIn(h, at.base))
  BY <1>1 DEF CanSeal, AtLeastOne, Opens
<1>3. at.base <= Len(h) /\ (dirty \/ snap = ContentIn(h, at.base))
  BY <1>1
<1>4. /\ Sound(h, SetWorking(at, snap, dirty)) /\ SetWorking(at, snap, dirty).base = at.base
      /\ SetWorking(at, snap, dirty).working = snap /\ SetWorking(at, snap, dirty).dirty = dirty
  BY <1>1, <1>2, <1>3, SetWorkingSound
<1> QED  BY <1>1, <1>4 DEF at

LEMMA AdoptEmptyState ==
  ASSUME LocalInv, NEW p \in Procs, NEW st, st = PutGrants(proc[p].mem, granted[Machine(p)]),
         Latest = 0, keyVersion \in st.held,
         NEW new, new = SetWorking(SetBase(st, 0, keyVersion), Working(st), st.dirty)
  PROVE  /\ Sound(history, new) /\ new.base = 0
         /\ new.working = st.working /\ new.dirty = st.dirty
<1>1. /\ Sound(history, st) /\ st \in State /\ Working(st) = st.working
      /\ st.working \in Snapshot
  BY Synced
<1>2. keyVersion \in Nat /\ keyVersion > 0 /\ history \in Seq(Revision) /\ Len(history) = 0
  BY DEF LocalInv, ServerOk, Latest
<1>3. st.base = 0 /\ st.dirty \in BOOLEAN
  BY <1>1, <1>2 DEF Sound, State
<1>4. st.dirty \/ st.working = ContentIn(history, 0)
  BY <1>1, <1>3 DEF Sound
<1>5. ASSUME NEW n \in Nat, n = 0, NEW w \in Snapshot, w = st.working,
             NEW dirty \in BOOLEAN, dirty = st.dirty
      PROVE  Sound(history, new) /\ new.base = n /\ new.working = w /\ new.dirty = dirty
  <2>1. new = SetWorking(SetBase(st, n, keyVersion), w, dirty)
    BY <1>1, <1>5
  <2>2. dirty \/ w = ContentIn(history, n)
    BY <1>4, <1>5
  <2>3. KeyIn(history, n) = 0 /\ n <= Len(history)
    BY <1>2, <1>5 DEF KeyIn
  <2>4. /\ Sound(history, SetWorking(SetBase(st, n, keyVersion), w, dirty))
        /\ SetWorking(SetBase(st, n, keyVersion), w, dirty).base = n
        /\ SetWorking(SetBase(st, n, keyVersion), w, dirty).working = w
        /\ SetWorking(SetBase(st, n, keyVersion), w, dirty).dirty = dirty
    <3>1. history \in Seq(Revision) /\ st \in State /\ n <= Len(history)
      BY <1>1, <1>2, <2>3
    <3>2. keyVersion \in Nat /\ keyVersion > 0 /\ keyVersion \in st.held
      BY <1>2
    <3>3. KeyIn(history, n) = 0 \/ KeyIn(history, n) = keyVersion
      BY <2>3
    <3>4. w \in Snapshot /\ dirty \in BOOLEAN /\ n \in Nat
      BY <1>5
    <3> QED  BY <3>1, <3>2, <3>3, <3>4, <2>2, AdoptSound
  <2> QED  BY <2>1, <2>4
<1> QED  BY <1>1, <1>3, <1>5

LEMMA AdoptEmptyLocal ==
  ASSUME LocalInv, NEW p \in Procs, NEW next \in {"idle", "push"}, AdoptEmpty(p, next),
         UNCHANGED <<serverVars, commands, failures>>
  PROVE  LocalInv'
<1> DEFINE st == PutGrants(proc[p].mem, granted[Machine(p)])
           new == SetWorking(SetBase(st, 0, keyVersion), Working(st), st.dirty)
<1>1. /\ Latest = 0 /\ keyVersion \in st.held /\ Saves(p, new) /\ UNCHANGED edits
      /\ IF next = "idle" THEN Ends(p) ELSE Goes(p, next, new)
  BY DEF AdoptEmpty
<1>2. Sound(history, new)
  BY <1>1, AdoptEmptyState
<1>3. ServerOk' /\ Grown /\ history' = history /\ history \in Seq(Revision)
  BY ServerRests DEF serverVars, LocalInv, ServerOk
<1>4. CountsOk'
  BY <1>1, CountsRest
<1> HIDE DEF new, st
<1>5. next = "push" => next \in Stages /\ next \notin {"pushed", "rekeyed"}
  BY DEF Stages
<1>6. ClientsOk'
  BY <1>1, <1>2, <1>3, <1>5, EndsSound, GoesSound
<1> QED  BY <1>3, <1>4, <1>6 DEF LocalInv

LEMMA AdoptHeadState ==
  ASSUME LocalInv, NEW p \in Procs, NEW st, st = PutGrants(proc[p].mem, granted[Machine(p)]),
         Latest > 0, HeadKey \in st.held,
         NEW theirs \in BOOLEAN,
         NEW remote, remote = ContentAt(Latest),
         NEW local, local = Working(st),
         NEW conflicts, conflicts = Conflicts(Base(st), local, remote),
         NEW merged, merged = Merge(Base(st), local, remote),
         NEW left, left = IF theirs THEN {} ELSE conflicts,
         NEW new, new = SetWorking(SetBase(st, Latest, HeadKey),
                          IF theirs THEN Resolve(merged, remote, conflicts) ELSE merged,
                          StillDirty(st, local, remote, left))
  PROVE  /\ Sound(history, new) /\ new.base = Latest
         /\ new.working = IF theirs THEN Resolve(merged, remote, conflicts) ELSE merged
<1> DEFINE snap == IF theirs THEN Resolve(merged, remote, conflicts) ELSE merged
           dirty == StillDirty(st, local, remote, left)
<1>1. /\ Sound(history, st) /\ st \in State /\ Working(st) = st.working
      /\ Base(st) = ContentIn(history, st.base)
      /\ local \in Snapshot /\ Base(st) \in Snapshot
  BY Synced
<1>2. /\ history \in Seq(Revision) /\ Latest = Len(history) /\ Latest \in Nat
      /\ history[Latest] \in Revision /\ history[Latest].kv > 0
  BY DEF LocalInv, ServerOk, Latest
<1>3. /\ HeadKey = KeyIn(history, Latest) /\ HeadKey \in Nat /\ HeadKey > 0
      /\ remote = ContentIn(history, Latest) /\ remote \in Snapshot
  BY <1>2 DEF HeadKey, KeyAt, KeyIn, ContentAt, ContentIn, Revision
<1>4. merged \in Snapshot /\ snap \in Snapshot
  BY <1>1, <1>3, MergeTyped, ResolveTyped
<1>5. dirty \in BOOLEAN
  BY <1>1 DEF StillDirty, State
<1>6. ASSUME ~dirty PROVE snap = remote
  <2>1. left = {} /\ (st.dirty => local = remote)
    BY <1>6 DEF StillDirty
  <2>2. st.dirty \/ local = Base(st)
    BY <1>1 DEF Sound
  <2>3. local = Base(st) \/ local = remote
    BY <2>1, <2>2
  <2>4. conflicts = {} /\ merged = remote /\ Resolve(remote, remote, {}) = remote
    BY <1>1, <1>3, <2>3, MergeAdopts
  <2> QED  BY <2>4
<1>7. new = SetWorking(SetBase(st, Latest, HeadKey), snap, dirty)
  OBVIOUS
<1> HIDE DEF snap, dirty
<1>8. Latest <= Len(history) /\ (dirty \/ snap = ContentIn(history, Latest))
  BY <1>2, <1>3, <1>6
<1>9. Sound(history, new) /\ new.base = Latest /\ new.working = snap
  BY <1>1, <1>2, <1>3, <1>4, <1>5, <1>7, <1>8, AdoptSound
<1> QED  BY <1>9 DEF snap

LEMMA OwedTyped ==
  ASSUME LocalInv, NEW c \in Clients, NEW local \in Snapshot, NEW remote, NEW conflicts,
         NEW theirs
  PROVE  Owed(c, local, remote, conflicts, theirs) \in [Keys -> Values \cup {Deleted, None}]
BY DEF LocalInv, CountsOk, Owed, Snapshot

LEMMA AdoptHeadLocal ==
  ASSUME LocalInv, NEW p \in Procs, NEW next \in {"idle", "push"}, NEW theirs \in BOOLEAN,
         AdoptHead(p, theirs, next), UNCHANGED <<serverVars, commands, failures>>
  PROVE  LocalInv'
<1> DEFINE c == Machine(p)
           st == PutGrants(proc[p].mem, granted[c])
           remote == ContentAt(Latest)
           local == Working(st)
           conflicts == Conflicts(Base(st), local, remote)
           merged == Merge(Base(st), local, remote)
           left == IF theirs THEN {} ELSE conflicts
           new == SetWorking(SetBase(st, Latest, HeadKey),
                             IF theirs THEN Resolve(merged, remote, conflicts) ELSE merged,
                             StillDirty(st, local, remote, left))
           owed == Owed(c, local, remote, conflicts, theirs)
<1>1. /\ Latest > 0 /\ HeadKey \in st.held /\ Saves(p, new)
      /\ IF left # {} \/ next = "idle" THEN Ends(p) ELSE Goes(p, next, new)
      /\ edits' = [edits EXCEPT ![c] = owed]
  BY DEF AdoptHead
<1>2. Sound(history, new)
  BY <1>1, AdoptHeadState
<1>3. ServerOk' /\ Grown /\ history' = history /\ history \in Seq(Revision)
  BY ServerRests DEF serverVars, LocalInv, ServerOk
<1>4. owed \in [Keys -> Values \cup {Deleted, None}]
  BY InHand, Synced, OwedTyped
<1>5. CountsOk'
  <2> HIDE DEF owed
  <2> QED  BY <1>1, <1>4 DEF LocalInv, CountsOk
<1> HIDE DEF new, left
<1>6. next = "push" => next \in Stages /\ next \notin {"pushed", "rekeyed"}
  BY DEF Stages
<1>7. ClientsOk'
  BY <1>1, <1>2, <1>3, <1>6, EndsSound, GoesSound
<1> QED  BY <1>3, <1>5, <1>7 DEF LocalInv

LEMMA PullLocal ==
  ASSUME LocalInv, NEW p \in Procs, Pull(p) \/ PullAgain(p)
  PROVE  LocalInv'
BY AdoptEmptyLocal, AdoptHeadLocal DEF Pull, PullAgain

\* The process changes and no state on disk.
LEMMA GoesOn ==
  ASSUME LocalInv, NEW p \in Procs, NEW q \in Process, proc' = [proc EXCEPT ![p] = q],
         UNCHANGED disk, Grown, history' \in Seq(Revision), q.mem = proc[p].mem,
         Knows(history', q)
  PROVE  ClientsOk'
<1>1. /\ disk[Machine(p)] \in State /\ Sound(history, disk[Machine(p)])
      /\ Sound(history, proc[p].mem) /\ history \in Seq(Revision)
  BY InHand
<1>2. Sound(history', disk[Machine(p)]) /\ Sound(history', q.mem)
  BY <1>1, GrownSound
<1>3. disk' = [disk EXCEPT ![Machine(p)] = disk[Machine(p)]]
  BY DiskRests DEF Saves
<1> QED  BY <1>1, <1>2, <1>3, CommandSound

\* Everybody stays where he is.
LEMMA AllRest ==
  ASSUME LocalInv, UNCHANGED <<disk, proc>>, Grown, history' \in Seq(Revision)
  PROVE  ClientsOk'
<1>1. history \in Seq(Revision)
  BY DEF LocalInv, ServerOk
<1>2. ASSUME NEW c \in Clients PROVE Sound(history', disk[c])
  BY <1>1, GrownSound DEF LocalInv, ClientsOk
<1>3. ASSUME NEW p \in Procs PROVE Sound(history', proc[p].mem) /\ Knows(history', proc[p])
  BY <1>1, GrownSound, GrownKnows DEF LocalInv, ClientsOk
<1> QED  BY <1>2, <1>3 DEF LocalInv, ClientsOk

\* What a push publishes or asks to be reviewed.
LEMMA BuiltTyped ==
  ASSUME LocalInv, NEW p \in Procs
  PROVE  /\ Built(Machine(p), proc[p].mem) \in Revision
         /\ Built(Machine(p), proc[p].mem).kv > 0
<1>1. AtLeastOne(proc[p].mem.kv) \in Nat /\ AtLeastOne(proc[p].mem.kv) > 0
  BY InHand DEF State, AtLeastOne
<1> QED  BY <1>1, InHand DEF Built, Revision, State, Touched

LEMMA PublishedOk ==
  ASSUME LocalInv, NEW rev \in Revision, rev.kv > 0, history' = Append(history, rev),
         keyVersion' \in Nat, keyVersion' > 0, granted' \in [Clients -> SUBSET Nat],
         UNCHANGED protected, requests' \subseteq requests
  PROVE  ServerOk'
<1>1. history \in Seq(Revision) /\ history' \in Seq(Revision)
  BY DEF LocalInv, ServerOk
<1>2. ASSUME NEW n \in 1..Len(history') PROVE history'[n].kv > 0
  <2>1. n <= Len(history) => n \in 1..Len(history) /\ history'[n] = history[n]
    BY <1>1
  <2>2. n > Len(history) => history'[n] = rev
    BY <1>1
  <2> QED  BY <1>1, <2>1, <2>2 DEF LocalInv, ServerOk
<1> QED  BY <1>1, <1>2 DEF LocalInv, ServerOk

LEMMA PushRevisionLocal ==
  ASSUME LocalInv, NEW p \in Procs, PushRevision(p)
  PROVE  LocalInv'
<1> DEFINE st == proc[p].mem
           c == Machine(p)
           rev == Built(c, st)
<1>1. CountsOk'
  BY CountsRest DEF PushRevision
<1>2. rev \in Revision /\ rev.kv > 0 /\ rev.content = st.working /\ rev.kv = AtLeastOne(st.kv)
  BY BuiltTyped DEF Built
<1>3. CASE ~Accepted(st)
  <2>1. Goes(p, "repull", st) /\ UNCHANGED <<history, disk, serverVars>>
    BY <1>3 DEF PushRevision, serverVars
  <2>2. ServerOk' /\ Grown
    BY <2>1, ServerRests
  <2>3. Sound(history', st) /\ history' \in Seq(Revision) /\ "repull" \in Stages
    BY <2>1, InHand DEF Stages
  <2> DEFINE q == [proc[p] EXCEPT !.at = "repull", !.mem = st]
  <2>4. q \in Process /\ q.mem = proc[p].mem /\ Knows(history', q)
    BY <2>3, InHand DEF Process, Knows
  <2>5. proc' = [proc EXCEPT ![p] = q]
    BY <2>1, GoesTo
  <2> HIDE DEF q
  <2>6. ClientsOk'
    BY <2>1, <2>2, <2>3, <2>4, <2>5, GoesOn
  <2> QED  BY <1>1, <2>2, <2>6 DEF LocalInv
<1>4. CASE Accepted(st)
  <2>1. /\ history' = Append(history, rev) /\ CanPush(st)
        /\ proc' = [proc EXCEPT ![p].at = "pushed", ![p].head = Latest + 1]
        /\ UNCHANGED <<keyVersion, granted, protected, requests, disk>>
    BY <1>4 DEF PushRevision
  <2> DEFINE q == [proc[p] EXCEPT !.at = "pushed", !.head = Latest + 1]
  <2>2. proc' = [proc EXCEPT ![p] = q]
    BY <2>1 DEF LocalInv, ClientsOk, Process
  <2> HIDE DEF rev
  <2>3. /\ Grown /\ history' \in Seq(Revision) /\ Latest + 1 \in 1..Len(history')
        /\ history'[Latest + 1] = rev
    BY <1>2, <2>1, InHand, GrownAppend DEF Latest
  <2>4. ServerOk'
    BY <1>2, <2>1, PublishedOk DEF LocalInv, ServerOk
  <2>5. q \in Process /\ q.mem = st /\ q.at = "pushed" /\ q.head = Latest + 1
    <3>1. proc[p] \in Process /\ Latest + 1 \in Nat /\ "pushed" \in Stages
      BY InHand DEF Latest, Stages
    <3> QED  BY <3>1 DEF Process
  <2>6. Knows(history', q)
    BY <1>2, <2>1, <2>3, <2>5 DEF Knows, CanPush, CanSeal
  <2> HIDE DEF q
  <2>7. ClientsOk'
    BY <2>1, <2>2, <2>3, <2>5, <2>6, GoesOn
  <2> QED  BY <1>1, <2>4, <2>7 DEF LocalInv
<1> QED  BY <1>3, <1>4

\* A command that ends and saves nothing.
LEMMA EndsRest ==
  ASSUME LocalInv, NEW p \in Procs, Ends(p), UNCHANGED disk, Grown,
         history' \in Seq(Revision)
  PROVE  ClientsOk'
<1>1. Sound(history', disk[Machine(p)])
  BY InHand, GrownSound
<1> QED  BY <1>1, DiskRests, EndsSound

LEMMA SubmitChangeLocal ==
  ASSUME LocalInv, NEW p \in Procs, SubmitChange(p)
  PROVE  LocalInv'
<1> DEFINE rev == Built(Machine(p), proc[p].mem)
           r == [base |-> proc[p].mem.base, doc |-> rev]
<1>1. CountsOk' /\ Ends(p) /\ UNCHANGED <<history, keyVersion, granted, protected, disk>>
  BY CountsRest DEF SubmitChange
<1>2. rev \in Revision /\ rev.kv > 0
  BY BuiltTyped
<1>3. r \in [base : Nat, doc : Revision] /\ r.doc.kv > 0
  BY <1>2, InHand DEF State
<1>4. requests' \subseteq requests \cup {r}
  BY DEF SubmitChange
<1> HIDE DEF r
<1>5. ServerOk'
  BY <1>1, <1>3, <1>4 DEF LocalInv, ServerOk
<1>6. Grown /\ history' \in Seq(Revision)
  BY <1>1, GrownRest DEF LocalInv, ServerOk
<1> QED  BY <1>1, <1>5, <1>6, EndsRest DEF LocalInv

\* The working copy that was pushed, on top of its revision.
LEMMA PushedSound ==
  ASSUME LocalInv, NEW p \in Procs, At(p, "pushed"), NEW head, head = proc[p].head
  PROVE  /\ Sound(history, [SetBase(proc[p].mem, head, history[head].kv) EXCEPT !.dirty = FALSE])
         /\ history[head].content = proc[p].mem.working
<1> DEFINE st == proc[p].mem
           kv == history[head].kv
           new == [SetBase(st, head, kv) EXCEPT !.dirty = FALSE]
<1>1. /\ head \in 1..Len(history) /\ history[head].content = st.working
      /\ kv = AtLeastOne(st.kv) /\ kv \in st.held
  BY InHand DEF At, Knows
<1>2. Sound(history, st) /\ st \in State /\ history \in Seq(Revision)
  BY InHand
<1>3. head \in Nat /\ head > 0 /\ head <= Len(history) /\ kv \in Nat
  BY <1>1, <1>2 DEF State, Revision
<1> HIDE DEF st, kv
<1>4. /\ new \in State /\ new.base = head /\ new.kv = kv /\ new.held = st.held
      /\ new.working = st.working /\ new.sealed = st.sealed
  BY <1>2, <1>3 DEF SetBase, State
<1>5. st.sealed = 0 \/ st.sealed = kv
  BY <1>1, <1>2 DEF Sound, Readable, Opens, AtLeastOne
<1> HIDE DEF new
<1>6. Readable(new) /\ Opens(new, KeyIn(history, new.base))
  BY <1>1, <1>3, <1>4, <1>5 DEF Readable, Opens, KeyIn, kv
<1>7. new.working = ContentIn(history, new.base)
  BY <1>1, <1>3, <1>4 DEF ContentIn
<1>8. Sound(history, new)
  BY <1>3, <1>4, <1>6, <1>7 DEF Sound
<1> QED  BY <1>1, <1>8 DEF new, st, kv

LEMMA RecordPushLocal ==
  ASSUME LocalInv, NEW p \in Procs, RecordPush(p)
  PROVE  LocalInv'
<1> DEFINE head == proc[p].head
           next == [SetBase(proc[p].mem, head, history[head].kv) EXCEPT !.dirty = FALSE]
<1>1. /\ At(p, "pushed") /\ Saves(p, next) /\ Ends(p)
      /\ UNCHANGED <<serverVars, commands, failures>>
  BY DEF RecordPush
<1>2. Sound(history, next)
  BY <1>1, PushedSound
<1>3. ServerOk' /\ Grown /\ history' = history /\ history \in Seq(Revision)
  BY <1>1, ServerRests DEF serverVars, LocalInv, ServerOk
<1>4. CountsOk'
  <2> DEFINE c == Machine(p)
             owed == [k \in Keys |-> IF edits[c][k] = history[head].content[k]
                                     THEN None ELSE edits[c][k]]
  <2>1. edits' = [edits EXCEPT ![c] = owed]
    BY DEF RecordPush
  <2>2. owed \in [Keys -> Values \cup {Deleted, None}]
    BY InHand
  <2> HIDE DEF owed
  <2> QED  BY <1>1, <2>1, <2>2 DEF LocalInv, CountsOk
<1> HIDE DEF next
<1>5. ClientsOk'
  BY <1>1, <1>2, <1>3, EndsSound
<1> QED  BY <1>3, <1>4, <1>5 DEF LocalInv

LEMMA ReadHeadLocal ==
  ASSUME LocalInv, NEW p \in Procs, ReadHead(p)
  PROVE  LocalInv'
<1> DEFINE q == [proc[p] EXCEPT !.at = "reseal", !.kv = keyVersion, !.head = Latest]
<1>1. ServerOk' /\ Grown /\ CountsOk' /\ history' \in Seq(Revision) /\ UNCHANGED disk
  BY ServerRests, CountsRest DEF ReadHead, LocalInv, ServerOk, serverVars
<1>2. q \in Process /\ q.mem = proc[p].mem /\ q.at = "reseal"
  <2>1. proc[p] \in Process /\ Latest \in Nat /\ keyVersion \in Nat /\ "reseal" \in Stages
    BY InHand DEF Latest, Stages, LocalInv, ServerOk
  <2> QED  BY <2>1 DEF Process
<1>3. proc' = [proc EXCEPT ![p] = q]
  BY DEF ReadHead, LocalInv, ClientsOk, Process
<1> HIDE DEF q
<1>4. Knows(history', q)
  BY <1>2 DEF Knows
<1>5. ClientsOk'
  BY <1>1, <1>2, <1>3, <1>4, GoesOn
<1> QED  BY <1>1, <1>5 DEF LocalInv

LEMMA RekeyLocal ==
  ASSUME LocalInv, NEW p \in Procs, Rekey(p)
  PROVE  LocalInv'
<1> DEFINE q == [proc[p] EXCEPT !.at = "rekeyed"]
           rev == [content |-> ContentAt(Latest), by |-> Machine(p), kv |-> keyVersion + 1,
                   touched |-> {}]
<1>1. /\ proc[p].kv = keyVersion /\ proc[p].head = Latest
      /\ keyVersion' = keyVersion + 1 /\ UNCHANGED <<protected, requests, disk>>
      /\ history' = IF Latest = 0 THEN history ELSE Append(history, rev)
      /\ proc' = [proc EXCEPT ![p].at = "rekeyed"]
  BY DEF Rekey
<1>2. CountsOk'
  BY CountsRest DEF Rekey
<1>3. keyVersion' \in Nat /\ keyVersion' > 0 /\ granted' \in [Clients -> SUBSET Nat]
  BY DEF Rekey, LocalInv, ServerOk
<1>4. q \in Process /\ q.mem = proc[p].mem /\ q.at = "rekeyed" /\ q.kv = keyVersion
      /\ q.head = Latest
  <2>1. proc[p] \in Process /\ "rekeyed" \in Stages
    BY InHand DEF Stages
  <2> QED  BY <1>1, <2>1 DEF Process
<1>5. proc' = [proc EXCEPT ![p] = q]
  BY <1>1 DEF LocalInv, ClientsOk, Process
<1>6. Latest = Len(history) /\ history \in Seq(Revision) /\ Latest \in Nat
  BY InHand DEF Latest
<1>7. rev \in Revision /\ rev.kv = keyVersion + 1 /\ keyVersion \in Nat
  <2>1. ContentAt(Latest) = ContentIn(history, Latest)
    BY DEF ContentAt, ContentIn
  <2>2. ContentAt(Latest) \in Snapshot
    BY <1>6, <2>1, ContentTyped
  <2>3. keyVersion \in Nat /\ Machine(p) \in Clients
    BY InHand DEF LocalInv, ServerOk
  <2> QED  BY <2>2, <2>3 DEF Revision
<1> HIDE DEF q, rev
<1>8. CASE Latest = 0
  <2>1. history' = history
    BY <1>1, <1>8
  <2>2. ServerOk' /\ Grown /\ history' \in Seq(Revision)
    BY <1>1, <1>3, <2>1, <1>6, GrownRest DEF LocalInv, ServerOk
  <2>3. Knows(history', q)
    BY <1>4, <1>8 DEF Knows
  <2>4. ClientsOk'
    BY <1>1, <1>4, <1>5, <2>2, <2>3, GoesOn
  <2> QED  BY <1>2, <2>2, <2>4 DEF LocalInv
<1>9. CASE Latest > 0
  <2>1. history' = Append(history, rev)
    BY <1>1, <1>9
  <2>2. /\ Grown /\ history' \in Seq(Revision) /\ Len(history') = Latest + 1
        /\ history'[Latest + 1] = rev
    BY <1>6, <1>7, <2>1, GrownAppend
  <2>3. ServerOk'
    BY <1>1, <1>3, <1>7, <2>1, PublishedOk
  <2>4. Knows(history', q)
    BY <1>4, <1>6, <1>7, <2>2 DEF Knows
  <2>5. ClientsOk'
    BY <1>1, <1>4, <1>5, <2>2, <2>4, GoesOn
  <2> QED  BY <1>2, <2>3, <2>5 DEF LocalInv
<1> QED  BY <1>6, <1>8, <1>9

\* What a rekey saves: the head it sealed again, under the new key.
RekeyBase(q) == IF q.head = 0 THEN 0 ELSE q.head + 1
Rekeyed(q) ==
  SetWorking(SetBase(PutGrants(q.mem, {q.kv + 1}), RekeyBase(q), q.kv + 1),
             ContentAt(RekeyBase(q)), FALSE)

LEMMA RekeyedState ==
  ASSUME LocalInv, NEW p \in Procs, At(p, "rekeyed")
  PROVE  /\ Sound(history, Rekeyed(proc[p])) /\ Rekeyed(proc[p]).base = RekeyBase(proc[p])
         /\ Rekeyed(proc[p]).working = ContentAt(RekeyBase(proc[p]))
<1> DEFINE kv == proc[p].kv + 1
           n == RekeyBase(proc[p])
           st == PutGrants(proc[p].mem, {kv})
           new == Rekeyed(proc[p])
<1>1. proc[p] \in Process /\ Knows(history, proc[p]) /\ history \in Seq(Revision)
      /\ Sound(history, proc[p].mem)
  BY InHand
<1>2. n \in Nat /\ n <= Len(history) /\ kv \in Nat /\ kv > 0
  BY <1>1 DEF Process, Knows, At, RekeyBase
<1>3. KeyIn(history, n) = 0 \/ KeyIn(history, n) = kv
  BY <1>1 DEF Process, Knows, At, KeyIn, RekeyBase
<1>4. ContentAt(n) = ContentIn(history, n) /\ ContentAt(n) \in Snapshot
  <2>1. ContentAt(n) = ContentIn(history, n)
    BY DEF ContentAt, ContentIn
  <2> QED  BY <1>1, <1>2, <2>1, ContentTyped
<1>5. new = SetWorking(SetBase(st, n, kv), ContentAt(n), FALSE)
  BY DEF Rekeyed
<1>6. st = PutGrants(proc[p].mem, {kv})
  OBVIOUS
<1> HIDE DEF kv, n, st, new
<1>7. Sound(history, st) /\ st.held = proc[p].mem.held \cup {kv}
  <2>1. {kv} \in SUBSET Nat
    BY <1>2
  <2>2. /\ Sound(history, PutGrants(proc[p].mem, {kv}))
        /\ PutGrants(proc[p].mem, {kv}).held = proc[p].mem.held \cup {kv}
    BY <1>1, <2>1, PutGrantsSound
  <2> QED  BY <1>6, <2>2
<1>8. st \in State /\ kv \in st.held
  BY <1>7 DEF Sound
<1>9. ASSUME NEW snap \in Snapshot, snap = ContentAt(n), NEW dirty \in BOOLEAN, dirty = FALSE
      PROVE  Sound(history, new) /\ new.base = n /\ new.working = snap
  <2>1. new = SetWorking(SetBase(st, n, kv), snap, dirty)
    BY <1>5, <1>9
  <2>2. snap = ContentIn(history, n)
    BY <1>4, <1>9
  <2>3. /\ Sound(history, SetWorking(SetBase(st, n, kv), snap, dirty))
        /\ SetWorking(SetBase(st, n, kv), snap, dirty).base = n
        /\ SetWorking(SetBase(st, n, kv), snap, dirty).working = snap
    BY <1>1, <1>2, <1>3, <1>8, <1>9, <2>2, AdoptSound
  <2> QED  BY <2>1, <2>3
<1>10. Sound(history, new) /\ new.base = n /\ new.working = ContentAt(n)
  BY <1>4, <1>9
<1> QED  BY <1>10 DEF new, n

LEMMA RecordRekeyLocal ==
  ASSUME LocalInv, NEW p \in Procs, RecordRekey(p)
  PROVE  LocalInv'
<1> DEFINE new == Rekeyed(proc[p])
<1>1. /\ At(p, "rekeyed") /\ Saves(p, new) /\ Ends(p)
      /\ UNCHANGED <<serverVars, edits, commands, failures>>
  BY DEF RecordRekey, Rekeyed, RekeyBase
<1>2. Sound(history, new)
  BY <1>1, RekeyedState
<1>3. ServerOk' /\ Grown /\ CountsOk' /\ history' = history /\ history \in Seq(Revision)
  BY <1>1, ServerRests, CountsRest DEF serverVars, LocalInv, ServerOk
<1> HIDE DEF new
<1>4. ClientsOk'
  BY <1>1, <1>2, <1>3, EndsSound
<1> QED  BY <1>3, <1>4 DEF LocalInv

LEMMA StopLocal ==
  ASSUME LocalInv, NEW p \in Procs, GiveUp(p) \/ Die(p)
  PROVE  LocalInv'
<1>1. Ends(p) /\ UNCHANGED <<serverVars, disk>> /\ CountsOk'
  BY CountsRest DEF GiveUp, Die, LocalInv, CountsOk
<1>2. ServerOk' /\ Grown /\ history' \in Seq(Revision)
  BY <1>1, ServerRests DEF ServerOk
<1> QED  BY <1>1, <1>2, EndsRest DEF LocalInv

LEMMA ApproveLocal ==
  ASSUME LocalInv, NEW r \in requests, ApproveRequest(r)
  PROVE  LocalInv'
<1>1. /\ CountsOk' /\ UNCHANGED <<keyVersion, granted, protected, disk, proc>>
      /\ requests' \subseteq requests
      /\ r.doc \in Revision /\ r.doc.kv > 0 /\ history \in Seq(Revision)
  BY CountsRest DEF ApproveRequest, LocalInv, ServerOk
<1>2. CASE history' = Append(history, r.doc)
  <2>1. Grown /\ history' \in Seq(Revision)
    BY <1>1, <1>2, GrownAppend
  <2>2. ServerOk'
    BY <1>1, <1>2, PublishedOk DEF LocalInv, ServerOk
  <2> QED  BY <1>1, <2>1, <2>2, AllRest DEF LocalInv
<1>3. CASE UNCHANGED history
  <2>1. Grown /\ ServerOk'
    BY <1>1, <1>3, GrownRest DEF LocalInv, ServerOk
  <2> QED  BY <1>1, <1>3, <2>1, AllRest DEF LocalInv
<1> QED  BY <1>2, <1>3 DEF ApproveRequest

LEMMA NextLocal == LocalInv /\ [Next]_vars => LocalInv'
<1> SUFFICES ASSUME LocalInv, [Next]_vars PROVE LocalInv'  OBVIOUS
<1>1. ASSUME NEW p \in Procs, Starts(p) PROVE LocalInv'
  BY <1>1, BeginLocal, BeginRemoveLocal, GrantPendingLocal
     DEF Starts, BeginEdit, BeginPull, BeginPush, BeginRekey
<1>2. ASSUME NEW p \in Procs, Continues(p) PROVE LocalInv'
  BY <1>2, EditLocal, PullLocal, PushRevisionLocal, SubmitChangeLocal, RecordPushLocal,
     ReadHeadLocal, RekeyLocal, RecordRekeyLocal, StopLocal DEF Continues
<1>3. ASSUME NEW p \in Procs, Die(p) PROVE LocalInv'
  BY <1>3, StopLocal
<1>4. ASSUME NEW r \in requests, ApproveRequest(r) PROVE LocalInv'
  BY <1>4, ApproveLocal
<1>5. CASE UNCHANGED vars
  <2>1. UNCHANGED <<serverVars, disk, proc, edits, commands, failures>>
    BY <1>5 DEF vars
  <2>2. ServerOk' /\ Grown /\ CountsOk' /\ history' \in Seq(Revision)
    BY <2>1, ServerRests, CountsRest DEF ServerOk
  <2> QED  BY <2>1, <2>2, AllRest DEF LocalInv
<1> QED  BY <1>1, <1>2, <1>3, <1>4, <1>5 DEF Next

----------------------------------------------------------------------------
(* Theorems, for any number of terminals on a machine *)

LEMMA LocalAlways == Spec => []LocalInv
BY InitLocal, NextLocal, PTL DEF Spec

\* Every state that a command saves has the shape of state.json, and every
\* revision and request that of its document (localstore/store.go).
THEOREM CliTypesCorrect == Spec => []TypeInv
<1>1. LocalInv => TypeInv
  BY LocalImplied
<1> QED  BY <1>1, LocalAlways, PTL

\* The working copy and the base of a saved state can always be opened with the
\* grants saved beside them (PutGrant, SetBase and SetWorking).
THEOREM LocalReadableCorrect == Spec => []LocalReadable
<1>1. LocalInv => LocalReadable
  BY LocalImplied
<1> QED  BY <1>1, LocalAlways, PTL

\* A working copy that is not marked dirty is its base revision, so what a rekey
\* overwrites is never an edit (checkRekeyable).
THEOREM CleanIsBaseCorrect == Spec => []CleanIsBase
<1>1. LocalInv => CleanIsBase
  BY LocalImplied
<1> QED  BY <1>1, LocalAlways, PTL

----------------------------------------------------------------------------
(* The edits owed, with one terminal per machine *)

OneTerminal == \A t, u \in Terminals : t = u

Rekeying == {"rekey", "reseal", "rekeyed"}

\* What a state owes for a key: its edit, where it differs from its base.
Differs(h, st, k) ==
  IF st.working[k] = ContentIn(h, st.base)[k] THEN None ELSE st.working[k]

HandInv ==
  \A p \in Procs :
    /\ ~At(p, "idle") => proc[p].mem = disk[Machine(p)]
    /\ proc[p].at \in Rekeying => ~proc[p].mem.dirty

OwedInv == \A c \in Clients : \A k \in Keys : edits[c][k] = Differs(history, disk[c], k)

RequestOk(h, r) ==
  /\ r.base <= Len(h)
  /\ \A k \in Keys : r.doc.content[k] # ContentIn(h, r.base)[k] => k \in r.doc.touched

RequestsInv == \A r \in requests : RequestOk(history, r)

EditInv == HandInv /\ OwedInv /\ RequestsInv /\ OwnEditsOnly

LEMMA EditImplied == LocalInv /\ EditInv => EditsKept /\ OwnEditsOnly
<1> SUFFICES ASSUME LocalInv, EditInv, NEW c \in Clients, NEW k \in Keys, edits[c][k] # None
             PROVE  Working(disk[c])[k] = edits[c][k]
  BY DEF EditInv, EditsKept
<1>1. edits[c][k] = disk[c].working[k]
  BY DEF EditInv, OwedInv, Differs
<1>2. Working(disk[c]) = disk[c].working
  BY DEF LocalInv, ClientsOk, Sound, Working
<1> QED  BY <1>1, <1>2

LEMMA OneProcess ==
  ASSUME OneTerminal, NEW p \in Procs, NEW r \in Procs, Machine(p) = Machine(r)
  PROVE  p = r
BY DEF OneTerminal, Procs, Machine

\* The terms of the invariant at a command that runs.
LEMMA InUse ==
  ASSUME LocalInv, EditInv, NEW p \in Procs, ~At(p, "idle")
  PROVE  /\ proc[p].mem = disk[Machine(p)]
         /\ proc[p].at \in Rekeying => ~proc[p].mem.dirty
         /\ \A k \in Keys : edits[Machine(p)][k] = Differs(history, proc[p].mem, k)
BY MachineOf DEF EditInv, HandInv, OwedInv

LEMMA GrownContent ==
  ASSUME Grown, history \in Seq(Revision), NEW n \in Nat, n <= Len(history)
  PROVE  ContentIn(history', n) = ContentIn(history, n)
<1>1. n > 0 => n \in 1..Len(history)
  OBVIOUS
<1> QED  BY <1>1 DEF Grown, ContentIn

\* Process p goes on to q, and its machine's state is st, with what it owes.
LEMMA CommandEdits ==
  ASSUME OneTerminal, LocalInv, EditInv, NEW p \in Procs, NEW q \in Process, NEW st \in State,
         proc' = [proc EXCEPT ![p] = q], disk' = [disk EXCEPT ![Machine(p)] = st], Grown,
         q.at = "idle" \/ q.mem = st, q.at \in Rekeying => ~q.mem.dirty,
         \A c \in Clients : c # Machine(p) => edits'[c] = edits[c],
         \A k \in Keys : edits'[Machine(p)][k] = Differs(history', st, k)
  PROVE  HandInv' /\ OwedInv'
<1>1. ASSUME NEW r \in Procs
      PROVE  /\ proc'[r].at # "idle" => proc'[r].mem = disk'[Machine(r)]
             /\ proc'[r].at \in Rekeying => ~proc'[r].mem.dirty
  <2>1. CASE r = p
    BY <2>1, InHand DEF LocalInv, ClientsOk
  <2>2. CASE r # p
    <3>1. Machine(r) # Machine(p)
      BY <2>2, OneProcess
    <3>2. proc'[r] = proc[r] /\ disk'[Machine(r)] = disk[Machine(r)]
      BY <2>2, <3>1, MachineOf DEF LocalInv, ClientsOk
    <3> QED  BY <3>2 DEF EditInv, HandInv, At
  <2> QED  BY <2>1, <2>2
<1>2. ASSUME NEW c \in Clients, NEW k \in Keys
      PROVE  edits'[c][k] = Differs(history', disk'[c], k)
  <2>1. CASE c = Machine(p)
    BY <2>1 DEF LocalInv, ClientsOk
  <2>2. CASE c # Machine(p)
    <3>1. disk'[c] = disk[c] /\ edits'[c] = edits[c]
      BY <2>2 DEF LocalInv, ClientsOk
    <3>2. disk[c].base \in Nat /\ disk[c].base <= Len(history) /\ history \in Seq(Revision)
      BY DEF LocalInv, ServerOk, ClientsOk, Sound, State
    <3>3. ContentIn(history', disk[c].base) = ContentIn(history, disk[c].base)
      BY <3>2, GrownContent
    <3> QED  BY <3>1, <3>3 DEF EditInv, OwedInv, Differs
  <2> QED  BY <2>1, <2>2
<1> QED  BY <1>1, <1>2 DEF HandInv, OwedInv, At

\* The state on disk and the edits stay as they are.
LEMMA RestEdits ==
  ASSUME OneTerminal, LocalInv, EditInv, NEW p \in Procs, NEW q \in Process,
         proc' = [proc EXCEPT ![p] = q], UNCHANGED <<disk, edits>>, Grown,
         q.at = "idle" \/ (~At(p, "idle") /\ q.mem = proc[p].mem),
         q.at \in Rekeying => ~q.mem.dirty
  PROVE  HandInv' /\ OwedInv'
<1> DEFINE st == disk[Machine(p)]
<1>1. st \in State /\ Machine(p) \in Clients /\ st.base \in Nat /\ st.base <= Len(history)
      /\ history \in Seq(Revision)
  BY InHand DEF Sound, State
<1>2. disk' = [disk EXCEPT ![Machine(p)] = st]
  BY DiskRests DEF Saves
<1>3. q.at = "idle" \/ q.mem = st
  BY InUse
<1>4. ASSUME NEW k \in Keys PROVE edits'[Machine(p)][k] = Differs(history', st, k)
  <2>1. ContentIn(history', st.base) = ContentIn(history, st.base)
    BY <1>1, GrownContent
  <2> QED  BY <1>1, <2>1 DEF EditInv, OwedInv, Differs
<1> HIDE DEF st
<1> QED  BY <1>1, <1>2, <1>3, <1>4, CommandEdits

\* Nothing was published and nothing requested.
LEMMA ServerEdits ==
  ASSUME EditInv, UNCHANGED <<history, requests>>
  PROVE  RequestsInv' /\ OwnEditsOnly'
BY DEF EditInv, RequestsInv, OwnEditsOnly, ContentAt, Latest

LEMMA RequestsGrown ==
  ASSUME LocalInv, EditInv, Grown, history' \in Seq(Revision), NEW r \in requests
  PROVE  RequestOk(history', r)
<1>1. r.base \in Nat /\ r.base <= Len(history) /\ history \in Seq(Revision)
      /\ RequestOk(history, r)
  BY DEF LocalInv, ServerOk, EditInv, RequestsInv, RequestOk
<1>2. ContentIn(history', r.base) = ContentIn(history, r.base) /\ r.base <= Len(history')
  BY <1>1, GrownContent DEF Grown
<1> QED  BY <1>1, <1>2 DEF RequestOk

\* A revision that differs from the head only where its author had edits.
LEMMA PublishEdits ==
  ASSUME LocalInv, EditInv, NEW rev \in Revision, history' = Append(history, rev),
         requests' \subseteq requests,
         \A k \in Keys : rev.content[k] # ContentIn(history, Latest)[k] => k \in rev.touched
  PROVE  RequestsInv' /\ OwnEditsOnly'
<1>1. history \in Seq(Revision) /\ Latest = Len(history) /\ Latest \in Nat
  BY DEF LocalInv, ServerOk, Latest
<1>2. /\ Grown /\ history' \in Seq(Revision) /\ Len(history') = Latest + 1
      /\ history'[Latest + 1] = rev
  BY <1>1, GrownAppend
<1>3. RequestsInv'
  BY <1>2, RequestsGrown DEF RequestsInv
<1>4. ASSUME NEW n \in 1..Len(history'), NEW k \in Keys,
             ContentIn(history', n)[k] # ContentIn(history', n - 1)[k]
      PROVE  k \in history'[n].touched
  <2>1. CASE n = Latest + 1
    <3>1. ContentIn(history', Latest) = ContentIn(history, Latest)
      BY <1>1, <1>2, GrownContent
    <3>2. ContentIn(history', n) = rev.content /\ n - 1 = Latest
      BY <1>1, <1>2, <2>1 DEF ContentIn
    <3> QED  BY <1>2, <1>4, <2>1, <3>1, <3>2
  <2>2. CASE n <= Latest
    <3>1. n \in 1..Latest /\ n \in Nat /\ n - 1 \in Nat /\ n - 1 <= Len(history)
      BY <1>1, <2>2
    <3>2. /\ ContentIn(history', n) = ContentIn(history, n)
          /\ ContentIn(history', n - 1) = ContentIn(history, n - 1)
          /\ history'[n] = history[n]
      BY <1>1, <1>2, <2>2, <3>1, GrownContent DEF Grown
    <3>3. ContentAt(n) = ContentIn(history, n) /\ ContentAt(n - 1) = ContentIn(history, n - 1)
      BY DEF ContentAt, ContentIn
    <3> QED  BY <1>4, <3>1, <3>2, <3>3 DEF EditInv, OwnEditsOnly
  <2> QED  BY <1>1, <1>2, <2>1, <2>2
<1> QED  BY <1>3, <1>4 DEF OwnEditsOnly, ContentAt, ContentIn, Latest

----------------------------------------------------------------------------
(* The edits owed under each action *)

LEMMA InitEdits == Init => EditInv
<1> SUFFICES ASSUME Init PROVE EditInv  OBVIOUS
<1>1. history = <<>> /\ Len(history) = 0 /\ requests = {}
  BY DEF Init
<1>2. HandInv
  BY DEF Init, HandInv, At, Idle, Rekeying
<1>3. OwedInv
  BY <1>1 DEF Init, OwedInv, Differs, ContentIn, NoEdits, Fresh
<1>4. RequestsInv /\ OwnEditsOnly
  BY <1>1 DEF RequestsInv, OwnEditsOnly, Latest
<1> QED  BY <1>2, <1>3, <1>4 DEF EditInv

\* Fetching the grants leaves the working copy and its base alone.
LEMMA SyncSame ==
  ASSUME LocalInv, NEW p \in Procs
  PROVE  LET st == SyncGrants(Machine(p)) IN
         /\ st \in State /\ st.base = disk[Machine(p)].base
         /\ st.working = disk[Machine(p)].working /\ st.dirty = disk[Machine(p)].dirty
<1> DEFINE st == SyncGrants(Machine(p))
<1>1. st.base = disk[Machine(p)].base /\ st.working = disk[Machine(p)].working
      /\ st.dirty = disk[Machine(p)].dirty
  BY InHand, PutGrantsSound DEF SyncGrants
<1>2. st \in State
  BY SyncSound DEF Sound
<1> QED  BY <1>1, <1>2

LEMMA SameOwed ==
  ASSUME LocalInv, EditInv, NEW p \in Procs, NEW st, UNCHANGED <<history, edits>>,
         st.base = disk[Machine(p)].base, st.working = disk[Machine(p)].working
  PROVE  \A k \in Keys : edits'[Machine(p)][k] = Differs(history', st, k)
BY MachineOf DEF EditInv, OwedInv, Differs

LEMMA BeginEdits ==
  ASSUME OneTerminal, LocalInv, EditInv, NEW p \in Procs,
         NEW stage \in {"edit", "pull", "push", "rekey"}, Begin(p, stage),
         stage = "rekey" => ~disk[Machine(p)].dirty
  PROVE  EditInv'
<1> DEFINE st == SyncGrants(Machine(p))
           q == [proc[p] EXCEPT !.at = stage, !.mem = st]
<1>1. /\ Saves(p, st) /\ Goes(p, stage, st)
      /\ UNCHANGED <<history, requests, edits>>
  BY DEF Begin, Start
<1>2. /\ st \in State /\ st.base = disk[Machine(p)].base
      /\ st.working = disk[Machine(p)].working /\ st.dirty = disk[Machine(p)].dirty
  BY SyncSame
<1>3. proc' = [proc EXCEPT ![p] = q]
  BY <1>1, GoesTo
<1> HIDE DEF st
<1>4. q \in Process /\ q.mem = st /\ q.at = stage
  <2>1. proc[p] \in Process /\ stage \in Stages
    BY InHand DEF Stages
  <2> QED  BY <1>2, <2>1 DEF Process
<1> HIDE DEF q
<1>5. q.at \in Rekeying => ~q.mem.dirty
  BY <1>2, <1>4 DEF Rekeying
<1>6. Grown /\ (\A k \in Keys : edits'[Machine(p)][k] = Differs(history', st, k))
  BY <1>1, <1>2, InHand, GrownRest, SameOwed
<1>7. HandInv' /\ OwedInv'
  BY <1>1, <1>2, <1>3, <1>4, <1>5, <1>6, CommandEdits DEF Saves
<1> QED  BY <1>1, <1>7, ServerEdits DEF EditInv

LEMMA BeginRemoveEdits ==
  ASSUME OneTerminal, LocalInv, EditInv, NEW p \in Procs, BeginRemove(p)
  PROVE  EditInv'
<1> DEFINE st == disk[Machine(p)]
           q == [proc[p] EXCEPT !.at = "remove", !.mem = st]
<1>1. /\ Saves(p, st) /\ Goes(p, "remove", st)
      /\ UNCHANGED <<history, requests, edits>>
  BY DiskRests DEF BeginRemove, Start
<1>2. st \in State
  BY InHand
<1>3. proc' = [proc EXCEPT ![p] = q]
  BY <1>1, GoesTo
<1>4. Grown /\ (\A k \in Keys : edits'[Machine(p)][k] = Differs(history', st, k))
  BY <1>1, InHand, GrownRest, SameOwed
<1> HIDE DEF st
<1>5. q \in Process /\ q.mem = st /\ q.at = "remove" /\ q.at \notin Rekeying
  <2>1. proc[p] \in Process /\ "remove" \in Stages
    BY InHand DEF Stages
  <2> QED  BY <1>2, <2>1 DEF Process, Rekeying
<1> HIDE DEF q
<1>6. HandInv' /\ OwedInv'
  BY <1>1, <1>2, <1>3, <1>4, <1>5, CommandEdits DEF Saves
<1> QED  BY <1>1, <1>6, ServerEdits DEF EditInv

LEMMA GrantPendingEdits ==
  ASSUME OneTerminal, LocalInv, EditInv, NEW p \in Procs, GrantPending(p)
  PROVE  EditInv'
<1> DEFINE st == SyncGrants(Machine(p))
<1>1. /\ Saves(p, st) /\ proc[p].at = "idle"
      /\ UNCHANGED <<history, requests, edits, proc>>
  BY DEF GrantPending, Start, At
<1>2. /\ st \in State /\ st.base = disk[Machine(p)].base
      /\ st.working = disk[Machine(p)].working
  BY SyncSame
<1>3. proc[p] \in Process /\ proc' = [proc EXCEPT ![p] = proc[p]]
  BY <1>1, InHand DEF LocalInv, ClientsOk
<1> HIDE DEF st
<1>4. Grown /\ (\A k \in Keys : edits'[Machine(p)][k] = Differs(history', st, k))
  BY <1>1, <1>2, InHand, GrownRest, SameOwed
<1>5. proc[p].at \notin Rekeying
  BY <1>1 DEF Rekeying
<1>6. HandInv' /\ OwedInv'
  BY <1>1, <1>2, <1>3, <1>4, <1>5, CommandEdits DEF Saves
<1> QED  BY <1>1, <1>6, ServerEdits DEF EditInv

\* A command that ends with state st on disk and settles its edits.
LEMMA EndsEdits ==
  ASSUME OneTerminal, LocalInv, EditInv, NEW p \in Procs, NEW st \in State,
         Saves(p, st), Ends(p), UNCHANGED <<history, requests>>,
         NEW owed, edits' = [edits EXCEPT ![Machine(p)] = owed],
         \A k \in Keys : owed[k] = Differs(history, st, k)
  PROVE  EditInv'
<1>1. Idle \in Process /\ Idle.at = "idle" /\ Idle.at \notin Rekeying /\ Grown
  BY InHand, IdleKnows, GrownRest DEF Rekeying
<1>2. /\ \A c \in Clients : c # Machine(p) => edits'[c] = edits[c]
      /\ edits'[Machine(p)] = owed
  BY InHand DEF LocalInv, CountsOk
<1>3. \A k \in Keys : edits'[Machine(p)][k] = Differs(history', st, k)
  BY <1>2
<1>4. HandInv' /\ OwedInv'
  BY <1>1, <1>2, <1>3, CommandEdits DEF Saves, Ends
<1> QED  BY <1>4, ServerEdits DEF EditInv

LEMMA GoesEdits ==
  ASSUME OneTerminal, LocalInv, EditInv, NEW p \in Procs, NEW st \in State,
         NEW stage \in Stages \ Rekeying,
         Saves(p, st), Goes(p, stage, st), UNCHANGED <<history, requests>>,
         NEW owed, edits' = [edits EXCEPT ![Machine(p)] = owed],
         \A k \in Keys : owed[k] = Differs(history, st, k)
  PROVE  EditInv'
<1> DEFINE q == [proc[p] EXCEPT !.at = stage, !.mem = st]
<1>1. q \in Process /\ q.mem = st /\ q.at = stage
  <2>1. proc[p] \in Process
    BY InHand
  <2> QED  BY <2>1 DEF Process
<1>2. /\ \A c \in Clients : c # Machine(p) => edits'[c] = edits[c]
      /\ edits'[Machine(p)] = owed
  BY InHand DEF LocalInv, CountsOk
<1>3. (\A k \in Keys : edits'[Machine(p)][k] = Differs(history', st, k)) /\ Grown
  BY <1>2, InHand, GrownRest
<1>4. proc' = [proc EXCEPT ![p] = q]
  BY GoesTo
<1> HIDE DEF q
<1>5. HandInv' /\ OwedInv'
  BY <1>1, <1>2, <1>3, <1>4, CommandEdits DEF Saves
<1> QED  BY <1>5, ServerEdits DEF EditInv

LEMMA SavedEdits ==
  ASSUME OneTerminal, LocalInv, EditInv, NEW p \in Procs, ~At(p, "idle"),
         NEW new \in Snapshot, Saved(p, new)
  PROVE  EditInv'
<1> DEFINE st == proc[p].mem
           c == Machine(p)
           next == SetWorking(st, new, TRUE)
           owed == [k \in Keys |-> IF new[k] = st.working[k] THEN edits[c][k]
                                   ELSE IF new[k] = Base(st)[k] THEN None ELSE new[k]]
<1>1. /\ Readable(st) /\ CanSeal(st) /\ Saves(p, next) /\ Ends(p)
      /\ UNCHANGED <<history, requests>> /\ edits' = [edits EXCEPT ![c] = owed]
  BY DEF Saved, serverVars
<1>2. Sound(history, st) /\ st \in State /\ history \in Seq(Revision)
  BY InHand
<1>3. next \in State /\ next.base = st.base /\ next.working = new
  <2>1. AtLeastOne(st.kv) \in Nat
    BY <1>2 DEF State, AtLeastOne
  <2> QED  BY <1>2, <2>1 DEF SetWorking, State
<1>4. Base(st) = ContentIn(history, st.base)
  BY <1>2 DEF Sound, Base, KeyIn, KeyAt, ContentIn, ContentAt
<1>5. ASSUME NEW k \in Keys PROVE owed[k] = Differs(history, next, k)
  <2>1. edits[c][k] = Differs(history, st, k)
    BY InUse
  <2> QED  BY <1>3, <1>4, <2>1 DEF Differs
<1> HIDE DEF owed, next
<1> QED  BY <1>1, <1>3, <1>5, EndsEdits

LEMMA EditEdits ==
  ASSUME OneTerminal, LocalInv, EditInv, NEW p \in Procs, Edit(p) \/ Remove(p)
  PROVE  EditInv'
<1>1. proc[p].mem.working \in Snapshot /\ ~At(p, "idle")
  BY InHand DEF State, Edit, Remove, At
<1>2. PICK new \in Snapshot : Saved(p, new)
  BY <1>1, EditsTyped DEF Edit, Remove
<1> QED  BY <1>1, <1>2, SavedEdits

LEMMA AdoptEmptyEdits ==
  ASSUME OneTerminal, LocalInv, EditInv, NEW p \in Procs, ~At(p, "idle"),
         NEW next \in {"idle", "push"}, AdoptEmpty(p, next),
         UNCHANGED <<serverVars, commands, failures>>
  PROVE  EditInv'
<1> DEFINE st == PutGrants(proc[p].mem, granted[Machine(p)])
           new == SetWorking(SetBase(st, 0, keyVersion), Working(st), st.dirty)
           owed == edits[Machine(p)]
<1>1. /\ Latest = 0 /\ keyVersion \in st.held /\ Saves(p, new) /\ UNCHANGED edits
      /\ IF next = "idle" THEN Ends(p) ELSE Goes(p, next, new)
      /\ UNCHANGED <<history, requests>>
  BY DEF AdoptEmpty, serverVars
<1>2. Sound(history, new) /\ new.base = 0 /\ new.working = proc[p].mem.working
  BY <1>1, AdoptEmptyState, Synced
<1>3. proc[p].mem.base = 0
  BY <1>1, InHand DEF Sound, State, Latest
<1>4. ASSUME NEW k \in Keys PROVE owed[k] = Differs(history, new, k)
  BY <1>2, <1>3, InUse DEF Differs
<1>5. edits' = [edits EXCEPT ![Machine(p)] = owed]
  BY <1>1 DEF LocalInv, CountsOk
<1> HIDE DEF owed, new, st
<1>6. new \in State /\ (next = "push" => next \in Stages \ Rekeying)
  BY <1>2 DEF Sound, Stages, Rekeying
<1> QED  BY <1>1, <1>4, <1>5, <1>6, EndsEdits, GoesEdits

\* What is owed after a merge is where the new working copy differs from the head.
LEMMA MergeOwes ==
  ASSUME NEW base \in Snapshot, NEW local \in Snapshot, NEW remote \in Snapshot,
         NEW theirs \in BOOLEAN, NEW c,
         NEW conflicts, conflicts = Conflicts(base, local, remote), NEW k \in Keys,
         edits[c][k] = IF local[k] = base[k] THEN None ELSE local[k]
  PROVE  LET merged == Merge(base, local, remote)
             snap == IF theirs THEN Resolve(merged, remote, conflicts) ELSE merged IN
         Owed(c, local, remote, conflicts, theirs)[k]
           = IF snap[k] = remote[k] THEN None ELSE snap[k]
<1>1. local[k] # None /\ remote[k] # None
  BY DEF Snapshot
<1>2. k \in conflicts <=> local[k] # base[k] /\ remote[k] # base[k] /\ local[k] # remote[k]
  BY DEF Conflicts
<1> QED  BY <1>1, <1>2 DEF Owed, Merge, Resolve

LEMMA AdoptHeadEdits ==
  ASSUME OneTerminal, LocalInv, EditInv, NEW p \in Procs, ~At(p, "idle"),
         NEW next \in {"idle", "push"}, NEW theirs \in BOOLEAN,
         AdoptHead(p, theirs, next), UNCHANGED <<serverVars, commands, failures>>
  PROVE  EditInv'
<1> DEFINE c == Machine(p)
           st == PutGrants(proc[p].mem, granted[c])
           remote == ContentAt(Latest)
           local == Working(st)
           conflicts == Conflicts(Base(st), local, remote)
           merged == Merge(Base(st), local, remote)
           snap == IF theirs THEN Resolve(merged, remote, conflicts) ELSE merged
           left == IF theirs THEN {} ELSE conflicts
           new == SetWorking(SetBase(st, Latest, HeadKey), snap,
                             StillDirty(st, local, remote, left))
           owed == Owed(c, local, remote, conflicts, theirs)
<1>1. /\ Latest > 0 /\ HeadKey \in st.held /\ Saves(p, new)
      /\ IF left # {} \/ next = "idle" THEN Ends(p) ELSE Goes(p, next, new)
      /\ edits' = [edits EXCEPT ![c] = owed] /\ UNCHANGED <<history, requests>>
  BY DEF AdoptHead, serverVars
<1>2. Sound(history, new) /\ new.base = Latest /\ new.working = snap
  BY <1>1, AdoptHeadState
<1>3. /\ local = proc[p].mem.working /\ Base(st) = ContentIn(history, proc[p].mem.base)
      /\ local \in Snapshot /\ Base(st) \in Snapshot
  BY Synced
<1>4. remote = ContentIn(history, Latest) /\ remote \in Snapshot
  <2>1. remote = ContentIn(history, Latest)
    BY DEF ContentAt, ContentIn
  <2>2. Latest \in Nat /\ Latest <= Len(history) /\ history \in Seq(Revision)
    BY InHand DEF Latest
  <2> QED  BY <2>1, <2>2, ContentTyped
<1>5. ASSUME NEW k \in Keys PROVE owed[k] = Differs(history, new, k)
  <2>1. edits[c][k] = IF local[k] = Base(st)[k] THEN None ELSE local[k]
    BY <1>3, InUse DEF Differs
  <2>2. owed[k] = IF snap[k] = remote[k] THEN None ELSE snap[k]
    <3> HIDE DEF local, remote, st
    <3> QED  BY <1>3, <1>4, <2>1, MergeOwes
  <2> HIDE DEF owed, snap, new, remote
  <2> QED  BY <1>2, <1>4, <2>2 DEF Differs
<1> HIDE DEF owed, new, left, st
<1>6. new \in State /\ (next = "push" => next \in Stages \ Rekeying)
  BY <1>2 DEF Sound, Stages, Rekeying
<1> QED  BY <1>1, <1>5, <1>6, EndsEdits, GoesEdits

LEMMA PullEdits ==
  ASSUME OneTerminal, LocalInv, EditInv, NEW p \in Procs, Pull(p) \/ PullAgain(p)
  PROVE  EditInv'
<1>1. ~At(p, "idle")
  BY DEF Pull, PullAgain, At
<1> QED  BY <1>1, AdoptEmptyEdits, AdoptHeadEdits DEF Pull, PullAgain

\* A document built from the working copy changes only what is owed.
LEMMA BuiltEdits ==
  ASSUME LocalInv, EditInv, NEW p \in Procs, ~At(p, "idle"), NEW k \in Keys,
         proc[p].mem.working[k] # ContentIn(history, proc[p].mem.base)[k]
  PROVE  k \in Built(Machine(p), proc[p].mem).touched
<1>1. edits[Machine(p)][k] = proc[p].mem.working[k]
  BY InUse DEF Differs
<1>2. proc[p].mem.working[k] # None
  BY InHand DEF State, Snapshot
<1> QED  BY <1>1, <1>2 DEF Built, Touched

LEMMA PushRevisionEdits ==
  ASSUME OneTerminal, LocalInv, EditInv, NEW p \in Procs, PushRevision(p)
  PROVE  EditInv'
<1> DEFINE st == proc[p].mem
           rev == Built(Machine(p), st)
           q == IF Accepted(st) THEN [proc[p] EXCEPT !.at = "pushed", !.head = Latest + 1]
                ELSE [proc[p] EXCEPT !.at = "repull", !.mem = st]
<1>1. ~At(p, "idle") /\ UNCHANGED <<disk, edits, requests>>
  BY DEF PushRevision, At
<1>2. rev \in Revision /\ rev.content = st.working
  BY BuiltTyped DEF Built
<1>3. proc' = [proc EXCEPT ![p] = q]
  <2>1. ~Accepted(st) => proc' = [proc EXCEPT ![p] = [proc[p] EXCEPT !.at = "repull", !.mem = st]]
    BY GoesTo DEF PushRevision
  <2>2. Accepted(st) => proc' = [proc EXCEPT ![p].at = "pushed", ![p].head = Latest + 1]
    BY DEF PushRevision
  <2> QED  BY <2>1, <2>2 DEF LocalInv, ClientsOk, Process
<1>4. q \in Process /\ q.mem = st /\ q.at \in {"pushed", "repull"}
  <2>1. /\ proc[p] \in Process /\ Latest + 1 \in Nat
        /\ "pushed" \in Stages /\ "repull" \in Stages
    BY InHand DEF Latest, Stages
  <2> QED  BY <2>1 DEF Process
<1>5. Accepted(st) => history' = Append(history, rev) /\ st.base = Latest
  BY DEF PushRevision, Accepted
<1>6. ~Accepted(st) => UNCHANGED history
  BY DEF PushRevision
<1> HIDE DEF q, rev
<1>7. Grown
  BY <1>2, <1>5, <1>6, InHand, GrownRest, GrownAppend
<1>8. HandInv' /\ OwedInv'
  BY <1>1, <1>3, <1>4, <1>7, RestEdits DEF Rekeying
<1>9. RequestsInv' /\ OwnEditsOnly'
  <2>1. CASE Accepted(st)
    <3>1. ASSUME NEW k \in Keys, rev.content[k] # ContentIn(history, Latest)[k]
          PROVE  k \in rev.touched
      BY <1>1, <1>2, <1>5, <2>1, <3>1, BuiltEdits DEF rev
    <3> QED  BY <1>1, <1>2, <1>5, <2>1, <3>1, PublishEdits
  <2>2. CASE ~Accepted(st)
    BY <1>1, <1>6, <2>2, ServerEdits
  <2> QED  BY <2>1, <2>2
<1> QED  BY <1>8, <1>9 DEF EditInv

\* A command that ends and saves nothing.
LEMMA StopsEdits ==
  ASSUME OneTerminal, LocalInv, EditInv, NEW p \in Procs, Ends(p), UNCHANGED <<disk, edits>>, Grown
  PROVE  HandInv' /\ OwedInv'
<1>1. Idle \in Process /\ Idle.at = "idle" /\ Idle.at \notin Rekeying
  BY InHand, IdleKnows DEF Rekeying
<1> QED  BY <1>1, RestEdits DEF Ends

LEMMA SubmitChangeEdits ==
  ASSUME OneTerminal, LocalInv, EditInv, NEW p \in Procs, SubmitChange(p)
  PROVE  EditInv'
<1> DEFINE st == proc[p].mem
           rev == Built(Machine(p), st)
           r == [base |-> st.base, doc |-> rev]
<1>1. ~At(p, "idle") /\ UNCHANGED <<history, disk, edits>> /\ Ends(p)
  BY DEF SubmitChange, At
<1>2. requests' \subseteq requests \cup {r}
  BY DEF SubmitChange
<1>3. st.base <= Len(history) /\ rev.content = st.working
  BY InHand DEF Sound, Built
<1>4. RequestOk(history, r)
  BY <1>1, <1>3, BuiltEdits DEF RequestOk
<1> HIDE DEF r
<1>5. RequestsInv' /\ OwnEditsOnly'
  BY <1>1, <1>2, <1>4 DEF EditInv, RequestsInv, OwnEditsOnly, ContentAt, Latest
<1>6. HandInv' /\ OwedInv'
  BY <1>1, InHand, GrownRest, StopsEdits
<1> QED  BY <1>5, <1>6 DEF EditInv

LEMMA RecordPushEdits ==
  ASSUME OneTerminal, LocalInv, EditInv, NEW p \in Procs, RecordPush(p)
  PROVE  EditInv'
<1> DEFINE head == proc[p].head
           c == Machine(p)
           next == [SetBase(proc[p].mem, head, history[head].kv) EXCEPT !.dirty = FALSE]
           owed == [k \in Keys |-> IF edits[c][k] = history[head].content[k]
                                   THEN None ELSE edits[c][k]]
<1>1. /\ At(p, "pushed") /\ Saves(p, next) /\ Ends(p) /\ ~At(p, "idle")
      /\ edits' = [edits EXCEPT ![c] = owed] /\ UNCHANGED <<history, requests>>
  BY DEF RecordPush, serverVars, At
<1>2. Sound(history, next) /\ history[head].content = proc[p].mem.working
  BY <1>1, PushedSound
<1>3. next.base = head /\ next.working = proc[p].mem.working
  BY InHand DEF SetBase, State
<1>4. ContentIn(history, head) = proc[p].mem.working
  BY <1>1, <1>2, InHand DEF ContentIn, Knows, At
<1>5. ASSUME NEW k \in Keys PROVE owed[k] = Differs(history, next, k)
  <2>1. edits[c][k] = None \/ edits[c][k] = proc[p].mem.working[k]
    BY <1>1, InUse DEF Differs
  <2>2. owed[k] = None
    BY <1>2, <2>1
  <2>3. Differs(history, next, k) = None
    BY <1>3, <1>4 DEF Differs
  <2> QED  BY <2>2, <2>3
<1>6. next \in State
  BY <1>2 DEF Sound
<1> HIDE DEF next, owed
<1> QED  BY <1>1, <1>5, <1>6, EndsEdits

LEMMA ReadHeadEdits ==
  ASSUME OneTerminal, LocalInv, EditInv, NEW p \in Procs, ReadHead(p)
  PROVE  EditInv'
<1> DEFINE q == [proc[p] EXCEPT !.at = "reseal", !.kv = keyVersion, !.head = Latest]
<1>1. /\ ~At(p, "idle") /\ proc[p].at \in Rekeying
      /\ UNCHANGED <<history, requests, disk, edits>>
  BY DEF ReadHead, At, Rekeying, serverVars
<1>2. q \in Process /\ q.mem = proc[p].mem
  <2>1. proc[p] \in Process /\ Latest \in Nat /\ keyVersion \in Nat /\ "reseal" \in Stages
    BY InHand DEF Latest, Stages, LocalInv, ServerOk
  <2> QED  BY <2>1 DEF Process
<1>3. proc' = [proc EXCEPT ![p] = q]
  BY DEF ReadHead, LocalInv, ClientsOk, Process
<1> HIDE DEF q
<1>4. ~q.mem.dirty /\ Grown
  BY <1>1, <1>2, InUse, InHand, GrownRest
<1>5. HandInv' /\ OwedInv'
  BY <1>1, <1>2, <1>3, <1>4, RestEdits
<1> QED  BY <1>1, <1>5, ServerEdits DEF EditInv

LEMMA RekeyEdits ==
  ASSUME OneTerminal, LocalInv, EditInv, NEW p \in Procs, Rekey(p)
  PROVE  EditInv'
<1> DEFINE q == [proc[p] EXCEPT !.at = "rekeyed"]
           rev == [content |-> ContentAt(Latest), by |-> Machine(p), kv |-> keyVersion + 1,
                   touched |-> {}]
<1>1. /\ ~At(p, "idle") /\ proc[p].at \in Rekeying /\ UNCHANGED <<requests, disk, edits>>
      /\ history' = IF Latest = 0 THEN history ELSE Append(history, rev)
  BY DEF Rekey, At, Rekeying
<1>2. q \in Process /\ q.mem = proc[p].mem
  <2>1. proc[p] \in Process /\ "rekeyed" \in Stages
    BY InHand DEF Stages
  <2> QED  BY <2>1 DEF Process
<1>3. proc' = [proc EXCEPT ![p] = q]
  BY DEF Rekey, LocalInv, ClientsOk, Process
<1>4. rev \in Revision /\ rev.content = ContentIn(history, Latest)
  <2>1. ContentAt(Latest) = ContentIn(history, Latest)
    BY DEF ContentAt, ContentIn
  <2>2. ContentAt(Latest) \in Snapshot
    BY <2>1, InHand, ContentTyped DEF Latest
  <2>3. keyVersion \in Nat /\ Machine(p) \in Clients
    BY InHand DEF LocalInv, ServerOk
  <2> QED  BY <2>1, <2>2, <2>3 DEF Revision
<1> HIDE DEF q, rev
<1>5. ~q.mem.dirty /\ Grown
  BY <1>1, <1>2, <1>4, InUse, InHand, GrownRest, GrownAppend
<1>6. HandInv' /\ OwedInv'
  BY <1>1, <1>2, <1>3, <1>5, RestEdits
<1>7. RequestsInv' /\ OwnEditsOnly'
  BY <1>1, <1>4, ServerEdits, PublishEdits
<1> QED  BY <1>6, <1>7 DEF EditInv

LEMMA RecordRekeyEdits ==
  ASSUME OneTerminal, LocalInv, EditInv, NEW p \in Procs, RecordRekey(p)
  PROVE  EditInv'
<1> DEFINE n == RekeyBase(proc[p])
           new == Rekeyed(proc[p])
           owed == edits[Machine(p)]
<1>1. /\ At(p, "rekeyed") /\ Saves(p, new) /\ Ends(p) /\ ~At(p, "idle")
      /\ proc[p].at \in Rekeying /\ UNCHANGED <<history, requests, edits>>
  BY DEF RecordRekey, Rekeyed, RekeyBase, At, Rekeying, serverVars
<1>2. Sound(history, new) /\ new.base = n /\ new.working = ContentAt(n)
  BY <1>1, RekeyedState
<1>3. ContentAt(n) = ContentIn(history, n)
  BY DEF ContentAt, ContentIn
<1>4. ASSUME NEW k \in Keys PROVE owed[k] = Differs(history, new, k)
  <2>1. ~proc[p].mem.dirty /\ edits[Machine(p)][k] = Differs(history, proc[p].mem, k)
    BY <1>1, InUse
  <2>2. proc[p].mem.working = ContentIn(history, proc[p].mem.base)
    BY <2>1, InHand DEF Sound
  <2>3. edits[Machine(p)][k] = None
    BY <2>1, <2>2 DEF Differs
  <2>4. Differs(history, new, k) = None
    BY <1>2, <1>3 DEF Differs
  <2> QED  BY <2>3, <2>4
<1>5. edits' = [edits EXCEPT ![Machine(p)] = owed]
  BY <1>1 DEF LocalInv, CountsOk
<1>6. new \in State
  BY <1>2 DEF Sound
<1> HIDE DEF owed, new
<1> QED  BY <1>1, <1>4, <1>5, <1>6, EndsEdits

LEMMA StopEdits ==
  ASSUME OneTerminal, LocalInv, EditInv, NEW p \in Procs, GiveUp(p) \/ Die(p)
  PROVE  EditInv'
<1>1. Ends(p) /\ UNCHANGED <<history, requests, disk, edits>>
  BY DEF GiveUp, Die, serverVars
<1>2. HandInv' /\ OwedInv'
  BY <1>1, InHand, GrownRest, StopsEdits
<1> QED  BY <1>1, <1>2, ServerEdits DEF EditInv

\* Nobody's command moves.
LEMMA AllRestEdits ==
  ASSUME LocalInv, EditInv, UNCHANGED <<disk, proc, edits>>, Grown
  PROVE  HandInv' /\ OwedInv'
<1>1. HandInv'
  BY DEF EditInv, HandInv, At
<1>2. ASSUME NEW c \in Clients, NEW k \in Keys
      PROVE  edits'[c][k] = Differs(history', disk'[c], k)
  <2>1. disk[c].base \in Nat /\ disk[c].base <= Len(history) /\ history \in Seq(Revision)
    BY DEF LocalInv, ServerOk, ClientsOk, Sound, State
  <2>2. ContentIn(history', disk[c].base) = ContentIn(history, disk[c].base)
    BY <2>1, GrownContent
  <2> QED  BY <2>2 DEF EditInv, OwedInv, Differs
<1> QED  BY <1>1, <1>2 DEF OwedInv

LEMMA ApproveEdits ==
  ASSUME LocalInv, EditInv, NEW r \in requests, ApproveRequest(r)
  PROVE  EditInv'
<1>1. /\ UNCHANGED <<disk, proc, edits>> /\ requests' \subseteq requests
      /\ r.doc \in Revision /\ history \in Seq(Revision) /\ RequestOk(history, r)
  BY DEF ApproveRequest, LocalInv, ServerOk, EditInv, RequestsInv
<1>2. CASE r.base = Latest
  <2>1. history' = Append(history, r.doc)
    BY <1>2 DEF ApproveRequest
  <2>2. Grown
    BY <1>1, <2>1, GrownAppend
  <2>3. RequestsInv' /\ OwnEditsOnly'
    BY <1>1, <1>2, <2>1, PublishEdits DEF RequestOk
  <2> QED  BY <1>1, <2>2, <2>3, AllRestEdits DEF EditInv
<1>3. CASE r.base # Latest
  <2>1. UNCHANGED history
    BY <1>3 DEF ApproveRequest
  <2>2. HandInv' /\ OwedInv'
    BY <1>1, <2>1, GrownRest, AllRestEdits
  <2> QED  BY <1>1, <2>1, <2>2 DEF EditInv, RequestsInv, OwnEditsOnly, ContentAt, Latest
<1> QED  BY <1>2, <1>3

LEMMA NextEdits == OneTerminal /\ LocalInv /\ EditInv /\ [Next]_vars => EditInv'
<1> SUFFICES ASSUME OneTerminal, LocalInv, EditInv, [Next]_vars PROVE EditInv'  OBVIOUS
<1>1. ASSUME NEW p \in Procs, Starts(p) PROVE EditInv'
  BY <1>1, BeginEdits, BeginRemoveEdits, GrantPendingEdits
     DEF Starts, BeginEdit, BeginPull, BeginPush, BeginRekey
<1>2. ASSUME NEW p \in Procs, Continues(p) PROVE EditInv'
  BY <1>2, EditEdits, PullEdits, PushRevisionEdits, SubmitChangeEdits, RecordPushEdits,
     ReadHeadEdits, RekeyEdits, RecordRekeyEdits, StopEdits DEF Continues
<1>3. ASSUME NEW p \in Procs, Die(p) PROVE EditInv'
  BY <1>3, StopEdits
<1>4. ASSUME NEW r \in requests, ApproveRequest(r) PROVE EditInv'
  BY <1>4, ApproveEdits
<1>5. CASE UNCHANGED vars
  <2>1. UNCHANGED <<history, requests, disk, proc, edits>>
    BY <1>5 DEF vars, serverVars
  <2>2. HandInv' /\ OwedInv'
    BY <2>1, GrownRest, AllRestEdits DEF LocalInv, ServerOk
  <2> QED  BY <2>1, <2>2, ServerEdits DEF EditInv
<1> QED  BY <1>1, <1>2, <1>3, <1>4, <1>5 DEF Next

----------------------------------------------------------------------------
(* Theorems, for one terminal per machine *)

\* No edit is silently lost: it stays in the working copy until the head has
\* agreed with it or its author has settled the conflict (pull and push).
THEOREM EditsKeptCorrect == ASSUME OneTerminal PROVE Spec => []EditsKept
<1>1. Init => EditInv
  BY InitEdits
<1>2. LocalInv /\ EditInv /\ [Next]_vars => EditInv'
  BY NextEdits
<1>3. LocalInv /\ EditInv => EditsKept
  BY EditImplied
<1> QED  BY <1>1, <1>2, <1>3, LocalAlways, PTL DEF Spec

\* No revision reverts a teammate's change: it differs from the one before it
\* only in keys that its author had edited (ThreeWayMerge, and the base check).
THEOREM OwnEditsCorrect == ASSUME OneTerminal PROVE Spec => []OwnEditsOnly
<1>1. Init => EditInv
  BY InitEdits
<1>2. LocalInv /\ EditInv /\ [Next]_vars => EditInv'
  BY NextEdits
<1>3. LocalInv /\ EditInv => OwnEditsOnly
  BY EditImplied
<1> QED  BY <1>1, <1>2, <1>3, LocalAlways, PTL DEF Spec
=============================================================================
