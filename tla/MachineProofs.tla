--------------------------- MODULE MachineProofs ---------------------------
(***************************************************************************)
(* What a machine is served, for any machines, requests in flight, key     *)
(* versions and revisions.                                                 *)
(***************************************************************************)
EXTENDS MachineAccess, TLAPS

----------------------------------------------------------------------------
(* Revisions *)

Sealed == [kv : Nat, current : BOOLEAN]

EnvironmentTyped == environment \in [keyVersion : Nat, revisions : Seq(Sealed)]

FetchTyped ==
  fetch \in [Fetches -> [at : {"none", "find", "vault", "grants", "revision", "answered"},
                         who : Machines \cup {Nobody}, kv : Nat, head : Nat,
                         barred : BOOLEAN, key : Nat, revision : Nat]]

\* The key of version kv opens revision r, or r was outdated from the start.
Opens(r, kv) == environment.revisions[r].kv = kv \/ ~environment.revisions[r].current

HeadOpens == HeadRevision > 0 => Opens(HeadRevision, environment.keyVersion)

\* The key version and the head were read together, so they belong together;
\* revisions are only ever appended.
ReadTogether(q) ==
  /\ q.at \in {"grants", "revision", "answered"} =>
       q.head <= HeadRevision /\ (q.head > 0 => Opens(q.head, q.kv))
  /\ q.at \in {"revision", "answered"} => q.key = q.kv
  /\ q.at = "answered" => q.revision = q.head

OpensInv ==
  EnvironmentTyped /\ FetchTyped /\ HeadOpens /\ \A f \in Fetches : ReadTogether(fetch[f])

LEMMA OpensImplied == OpensInv => SecretsOpen
BY DEF OpensInv, ReadTogether, Opens, SecretsOpen, Answered

LEMMA NoFetchTyped ==
  NoFetch \in [at : {"none", "find", "vault", "grants", "revision", "answered"},
               who : Machines \cup {Nobody}, kv : Nat, head : Nat,
               barred : BOOLEAN, key : Nat, revision : Nat]
BY DEF NoFetch

LEMMA InitOpens == MachineInit => OpensInv
<1> SUFFICES ASSUME MachineInit PROVE OpensInv  OBVIOUS
<1>1. EnvironmentTyped
  BY DEF MachineInit, EnvironmentTyped
<1>2. FetchTyped
  BY NoFetchTyped DEF MachineInit, FetchTyped
<1>3. HeadOpens
  BY DEF MachineInit, HeadOpens, HeadRevision
<1>4. \A f \in Fetches : ReadTogether(fetch[f])
  BY DEF MachineInit, NoFetch, ReadTogether
<1> QED  BY <1>1, <1>2, <1>3, <1>4 DEF OpensInv

\* A revision was appended under key version kv.
LEMMA AppendOpens ==
  ASSUME OpensInv, UNCHANGED fetch, NEW rev \in Sealed, NEW kv \in Nat,
         environment' = [keyVersion |-> kv, revisions |-> Append(environment.revisions, rev)],
         rev.kv = kv \/ ~rev.current
  PROVE  OpensInv'
<1> DEFINE old == environment.revisions
           new == environment'.revisions
<1>1. old \in Seq(Sealed)
  BY DEF OpensInv, EnvironmentTyped
<1>2. /\ new \in Seq(Sealed) /\ Len(new) = Len(old) + 1 /\ Len(old) \in Nat
      /\ new[Len(new)] = rev
      /\ \A r \in 1..Len(old) : new[r] = old[r]
  BY <1>1
<1>3. environment'.keyVersion = kv
  OBVIOUS
<1>4. EnvironmentTyped'
  BY <1>2 DEF EnvironmentTyped
<1>5. HeadOpens'
  BY <1>2, <1>3 DEF HeadOpens, HeadRevision, Opens
<1>6. ASSUME NEW f \in Fetches PROVE ReadTogether(fetch[f])'
  <2> DEFINE q == fetch[f]
  <2>1. ReadTogether(q) /\ q.head \in Nat
    BY DEF OpensInv, FetchTyped
  <2>2. q.head <= Len(old) => q.head <= Len(new) /\ (q.head > 0 => new[q.head] = old[q.head])
    BY <1>2, <2>1
  <2> QED  BY <2>1, <2>2 DEF ReadTogether, Opens, HeadRevision
<1> QED  BY <1>4, <1>5, <1>6 DEF OpensInv, FetchTyped

\* The environment rests, and f goes on to q.
LEMMA StepOpens ==
  ASSUME OpensInv, NEW f \in Fetches, NEW q, Step(f, q), ReadTogether(q),
         q \in [at : {"none", "find", "vault", "grants", "revision", "answered"},
                who : Machines \cup {Nobody}, kv : Nat, head : Nat,
                barred : BOOLEAN, key : Nat, revision : Nat]
  PROVE  OpensInv'
<1>1. EnvironmentTyped' /\ HeadOpens'
  BY DEF OpensInv, EnvironmentTyped, HeadOpens, HeadRevision, Opens, Step
<1>2. FetchTyped'
  BY DEF OpensInv, FetchTyped, Step
<1>3. ASSUME NEW g \in Fetches PROVE ReadTogether(fetch[g])'
  <2>1. fetch'[g] = IF g = f THEN q ELSE fetch[g]
    BY DEF OpensInv, FetchTyped, Step
  <2>2. ReadTogether(fetch'[g])
    BY <2>1 DEF OpensInv
  <2> QED  BY <2>2 DEF ReadTogether, Opens, HeadRevision, Step
<1> QED  BY <1>1, <1>2, <1>3 DEF OpensInv

LEMMA RestOpens == OpensInv /\ UNCHANGED <<environment, fetch>> => OpensInv'
BY DEF OpensInv, EnvironmentTyped, FetchTyped, HeadOpens, HeadRevision, Opens, ReadTogether

LEMMA CommitWriteOpens ==
  ASSUME OpensInv, CommitWrite
  PROVE  OpensInv'
<1>1. PICK kv \in 1..environment.keyVersion : Written(kv)
  BY DEF CommitWrite
<1> DEFINE rev == [kv |-> kv, current |-> kv = environment.keyVersion]
<1>2. kv \in Nat /\ environment.keyVersion \in Nat
  BY DEF OpensInv, EnvironmentTyped
<1>3. rev \in Sealed
  BY <1>2 DEF Sealed
<1>4. rev.kv = environment.keyVersion \/ ~rev.current
  OBVIOUS
<1>5. environment' = [keyVersion |-> environment.keyVersion,
                      revisions |-> Append(environment.revisions, rev)]
  BY <1>1 DEF Written, OpensInv, EnvironmentTyped
<1> QED  BY <1>2, <1>3, <1>4, <1>5, AppendOpens DEF CommitWrite

LEMMA RekeyOpens ==
  ASSUME OpensInv, RekeyEnvironment
  PROVE  OpensInv'
<1> DEFINE kv == environment.keyVersion + 1
           rev == [kv |-> kv, current |-> TRUE]
<1>1. kv \in Nat /\ rev \in Sealed /\ rev.kv = kv
  BY DEF OpensInv, EnvironmentTyped, Sealed
<1>2. CASE HeadRevision = 0
  <2>1. environment' = [keyVersion |-> kv, revisions |-> <<>>]
    BY <1>2 DEF RekeyEnvironment
  <2>2. EnvironmentTyped' /\ HeadOpens'
    BY <1>1, <2>1 DEF EnvironmentTyped, HeadOpens, HeadRevision
  <2>3. ASSUME NEW f \in Fetches PROVE ReadTogether(fetch[f])'
    <3>1. ReadTogether(fetch[f]) /\ fetch[f].head \in Nat
      BY DEF OpensInv, FetchTyped
    <3>2. HeadRevision' = 0
      BY <2>1 DEF HeadRevision
    <3> QED  BY <1>2, <3>1, <3>2 DEF ReadTogether, RekeyEnvironment
  <2> QED  BY <2>2, <2>3 DEF OpensInv, FetchTyped, RekeyEnvironment
<1>3. CASE HeadRevision # 0
  <2>1. environment' = [keyVersion |-> kv, revisions |-> Append(environment.revisions, rev)]
    BY <1>3 DEF RekeyEnvironment
  <2> HIDE DEF kv, rev
  <2> QED  BY <1>1, <2>1, AppendOpens DEF RekeyEnvironment
<1> QED  BY <1>2, <1>3

LEMMA FetchOpens ==
  ASSUME OpensInv, NEW f \in Fetches,
         \/ \E m \in Machines : AuthenticateMachine(f, m)
         \/ FindIdentity(f) \/ FindVault(f) \/ ListRecipientGrants(f) \/ FindHead(f)
         \/ DecryptAndRun(f)
  PROVE  OpensInv'
<1> DEFINE q == fetch[f]
<1>0. /\ q \in [at : {"none", "find", "vault", "grants", "revision", "answered"},
                who : Machines \cup {Nobody}, kv : Nat, head : Nat,
                barred : BOOLEAN, key : Nat, revision : Nat]
      /\ ReadTogether(q)
  BY DEF OpensInv, FetchTyped
<1>a. ReadTogether(NoFetch)
  BY DEF NoFetch, ReadTogether
<1>1. ASSUME NEW m \in Machines, AuthenticateMachine(f, m)  PROVE OpensInv'
  <2> DEFINE new == [NoFetch EXCEPT !.at = "find", !.who = m, !.barred = ~Usable(m)]
  <2>1. Step(f, new)
    BY <1>1 DEF AuthenticateMachine
  <2>2. ReadTogether(new)
    BY DEF NoFetch, ReadTogether
  <2>3. new \in [at : {"none", "find", "vault", "grants", "revision", "answered"},
                 who : Machines \cup {Nobody}, kv : Nat, head : Nat,
                 barred : BOOLEAN, key : Nat, revision : Nat]
    BY DEF NoFetch, Usable
  <2> QED  BY <2>1, <2>2, <2>3, StepOpens
<1>2. CASE FindIdentity(f)
  <2>1. ReadTogether([q EXCEPT !.at = "vault"])
    BY <1>0 DEF ReadTogether
  <2> QED  BY <1>0, <1>2, <1>a, <2>1, NoFetchTyped, StepOpens DEF FindIdentity
<1>3. CASE FindVault(f)
  <2> DEFINE new == [q EXCEPT !.at = "grants", !.kv = environment.keyVersion,
                              !.head = HeadRevision]
  <2>1. HeadRevision \in Nat /\ environment.keyVersion \in Nat
    BY DEF OpensInv, EnvironmentTyped, HeadRevision
  <2>2. new.at = "grants" /\ new.kv = environment.keyVersion /\ new.head = HeadRevision
    BY <1>0
  <2>3. ReadTogether(new)
    BY <2>1, <2>2 DEF OpensInv, HeadOpens, ReadTogether
  <2> QED  BY <1>0, <1>3, <2>1, <2>3, StepOpens DEF FindVault
<1>4. CASE ListRecipientGrants(f)
  <2>1. q.at = "grants"
    BY <1>4 DEF ListRecipientGrants
  <2>2. ReadTogether([q EXCEPT !.at = "revision", !.key = q.kv])
    BY <1>0, <2>1 DEF ReadTogether
  <2> QED  BY <1>0, <1>4, <1>a, <2>2, NoFetchTyped, StepOpens DEF ListRecipientGrants
<1>5. CASE FindHead(f)
  <2>1. q.at = "revision"
    BY <1>5 DEF FindHead
  <2>2. ReadTogether([q EXCEPT !.at = "answered", !.revision = q.head])
    BY <1>0, <2>1 DEF ReadTogether
  <2> QED  BY <1>0, <1>5, <2>2, StepOpens DEF FindHead
<1>6. CASE DecryptAndRun(f)
  BY <1>6, <1>a, NoFetchTyped, StepOpens DEF DecryptAndRun
<1> QED  BY <1>1, <1>2, <1>3, <1>4, <1>5, <1>6

LEMMA NextOpens == OpensInv /\ [MachineNext]_machineVars => OpensInv'
<1> SUFFICES ASSUME OpensInv, [MachineNext]_machineVars PROVE OpensInv'  OBVIOUS
<1>1. ASSUME NEW m \in Machines,
             \/ CreateToken(m) \/ CreateWorkload(m) \/ InsertIdentity(m)
             \/ GrantMachine(m) \/ RevokeIdentity(m) \/ DeleteIdentityGrants(m)
             \/ ExpireIdentity(m) \/ LoginMachine(m) \/ VerifyToken(m) \/ VerifyOIDC(m)
             \/ OIDCFails(m) \/ MachineTokenExpires(m)
      PROVE  OpensInv'
  <2>1. UNCHANGED <<environment, fetch>>
    BY <1>1 DEF CreateToken, CreateWorkload, Checked, InsertIdentity, GrantMachine,
       RevokeIdentity, DeleteIdentityGrants, ExpireIdentity, LoginMachine, VerifyToken,
       VerifyOIDC, GenerateMachineToken, OIDCFails, MachineTokenExpires
  <2> QED  BY <2>1, RestOpens
<1>2. CASE UNCHANGED machineVars
  BY <1>2, RestOpens DEF machineVars
<1> QED  BY <1>1, <1>2, CommitWriteOpens, RekeyOpens, FetchOpens DEF MachineNext

\* The key that Secrets hands out opens the revision it hands out, however many
\* pushes, rekeys and grants come between its reads, unless that revision was
\* committed under an outdated key in the first place.
THEOREM SecretsCorrect == MachineSpec => []SecretsOpen
<1>1. MachineSpec => []OpensInv
  BY InitOpens, NextOpens, PTL DEF MachineSpec
<1> QED  BY <1>1, OpensImplied, PTL

----------------------------------------------------------------------------
(* Machines that are shut out *)

Statuses == {"absent", "active", "expired", "revoked"}

\* Whoever logged in was created before, and an identity is created only once;
\* so one that is shut out when its request arrives remains so.
KnownInv ==
  /\ identity \in [Machines -> Statuses] /\ creating \in [Machines -> Nat]
  /\ loggingIn \subseteq Machines /\ tokens \subseteq Machines
  /\ \A m \in Machines : creating[m] > 0 => identity[m] = "absent"
  /\ \A m \in loggingIn \cup tokens : identity[m] # "absent"

Shut(q) ==
  /\ q.at = "find" => /\ q.who \in Machines /\ identity[q.who] # "absent"
                      /\ q.barred => ~Usable(q.who)
  /\ q.at \notin {"none", "find"} => ~q.barred

ShutInv == FetchTyped /\ KnownInv /\ \A f \in Fetches : Shut(fetch[f])

LEMMA ShutImplied == ShutInv => MachineShutOut
BY DEF ShutInv, Shut, MachineShutOut, Answered

LEMMA InitShut == MachineInit => ShutInv
<1> SUFFICES ASSUME MachineInit PROVE ShutInv  OBVIOUS
<1>1. FetchTyped
  BY NoFetchTyped DEF MachineInit, FetchTyped
<1>2. KnownInv
  BY DEF MachineInit, KnownInv, Statuses
<1>3. \A f \in Fetches : Shut(fetch[f])
  BY DEF MachineInit, NoFetch, Shut
<1> QED  BY <1>1, <1>2, <1>3 DEF ShutInv

\* No fetch goes on, and no identity comes back.
LEMMA IdentityShut ==
  ASSUME ShutInv, KnownInv', UNCHANGED fetch,
         \A m \in Machines : identity[m] # "absent" =>
           identity'[m] # "absent" /\ (identity'[m] = "active" => identity[m] = "active")
  PROVE  ShutInv'
<1>1. \A f \in Fetches : Shut(fetch[f])'
  BY DEF ShutInv, Shut, Usable
<1> QED  BY <1>1 DEF ShutInv, FetchTyped

LEMMA FetchShut ==
  ASSUME ShutInv, NEW f \in Fetches, NEW q, Step(f, q), Shut(q), FetchTyped'
  PROVE  ShutInv'
<1>1. KnownInv'
  BY DEF ShutInv, KnownInv, Step
<1>2. ASSUME NEW g \in Fetches PROVE Shut(fetch[g])'
  <2>1. fetch'[g] = IF g = f THEN q ELSE fetch[g]
    BY DEF ShutInv, FetchTyped, Step
  <2>2. Shut(fetch'[g])
    BY <2>1 DEF ShutInv
  <2> QED  BY <2>2 DEF Shut, Usable, Step
<1> QED  BY <1>1, <1>2 DEF ShutInv

LEMMA SecretsShut ==
  ASSUME ShutInv, FetchTyped', NEW f \in Fetches,
         \/ \E m \in Machines : AuthenticateMachine(f, m)
         \/ FindIdentity(f) \/ FindVault(f) \/ ListRecipientGrants(f) \/ FindHead(f)
         \/ DecryptAndRun(f)
  PROVE  ShutInv'
<1> DEFINE q == fetch[f]
<1>0. /\ q \in [at : {"none", "find", "vault", "grants", "revision", "answered"},
                who : Machines \cup {Nobody}, kv : Nat, head : Nat,
                barred : BOOLEAN, key : Nat, revision : Nat]
      /\ Shut(q)
  BY DEF ShutInv, FetchTyped
<1>a. Shut(NoFetch)
  BY DEF NoFetch, Shut
<1>1. ASSUME NEW m \in Machines, AuthenticateMachine(f, m)  PROVE ShutInv'
  <2> DEFINE new == [NoFetch EXCEPT !.at = "find", !.who = m, !.barred = ~Usable(m)]
  <2>1. Step(f, new) /\ m \in tokens
    BY <1>1 DEF AuthenticateMachine
  <2>2. new.at = "find" /\ new.who = m
    BY DEF NoFetch
  <2>3. new.barred => ~Usable(m)
    BY DEF NoFetch
  <2>4. identity[m] # "absent"
    BY <2>1 DEF ShutInv, KnownInv
  <2>5. Shut(new)
    BY <2>2, <2>3, <2>4 DEF Shut
  <2> QED  BY <2>1, <2>5, FetchShut
<1>2. CASE FindIdentity(f)
  <2>1. CASE Usable(q.who)
    <3>1. Shut([q EXCEPT !.at = "vault"])
      BY <1>0, <1>2, <2>1 DEF Shut, FindIdentity
    <3> QED  BY <1>2, <2>1, <3>1, FetchShut DEF FindIdentity
  <2>2. CASE ~Usable(q.who)
    BY <1>2, <1>a, <2>2, FetchShut DEF FindIdentity
  <2> QED  BY <2>1, <2>2
<1>3. CASE FindVault(f)
  <2>1. Shut([q EXCEPT !.at = "grants", !.kv = environment.keyVersion, !.head = HeadRevision])
    BY <1>0, <1>3 DEF FindVault, Shut
  <2> QED  BY <1>3, <2>1, FetchShut DEF FindVault
<1>4. CASE ListRecipientGrants(f)
  <2>1. Shut([q EXCEPT !.at = "revision", !.key = q.kv])
    BY <1>0, <1>4 DEF ListRecipientGrants, Shut
  <2> QED  BY <1>4, <1>a, <2>1, FetchShut DEF ListRecipientGrants
<1>5. CASE FindHead(f)
  <2>1. Shut([q EXCEPT !.at = "answered", !.revision = q.head])
    BY <1>0, <1>5 DEF FindHead, Shut
  <2> QED  BY <1>5, <2>1, FetchShut DEF FindHead
<1>6. CASE DecryptAndRun(f)
  BY <1>6, <1>a, FetchShut DEF DecryptAndRun
<1> QED  BY <1>1, <1>2, <1>3, <1>4, <1>5, <1>6

LEMMA RekeyShut ==
  ASSUME ShutInv, RekeyEnvironment
  PROVE  ShutInv'
<1>1. \A m \in Machines : identity'[m] \in {identity[m], IF Usable(m) THEN "revoked" ELSE identity[m]}
  <2>1. PICK ts \in {{}, {m \in TokenMachines : Usable(m)}} :
          identity' = [m \in Machines |-> IF m \in ts THEN "revoked" ELSE identity[m]]
    BY DEF RekeyEnvironment
  <2> QED  BY <2>1
<1>2. KnownInv'
  BY <1>1 DEF ShutInv, KnownInv, Statuses, Usable, RekeyEnvironment
<1> QED  BY <1>1, <1>2, IdentityShut DEF RekeyEnvironment

LEMMA MachineShut ==
  ASSUME OpensInv, ShutInv, NEW m \in Machines,
         \/ CreateToken(m) \/ CreateWorkload(m) \/ InsertIdentity(m)
         \/ GrantMachine(m) \/ RevokeIdentity(m) \/ DeleteIdentityGrants(m)
         \/ ExpireIdentity(m) \/ LoginMachine(m) \/ VerifyToken(m) \/ VerifyOIDC(m)
         \/ OIDCFails(m) \/ MachineTokenExpires(m)
  PROVE  ShutInv'
<1>1. CASE CreateToken(m) \/ CreateWorkload(m)
  <2>1. KnownInv'
    BY <1>1 DEF CreateToken, CreateWorkload, Checked, ShutInv, KnownInv, OpensInv,
       EnvironmentTyped
  <2> QED  BY <1>1, <2>1, IdentityShut DEF CreateToken, CreateWorkload, Checked
<1>2. CASE InsertIdentity(m)
  <2>1. identity[m] = "absent" /\ identity' = [identity EXCEPT ![m] = "active"]
    BY <1>2 DEF InsertIdentity, ShutInv, KnownInv
  <2>2. KnownInv'
    BY <1>2, <2>1 DEF InsertIdentity, ShutInv, KnownInv, Statuses
  <2> QED  BY <1>2, <2>1, <2>2, IdentityShut DEF InsertIdentity, ShutInv, KnownInv
<1>3. CASE RevokeIdentity(m)
  <2>1. KnownInv'
    BY <1>3 DEF RevokeIdentity, ShutInv, KnownInv, Statuses
  <2> QED  BY <1>3, <2>1, IdentityShut DEF RevokeIdentity, ShutInv, KnownInv
<1>4. CASE ExpireIdentity(m)
  <2>1. KnownInv'
    BY <1>4 DEF ExpireIdentity, ShutInv, KnownInv, Statuses
  <2> QED  BY <1>4, <2>1, IdentityShut DEF ExpireIdentity, ShutInv, KnownInv
<1>5. CASE GrantMachine(m) \/ DeleteIdentityGrants(m)
  <2>1. KnownInv'
    BY <1>5 DEF GrantMachine, DeleteIdentityGrants, ShutInv, KnownInv
  <2> QED  BY <1>5, <2>1, IdentityShut DEF GrantMachine, DeleteIdentityGrants
<1>6. CASE \/ LoginMachine(m) \/ VerifyToken(m) \/ VerifyOIDC(m) \/ OIDCFails(m)
           \/ MachineTokenExpires(m)
  <2>1. KnownInv'
    BY <1>6 DEF LoginMachine, VerifyToken, VerifyOIDC, GenerateMachineToken, OIDCFails,
       MachineTokenExpires, ShutInv, KnownInv, Usable
  <2> QED  BY <1>6, <2>1, IdentityShut DEF LoginMachine, VerifyToken, VerifyOIDC,
       GenerateMachineToken, OIDCFails, MachineTokenExpires
<1> QED  BY <1>1, <1>2, <1>3, <1>4, <1>5, <1>6

LEMMA RestShut == ShutInv /\ UNCHANGED <<identity, creating, loggingIn, tokens, fetch>> => ShutInv'
BY DEF ShutInv, FetchTyped, KnownInv, Shut, Usable

LEMMA NextShut ==
  OpensInv /\ OpensInv' /\ ShutInv /\ [MachineNext]_machineVars => ShutInv'
<1> SUFFICES ASSUME OpensInv, OpensInv', ShutInv, [MachineNext]_machineVars PROVE ShutInv'
  OBVIOUS
<1>1. FetchTyped'
  BY DEF OpensInv
<1>2. CASE CommitWrite \/ UNCHANGED machineVars
  BY <1>2, RestShut DEF CommitWrite, machineVars
<1> QED  BY <1>1, <1>2, RekeyShut, MachineShut, SecretsShut DEF MachineNext

\* A machine that was revoked, expired or retired by a rekey when its request
\* arrived is served nothing: the identity is looked up again behind the token,
\* and none of the three can be undone.
THEOREM ShutOutCorrect == MachineSpec => []MachineShutOut
<1>1. MachineSpec => []OpensInv
  BY InitOpens, NextOpens, PTL DEF MachineSpec
<1>2. MachineSpec => []ShutInv
  BY <1>1, InitShut, NextShut, PTL DEF MachineSpec
<1> QED  BY <1>2, ShutImplied, PTL
=============================================================================
