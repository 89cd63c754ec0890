--------------------------- MODULE MachineAccess ---------------------------
(***************************************************************************)
(* Unattended readers of one environment: machine identities that log in   *)
(* for a short-lived access token and fetch the secrets with it            *)
(* (machine/service.go, cmd/run.go), while members push, rekey, grant and  *)
(* revoke.                                                                 *)
(*                                                                         *)
(* Secrets issues four reads with no transaction around them; every read   *)
(* is a step.  Writes to the environment are those of VaultService with    *)
(* transactions, one step each, where a key version names one DEK          *)
(* (OneKeyPerVersion).                                                     *)
(***************************************************************************)
EXTENDS Integers, Sequences, FiniteSets

CONSTANTS
  Machines,       \* ids of machine identities of the environment
  TokenMachines,  \* those of kind token; the others log in with OIDC
  Fetches,        \* requests for secrets that may be in flight at once
  Nobody,
  MaxKeyVersion,  \* bounds the rekeys
  MaxHead         \* bounds the revisions

ASSUME MachineAssumption ==
  /\ TokenMachines \subseteq Machines /\ Nobody \notin Machines
  /\ MaxKeyVersion \in Nat /\ MaxHead \in Nat

VARIABLES
  environment,  \* its key version and its revisions; a revision is current if it
                \* was sealed under the key version at which it was committed
  identity,     \* machine_identities
  wrapped,      \* grants of machines: <<machine, key version>>
  creating,     \* for each machine, the key version its creation was checked
                \* against, 0 if it is not being created
  loggingIn,    \* machines whose login has found the identity
  tokens,       \* machines that hold a valid access token
  fetch         \* the requests for secrets

machineVars == <<environment, identity, wrapped, creating, loggingIn, tokens, fetch>>

NoFetch == [at |-> "none", who |-> Nobody, kv |-> 0, head |-> 0, barred |-> FALSE,
            key |-> 0, revision |-> 0]

MachineInit ==
  /\ environment = [keyVersion |-> 1, revisions |-> <<>>]
  /\ identity = [m \in Machines |-> "absent"]
  /\ wrapped = {} /\ creating = [m \in Machines |-> 0]
  /\ loggingIn = {} /\ tokens = {}
  /\ fetch = [f \in Fetches |-> NoFetch]

HeadRevision == Len(environment.revisions)

\* Exists, not revoked, not expired (and bound to this environment).
Usable(m) == identity[m] = "active"
----------------------------------------------------------------------------
(* The environment *)

Written(kv) ==
  environment' = [environment EXCEPT !.revisions =
    Append(@, [kv |-> kv, current |-> kv = environment.keyVersion])]

\* A push or an approval.  It is sealed under the current key, except that the
\* first one of an environment may have been checked before a rekey.
CommitWrite ==
  /\ HeadRevision < MaxHead
  /\ \E kv \in 1..environment.keyVersion :
       (kv = environment.keyVersion \/ HeadRevision = 0) /\ Written(kv)
  /\ UNCHANGED <<identity, wrapped, creating, loggingIn, tokens, fetch>>

\* Seals the head again and regrants the x25519 machines; active token
\* machines, whose secret nobody can wrap to, are revoked and lose their grants,
\* unless the listing of the machines fails.
RekeyEnvironment ==
  LET kv == environment.keyVersion + 1 IN
  /\ kv <= MaxKeyVersion /\ HeadRevision < MaxHead
  /\ environment' = [keyVersion |-> kv, revisions |->
       IF HeadRevision = 0 THEN <<>>
       ELSE Append(environment.revisions, [kv |-> kv, current |-> TRUE])]
  /\ \E ts \in {{}, {m \in TokenMachines : Usable(m)}} :
       /\ identity' = [m \in Machines |-> IF m \in ts THEN "revoked" ELSE identity[m]]
       /\ wrapped' = {g \in wrapped : g[1] \notin ts}
                       \cup {<<m, kv>> : m \in {x \in Machines \ TokenMachines : Usable(x)}}
  /\ UNCHANGED <<creating, loggingIn, tokens, fetch>>

\* The key version of the enclosed grant is compared before the transaction.
Checked(m) ==
  /\ identity[m] = "absent" /\ creating[m] = 0
  /\ creating' = [creating EXCEPT ![m] = environment.keyVersion]
  /\ UNCHANGED <<environment, identity, wrapped, loggingIn, tokens, fetch>>

\* "lv machine token" wraps the key to a secret it shows once, "lv machine oidc"
\* to a key pair whose public half is registered.
CreateToken(m) == m \in TokenMachines /\ Checked(m)
CreateWorkload(m) == m \notin TokenMachines /\ Checked(m)

\* The grant is optional.
InsertIdentity(m) ==
  /\ creating[m] > 0
  /\ identity' = [identity EXCEPT ![m] = "active"]
  /\ \E given \in SUBSET {<<m, creating[m]>>} : wrapped' = wrapped \cup given
  /\ creating' = [creating EXCEPT ![m] = 0]
  /\ UNCHANGED <<environment, loggingIn, tokens, fetch>>

\* "lv access grant" does so for the machines listed as pending, with the current
\* key; CreateGrants accepts any active machine, and any key version so far.
GrantMachine(m) ==
  /\ Usable(m)
  /\ \E kv \in 1..environment.keyVersion : wrapped' = wrapped \cup {<<m, kv>>}
  /\ UNCHANGED <<environment, identity, creating, loggingIn, tokens, fetch>>

RevokeIdentity(m) ==
  /\ identity[m] \in {"active", "expired"}
  /\ identity' = [identity EXCEPT ![m] = "revoked"]
  /\ UNCHANGED <<environment, wrapped, creating, loggingIn, tokens, fetch>>

\* A command of its own, whose error is ignored: it may never happen.
DeleteIdentityGrants(m) ==
  /\ identity[m] = "revoked"
  /\ wrapped' = {g \in wrapped : g[1] # m}
  /\ UNCHANGED <<environment, identity, creating, loggingIn, tokens, fetch>>

ExpireIdentity(m) ==
  /\ identity[m] = "active"
  /\ identity' = [identity EXCEPT ![m] = "expired"]
  /\ UNCHANGED <<environment, wrapped, creating, loggingIn, tokens, fetch>>

----------------------------------------------------------------------------
(* Login and Secrets *)

LoginMachine(m) ==
  /\ Usable(m)
  /\ loggingIn' = loggingIn \cup {m}
  /\ UNCHANGED <<environment, identity, wrapped, creating, tokens, fetch>>

GenerateMachineToken(m) ==
  /\ m \in loggingIn
  /\ loggingIn' = loggingIn \ {m}
  /\ tokens' = tokens \cup {m}
  /\ UNCHANGED <<environment, identity, wrapped, creating, fetch>>

VerifyToken(m) == m \in TokenMachines /\ GenerateMachineToken(m)

\* Two requests to the issuer for its keys, either of which may fail.
VerifyOIDC(m) == m \notin TokenMachines /\ GenerateMachineToken(m)

OIDCFails(m) ==
  /\ m \in loggingIn \ TokenMachines
  /\ loggingIn' = loggingIn \ {m}
  /\ UNCHANGED <<environment, identity, wrapped, creating, tokens, fetch>>

\* Nothing else ends an access token.
MachineTokenExpires(m) ==
  /\ m \in tokens
  /\ tokens' = tokens \ {m}
  /\ UNCHANGED <<environment, identity, wrapped, creating, loggingIn, fetch>>

Step(f, new) ==
  /\ fetch' = [fetch EXCEPT ![f] = new]
  /\ UNCHANGED <<environment, identity, wrapped, creating, loggingIn, tokens>>

\* The request arrives; MachineAuth validates the token alone.
AuthenticateMachine(f, m) ==
  /\ fetch[f].at = "none" /\ m \in tokens
  /\ Step(f, [NoFetch EXCEPT !.at = "find", !.who = m, !.barred = ~Usable(m)])

\* Trusts the token.
FindIdentityBug(f) ==
  /\ fetch[f].at = "find"
  /\ Step(f, [fetch[f] EXCEPT !.at = "vault"])

FindIdentity(f) ==
  /\ fetch[f].at = "find"
  /\ Step(f, IF Usable(fetch[f].who) THEN [fetch[f] EXCEPT !.at = "vault"] ELSE NoFetch)

FindVault(f) ==
  /\ fetch[f].at = "vault"
  /\ Step(f, [fetch[f] EXCEPT !.at = "grants", !.kv = environment.keyVersion,
                              !.head = HeadRevision])

\* Takes the grant of the key version just read, or answers no_access.
ListRecipientGrants(f) ==
  LET q == fetch[f] IN
  /\ q.at = "grants"
  /\ Step(f, IF <<q.who, q.kv>> \in wrapped THEN [q EXCEPT !.at = "revision", !.key = q.kv]
             ELSE NoFetch)

\* Reads the latest revision instead of the head read with the key version.
FindHeadBug(f) ==
  /\ fetch[f].at = "revision"
  /\ Step(f, [fetch[f] EXCEPT !.at = "answered", !.revision = HeadRevision])

FindHead(f) ==
  /\ fetch[f].at = "revision"
  /\ Step(f, [fetch[f] EXCEPT !.at = "answered", !.revision = fetch[f].head])

\* "lv run" unwraps the key, decrypts the revision and starts its command.
DecryptAndRun(f) == fetch[f].at = "answered" /\ Step(f, NoFetch)

MachineNext ==
  \/ CommitWrite \/ RekeyEnvironment
  \/ \E m \in Machines :
       \/ CreateToken(m) \/ CreateWorkload(m) \/ InsertIdentity(m)
       \/ GrantMachine(m) \/ RevokeIdentity(m) \/ DeleteIdentityGrants(m) \/ ExpireIdentity(m)
       \/ LoginMachine(m) \/ VerifyToken(m) \/ VerifyOIDC(m) \/ OIDCFails(m)
       \/ MachineTokenExpires(m)
  \/ \E f \in Fetches :
       \/ \E m \in Machines : AuthenticateMachine(f, m)
       \/ FindIdentity(f) \/ FindVault(f) \/ ListRecipientGrants(f) \/ FindHead(f)
       \/ DecryptAndRun(f)

MachineSpec == MachineInit /\ [][MachineNext]_machineVars
----------------------------------------------------------------------------
(* Properties *)

Answered(f) == fetch[f].at = "answered"

\* What Secrets delivers fits together although it was read piece by piece while
\* members pushed, rekeyed and granted: the key it hands out opens the revision,
\* unless the revision itself was committed under an outdated key.
SecretsOpen ==
  \A f \in Fetches : LET q == fetch[f] IN
    Answered(f) /\ q.revision > 0 =>
      \/ environment.revisions[q.revision].kv = q.key
      \/ ~environment.revisions[q.revision].current

\* A machine that was revoked, expired or retired by a rekey before it asked is
\* served nothing, though its access token stays valid and its grants may have
\* outlived it.
MachineShutOut == \A f \in Fetches : Answered(f) => ~fetch[f].barred
=============================================================================
