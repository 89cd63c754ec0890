---------------------------- MODULE VaultSecrecy ----------------------------
(***************************************************************************)
(* Who has ever been given a key.  Deleting a grant does not make its      *)
(* recipient forget: once delivered, only a rekey takes the environment    *)
(* away from a former member, and with it from the token machines, for     *)
(* which no rekey can wrap the new key.  `held' remembers every delivery,  *)
(* `retired' every token that a rekey has left behind.                     *)
(***************************************************************************)
EXTENDS VaultProperties

VARIABLES
  held,    \* history: <<recipient, key version>> of every grant so far
  retired  \* history: token machines that held a key when a rekey took effect

secrecyVars == <<vars, held, retired>>

Delivered(gs) == {<<g.to, g.kv>> : g \in gs}

\* The active token machines with a key of the environment, of any version.
KeyedTokens == {m \in ActiveMachines \cap TokenMachines : \E g \in grants : g.to = m}

SecrecyInit == Init /\ held = Delivered(grants) /\ retired = {}
SecrecyNext ==
  /\ Next
  /\ held' = held \cup Delivered(grants')
  /\ retired' = IF keyVersion' # keyVersion THEN retired \cup KeyedTokens ELSE retired
SecrecySpec == SecrecyInit /\ [][SecrecyNext]_secrecyVars

(* Whoever was given the current key may read the environment, or else the *)
(* environment is flagged for a rekey (or UpdateMember or RemoveMember is  *)
(* about to flag it).  Rekey covers "every entitled recipient" and clears  *)
(* the flag; this is what makes clearing it right.                         *)
KeyKnownOnlyToReaders ==
  \A u \in Users : <<u, keyVersion>> \in held =>
    CanRead(u) \/ rekeyRequired \/ Evicting(u)

(* A revoked machine is left no wrapped key, and a token that held a key   *)
(* when a rekey took effect is revoked by it: Rekey lists the tokens long  *)
(* before it commits, and revokes them and deletes their grants with the   *)
(* commit or right after it.  (Before and after that a token may be given  *)
(* keys of any version: CreateGrants accepts every active machine.)        *)
MachinesKeepNoOldKey ==
  /\ \A m \in retired : machines[m] = "revoked" \/ Retiring(m)
  /\ \A g \in grants : g.to \in Machines /\ machines[g.to] = "revoked" =>
       Evicting(g.to) \/ Retiring(g.to)
=============================================================================
