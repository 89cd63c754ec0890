-------------------------- MODULE DeviceProperties --------------------------
(***************************************************************************)
(* What is expected of device logins.                                      *)
(***************************************************************************)
EXTENDS DeviceLogin, FiniteSets

\* The documents and the requests being handled have their types.
TypeInv ==
  /\ status \in [Logins -> {"absent", "pending", "approved", "denied"}]
  /\ approval \in [Logins -> Approval \cup {NoApproval}]
  /\ consumed \subseteq Logins
  /\ expired \subseteq Logins
  /\ swept \subseteq expired
  /\ devices \in [Devices -> Users \cup {None}]
  /\ minted \subseteq Devices
  /\ sessions \in Seq(Session)
  /\ live \subseteq DOMAIN sessions
  /\ cli \in [Logins -> {"idle"} \cup Waiting \cup Stopped]
  /\ handler \in [Handlers -> Handler]
  /\ failures \in 0 .. MaxFailures

----------------------------------------------------------------------------
(* The decisions taken and the sessions issued, as SingleUseGrant sees them. *)

NoDecision == NoApproval
DeniedDecision == <<None, "denied">>

DecisionOf(l) ==
  CASE status[l] = "approved" -> approval[l]
    [] status[l] = "denied" -> DeniedDecision
    [] OTHER -> NoDecision

Issued(i) == <<sessions[i].login, <<sessions[i].user, sessions[i].device>>>>

Grant == INSTANCE SingleUseGrant WITH
  Asked <- Logins, Permits <- Approval,
  Pending <- NoDecision, Denied <- DeniedDecision,
  decision <- [l \in Logins |-> DecisionOf(l)],
  collected <- [i \in DOMAIN sessions |-> Issued(i)]

\* Whatever browsers and pollers race, a login is decided once, and an approved one
\* gives one session, to the user and the device it was approved for; a denied one
\* gives none ("token collection single-use", "two browser tabs clicking Approve").
ImplementsGrant == Grant!Spec

----------------------------------------------------------------------------
\* RevokeDevice deletes the sessions before the device, so that a revocation that
\* stops half-way can be repeated: whenever the device of a session is gone, the
\* session is gone too, unless it was inserted while the device was being removed.
RevocationRetriable ==
  \A i \in live : ~sessions[i].late => devices[sessions[i].device] # None

\* The devices that no login was approved for and no handler is about to stamp or
\* delete.
Orphans ==
  {d \in Devices :
     /\ devices[d] # None
     /\ \A l \in Logins : approval[l] # <<devices[d], d>>
     /\ \A h \in Handlers : ~(handler[h].step \in {"approve", "undoDevice"}
                               /\ handler[h].device = d)}

\* "two browser tabs clicking Approve must not create two devices": a decision that
\* loses the race takes its device away again.  Only a failure leaves one behind.
FewOrphans == Cardinality(Orphans) <= failures

\* A session alive can be revoked through its device ("unrevokable access" is what
\* the order of RevokeDevice is there to exclude).
SessionHasDevice == \A i \in live : devices[sessions[i].device] # None

----------------------------------------------------------------------------
Collected(l) == \E i \in DOMAIN sessions : sessions[i].login = l

\* A login that is approved while its client polls gives a session, unless it expires
\* first, the client is interrupted, or the server fails.
ApprovedIsCollected ==
  \A l \in Logins :
    status[l] = "approved"
      ~> Collected(l) \/ l \in expired \/ cli[l] = "error" \/ failures > 0

\* pollForApproval "polls until the request is approved, denied, or expires", and
\* then stops.
PollingEnds ==
  \A l \in Logins :
    cli[l] = "waiting" /\ (status[l] \in {"approved", "denied"} \/ l \in expired)
      ~> cli[l] \in Stopped
=============================================================================
