---------------------------- MODULE DeviceProofs ----------------------------
(***************************************************************************)
(* Proofs about device logins, for any logins, users, devices, number of   *)
(* concurrent requests and number of failures.                             *)
(***************************************************************************)
EXTENDS DeviceProperties, TLAPS, FiniteSetTheorems

USE DeviceAssumption DEF DeviceAssumption

Deciding == {"deny", "createDevice", "approve", "undoDevice"}
Polling == {"consume", "issueSession"}
Holding == {"approve", "undoDevice", "revokeSessions", "deleteDevice"}
Claiming == {"approve", "undoDevice"}
Removing == {"undoDevice", "deleteDevice"}

\* A handler at a command has what the command uses.
Equipped(q) ==
  /\ q.step \in Deciding \cup Polling => q.login \in Logins
  /\ q.step \in Deciding => q.user \in Users
  /\ q.step \in Holding => q.device \in Devices

\* Only approved logins carry an approval, for a device that was created.
ApprovalOf(l) ==
  /\ status[l] = "approved" => approval[l] \in Approval /\ approval[l][2] \in minted
  /\ status[l] # "approved" => approval[l] = NoApproval

\* Who polls an approved login knows its approval; who has consumed it is alone.
Knows(q) ==
  q.step \in Polling
    => status[q.login] = "approved" /\ approval[q.login] = <<q.user, q.device>>

Alone(h) ==
  At(h, "issueSession") =>
    /\ handler[h].login \in consumed
    /\ \A i \in DOMAIN sessions : sessions[i].login # handler[h].login
    /\ \A k \in Handlers \ {h} :
         At(k, "issueSession") => handler[k].login # handler[h].login

SessionApproved(s) ==
  /\ s.login \in consumed
  /\ status[s.login] = "approved"
  /\ approval[s.login] = <<s.user, s.device>>

\* The device that a decision has created belongs to it alone until it is stamped.
Owns(h) ==
  /\ handler[h].step \in Claiming =>
       /\ handler[h].device \in minted
       /\ \A k \in Handlers \ {h} :
            handler[k].step \in Claiming => handler[k].device # handler[h].device
  /\ At(h, "approve") =>
       \A l \in Logins : status[l] = "approved" => approval[l][2] # handler[h].device

\* A device about to be deleted has no session left but late ones.
Cleared(h) ==
  handler[h].step \in Removing =>
    \A i \in live : sessions[i].device = handler[h].device => sessions[i].late

GrantInv ==
  /\ \A h \in Handlers : Equipped(handler[h]) /\ Knows(handler[h]) /\ Alone(h)
  /\ \A l \in Logins : ApprovalOf(l)
  /\ \A i \in DOMAIN sessions : SessionApproved(sessions[i])

DeviceInv ==
  /\ \A h \in Handlers : Owns(h) /\ Cleared(h)
  /\ RevocationRetriable

LoginInv == TypeInv /\ GrantInv /\ DeviceInv

----------------------------------------------------------------------------
LEMMA LoginInit == Init => LoginInv
<1> SUFFICES ASSUME Init
             PROVE  LoginInv
  OBVIOUS
<1>1. TypeInv
  BY DEF Init, TypeInv, Handler, Idle, Step, Approval, Session, Waiting, Stopped
<1>2. GrantInv
  BY DEF Init, GrantInv, Idle, Equipped, Knows, Alone, At, ApprovalOf, Deciding,
         Polling, Holding
<1>3. DeviceInv
  BY DEF Init, DeviceInv, Idle, Owns, Cleared, At, Claiming, Removing,
         RevocationRetriable
<1> QED
  BY <1>1, <1>2, <1>3 DEF LoginInv

(* Type correctness, action by action. *)

LEMMA HandlerTypes ==
  /\ Idle \in Handler
  /\ \A q \in Handler, s \in Step : [q EXCEPT !.step = s] \in Handler
BY DEF Idle, Handler, Step

LEMMA SlotTypes ==
  ASSUME TypeInv, NEW h \in Handlers
  PROVE  /\ Done(h) => handler' \in [Handlers -> Handler]
         /\ \A s \in Step : Advance(h, s) => handler' \in [Handlers -> Handler]
         /\ \A q \in Handler : Accept(h, q) => handler' \in [Handlers -> Handler]
         /\ \A a \in Stopped : Answer(h, a) => cli' \in [Logins -> {"idle"} \cup Waiting \cup Stopped]
<1>1. handler \in [Handlers -> Handler] /\ handler[h] \in Handler
  BY DEF TypeInv
<1>2. \A q \in Handler : [handler EXCEPT ![h] = q] \in [Handlers -> Handler]
  BY <1>1
<1>3. ASSUME NEW s \in Step, Advance(h, s)
      PROVE  handler' \in [Handlers -> Handler]
  <2> DEFINE q == [handler[h] EXCEPT !.step = s]
  <2>1. q \in Handler
    BY <1>1, HandlerTypes
  <2>2. handler' = [handler EXCEPT ![h] = q]
    BY <1>3 DEF Advance
  <2> QED
    BY <1>2, <2>1, <2>2
<1>4. ASSUME NEW a \in Stopped, Answer(h, a)
      PROVE  cli' \in [Logins -> {"idle"} \cup Waiting \cup Stopped]
  BY <1>4 DEF Answer, TypeInv
<1> QED
  BY <1>2, <1>3, <1>4, HandlerTypes DEF Done, Accept

LEMMA TypeNext == TypeInv /\ GrantInv /\ [Next]_vars => TypeInv'
<1> SUFFICES ASSUME TypeInv, GrantInv, [Next]_vars
             PROVE  TypeInv'
  OBVIOUS
<1> USE DEF TypeInv, Waiting, Stopped, loginVars, deviceVars, sessionVars
<1>1. ASSUME NEW l \in Logins, Authorize(l) \/ Expire(l) \/ Sweep(l) \/ Interrupt(l)
      PROVE  TypeInv'
  BY <1>1 DEF Authorize, Expire, Readable, Sweep, Interrupt
<1>2. ASSUME NEW l \in Logins, PollRefused(l)
      PROVE  TypeInv'
  BY <1>2 DEF PollRefused, Valid, Readable
<1>3. ASSUME NEW h \in Handlers, NEW l \in Logins, NEW u \in Users,
             DecideDeny(h, l, u) \/ DecideApprove(h, l, u)
      PROVE  TypeInv'
  <2>1. \A s \in Step : [Idle EXCEPT !.step = s, !.login = l, !.user = u] \in Handler
    BY DEF Idle, Handler
  <2> QED
    BY <1>3, <2>1, SlotTypes DEF DecideDeny, DecideApprove, Step
<1>4. ASSUME NEW h \in Handlers, DenyAuthRequest(h)
      PROVE  TypeInv'
  BY <1>4, SlotTypes DEF DenyAuthRequest
<1>5. ASSUME NEW h \in Handlers, CreateDevice(h)
      PROVE  TypeInv'
  <2>1. PICK d \in Devices \ minted :
          /\ minted' = minted \cup {d}
          /\ devices' = [devices EXCEPT ![d] = handler[h].user]
          /\ handler' = [handler EXCEPT ![h].step = "approve", ![h].device = d]
    BY <1>5 DEF CreateDevice
  <2>2. handler[h] \in Handler /\ [handler[h] EXCEPT !.step = "approve", !.device = d] \in Handler
    BY DEF Handler, Step
  <2>3. handler' \in [Handlers -> Handler]
    BY <2>1, <2>2
  <2>4. devices' \in [Devices -> Users \cup {None}]
    BY <2>1, <2>2 DEF Handler
  <2> QED
    BY <1>5, <2>1, <2>3, <2>4 DEF CreateDevice
<1>6. ASSUME NEW h \in Handlers, ApproveAuthRequest(h) \/ ApproveFails(h)
      PROVE  TypeInv'
  <2>1. handler[h].user \in Users /\ handler[h].device \in Devices
    BY <1>6 DEF ApproveAuthRequest, ApproveFails, At, GrantInv, Equipped, Deciding, Holding
  <2>2. <<handler[h].user, handler[h].device>> \in Approval
    BY <2>1 DEF Approval
  <2>3. handler' \in [Handlers -> Handler]
    BY <1>6, SlotTypes DEF ApproveAuthRequest, ApproveFails, Step
  <2> QED
    BY <1>6, <2>2, <2>3 DEF ApproveAuthRequest, ApproveFails, Stamp
<1>7. ASSUME NEW h \in Handlers, UndoDevice(h) \/ DeleteDevice(h)
      PROVE  TypeInv'
  BY <1>7, SlotTypes DEF UndoDevice, DeleteDevice, DeleteDocument
<1>8. ASSUME NEW h \in Handlers, NEW l \in Logins, NEW from \in {"cli", "other"},
             PollApproved(h, l, from)
      PROVE  TypeInv'
  <2>1. approval[l] \in Approval
    BY <1>8 DEF PollApproved, GrantInv, ApprovalOf
  <2>2. [step |-> "consume", login |-> l, user |-> approval[l][1],
         device |-> approval[l][2], from |-> from] \in Handler
    BY <2>1 DEF Approval, Handler, Step
  <2> QED
    BY <1>8, <2>2, SlotTypes DEF PollApproved
<1>9. ASSUME NEW h \in Handlers, ConsumeAuthRequest(h)
      PROVE  TypeInv'
  <2>1. handler[h].login \in Logins
    BY <1>9 DEF ConsumeAuthRequest, At, GrantInv, Equipped, Polling
  <2> QED
    BY <1>9, <2>1, SlotTypes DEF ConsumeAuthRequest, Step
<1>10. ASSUME NEW h \in Handlers, IssueSession(h)
       PROVE  TypeInv'
  <2> DEFINE s == [login |-> handler[h].login, user |-> handler[h].user,
                   device |-> handler[h].device, late |-> BeingRemoved(handler[h].device)]
  <2>0. /\ handler[h].step \in Polling
        /\ Equipped(handler[h]) /\ Knows(handler[h])
        /\ \A l \in Logins : ApprovalOf(l)
    BY <1>10 DEF IssueSession, At, GrantInv, Polling
  <2>1. handler[h].login \in Logins /\ <<handler[h].user, handler[h].device>> \in Approval
    BY <2>0 DEF Equipped, Knows, ApprovalOf
  <2>2. BeingRemoved(handler[h].device) \in BOOLEAN
    BY DEF BeingRemoved
  <2> HIDE DEF TypeInv
  <2>3. s \in Session
    BY <2>1, <2>2 DEF Session, Approval
  <2> USE DEF TypeInv
  <2>4. sessions' = Append(sessions, s) /\ live' = live \cup {Len(sessions) + 1}
    BY <1>10 DEF IssueSession
  <2> HIDE DEF s
  <2>5. sessions' \in Seq(Session) /\ live' \subseteq DOMAIN sessions'
    BY <2>3, <2>4
  <2> QED
    BY <1>10, <2>5, SlotTypes DEF IssueSession
<1>11. ASSUME NEW h \in Handlers, NEW d \in Devices, NEW u \in Users, RevokeDevice(h, d, u)
       PROVE  TypeInv'
  <2>1. [Idle EXCEPT !.step = "revokeSessions", !.user = u, !.device = d] \in Handler
    BY DEF Idle, Handler, Step
  <2> QED
    BY <1>11, <2>1, SlotTypes DEF RevokeDevice
<1>12. ASSUME NEW h \in Handlers, RevokeDeviceSessions(h)
       PROVE  TypeInv'
  BY <1>12, SlotTypes DEF RevokeDeviceSessions, Step
<1>13. ASSUME NEW i \in live, DeleteSession(i)
       PROVE  TypeInv'
  BY <1>13 DEF DeleteSession
<1>14. ASSUME NEW u \in Users, NEW keep \in 0 .. Len(sessions), RevokeOtherSessions(u, keep)
       PROVE  TypeInv'
  BY <1>14 DEF RevokeOtherSessions
<1>15. ASSUME NEW h \in Handlers, Fail(h)
       PROVE  TypeInv'
  BY <1>15, SlotTypes DEF Fail
<1>16. CASE UNCHANGED vars
  BY <1>16 DEF vars
<1> QED
  BY <1>1, <1>2, <1>3, <1>4, <1>5, <1>6, <1>7, <1>8, <1>9, <1>10, <1>11, <1>12,
     <1>13, <1>14, <1>15, <1>16 DEF Next, Command, Poll, Browser

----------------------------------------------------------------------------
(* Decisions, polls and sessions *)

\* A request that moves to any command but issueSession, while what is approved stays.
LEMMA GrantSlot ==
  ASSUME TypeInv, GrantInv, NEW h \in Handlers, NEW q,
         handler' = [handler EXCEPT ![h] = q],
         Equipped(q), Knows(q)', q.step # "issueSession",
         \A l \in Logins : ApprovalOf(l)',
         \A l \in Logins : status[l] = "approved"
           => status'[l] = "approved" /\ approval'[l] = approval[l],
         UNCHANGED <<consumed, sessions>>
  PROVE  GrantInv'
<1>1. handler'[h] = q /\ \A k \in Handlers \ {h} : handler'[k] = handler[k]
  BY DEF TypeInv
<1>2. \A k \in Handlers : Equipped(handler[k]) /\ Knows(handler[k]) /\ Alone(k)
  BY DEF GrantInv
<1>3. ASSUME NEW k \in Handlers
      PROVE  (Equipped(handler[k]) /\ Knows(handler[k]))'
  <2>1. CASE k = h
    BY <1>1, <2>1 DEF Knows
  <2>2. CASE k # h
    BY <1>1, <1>2, <2>2 DEF Equipped, Knows
  <2> QED
    BY <2>1, <2>2
<1>4. ASSUME NEW k \in Handlers
      PROVE  Alone(k)'
  <2>1. CASE k = h
    BY <1>1, <2>1 DEF Alone, At
  <2>2. CASE k # h
    BY <1>1, <1>2, <2>2 DEF Alone, At
  <2> QED
    BY <2>1, <2>2
<1>5. \A i \in DOMAIN sessions : SessionApproved(sessions[i])'
  BY DEF GrantInv, SessionApproved, TypeInv, Session
<1> QED
  BY <1>3, <1>4, <1>5 DEF GrantInv, SessionApproved

LEMMA GrantDone ==
  ASSUME TypeInv, GrantInv, NEW h \in Handlers, Done(h),
         \A l \in Logins : ApprovalOf(l)',
         \A l \in Logins : status[l] = "approved"
           => status'[l] = "approved" /\ approval'[l] = approval[l],
         UNCHANGED <<consumed, sessions>>
  PROVE  GrantInv'
<1>1. Equipped(Idle) /\ Knows(Idle)' /\ Idle.step # "issueSession"
  BY DEF Idle, Equipped, Knows, Deciding, Polling, Holding
<1> QED
  BY <1>1, GrantSlot DEF Done

\* From one command on a device to the next.
LEMMA GrantAdvance ==
  ASSUME TypeInv, GrantInv, NEW h \in Handlers, NEW s \in Removing, Advance(h, s),
         handler[h].step \in Holding,
         s = "undoDevice" => handler[h].step \in Deciding,
         \A l \in Logins : ApprovalOf(l)',
         \A l \in Logins : status[l] = "approved"
           => status'[l] = "approved" /\ approval'[l] = approval[l],
         UNCHANGED <<consumed, sessions>>
  PROVE  GrantInv'
<1>1. handler[h] \in Handler
  BY DEF TypeInv
<1>0. PICK q : q = [handler[h] EXCEPT !.step = s]
  OBVIOUS
<1>2. /\ q.step = s
      /\ q.login = handler[h].login
      /\ q.user = handler[h].user
      /\ q.device = handler[h].device
  BY <1>0, <1>1 DEF Handler
<1>3. handler' = [handler EXCEPT ![h] = q]
  BY <1>0 DEF Advance
<1>4. Equipped(handler[h])
  BY DEF GrantInv
<1>5. Equipped(q)
  BY <1>2, <1>4 DEF Equipped, Deciding, Polling, Holding, Removing
<1>6. q.step \notin Polling /\ q.step # "issueSession"
  BY <1>2 DEF Polling, Removing
<1>7. Knows(q)'
  BY <1>6 DEF Knows
<1> QED
  BY <1>3, <1>5, <1>6, <1>7, GrantSlot

\* A request whose handling has just begun.
LEMMA GrantAccept ==
  ASSUME TypeInv, GrantInv, NEW h \in Handlers, NEW q,
         Accept(h, q), Equipped(q), Knows(q), q.step # "issueSession",
         UNCHANGED <<status, approval, consumed, minted, sessions>>
  PROVE  GrantInv'
<1>1. Knows(q)'
  BY DEF Knows
<1>2. \A l \in Logins : ApprovalOf(l)'
  BY DEF GrantInv, ApprovalOf
<1> QED
  BY <1>1, <1>2, GrantSlot DEF Accept

LEMMA GrantNext == LoginInv /\ [Next]_vars => GrantInv'
<1> SUFFICES ASSUME TypeInv, GrantInv, DeviceInv, [Next]_vars
             PROVE  GrantInv'
  BY DEF LoginInv
<1> USE DEF loginVars, deviceVars, sessionVars
<1>a. \A l \in Logins : ApprovalOf(l)
  BY DEF GrantInv
<1>b. UNCHANGED <<status, approval, minted>> => \A l \in Logins : ApprovalOf(l)'
  BY <1>a DEF ApprovalOf
<1>1. CASE UNCHANGED <<status, approval, consumed, minted, sessions, handler>>
  BY <1>1 DEF GrantInv, Knows, Alone, At, ApprovalOf, SessionApproved
<1>2. ASSUME NEW l \in Logins, Authorize(l)
      PROVE  GrantInv'
  <2>1. \A x \in Logins : ApprovalOf(x)'
    BY <1>2, <1>a DEF Authorize, ApprovalOf, TypeInv
  <2>2. \A x \in Logins : status[x] = "approved" => status'[x] = "approved"
    BY <1>2 DEF Authorize, TypeInv
  <2> QED
    BY <1>2, <2>1, <2>2
    DEF Authorize, GrantInv, Knows, Equipped, Alone, At, SessionApproved, TypeInv, Session
<1>3. ASSUME NEW h \in Handlers, NEW l \in Logins, NEW u \in Users,
             DecideDeny(h, l, u) \/ DecideApprove(h, l, u)
      PROVE  GrantInv'
  <2>1. PICK s \in {"deny", "createDevice"} :
          Accept(h, [Idle EXCEPT !.step = s, !.login = l, !.user = u])
    BY <1>3 DEF DecideDeny, DecideApprove
  <2>2. PICK q : q = [Idle EXCEPT !.step = s, !.login = l, !.user = u]
    OBVIOUS
  <2>3. q.step = s /\ q.login = l /\ q.user = u
    BY <2>2 DEF Idle
  <2>4. Equipped(q) /\ Knows(q) /\ q.step # "issueSession"
    BY <2>1, <2>3 DEF Equipped, Knows, Deciding, Polling, Holding
  <2> QED
    BY <1>3, <2>1, <2>2, <2>4, GrantAccept DEF DecideDeny, DecideApprove
<1>4. ASSUME NEW h \in Handlers, DenyAuthRequest(h)
      PROVE  GrantInv'
  <2>1. \A l \in Logins : ApprovalOf(l)'
    BY <1>4, <1>a DEF DenyAuthRequest, PendingDocument, ApprovalOf, TypeInv
  <2>2. \A l \in Logins : status[l] = "approved" => status'[l] = "approved"
    BY <1>4 DEF DenyAuthRequest, PendingDocument, TypeInv
  <2> QED
    BY <1>4, <2>1, <2>2, GrantDone DEF DenyAuthRequest
<1>5. ASSUME NEW h \in Handlers, CreateDevice(h)
      PROVE  GrantInv'
  <2>1. PICK d \in Devices \ minted :
          /\ minted' = minted \cup {d}
          /\ handler' = [handler EXCEPT ![h].step = "approve", ![h].device = d]
    BY <1>5 DEF CreateDevice
  <2>2. PICK q : q = [handler[h] EXCEPT !.step = "approve", !.device = d]
    OBVIOUS
  <2>3. handler[h] \in Handler /\ Equipped(handler[h]) /\ handler[h].step = "createDevice"
    BY <1>5 DEF CreateDevice, At, TypeInv, GrantInv
  <2>4. /\ q.step = "approve" /\ q.device = d
        /\ q.login = handler[h].login /\ q.user = handler[h].user
    BY <2>2, <2>3 DEF Handler
  <2>5. Equipped(q) /\ q.step # "issueSession" /\ q.step \notin Polling
    BY <2>1, <2>3, <2>4 DEF Equipped, Deciding, Polling, Holding
  <2>6. Knows(q)'
    BY <2>5 DEF Knows
  <2>7. \A l \in Logins : ApprovalOf(l)'
    BY <1>5, <1>a, <2>1 DEF CreateDevice, ApprovalOf
  <2>8. handler' = [handler EXCEPT ![h] = q]
    BY <2>1, <2>2
  <2> QED
    BY <1>5, <2>5, <2>6, <2>7, <2>8, GrantSlot DEF CreateDevice
<1>6. ASSUME NEW h \in Handlers, ApproveAuthRequest(h) \/ ApproveFails(h)
      PROVE  GrantInv'
  <2> DEFINE q == handler[h]
  <2>1. Equipped(q) /\ q.step = "approve"
    BY <1>6 DEF ApproveAuthRequest, ApproveFails, At, GrantInv
  <2>2. q.login \in Logins /\ <<q.user, q.device>> \in Approval
    BY <2>1 DEF Equipped, Deciding, Holding, Approval
  <2>3. q.device \in minted
    BY <2>1 DEF DeviceInv, Owns, Claiming
  <2>4. \A l \in Logins : ApprovalOf(l)'
    BY <1>6, <1>a, <2>2, <2>3
    DEF ApproveAuthRequest, ApproveFails, Stamp, ApprovalOf, TypeInv, Approval
  <2>5. \A l \in Logins : status[l] = "approved"
          => status'[l] = "approved" /\ approval'[l] = approval[l]
    BY <1>6, <2>2 DEF ApproveAuthRequest, ApproveFails, Stamp, PendingDocument, TypeInv
  <2>6. Done(h) \/ Advance(h, "undoDevice")
    BY <1>6 DEF ApproveAuthRequest, ApproveFails
  <2>7. UNCHANGED <<consumed, sessions>>
    BY <1>6 DEF ApproveAuthRequest, ApproveFails
  <2> QED
    BY <2>1, <2>4, <2>5, <2>6, <2>7, GrantDone, GrantAdvance
    DEF Removing, Holding, Deciding
<1>7. ASSUME NEW h \in Handlers, UndoDevice(h) \/ DeleteDevice(h) \/ Fail(h)
      PROVE  GrantInv'
  BY <1>7, <1>b, GrantDone DEF UndoDevice, DeleteDevice, Fail
<1>8. ASSUME NEW h \in Handlers, NEW l \in Logins, NEW from \in {"cli", "other"},
             PollApproved(h, l, from)
      PROVE  GrantInv'
  <2>1. PICK q : q = [step |-> "consume", login |-> l, user |-> approval[l][1],
                      device |-> approval[l][2], from |-> from]
    OBVIOUS
  <2>2. approval[l] \in Approval /\ status[l] = "approved"
    BY <1>8, <1>a DEF PollApproved, ApprovalOf
  <2>3. Equipped(q) /\ Knows(q) /\ q.step # "issueSession"
    BY <2>1, <2>2 DEF Equipped, Knows, Approval, Deciding, Holding
  <2> QED
    BY <1>8, <2>1, <2>3, GrantAccept DEF PollApproved
<1>9. ASSUME NEW h \in Handlers, ConsumeAuthRequest(h)
      PROVE  GrantInv'
  <2>1. CASE Done(h) /\ UNCHANGED consumed
    BY <1>9, <1>b, <2>1, GrantDone DEF ConsumeAuthRequest
  <2>2. CASE /\ handler[h].login \notin consumed
             /\ consumed' = consumed \cup {handler[h].login}
             /\ Advance(h, "issueSession")
    <3>1. PICK q : q = [handler[h] EXCEPT !.step = "issueSession"]
      OBVIOUS
    <3>2. handler[h] \in Handler /\ handler[h].step = "consume"
      BY <1>9 DEF ConsumeAuthRequest, At, TypeInv
    <3>3. /\ q.step = "issueSession" /\ q.login = handler[h].login
          /\ q.user = handler[h].user /\ q.device = handler[h].device
      BY <3>1, <3>2 DEF Handler
    <3>4. handler'[h] = q /\ \A k \in Handlers \ {h} : handler'[k] = handler[k]
      BY <2>2, <3>1 DEF Advance, TypeInv
    <3>5. UNCHANGED <<status, approval, sessions>>
      BY <1>9 DEF ConsumeAuthRequest
    <3>6. \A k \in Handlers : Equipped(handler[k]) /\ Knows(handler[k]) /\ Alone(k)
      BY DEF GrantInv
    <3>7. \A i \in DOMAIN sessions : SessionApproved(sessions[i])
      BY DEF GrantInv
    <3>8. Equipped(q) /\ Knows(q)
      BY <3>2, <3>3, <3>6 DEF Equipped, Knows, Deciding, Polling, Holding
    <3>9. \A k \in Handlers : (Equipped(handler[k]) /\ Knows(handler[k]))'
      BY <3>4, <3>5, <3>6, <3>8 DEF Equipped, Knows
    <3>10. \A i \in DOMAIN sessions : sessions[i].login # q.login
      BY <2>2, <3>3, <3>7 DEF SessionApproved
    <3>11. \A k \in Handlers \ {h} : At(k, "issueSession") => handler[k].login # q.login
      BY <2>2, <3>3, <3>6 DEF Alone
    <3>12. Alone(h)'
      BY <2>2, <3>3, <3>4, <3>5, <3>10, <3>11 DEF Alone, At
    <3>13. \A k \in Handlers \ {h} : Alone(k)'
      BY <2>2, <3>3, <3>4, <3>5, <3>6, <3>11 DEF Alone, At
    <3> QED
      BY <1>9, <1>b, <2>2, <3>5, <3>7, <3>9, <3>12, <3>13
      DEF ConsumeAuthRequest, GrantInv, SessionApproved
  <2> QED
    BY <1>9, <2>1, <2>2 DEF ConsumeAuthRequest
<1>10. ASSUME NEW h \in Handlers, IssueSession(h)
       PROVE  GrantInv'
  <2>1. PICK s : /\ sessions' = Append(sessions, s)
                 /\ s = [login |-> handler[h].login, user |-> handler[h].user,
                         device |-> handler[h].device,
                         late |-> BeingRemoved(handler[h].device)]
    BY <1>10 DEF IssueSession
  <2>2. \A k \in Handlers : Equipped(handler[k]) /\ Knows(handler[k]) /\ Alone(k)
    BY DEF GrantInv
  <2>3. handler[h].step = "issueSession" /\ UNCHANGED <<status, approval, consumed, minted>>
    BY <1>10 DEF IssueSession, At
  <2>4. SessionApproved(s)
    BY <2>1, <2>2, <2>3 DEF SessionApproved, Knows, Alone, At, Polling
  <2>5. /\ DOMAIN sessions' = DOMAIN sessions \cup {Len(sessions) + 1}
        /\ sessions'[Len(sessions) + 1] = s
        /\ \A i \in DOMAIN sessions : sessions'[i] = sessions[i]
    BY <2>1 DEF TypeInv
  <2>6. \A i \in DOMAIN sessions' : SessionApproved(sessions[i])'
    BY <2>3, <2>4, <2>5 DEF GrantInv, SessionApproved
  <2>7. handler'[h] = Idle /\ \A k \in Handlers \ {h} : handler'[k] = handler[k]
    BY <1>10 DEF IssueSession, Done, TypeInv
  <2>8. \A k \in Handlers : (Equipped(handler[k]) /\ Knows(handler[k]))'
    BY <2>2, <2>3, <2>7 DEF Equipped, Knows, Idle, Deciding, Polling, Holding
  <2>9. \A k \in Handlers : Alone(k)'
    BY <2>1, <2>2, <2>3, <2>5, <2>7 DEF Alone, At, Idle
  <2> QED
    BY <1>b, <2>3, <2>6, <2>8, <2>9 DEF GrantInv
<1>11. ASSUME NEW h \in Handlers, NEW d \in Devices, NEW u \in Users, RevokeDevice(h, d, u)
       PROVE  GrantInv'
  <2>1. PICK q : q = [Idle EXCEPT !.step = "revokeSessions", !.user = u, !.device = d]
    OBVIOUS
  <2>2. Equipped(q) /\ Knows(q) /\ q.step # "issueSession"
    BY <2>1 DEF Idle, Equipped, Knows, Deciding, Polling, Holding
  <2> QED
    BY <1>11, <2>1, <2>2, GrantAccept DEF RevokeDevice
<1>12. ASSUME NEW h \in Handlers, RevokeDeviceSessions(h)
       PROVE  GrantInv'
  BY <1>12, <1>b, GrantAdvance DEF RevokeDeviceSessions, At, Removing, Holding
<1>13. ASSUME NEW l \in Logins, Expire(l) \/ Sweep(l) \/ Interrupt(l) \/ PollRefused(l)
       PROVE  GrantInv'
  BY <1>1, <1>13 DEF Expire, Sweep, Interrupt, PollRefused
<1>14. CASE \/ \E i \in live : DeleteSession(i)
            \/ \E u \in Users, keep \in 0 .. Len(sessions) : RevokeOtherSessions(u, keep)
            \/ UNCHANGED vars
  BY <1>1, <1>14 DEF DeleteSession, RevokeOtherSessions, vars
<1> QED
  BY <1>2, <1>3, <1>4, <1>5, <1>6, <1>7, <1>8, <1>9, <1>10, <1>11, <1>12, <1>13,
     <1>14 DEF Next, Command, Poll, Browser

----------------------------------------------------------------------------
(* Devices *)

\* A request that moves while what is approved stays and no session is added.
LEMMA DeviceSlot ==
  ASSUME TypeInv, DeviceInv, NEW h \in Handlers, NEW q,
         handler' = [handler EXCEPT ![h] = q],
         q.step \in Claiming =>
           /\ q.device \in minted'
           /\ \A k \in Handlers \ {h} :
                handler[k].step \in Claiming => handler[k].device # q.device,
         q.step = "approve" =>
           \A l \in Logins : status[l] = "approved" => approval[l][2] # q.device,
         q.step \in Removing =>
           \A i \in live' : sessions[i].device = q.device => sessions[i].late,
         minted \subseteq minted', live' \subseteq live,
         \A l \in Logins : status'[l] = "approved"
           => status[l] = "approved" /\ approval'[l] = approval[l],
         UNCHANGED sessions
  PROVE  \A k \in Handlers : Owns(k)' /\ Cleared(k)'
<1>1. handler'[h] = q /\ \A k \in Handlers \ {h} : handler'[k] = handler[k]
  BY DEF TypeInv
<1>2. \A k \in Handlers : Owns(k) /\ Cleared(k)
  BY DEF DeviceInv
<1>3. Owns(h)' /\ Cleared(h)'
  BY <1>1 DEF Owns, Cleared, At
<1>4. ASSUME NEW k \in Handlers \ {h}
      PROVE  Owns(k)' /\ Cleared(k)'
  BY <1>1, <1>2 DEF Owns, Cleared, At
<1> QED
  BY <1>3, <1>4

LEMMA DeviceDone ==
  ASSUME TypeInv, DeviceInv, NEW h \in Handlers, Done(h),
         minted \subseteq minted', live' \subseteq live,
         \A l \in Logins : status'[l] = "approved"
           => status[l] = "approved" /\ approval'[l] = approval[l],
         UNCHANGED sessions
  PROVE  \A k \in Handlers : Owns(k)' /\ Cleared(k)'
<1>1. Idle.step \notin Claiming \cup Removing /\ Idle.step # "approve"
  BY DEF Idle, Claiming, Removing
<1> QED
  BY <1>1, DeviceSlot DEF Done

\* A request that has no device yet, or has not begun to remove it.
LEMMA DevicePlain ==
  ASSUME TypeInv, DeviceInv, NEW h \in Handlers, NEW q, Accept(h, q),
         q.step \notin Claiming \cup Removing, q.step # "approve",
         UNCHANGED <<status, approval, minted, devices, sessions, live>>
  PROVE  DeviceInv'
<1>1. \A k \in Handlers : Owns(k)' /\ Cleared(k)'
  BY DeviceSlot DEF Accept
<1> QED
  BY <1>1 DEF DeviceInv, RevocationRetriable

LEMMA SessionTypes ==
  ASSUME TypeInv
  PROVE  /\ DOMAIN sessions = 1 .. Len(sessions)
         /\ live \subseteq DOMAIN sessions
         /\ \A i \in DOMAIN sessions :
              sessions[i].login \in Logins /\ sessions[i].device \in Devices
<1>1. sessions \in Seq(Session) /\ live \subseteq DOMAIN sessions
  BY DEF TypeInv
<1>2. DOMAIN sessions = 1 .. Len(sessions)
  BY <1>1
<1>3. \A i \in DOMAIN sessions : sessions[i] \in Session
  BY <1>1, <1>2
<1> QED
  BY <1>1, <1>2, <1>3 DEF Session

LEMMA DeviceNext == LoginInv /\ [Next]_vars => DeviceInv'
<1> SUFFICES ASSUME TypeInv, GrantInv, DeviceInv, [Next]_vars
             PROVE  DeviceInv'
  BY DEF LoginInv
<1> USE DEF loginVars, deviceVars, sessionVars
<1>a. \A k \in Handlers : Owns(k) /\ Cleared(k)
  BY DEF DeviceInv
<1>b. /\ DOMAIN sessions = 1 .. Len(sessions)
      /\ \A i \in live : i \in DOMAIN sessions /\ sessions[i].device \in Devices
  BY SessionTypes
<1>1. CASE UNCHANGED <<status, approval, minted, devices, sessions, live, handler>>
  BY <1>1 DEF DeviceInv, Owns, Cleared, At, RevocationRetriable
<1>2. ASSUME NEW l \in Logins, Authorize(l)
      PROVE  DeviceInv'
  <2>1. \A x \in Logins : status'[x] = "approved" => status[x] = "approved"
    BY <1>2 DEF Authorize, TypeInv
  <2> QED
    BY <1>2, <2>1 DEF Authorize, DeviceInv, Owns, Cleared, At, RevocationRetriable
<1>3. ASSUME NEW h \in Handlers, NEW l \in Logins, NEW u \in Users,
             DecideDeny(h, l, u) \/ DecideApprove(h, l, u)
      PROVE  DeviceInv'
  <2>1. PICK s \in {"deny", "createDevice"} :
          Accept(h, [Idle EXCEPT !.step = s, !.login = l, !.user = u])
    BY <1>3 DEF DecideDeny, DecideApprove
  <2>2. PICK q : q = [Idle EXCEPT !.step = s, !.login = l, !.user = u]
    OBVIOUS
  <2>3. q.step \notin Claiming \cup Removing /\ q.step # "approve"
    BY <2>1, <2>2 DEF Idle, Claiming, Removing
  <2> QED
    BY <1>3, <2>1, <2>2, <2>3, DevicePlain DEF DecideDeny, DecideApprove
<1>4. ASSUME NEW h \in Handlers, DenyAuthRequest(h)
      PROVE  DeviceInv'
  <2>1. \A l \in Logins : status'[l] = "approved" => status[l] = "approved"
    BY <1>4 DEF DenyAuthRequest, TypeInv
  <2>2. \A k \in Handlers : Owns(k)' /\ Cleared(k)'
    BY <1>4, <2>1, DeviceDone DEF DenyAuthRequest
  <2> QED
    BY <1>4, <2>2 DEF DenyAuthRequest, DeviceInv, RevocationRetriable
<1>5. ASSUME NEW h \in Handlers, CreateDevice(h)
      PROVE  DeviceInv'
  <2>1. PICK d \in Devices \ minted :
          /\ minted' = minted \cup {d}
          /\ devices' = [devices EXCEPT ![d] = handler[h].user]
          /\ handler' = [handler EXCEPT ![h].step = "approve", ![h].device = d]
    BY <1>5 DEF CreateDevice
  <2>2. PICK q : q = [handler[h] EXCEPT !.step = "approve", !.device = d]
    OBVIOUS
  <2>3. handler[h] \in Handler /\ Equipped(handler[h]) /\ handler[h].step = "createDevice"
    BY <1>5 DEF CreateDevice, At, TypeInv, GrantInv
  <2>4. q.step = "approve" /\ q.device = d
    BY <2>2, <2>3 DEF Handler
  <2>5. \A k \in Handlers \ {h} : handler[k].step \in Claiming => handler[k].device # d
    BY <1>a, <2>1 DEF Owns
  <2>6. \A l \in Logins : status[l] = "approved" => approval[l][2] # d
    BY <2>1 DEF GrantInv, ApprovalOf
  <2>7. handler' = [handler EXCEPT ![h] = q]
    BY <2>1, <2>2
  <2>8. UNCHANGED <<status, approval, sessions, live>>
    BY <1>5 DEF CreateDevice
  <2>9. \A k \in Handlers : Owns(k)' /\ Cleared(k)'
    BY <2>1, <2>4, <2>5, <2>6, <2>7, <2>8, DeviceSlot DEF Removing
  <2>10. handler[h].user # None
    BY <2>3 DEF Equipped, Deciding
  <2>11. \A x \in Devices : devices[x] # None => devices'[x] # None
    BY <2>1, <2>10 DEF TypeInv
  <2> QED
    BY <1>b, <2>8, <2>9, <2>11 DEF DeviceInv, RevocationRetriable
<1>6. ASSUME NEW h \in Handlers, ApproveAuthRequest(h) \/ ApproveFails(h)
      PROVE  DeviceInv'
  <2>1. handler[h].step = "approve"
    BY <1>6 DEF ApproveAuthRequest, ApproveFails, At
  <2>2. handler[h] \in Handler /\ Equipped(handler[h])
    BY DEF TypeInv, GrantInv
  <2>3. handler[h].login \in Logins /\ <<handler[h].user, handler[h].device>> \in Approval
    BY <2>1, <2>2 DEF Equipped, Deciding, Holding, Approval
  <2>4. \A i \in DOMAIN sessions : sessions[i].device # handler[h].device
    <3> SUFFICES ASSUME NEW i \in DOMAIN sessions
                 PROVE  sessions[i].device # handler[h].device
      OBVIOUS
    <3>1. SessionApproved(sessions[i]) /\ sessions[i].login \in Logins
      BY SessionTypes DEF GrantInv
    <3> QED
      BY <1>a, <2>1, <3>1 DEF Owns, At, SessionApproved
  <2>5. UNCHANGED <<minted, devices, sessions, live>>
    BY <1>6 DEF ApproveAuthRequest, ApproveFails
  <2>6. PICK q : /\ handler' = [handler EXCEPT ![h] = q]
                 /\ q.step \in {"idle", "undoDevice"}
                 /\ q.step = "undoDevice" => q.device = handler[h].device
    <3>1. CASE Done(h)
      <4>1. Idle.step = "idle"
        BY DEF Idle
      <4> QED
        BY <3>1, <4>1 DEF Done
    <3>2. CASE Advance(h, "undoDevice")
      <4>1. handler' = [handler EXCEPT ![h] = [handler[h] EXCEPT !.step = "undoDevice"]]
        BY <3>2 DEF Advance
      <4>2. /\ [handler[h] EXCEPT !.step = "undoDevice"].step = "undoDevice"
            /\ [handler[h] EXCEPT !.step = "undoDevice"].device = handler[h].device
        BY <2>2 DEF Handler
      <4> QED
        BY <4>1, <4>2
    <3> QED
      BY <1>6, <3>1, <3>2 DEF ApproveAuthRequest, ApproveFails
  <2>7. handler'[h] = q /\ \A k \in Handlers \ {h} : handler'[k] = handler[k]
    BY <2>6 DEF TypeInv
  <2>8. \A k \in Handlers : Cleared(k)'
    BY <1>a, <1>b, <2>4, <2>5, <2>6, <2>7 DEF Cleared, Removing
  <2>9. \A l \in Logins : status'[l] = "approved" =>
          \/ status[l] = "approved" /\ approval'[l] = approval[l]
          \/ approval'[l][2] = handler[h].device
    BY <1>6, <2>3
    DEF ApproveAuthRequest, ApproveFails, Stamp, PendingDocument, TypeInv, Approval
  <2>10. Owns(h)'
    BY <1>a, <2>1, <2>5, <2>6, <2>7 DEF Owns, At, Claiming
  <2>11. \A k \in Handlers \ {h} : Owns(k)'
    BY <1>a, <2>1, <2>5, <2>6, <2>7, <2>9 DEF Owns, At, Claiming
  <2> QED
    BY <2>5, <2>8, <2>10, <2>11 DEF DeviceInv, RevocationRetriable
<1>7. ASSUME NEW h \in Handlers, UndoDevice(h) \/ DeleteDevice(h)
      PROVE  DeviceInv'
  <2>1. handler[h].step \in Removing
    BY <1>7 DEF UndoDevice, DeleteDevice, At, Removing
  <2>2. UNCHANGED <<status, approval, minted, sessions, live>> /\ Done(h)
        /\ devices' = [devices EXCEPT ![handler[h].device] = None]
    BY <1>7 DEF UndoDevice, DeleteDevice, DeleteDocument
  <2>3. \A k \in Handlers : Owns(k)' /\ Cleared(k)'
    BY <2>2, DeviceDone
  <2>4. \A d \in Devices : d # handler[h].device => devices'[d] = devices[d]
    BY <2>2 DEF TypeInv
  <2>5. RevocationRetriable'
    BY <1>a, <1>b, <2>1, <2>2, <2>4 DEF DeviceInv, RevocationRetriable, Cleared
  <2> QED
    BY <2>3, <2>5 DEF DeviceInv
<1>8. ASSUME NEW h \in Handlers, Fail(h)
      PROVE  DeviceInv'
  <2>1. \A k \in Handlers : Owns(k)' /\ Cleared(k)'
    BY <1>8, DeviceDone DEF Fail
  <2> QED
    BY <1>8, <2>1 DEF Fail, DeviceInv, RevocationRetriable
<1>9. ASSUME NEW h \in Handlers, NEW l \in Logins, NEW from \in {"cli", "other"},
             PollApproved(h, l, from)
      PROVE  DeviceInv'
  BY <1>9, DevicePlain DEF PollApproved, Claiming, Removing
<1>10. ASSUME NEW h \in Handlers, ConsumeAuthRequest(h)
       PROVE  DeviceInv'
  <2>1. PICK q : handler' = [handler EXCEPT ![h] = q] /\ q.step \in {"idle", "issueSession"}
    <3>1. CASE Done(h)
      <4>1. Idle.step = "idle"
        BY DEF Idle
      <4> QED
        BY <3>1, <4>1 DEF Done
    <3>2. CASE Advance(h, "issueSession")
      <4>1. [handler[h] EXCEPT !.step = "issueSession"].step = "issueSession"
        BY DEF TypeInv, Handler
      <4> QED
        BY <3>2, <4>1 DEF Advance
    <3> QED
      BY <1>10, <3>1, <3>2 DEF ConsumeAuthRequest
  <2>2. \A k \in Handlers : Owns(k)' /\ Cleared(k)'
    BY <1>10, <2>1, DeviceSlot DEF ConsumeAuthRequest, Claiming, Removing
  <2> QED
    BY <1>10, <2>2 DEF ConsumeAuthRequest, DeviceInv, RevocationRetriable
<1>11. ASSUME NEW h \in Handlers, IssueSession(h)
       PROVE  DeviceInv'
  <2> DEFINE n == Len(sessions) + 1
  <2>1. PICK s : /\ sessions' = Append(sessions, s)
                 /\ s.device = handler[h].device
                 /\ s.late = BeingRemoved(handler[h].device)
    BY <1>11 DEF IssueSession
  <2>2. sessions'[n] = s /\ \A i \in live : sessions'[i] = sessions[i]
    BY <1>b, <2>1 DEF TypeInv
  <2>3. live' = live \cup {n} /\ UNCHANGED <<status, approval, minted, devices>>
    BY <1>11 DEF IssueSession
  <2>4. handler'[h] = Idle /\ \A k \in Handlers \ {h} : handler'[k] = handler[k]
    BY <1>11 DEF IssueSession, Done, TypeInv
  <2>5. \A k \in Handlers : Owns(k)'
    BY <1>a, <2>3, <2>4 DEF Owns, At, Idle, Claiming
  <2>6. \A k \in Handlers : handler[k].step \in Removing /\ handler[k].device = s.device
                          => s.late
    BY <2>1 DEF BeingRemoved, Removing
  <2>7. \A k \in Handlers : Cleared(k)'
    BY <1>a, <2>2, <2>3, <2>4, <2>6 DEF Cleared, Idle, Removing
  <2>8. ~s.late => devices[s.device] # None
    BY <2>1 DEF BeingRemoved
  <2>9. RevocationRetriable'
    BY <2>2, <2>3, <2>8 DEF DeviceInv, RevocationRetriable
  <2> QED
    BY <2>5, <2>7, <2>9 DEF DeviceInv
<1>12. ASSUME NEW h \in Handlers, NEW d \in Devices, NEW u \in Users, RevokeDevice(h, d, u)
       PROVE  DeviceInv'
  <2>1. PICK q : q = [Idle EXCEPT !.step = "revokeSessions", !.user = u, !.device = d]
    OBVIOUS
  <2>2. q.step \notin Claiming \cup Removing /\ q.step # "approve"
    BY <2>1 DEF Idle, Claiming, Removing
  <2> QED
    BY <1>12, <2>1, <2>2, DevicePlain DEF RevokeDevice
<1>13. ASSUME NEW h \in Handlers, RevokeDeviceSessions(h)
       PROVE  DeviceInv'
  <2>1. PICK q : q = [handler[h] EXCEPT !.step = "deleteDevice"]
    OBVIOUS
  <2>2. q.step = "deleteDevice" /\ q.device = handler[h].device
    BY <2>1 DEF TypeInv, Handler
  <2>3. /\ live' = {i \in live : sessions[i].device # handler[h].device}
        /\ handler' = [handler EXCEPT ![h] = q]
        /\ UNCHANGED <<status, approval, minted, devices, sessions>>
    BY <1>13, <2>1 DEF RevokeDeviceSessions, Advance
  <2>4. \A k \in Handlers : Owns(k)' /\ Cleared(k)'
    BY <2>2, <2>3, DeviceSlot DEF Claiming
  <2> QED
    BY <2>3, <2>4 DEF DeviceInv, RevocationRetriable
<1>14. ASSUME NEW l \in Logins, Expire(l) \/ Sweep(l) \/ Interrupt(l) \/ PollRefused(l)
       PROVE  DeviceInv'
  BY <1>1, <1>14 DEF Expire, Sweep, Interrupt, PollRefused
<1>15. CASE \/ \E i \in live : DeleteSession(i)
            \/ \E u \in Users, keep \in 0 .. Len(sessions) : RevokeOtherSessions(u, keep)
  <2>1. live' \subseteq live
        /\ UNCHANGED <<status, approval, minted, devices, sessions, handler>>
    BY <1>15 DEF DeleteSession, RevokeOtherSessions
  <2> QED
    BY <2>1 DEF DeviceInv, Owns, Cleared, At, RevocationRetriable
<1>16. CASE UNCHANGED vars
  BY <1>1, <1>16 DEF vars
<1> QED
  BY <1>2, <1>3, <1>4, <1>5, <1>6, <1>7, <1>8, <1>9, <1>10, <1>11, <1>12, <1>13,
     <1>14, <1>15, <1>16 DEF Next, Command, Poll, Browser

LEMMA LoginCorrect == Spec => []LoginInv
<1>1. LoginInv /\ [Next]_vars => LoginInv'
  BY TypeNext, GrantNext, DeviceNext DEF LoginInv
<1> QED
  BY <1>1, LoginInit, PTL DEF Spec

\* The documents, the sessions and the requests keep their types.
THEOREM LoginTypesCorrect == Spec => []TypeInv
<1>1. LoginInv => TypeInv
  BY DEF LoginInv
<1> QED
  BY <1>1, LoginCorrect, PTL

\* A revocation that stops half-way can be repeated, whatever fails and whoever
\* polls or approves meanwhile.
THEOREM RevocationCorrect == Spec => []RevocationRetriable
<1>1. LoginInv => RevocationRetriable
  BY DEF LoginInv, DeviceInv
<1> QED
  BY <1>1, LoginCorrect, PTL

----------------------------------------------------------------------------
(* Orphans *)

\* The device about to be stamped is the approver's, unless he has revoked it.
Created(h) ==
  At(h, "approve") => devices[handler[h].device] \in {handler[h].user, None}

OrphanInv ==
  /\ \A h \in Handlers : Created(h)
  /\ IsFiniteSet(Orphans)
  /\ FewOrphans

LEMMA InitOrphans == Init => OrphanInv
<1> SUFFICES ASSUME Init PROVE OrphanInv
  OBVIOUS
<1>1. Orphans = {}
  BY DEF Init, Orphans
<1>2. \A h \in Handlers : Created(h)
  BY DEF Init, Idle, Created, At
<1> QED  BY <1>1, <1>2, FS_EmptySet DEF OrphanInv, FewOrphans, Init

\* No new orphan, or one that a failure pays for.
LEMMA FewerOrphans ==
  ASSUME TypeInv, TypeInv', OrphanInv, failures <= failures', Orphans' \subseteq Orphans
  PROVE  IsFiniteSet(Orphans)' /\ FewOrphans'
<1>1. PICK S, T : S = Orphans /\ T = Orphans' /\ T \in SUBSET S
  OBVIOUS
<1>2. IsFiniteSet(S) /\ Cardinality(S) <= failures
  BY <1>1 DEF OrphanInv, FewOrphans
<1>3. IsFiniteSet(T) /\ Cardinality(T) <= Cardinality(S)
  BY <1>1, <1>2, FS_Subset
<1>4. {Cardinality(S), Cardinality(T)} \subseteq Nat
  BY <1>2, <1>3, FS_CardinalityType
<1>5. {failures, failures'} \subseteq Nat
  BY DEF TypeInv
<1>6. Cardinality(T) <= failures'
  BY <1>2, <1>3, <1>4, <1>5
<1> QED  BY <1>1, <1>3, <1>6 DEF FewOrphans

LEMMA OneMoreOrphan ==
  ASSUME TypeInv, TypeInv', OrphanInv, failures' = failures + 1,
         NEW d, Orphans' \subseteq Orphans \cup {d}
  PROVE  IsFiniteSet(Orphans)' /\ FewOrphans'
<1>1. PICK S, R, T : /\ S = Orphans /\ R = Orphans \cup {d} /\ T = Orphans'
                     /\ R = S \cup {d} /\ T \in SUBSET R
  OBVIOUS
<1>2. IsFiniteSet(S) /\ Cardinality(S) <= failures
  BY <1>1 DEF OrphanInv, FewOrphans
<1>3. /\ IsFiniteSet(R)
      /\ Cardinality(R) = IF d \in S THEN Cardinality(S) ELSE Cardinality(S) + 1
  BY <1>1, <1>2, FS_AddElement
<1>4. IsFiniteSet(T) /\ Cardinality(T) <= Cardinality(R)
  BY <1>1, <1>3, FS_Subset
<1>5. {Cardinality(S), Cardinality(R), Cardinality(T)} \subseteq Nat
  BY <1>2, <1>3, <1>4, FS_CardinalityType
<1>6. failures \in Nat
  BY DEF TypeInv
<1>7. Cardinality(T) <= failures'
  BY <1>2, <1>3, <1>4, <1>5, <1>6
<1> QED  BY <1>1, <1>4, <1>7 DEF FewOrphans

\* A request that moves on keeps the device it has to stamp or delete.
LEMMA OrphanSlot ==
  ASSUME TypeInv, TypeInv', OrphanInv, NEW h \in Handlers, NEW q,
         handler' = [handler EXCEPT ![h] = q], q.step # "approve",
         handler[h].step \in Claiming =>
           q.step \in Claiming /\ q.device = handler[h].device,
         UNCHANGED <<approval, devices>>, failures <= failures'
  PROVE  OrphanInv'
<1>1. handler'[h] = q /\ \A k \in Handlers \ {h} : handler'[k] = handler[k]
  BY DEF TypeInv
<1>2. \A k \in Handlers : Created(k)'
  BY <1>1 DEF OrphanInv, Created, At
<1>3. Orphans' \subseteq Orphans
  BY <1>1 DEF Orphans, Claiming
<1> QED  BY <1>2, <1>3, FewerOrphans DEF OrphanInv

LEMMA CreateDeviceOrphans ==
  ASSUME LoginInv, TypeInv', OrphanInv, NEW h \in Handlers, CreateDevice(h)
  PROVE  OrphanInv'
<1>0. TypeInv /\ GrantInv /\ (\A k \in Handlers : Owns(k))
  BY DEF LoginInv, DeviceInv
<1>1. PICK d \in Devices \ minted :
        /\ devices' = [devices EXCEPT ![d] = handler[h].user]
        /\ handler' = [handler EXCEPT ![h].step = "approve", ![h].device = d]
  BY DEF CreateDevice
<1>2. PICK q : q = [handler[h] EXCEPT !.step = "approve", !.device = d]
  OBVIOUS
<1>3. handler[h] \in Handler /\ handler[h].step = "createDevice"
  BY <1>0 DEF CreateDevice, At, TypeInv
<1>4. q.step = "approve" /\ q.device = d /\ q.user = handler[h].user
  BY <1>2, <1>3 DEF Handler
<1>5. handler'[h] = q /\ \A k \in Handlers \ {h} : handler'[k] = handler[k]
  BY <1>0, <1>1, <1>2 DEF TypeInv
<1>6. devices'[d] = handler[h].user /\ \A x \in Devices \ {d} : devices'[x] = devices[x]
  BY <1>0, <1>1 DEF TypeInv
<1>7. Created(h)'
  BY <1>4, <1>5, <1>6 DEF Created
<1>8. ASSUME NEW k \in Handlers \ {h}, handler[k].step = "approve"
      PROVE  devices'[handler[k].device] = devices[handler[k].device]
  <2>1. handler[k].device \in minted
    BY <1>0, <1>8 DEF Owns, Claiming
  <2> QED  BY <1>0, <1>1, <1>6, <2>1 DEF TypeInv
<1>9. \A k \in Handlers \ {h} : Created(k)'
  BY <1>5, <1>8 DEF OrphanInv, Created, At
<1>10. Orphans' \subseteq Orphans
  <2> SUFFICES ASSUME NEW x \in Devices, x \in Orphans' PROVE x \in Orphans
    BY DEF Orphans
  <2>1. x # d
    BY <1>4, <1>5 DEF Orphans
  <2>2. approval' = approval /\ devices'[x] = devices[x]
    BY <1>6, <2>1 DEF CreateDevice, loginVars
  <2>3. ~(handler[h].step \in {"approve", "undoDevice"})
    BY <1>3
  <2> QED  BY <1>5, <2>2, <2>3 DEF Orphans
<1>11. failures' = failures /\ failures \in Nat
  BY <1>0 DEF CreateDevice, TypeInv
<1> QED  BY <1>0, <1>7, <1>9, <1>10, <1>11, FewerOrphans DEF OrphanInv

LEMMA ApproveOrphans ==
  ASSUME LoginInv, TypeInv', OrphanInv, NEW h \in Handlers,
         ApproveAuthRequest(h) \/ ApproveFails(h)
  PROVE  OrphanInv'
<1>0. TypeInv /\ GrantInv
  BY DEF LoginInv
<1>1. PICK l, u, d : l = handler[h].login /\ u = handler[h].user /\ d = handler[h].device
  OBVIOUS
<1>2. handler[h].step = "approve" /\ UNCHANGED devices /\ l \in Logins /\ d \in Devices
  BY <1>0, <1>1 DEF ApproveAuthRequest, ApproveFails, At, GrantInv, Equipped, Deciding,
                    Holding, deviceVars
<1>3. \/ Done(h) /\ approval' = [approval EXCEPT ![l] = <<u, d>>]
      \/ Advance(h, "undoDevice")
  BY <1>1 DEF ApproveAuthRequest, ApproveFails, Stamp
<1>4. \/ approval' = approval
      \/ status[l] = "pending" /\ approval' = [approval EXCEPT ![l] = <<u, d>>]
  BY <1>1 DEF ApproveAuthRequest, ApproveFails, Stamp, PendingDocument
<1>5. \A k \in Handlers \ {h} : handler'[k] = handler[k]
  BY <1>0, <1>3 DEF Done, Advance, TypeInv
<1>6. \/ handler'[h] = Idle /\ approval'[l] = <<u, d>>
      \/ handler'[h].step = "undoDevice" /\ handler'[h].device = d
  <2>1. handler[h] \in Handler /\ approval \in [Logins -> Approval \cup {NoApproval}]
    BY <1>0 DEF TypeInv
  <2>2. CASE Advance(h, "undoDevice")
    BY <1>0, <1>1, <2>1, <2>2 DEF Advance, TypeInv, Handler
  <2>3. CASE Done(h) /\ approval' = [approval EXCEPT ![l] = <<u, d>>]
    BY <1>0, <1>2, <2>1, <2>3 DEF Done, TypeInv
  <2> QED  BY <1>3, <2>2, <2>3
<1>7. ASSUME NEW x \in Devices, devices[x] # None, NEW k \in Logins,
             approval[k] = <<devices[x], x>>
      PROVE  approval'[k] = approval[k]
  <2>1. approval \in [Logins -> Approval \cup {NoApproval}]
    BY <1>0 DEF TypeInv
  <2>2. CASE approval' = approval
    BY <2>2
  <2>3. CASE status[l] = "pending" /\ approval' = [approval EXCEPT ![l] = <<u, d>>]
    <3>1. approval[l] = NoApproval
      BY <1>0, <1>2, <2>3 DEF GrantInv, ApprovalOf
    <3>2. k # l
      BY <1>7, <3>1 DEF NoApproval
    <3> QED  BY <2>1, <2>3, <3>2
  <2> QED  BY <1>4, <2>2, <2>3
<1>8. devices[d] \in {u, None}
  BY <1>1, <1>2 DEF OrphanInv, Created, At
<1>9. Orphans' \subseteq Orphans
  <2> SUFFICES ASSUME NEW x \in Devices, x \in Orphans' PROVE x \in Orphans
    BY DEF Orphans
  <2>1. devices[x] # None /\ \A k \in Logins : approval'[k] # <<devices[x], x>>
    BY <1>2 DEF Orphans
  <2>2. \A k \in Logins : approval[k] # <<devices[x], x>>
    BY <1>7, <2>1
  <2>3. x # d
    <3>1. CASE handler'[h] = Idle /\ approval'[l] = <<u, d>>
      BY <1>2, <1>8, <2>1, <3>1
    <3>2. CASE handler'[h].step = "undoDevice" /\ handler'[h].device = d
      BY <3>2 DEF Orphans
    <3> QED  BY <1>6, <3>1, <3>2
  <2>4. \A k \in Handlers :
          ~(handler[k].step \in {"approve", "undoDevice"} /\ handler[k].device = x)
    BY <1>1, <1>5, <2>3 DEF Orphans
  <2> QED  BY <2>1, <2>2, <2>4 DEF Orphans
<1>10. Created(h)'
  BY <1>6 DEF Created, At, Idle
<1>11. \A k \in Handlers \ {h} : Created(k)'
  BY <1>2, <1>5 DEF OrphanInv, Created, At
<1>12. failures <= failures'
  BY <1>0 DEF ApproveAuthRequest, ApproveFails, TypeInv
<1> QED  BY <1>0, <1>9, <1>10, <1>11, <1>12, FewerOrphans DEF OrphanInv

LEMMA RemoveOrphans ==
  ASSUME LoginInv, TypeInv', OrphanInv, NEW h \in Handlers, UndoDevice(h) \/ DeleteDevice(h)
  PROVE  OrphanInv'
<1>0. TypeInv /\ GrantInv
  BY DEF LoginInv
<1>1. PICK d : d = handler[h].device
  OBVIOUS
<1>2. /\ devices' = [devices EXCEPT ![d] = None] /\ Done(h)
      /\ UNCHANGED <<approval, failures>> /\ handler[h].step \in Removing
  BY <1>1 DEF UndoDevice, DeleteDevice, DeleteDocument, loginVars, At, Removing
<1>3. handler'[h] = Idle /\ \A k \in Handlers \ {h} : handler'[k] = handler[k]
  BY <1>0, <1>2 DEF Done, TypeInv
<1>4. \A x \in Devices : devices'[x] = IF x = d THEN None ELSE devices[x]
  BY <1>0, <1>2 DEF TypeInv
<1>5. \A k \in Handlers : Equipped(handler[k])
  BY <1>0 DEF GrantInv
<1>6. \A k \in Handlers : Created(k)'
  <2>1. ASSUME NEW k \in Handlers \ {h}, handler[k].step = "approve"
        PROVE  devices'[handler[k].device] \in {handler[k].user, None}
    <3>1. handler[k].device \in Devices /\ Created(k)
      BY <1>5, <2>1 DEF Equipped, Holding, OrphanInv
    <3> QED  BY <1>4, <2>1, <3>1 DEF Created, At
  <2>2. Created(h)'
    BY <1>3 DEF Created, At, Idle
  <2>3. \A k \in Handlers \ {h} : Created(k)'
    BY <1>3, <2>1 DEF Created, At
  <2> QED  BY <2>2, <2>3
<1>7. Orphans' \subseteq Orphans
  <2> SUFFICES ASSUME NEW x \in Devices, x \in Orphans' PROVE x \in Orphans
    BY DEF Orphans
  <2>1. x # d /\ devices'[x] = devices[x]
    BY <1>4 DEF Orphans
  <2> QED  BY <1>1, <1>2, <1>3, <2>1 DEF Orphans
<1>8. failures <= failures'
  BY <1>0, <1>2 DEF TypeInv
<1> QED  BY <1>0, <1>6, <1>7, <1>8, FewerOrphans DEF OrphanInv

LEMMA FailOrphans ==
  ASSUME TypeInv, TypeInv', OrphanInv, NEW h \in Handlers, Fail(h)
  PROVE  OrphanInv'
<1>1. PICK d : d = handler[h].device
  OBVIOUS
<1>2. UNCHANGED <<approval, devices>> /\ failures' = failures + 1 /\ Done(h)
  BY DEF Fail, loginVars, deviceVars
<1>3. handler'[h] = Idle /\ \A k \in Handlers \ {h} : handler'[k] = handler[k]
  BY <1>2 DEF Done, TypeInv
<1>4. Orphans' \subseteq Orphans \cup {d}
  BY <1>1, <1>2, <1>3 DEF Orphans
<1>5. \A k \in Handlers : Created(k)'
  BY <1>2, <1>3 DEF OrphanInv, Created, At, Idle
<1> QED  BY <1>2, <1>4, <1>5, OneMoreOrphan DEF OrphanInv

LEMMA OrphanNext == LoginInv /\ TypeInv' /\ OrphanInv /\ [Next]_vars => OrphanInv'
<1> SUFFICES ASSUME LoginInv, TypeInv', OrphanInv, [Next]_vars PROVE OrphanInv'
  OBVIOUS
<1> USE DEF loginVars, deviceVars, sessionVars
<1>0. TypeInv /\ failures <= failures
  BY DEF LoginInv, TypeInv
<1>1. CASE UNCHANGED <<approval, devices, handler, failures>>
  BY <1>1 DEF OrphanInv, FewOrphans, Orphans, Created, At
<1>2. ASSUME NEW h \in Handlers, handler[h].step \notin Claiming, NEW q,
             handler' = [handler EXCEPT ![h] = q], q.step # "approve",
             UNCHANGED <<approval, devices, failures>>
      PROVE  OrphanInv'
  BY <1>0, <1>2, OrphanSlot
<1>3. ASSUME NEW h \in Handlers, handler[h].step \notin Claiming, Done(h),
             UNCHANGED <<approval, devices, failures>>
      PROVE  OrphanInv'
  <2>1. PICK q : q = Idle
    OBVIOUS
  <2>2. q.step # "approve"
    BY <2>1 DEF Idle
  <2> QED  BY <1>2, <1>3, <2>1, <2>2 DEF Done
<1>4. ASSUME NEW h \in Handlers, handler[h].step \notin Claiming, NEW step,
             Advance(h, step), step # "approve", UNCHANGED <<approval, devices, failures>>
      PROVE  OrphanInv'
  <2>1. PICK q : q = [handler[h] EXCEPT !.step = step]
    OBVIOUS
  <2>2. q.step = step
    BY <1>0, <2>1 DEF TypeInv, Handler
  <2> QED  BY <1>2, <1>4, <2>1, <2>2 DEF Advance
<1>5. ASSUME NEW h \in Handlers, NEW l \in Logins, NEW u \in Users,
             DecideDeny(h, l, u) \/ DecideApprove(h, l, u)
      PROVE  OrphanInv'
  <2>1. PICK s \in {"deny", "createDevice"} :
          Accept(h, [Idle EXCEPT !.step = s, !.login = l, !.user = u])
    BY <1>5 DEF DecideDeny, DecideApprove
  <2>2. PICK q : q = [Idle EXCEPT !.step = s, !.login = l, !.user = u]
    OBVIOUS
  <2>3. q.step # "approve" /\ handler[h].step \notin Claiming
    BY <2>1, <2>2 DEF Idle, Claiming, Accept, At
  <2> QED  BY <1>2, <1>5, <2>1, <2>2, <2>3 DEF DecideDeny, DecideApprove, Accept
<1>6. ASSUME NEW h \in Handlers, NEW d \in Devices, NEW u \in Users, RevokeDevice(h, d, u)
      PROVE  OrphanInv'
  <2>1. PICK q : q = [Idle EXCEPT !.step = "revokeSessions", !.user = u, !.device = d]
    OBVIOUS
  <2>2. q.step # "approve" /\ handler[h].step \notin Claiming
    BY <1>6, <2>1 DEF Idle, Claiming, RevokeDevice, Accept, At
  <2> QED  BY <1>2, <1>6, <2>1, <2>2 DEF RevokeDevice, Accept
<1>7. ASSUME NEW h \in Handlers, NEW l \in Logins, NEW from \in {"cli", "other"},
             PollApproved(h, l, from)
      PROVE  OrphanInv'
  <2>1. PICK q : q = [step |-> "consume", login |-> l, user |-> approval[l][1],
                      device |-> approval[l][2], from |-> from]
    OBVIOUS
  <2>2. q.step # "approve" /\ handler[h].step \notin Claiming
    BY <1>7, <2>1 DEF Claiming, PollApproved, Accept, At
  <2> QED  BY <1>2, <1>7, <2>1, <2>2 DEF PollApproved, Accept
<1>8. ASSUME NEW h \in Handlers,
             DenyAuthRequest(h) \/ ConsumeAuthRequest(h) \/ IssueSession(h)
             \/ RevokeDeviceSessions(h)
      PROVE  OrphanInv'
  <2>1. handler[h].step \notin Claiming /\ UNCHANGED <<approval, devices, failures>>
    BY <1>8 DEF DenyAuthRequest, ConsumeAuthRequest, IssueSession, RevokeDeviceSessions,
                At, Claiming
  <2>2. Done(h) \/ \E step \in {"issueSession", "deleteDevice"} : Advance(h, step)
    BY <1>8 DEF DenyAuthRequest, ConsumeAuthRequest, IssueSession, RevokeDeviceSessions
  <2> QED  BY <1>3, <1>4, <2>1, <2>2
<1>9. CASE \/ \E l \in Logins : \/ Authorize(l) \/ Expire(l) \/ Sweep(l)
                                \/ Interrupt(l) \/ PollRefused(l)
           \/ \E i \in live : DeleteSession(i)
           \/ \E u \in Users, keep \in 0 .. Len(sessions) : RevokeOtherSessions(u, keep)
           \/ UNCHANGED vars
  BY <1>1, <1>9 DEF Authorize, Expire, Sweep, Interrupt, PollRefused, DeleteSession,
                    RevokeOtherSessions, vars
<1> QED
  BY <1>0, <1>5, <1>6, <1>7, <1>8, <1>9, CreateDeviceOrphans, ApproveOrphans,
     RemoveOrphans, FailOrphans DEF Next, Command, Poll, Browser

\* However many tabs approve and deny one login, and whoever revokes devices
\* meanwhile: a decision that loses leaves a device behind only if a request has died.
THEOREM OrphansCorrect == Spec => []FewOrphans
<1>1. LoginInv => TypeInv
  BY DEF LoginInv
<1>2. OrphanInv => FewOrphans
  BY DEF OrphanInv
<1> QED
  BY <1>1, <1>2, InitOrphans, OrphanNext, LoginCorrect, PTL DEF Spec

----------------------------------------------------------------------------
(* Single use *)

View == <<[l \in Logins |-> DecisionOf(l)], [i \in DOMAIN sessions |-> Issued(i)]>>

LEMMA UnchangedView ==
  ASSUME UNCHANGED <<status, approval, sessions>>
  PROVE  View' = View
BY DEF View, DecisionOf, Issued

\* A decision or a late one: nothing, or the one login decided.
LEMMA DecideStep ==
  ASSUME LoginInv, NEW l \in Logins, UNCHANGED sessions,
         status[l] = "pending",
         \A x \in Logins \ {l} : status'[x] = status[x] /\ approval'[x] = approval[x],
         \/ status'[l] = "denied"
         \/ status'[l] = "approved" /\ approval'[l] \in Approval
  PROVE  Grant!Decide(l)
<1> DEFINE D == [x \in Logins |-> DecisionOf(x)]
           E == [x \in Logins |-> DecisionOf(x)']
<1>1. DecisionOf(l) = NoDecision
  BY DEF DecisionOf
<1>2. DecisionOf(l)' \in Approval \cup {DeniedDecision}
  BY DEF DecisionOf
<1>3. \A x \in Logins \ {l} : DecisionOf(x)' = DecisionOf(x)
  BY DEF DecisionOf
<1>4. PICK d \in Approval \cup {DeniedDecision} : d = DecisionOf(l)'
  BY <1>2
<1>5. E = [D EXCEPT ![l] = d]
  BY <1>3, <1>4
<1>6. UNCHANGED [i \in DOMAIN sessions |-> Issued(i)]
  BY DEF Issued
<1> QED
  BY <1>1, <1>4, <1>5, <1>6 DEF Grant!Decide

LEMMA CollectStep ==
  ASSUME LoginInv, NEW h \in Handlers, IssueSession(h)
  PROVE  \E l \in Logins : Grant!Collect(l)
<1> DEFINE l == handler[h].login
           C == [i \in DOMAIN sessions |-> Issued(i)]
<1>0. TypeInv /\ GrantInv
  BY DEF LoginInv
<1>1. /\ Equipped(handler[h]) /\ Knows(handler[h]) /\ Alone(h)
      /\ handler[h].step = "issueSession"
  BY <1>0 DEF GrantInv, IssueSession, At
<1>2. l \in Logins /\ ApprovalOf(l)
  BY <1>0, <1>1 DEF Equipped, Polling, GrantInv
<1>3. DecisionOf(l) = <<handler[h].user, handler[h].device>> /\ DecisionOf(l) \in Approval
  BY <1>1, <1>2 DEF DecisionOf, Knows, Polling, ApprovalOf
<1>4. PICK s : /\ sessions' = Append(sessions, s)
               /\ s.login = l /\ s.user = handler[h].user /\ s.device = handler[h].device
  BY DEF IssueSession
<1>5. DOMAIN sessions = 1 .. Len(sessions) /\ Len(sessions) \in Nat
  BY <1>0, SessionTypes DEF TypeInv
<1>n. PICK n : n = Len(sessions) + 1
  OBVIOUS
<1>6. /\ DOMAIN sessions' = 1 .. n
      /\ sessions'[n] = s
      /\ \A i \in DOMAIN sessions : sessions'[i] = sessions[i]
  BY <1>0, <1>4, <1>5, <1>n DEF TypeInv
<1>7. \A i \in DOMAIN sessions : Issued(i)' = Issued(i)
  BY <1>6 DEF Issued
<1>8. Issued(n)' = <<l, DecisionOf(l)>>
  BY <1>3, <1>4, <1>6 DEF Issued
<1>9. [i \in DOMAIN sessions |-> Issued(i)]' = Append(C, <<l, DecisionOf(l)>>)
  <2> DEFINE x == <<l, DecisionOf(l)>>
             E == [i \in 1 .. n |-> Issued(i)']
  <2>1. [i \in DOMAIN sessions |-> Issued(i)]' = E
    BY <1>6
  <2>2. DOMAIN C = 1 .. Len(sessions) /\ Len(C) = Len(sessions)
    BY <1>5
  <2>3. \A i \in 1 .. Len(sessions) : E[i] = C[i]
    BY <1>5, <1>7, <1>n
  <2>4. E[n] = x
    BY <1>5, <1>8, <1>n
  <2> HIDE DEF x
  <2>5. E = Append(C, x)
    BY <1>5, <1>n, <2>2, <2>3, <2>4
  <2> QED
    BY <2>1, <2>5 DEF x
<1>10. \A i \in DOMAIN C : C[i][1] # l
  BY <1>1 DEF Issued, Alone, At
<1>11. UNCHANGED [x \in Logins |-> DecisionOf(x)]
  BY DEF IssueSession, loginVars, DecisionOf
<1> QED
  BY <1>2, <1>3, <1>9, <1>10, <1>11 DEF Grant!Collect

LEMMA GrantStep == LoginInv /\ [Next]_vars => [Grant!Next]_View
<1> SUFFICES ASSUME LoginInv, [Next]_vars
             PROVE  (\E l \in Logins : Grant!Decide(l) \/ Grant!Collect(l)) \/ View' = View
  BY DEF Grant!Next, View
<1> USE DEF loginVars, deviceVars, sessionVars
<1>0. TypeInv /\ GrantInv
  BY DEF LoginInv
<1>1. UNCHANGED <<status, approval, sessions>> => View' = View
  BY UnchangedView
<1>2. ASSUME NEW l \in Logins, Authorize(l)
      PROVE  View' = View
  <2>1. \A x \in Logins : DecisionOf(x)' = DecisionOf(x)
    BY <1>0, <1>2 DEF Authorize, DecisionOf, TypeInv
  <2>2. [x \in Logins |-> DecisionOf(x)]' = [x \in Logins |-> DecisionOf(x)]
    BY <2>1
  <2>3. [i \in DOMAIN sessions |-> Issued(i)]' = [i \in DOMAIN sessions |-> Issued(i)]
    BY <1>2 DEF Authorize, Issued
  <2> QED
    BY <2>2, <2>3 DEF View
<1>3. ASSUME NEW h \in Handlers, DenyAuthRequest(h), ~UNCHANGED status
      PROVE  \E l \in Logins : Grant!Decide(l)
  <2>1. handler[h].login \in Logins
    BY <1>0, <1>3 DEF DenyAuthRequest, At, GrantInv, Equipped, Deciding
  <2>2. /\ status[handler[h].login] = "pending"
        /\ status' = [status EXCEPT ![handler[h].login] = "denied"]
        /\ UNCHANGED <<approval, sessions>>
    BY <1>3 DEF DenyAuthRequest, PendingDocument
  <2> QED
    BY <1>0, <2>1, <2>2, DecideStep DEF TypeInv
<1>4. ASSUME NEW h \in Handlers, ApproveAuthRequest(h) \/ ApproveFails(h),
             ~UNCHANGED <<status, approval>>
      PROVE  \E l \in Logins : Grant!Decide(l)
  <2> DEFINE q == handler[h]
  <2>1. q.login \in Logins /\ <<q.user, q.device>> \in Approval
    BY <1>0, <1>4
    DEF ApproveAuthRequest, ApproveFails, At, GrantInv, Equipped, Deciding, Holding, Approval
  <2>2. status[q.login] = "pending" /\ Stamp(q.login, q.user, q.device) /\ UNCHANGED sessions
    BY <1>4 DEF ApproveAuthRequest, ApproveFails, PendingDocument
  <2> HIDE DEF q
  <2>3. PICK l \in Logins, a \in Approval :
          /\ status[l] = "pending"
          /\ status' = [status EXCEPT ![l] = "approved"]
          /\ approval' = [approval EXCEPT ![l] = a]
    BY <2>1, <2>2 DEF Stamp
  <2>4. Grant!Decide(l)
    BY <1>0, <2>2, <2>3, DecideStep DEF TypeInv
  <2> QED
    BY <2>4
<1>5. ASSUME NEW h \in Handlers, IssueSession(h)
      PROVE  \E l \in Logins : Grant!Collect(l)
  BY <1>5, CollectStep
<1>6. ASSUME NEW h \in Handlers,
             \/ CreateDevice(h) \/ UndoDevice(h) \/ ConsumeAuthRequest(h)
             \/ RevokeDeviceSessions(h) \/ DeleteDevice(h) \/ Browser(h) \/ Fail(h)
             \/ \E l \in Logins, from \in {"cli", "other"} : PollApproved(h, l, from)
      PROVE  View' = View
  BY <1>1, <1>6
  DEF CreateDevice, UndoDevice, ConsumeAuthRequest, RevokeDeviceSessions, DeleteDevice,
      Browser, DecideDeny, DecideApprove, RevokeDevice, Fail, PollApproved
<1>7. CASE \/ \E l \in Logins : Expire(l) \/ Sweep(l) \/ Interrupt(l) \/ PollRefused(l)
           \/ \E i \in live : DeleteSession(i)
           \/ \E u \in Users, keep \in 0 .. Len(sessions) : RevokeOtherSessions(u, keep)
           \/ UNCHANGED vars
  BY <1>1, <1>7
  DEF Expire, Sweep, Interrupt, PollRefused, DeleteSession, RevokeOtherSessions, vars
<1>8. ASSUME NEW h \in Handlers, DenyAuthRequest(h), UNCHANGED status
      PROVE  View' = View
  BY <1>1, <1>8 DEF DenyAuthRequest
<1>9. ASSUME NEW h \in Handlers, ApproveAuthRequest(h) \/ ApproveFails(h),
             UNCHANGED <<status, approval>>
      PROVE  View' = View
  BY <1>1, <1>9 DEF ApproveAuthRequest, ApproveFails
<1> QED
  BY <1>2, <1>3, <1>4, <1>5, <1>6, <1>7, <1>8, <1>9 DEF Next, Command, Poll

\* Approving, denying and polling in any order and number, with failures anywhere,
\* implement a grant that is decided once and collected at most once.
THEOREM GrantCorrect == Spec => ImplementsGrant
<1>1. Init => Grant!Init
  <2> SUFFICES ASSUME Init
               PROVE  Grant!Init
    OBVIOUS
  <2>1. [l \in Logins |-> DecisionOf(l)] = [l \in Logins |-> NoDecision]
    BY DEF Init, DecisionOf
  <2>2. [i \in DOMAIN sessions |-> Issued(i)] = <<>>
    BY DEF Init
  <2> QED
    BY <2>1, <2>2 DEF Grant!Init
<1> QED
  BY <1>1, GrantStep, LoginCorrect, PTL
  DEF Spec, ImplementsGrant, Grant!Spec, Grant!grantVars, View
=============================================================================
