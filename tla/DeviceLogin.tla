---------------------------- MODULE DeviceLogin ----------------------------
(***************************************************************************)
(* Logging a command line client in by approving it in a browser:          *)
(* device/service.go, device/store.go, the sessions of auth/ and account/  *)
(* that it issues, and the polling loop of the client (cmd/login.go).      *)
(*                                                                         *)
(* A login is one device_auth_requests document, found by its device code  *)
(* (the client) or its user code (the browser).                            *)
(***************************************************************************)
EXTENDS Integers, Sequences

CONSTANTS
  None,
  Logins,      \* login attempts
  Users,       \* the people who may decide them in a browser
  Devices,     \* fresh ids for devices; bounds the approvals tried
  Handlers,    \* requests the server handles at the same time
  MaxFailures  \* bounds the requests that die or get an error

ASSUME DeviceAssumption ==
  /\ None \notin Users \cup Devices \cup Logins
  /\ MaxFailures \in Nat

VARIABLES
  status,      \* of each login's document; "absent" before Authorize
  approval,    \* its user_id and device_id
  consumed,    \* the logins whose document says so
  expired,     \* the logins whose expires_at has passed
  swept,       \* the logins whose document the TTL index has deleted
  devices,     \* devices: id -> the user, or None when there is no document
  minted,      \* device ids in use, now or before
  sessions,    \* every session ever issued, in order
  live,        \* indices of the sessions that still have a document
  cli,         \* what the client of each login is doing
  handler,     \* the requests being handled
  failures     \* requests that died or got an error so far

loginVars == <<status, approval, consumed, expired, swept>>
sessionVars == <<sessions, live>>
deviceVars == <<devices, minted>>
vars == <<loginVars, deviceVars, sessionVars, cli, handler, failures>>

Approval == Users \X Devices
NoApproval == <<None, None>>

\* late: the device was already being removed when the session was inserted.
Session == [login : Logins, user : Users, device : Devices, late : BOOLEAN]

Waiting == {"waiting", "polling"}
Stopped == {"loggedIn", "denied", "codeExpired", "error"}

Step == {"idle", "deny", "createDevice", "approve", "undoDevice", "consume",
         "issueSession", "revokeSessions", "deleteDevice"}

\* from: who polls, the client of the login or another holder of its code.
Handler == [step : Step, login : Logins \cup {None}, user : Users \cup {None},
            device : Devices \cup {None}, from : {"cli", "other"}]

Idle == [step |-> "idle", login |-> None, user |-> None, device |-> None,
         from |-> "other"]

Init ==
  /\ status = [l \in Logins |-> "absent"]
  /\ approval = [l \in Logins |-> NoApproval]
  /\ consumed = {} /\ expired = {} /\ swept = {}
  /\ devices = [d \in Devices |-> None]
  /\ minted = {}
  /\ sessions = <<>> /\ live = {}
  /\ cli = [l \in Logins |-> "idle"]
  /\ handler = [h \in Handlers |-> Idle]
  /\ failures = 0

----------------------------------------------------------------------------
(* The documents and the handlers *)

\* The checks of a handler on the document it has just read.
Readable(l) == status[l] # "absent" /\ l \notin swept
Valid(l) == Readable(l) /\ l \notin expired

\* A filter on status matches no document once it has been swept.
PendingDocument(l) == status[l] = "pending" /\ l \notin swept

At(h, step) == handler[h].step = step
Accept(h, request) == At(h, "idle") /\ handler' = [handler EXCEPT ![h] = request]
Advance(h, step) == handler' = [handler EXCEPT ![h].step = step]
Done(h) == handler' = [handler EXCEPT ![h] = Idle]

\* The client hears an answer only if it is still waiting for one.
Answer(h, result) ==
  LET q == handler[h] IN
  cli' = IF q.from = "cli" /\ cli[q.login] = "polling"
           THEN [cli EXCEPT ![q.login] = result] ELSE cli

----------------------------------------------------------------------------
(* Authorize, and the passing of time *)

Authorize(l) ==
  /\ status[l] = "absent"
  /\ status' = [status EXCEPT ![l] = "pending"]
  /\ cli' = [cli EXCEPT ![l] = "waiting"]
  /\ UNCHANGED <<approval, consumed, expired, swept, deviceVars, sessionVars,
                 handler, failures>>

Expire(l) ==
  /\ Readable(l)
  /\ l \notin expired
  /\ expired' = expired \cup {l}
  /\ UNCHANGED <<status, approval, consumed, swept, deviceVars, sessionVars, cli,
                 handler, failures>>

\* The TTL index is on the wrong field.
SweepBug(l) ==
  /\ Readable(l)
  /\ swept' = swept \cup {l}
  /\ UNCHANGED <<status, approval, consumed, expired, deviceVars, sessionVars, cli,
                 handler, failures>>

\* The TTL index deletes an expired document some time later.
Sweep(l) ==
  /\ Readable(l)
  /\ l \in expired
  /\ swept' = swept \cup {l}
  /\ UNCHANGED <<status, approval, consumed, expired, deviceVars, sessionVars, cli,
                 handler, failures>>

----------------------------------------------------------------------------
(* Decide *)

DecideDeny(h, l, u) ==
  /\ Valid(l)
  /\ status[l] = "pending"
  /\ Accept(h, [Idle EXCEPT !.step = "deny", !.login = l, !.user = u])
  /\ UNCHANGED <<loginVars, deviceVars, sessionVars, cli, failures>>

DecideApprove(h, l, u) ==
  /\ Valid(l)
  /\ status[l] = "pending"
  /\ Accept(h, [Idle EXCEPT !.step = "createDevice", !.login = l, !.user = u])
  /\ UNCHANGED <<loginVars, deviceVars, sessionVars, cli, failures>>

\* The update does not ask for a pending document.
DenyAuthRequestBug(h) ==
  /\ At(h, "deny")
  /\ status' = [status EXCEPT ![handler[h].login] = "denied"]
  /\ Done(h)
  /\ UNCHANGED <<approval, consumed, expired, swept, deviceVars, sessionVars, cli,
                 failures>>

\* A denial that comes too late changes nothing, and is answered like any other.
DenyAuthRequest(h) ==
  LET l == handler[h].login IN
  /\ At(h, "deny")
  /\ status' = IF PendingDocument(l) THEN [status EXCEPT ![l] = "denied"] ELSE status
  /\ Done(h)
  /\ UNCHANGED <<approval, consumed, expired, swept, deviceVars, sessionVars, cli,
                 failures>>

CreateDevice(h) ==
  /\ At(h, "createDevice")
  /\ \E d \in Devices \ minted :
       /\ minted' = minted \cup {d}
       /\ devices' = [devices EXCEPT ![d] = handler[h].user]
       /\ handler' = [handler EXCEPT ![h].step = "approve", ![h].device = d]
  /\ UNCHANGED <<loginVars, sessionVars, cli, failures>>

Stamp(l, u, d) ==
  /\ status' = [status EXCEPT ![l] = "approved"]
  /\ approval' = [approval EXCEPT ![l] = <<u, d>>]

\* The device of an approval that lost is not cleaned up.
ApproveAuthRequestBug(h) ==
  LET q == handler[h] IN
  /\ At(h, "approve")
  /\ IF PendingDocument(q.login)
       THEN Stamp(q.login, q.user, q.device)
       ELSE UNCHANGED <<status, approval>>
  /\ Done(h)
  /\ UNCHANGED <<consumed, expired, swept, deviceVars, sessionVars, cli, failures>>

ApproveAuthRequest(h) ==
  LET q == handler[h] IN
  /\ At(h, "approve")
  /\ IF PendingDocument(q.login)
       THEN Stamp(q.login, q.user, q.device) /\ Done(h)
       ELSE UNCHANGED <<status, approval>> /\ Advance(h, "undoDevice")
  /\ UNCHANGED <<consumed, expired, swept, deviceVars, sessionVars, cli, failures>>

\* The update is applied, but the server hears of an error.
ApproveFails(h) ==
  LET q == handler[h] IN
  /\ At(h, "approve")
  /\ failures < MaxFailures
  /\ \/ PendingDocument(q.login) /\ Stamp(q.login, q.user, q.device)
     \/ UNCHANGED <<status, approval>>
  /\ Advance(h, "undoDevice")
  /\ failures' = failures + 1
  /\ UNCHANGED <<consumed, expired, swept, deviceVars, sessionVars, cli>>

DeleteDocument(d) == devices' = [devices EXCEPT ![d] = None]

UndoDevice(h) ==
  /\ At(h, "undoDevice")
  /\ DeleteDocument(handler[h].device)
  /\ Done(h)
  /\ UNCHANGED <<loginVars, minted, sessionVars, cli, failures>>

----------------------------------------------------------------------------
(* Poll *)

\* An approved login: the handler remembers whom and what it was approved for.
PollApproved(h, l, from) ==
  /\ Valid(l)
  /\ status[l] = "approved"
  /\ from = "cli" => cli[l] = "waiting"
  /\ Accept(h, [step |-> "consume", login |-> l, user |-> approval[l][1],
                device |-> approval[l][2], from |-> from])
  /\ cli' = IF from = "cli" THEN [cli EXCEPT ![l] = "polling"] ELSE cli
  /\ UNCHANGED <<loginVars, deviceVars, sessionVars, failures>>

\* The client polls on after a denial.
PollRefusedBug(l) ==
  /\ cli[l] = "waiting"
  /\ \/ l \in swept /\ cli' = [cli EXCEPT ![l] = "error"]
     \/ Valid(l) /\ status[l] = "denied" /\ UNCHANGED cli
  /\ UNCHANGED <<loginVars, deviceVars, sessionVars, handler, failures>>

\* The other answers change nothing on the server.  A pending login is polled
\* again; the client also stops at a deadline of its own.
PollRefused(l) ==
  /\ cli[l] = "waiting"
  /\ \/ l \in swept /\ cli' = [cli EXCEPT ![l] = "error"]
     \/ l \in expired /\ cli' = [cli EXCEPT ![l] = "codeExpired"]
     \/ Valid(l) /\ status[l] = "denied" /\ cli' = [cli EXCEPT ![l] = "denied"]
  /\ UNCHANGED <<loginVars, deviceVars, sessionVars, handler, failures>>

\* Nobody asks whether the request was consumed before.
ConsumeAuthRequestBug(h) ==
  /\ At(h, "consume")
  /\ consumed' = consumed \cup {handler[h].login}
  /\ Advance(h, "issueSession")
  /\ UNCHANGED <<status, approval, expired, swept, deviceVars, sessionVars, cli,
                 failures>>

ConsumeAuthRequest(h) ==
  LET l == handler[h].login IN
  /\ At(h, "consume")
  /\ IF l \notin consumed \cup swept
       THEN /\ consumed' = consumed \cup {l}
            /\ Advance(h, "issueSession")
            /\ UNCHANGED cli
       ELSE Answer(h, "codeExpired") /\ Done(h) /\ UNCHANGED consumed
  /\ UNCHANGED <<status, approval, expired, swept, deviceVars, sessionVars, failures>>

BeingRemoved(d) ==
  \/ devices[d] = None
  \/ \E k \in Handlers :
       handler[k].step \in {"deleteDevice", "undoDevice"} /\ handler[k].device = d

IssueSession(h) ==
  LET q == handler[h] IN
  /\ At(h, "issueSession")
  /\ sessions' = Append(sessions, [login |-> q.login, user |-> q.user,
                                   device |-> q.device, late |-> BeingRemoved(q.device)])
  /\ live' = live \cup {Len(sessions) + 1}
  /\ Answer(h, "loggedIn")
  /\ Done(h)
  /\ UNCHANGED <<loginVars, deviceVars, failures>>

\* The user interrupts the client, or it loses its connection or its patience.
Interrupt(l) ==
  /\ cli[l] \in Waiting
  /\ cli' = [cli EXCEPT ![l] = "error"]
  /\ UNCHANGED <<loginVars, deviceVars, sessionVars, handler, failures>>

----------------------------------------------------------------------------
(* Revoking devices and sessions *)

\* The device goes before its sessions do.
RevokeDeviceBug(h, d, u) ==
  /\ devices[d] = u
  /\ DeleteDocument(d)
  /\ Accept(h, [Idle EXCEPT !.step = "revokeSessions", !.user = u, !.device = d])
  /\ UNCHANGED <<loginVars, minted, sessionVars, cli, failures>>

RevokeDevice(h, d, u) ==
  /\ devices[d] = u
  /\ Accept(h, [Idle EXCEPT !.step = "revokeSessions", !.user = u, !.device = d])
  /\ UNCHANGED <<loginVars, deviceVars, sessionVars, cli, failures>>

RevokeDeviceSessions(h) ==
  /\ At(h, "revokeSessions")
  /\ live' = {i \in live : sessions[i].device # handler[h].device}
  /\ Advance(h, "deleteDevice")
  /\ UNCHANGED <<loginVars, deviceVars, sessions, cli, failures>>

DeleteDevice(h) ==
  /\ At(h, "deleteDevice")
  /\ DeleteDocument(handler[h].device)
  /\ Done(h)
  /\ UNCHANGED <<loginVars, minted, sessionVars, cli, failures>>

\* Logout of a client, one session revoked in the browser, or its expiry.
DeleteSession(i) ==
  /\ i \in live
  /\ live' = live \ {i}
  /\ UNCHANGED <<loginVars, deviceVars, sessions, cli, handler, failures>>

\* keep is the caller's session; 0 stands for one that is not a client's.
RevokeOtherSessions(u, keep) ==
  /\ live' = {i \in live : sessions[i].user = u => i = keep}
  /\ UNCHANGED <<loginVars, deviceVars, sessions, cli, handler, failures>>

----------------------------------------------------------------------------
(* The process dies, or a command returns an error to a handler that gives up. *)
Fail(h) ==
  /\ failures < MaxFailures
  /\ ~At(h, "idle")
  /\ failures' = failures + 1
  /\ Answer(h, "error")
  /\ Done(h)
  /\ UNCHANGED <<loginVars, deviceVars, sessionVars>>

Command(h) ==
  \/ DenyAuthRequest(h) \/ CreateDevice(h) \/ ApproveAuthRequest(h) \/ UndoDevice(h)
  \/ ConsumeAuthRequest(h) \/ IssueSession(h)
  \/ RevokeDeviceSessions(h) \/ DeleteDevice(h)

Poll(l) == PollRefused(l) \/ \E h \in Handlers : PollApproved(h, l, "cli")

Browser(h) ==
  \/ \E l \in Logins, u \in Users : DecideDeny(h, l, u) \/ DecideApprove(h, l, u)
  \/ \E d \in Devices, u \in Users : RevokeDevice(h, d, u)

Next ==
  \/ \E l \in Logins : Authorize(l) \/ Expire(l) \/ Sweep(l) \/ Poll(l) \/ Interrupt(l)
  \/ \E h \in Handlers : Command(h) \/ Browser(h) \/ ApproveFails(h) \/ Fail(h)
  \/ \E h \in Handlers, l \in Logins : PollApproved(h, l, "other")
  \/ \E i \in live : DeleteSession(i)
  \/ \E u \in Users, keep \in 0 .. Len(sessions) : RevokeOtherSessions(u, keep)

(* The server finishes what it has begun; the client polls every interval, and
   the server does not turn it away for ever because it is busy. *)
Fairness ==
  /\ \A h \in Handlers : WF_vars(Command(h))
  /\ \A l \in Logins : SF_vars(Poll(l))

Spec == Init /\ [][Next]_vars
FairSpec == Spec /\ Fairness
=============================================================================
