------------------------------ MODULE Sessions ------------------------------
(***************************************************************************)
(* Sessions and the tokens they give: auth/service.go, auth/store.go,      *)
(* account/service.go and common/middleware/auth.go on the server, and the *)
(* commands of one user on one machine that share the saved tokens         *)
(* (api/client.go, authstore/store.go, login.go and logout.go).            *)
(***************************************************************************)
EXTENDS Integers, FiniteSets

CONSTANTS
  Sids,          \* sessions
  Commands,      \* commands that may run at once on the machine
  MaxOutages     \* bounds the requests of a command that get no answer

ASSUME SessionAssumption == MaxOutages \in Nat /\ "none" \notin Sids

VARIABLES
  document,   \* of each session: "none", "live" or "gone"
  accepted,   \* the sessions with an access token that has not expired
  refreshing, \* the sessions whose refresh token has been looked up
  keychain,   \* "up", "failing", or "back" after it has failed
  inKeychain, \* the session whose tokens are saved there, or NoTokens
  inFile,     \* the same for the file that stands in for the keychain
  command,    \* what each command does, with the tokens it has read
  lastLogin,  \* history: the session logged in last, NoTokens after a logout
  mixed,      \* history: another command was running then
  outages

clientVars == <<keychain, inKeychain, inFile, command, lastLogin, mixed, outages>>
authVars == <<document, accepted, refreshing, clientVars>>

NoTokens == "none"
Rests == [at |-> "idle", sid |-> NoTokens]

SessionInit ==
  /\ document = [s \in Sids |-> "none"]
  /\ accepted = {} /\ refreshing = {}
  /\ keychain \in {"up", "failing"}
  /\ inKeychain = NoTokens /\ inFile = NoTokens
  /\ command = [p \in Commands |-> Rests]
  /\ lastLogin = NoTokens /\ mixed = FALSE /\ outages = 0

----------------------------------------------------------------------------
(* The server *)

CreateSession(s) ==
  /\ document[s] = "none"
  /\ document' = [document EXCEPT ![s] = "live"]
  /\ accepted' = accepted \cup {s}

\* Of a browser.
BrowserLogin(s) == CreateSession(s) /\ UNCHANGED <<refreshing, clientVars>>

\* Without a look at the session's document.
FindSessionBug(s) == document[s] # "none"
FindSession(s) == document[s] = "live"

\* The refresh of a browser, or of a command whose answer gets lost.
RefreshToken(s) ==
  /\ FindSession(s)
  /\ refreshing' = refreshing \cup {s}
  /\ UNCHANGED <<document, accepted, clientVars>>

GenerateAccessToken(s) ==
  /\ s \in refreshing
  /\ refreshing' = refreshing \ {s}
  /\ accepted' = accepted \cup {s}
  /\ UNCHANGED <<document, clientVars>>

\* Logout in a browser, one session or all others revoked, the device revoked,
\* or the session expired: every one deletes the document.
EndSession(s) ==
  /\ document[s] = "live"
  /\ document' = [document EXCEPT ![s] = "gone"]
  /\ UNCHANGED <<accepted, refreshing, clientVars>>

TokenExpires(s) ==
  /\ s \in accepted
  /\ accepted' = accepted \ {s}
  /\ UNCHANGED <<document, refreshing, clientVars>>

----------------------------------------------------------------------------
(* Saved tokens *)

Save(s) ==
  IF keychain = "failing" THEN inFile' = s /\ UNCHANGED inKeychain
                          ELSE inKeychain' = s /\ UNCHANGED inFile

Load == IF keychain # "failing" /\ inKeychain # NoTokens THEN inKeychain ELSE inFile

\* Only where the tokens were saved.
ClearBug ==
  /\ inKeychain' = IF keychain = "failing" THEN inKeychain ELSE NoTokens
  /\ UNCHANGED inFile

\* An error of the keychain is ignored.
Clear ==
  /\ inKeychain' = IF keychain = "failing" THEN inKeychain ELSE NoTokens
  /\ inFile' = NoTokens

KeychainChanges ==
  /\ \/ keychain = "up" /\ keychain' = "failing"
     \/ keychain = "failing" /\ keychain' = "back"
  /\ UNCHANGED <<document, accepted, refreshing, inKeychain, inFile, command, lastLogin,
                 mixed, outages>>

----------------------------------------------------------------------------
(* Commands *)

Does(p, at) == command[p].at = at
Goes(p, at) == command' = [command EXCEPT ![p].at = at]
Rest(p) == command' = [command EXCEPT ![p] = Rests]

Begin(p) ==
  /\ Does(p, "idle") /\ Load # NoTokens
  /\ command' = [command EXCEPT ![p] = [at |-> "call", sid |-> Load]]
  /\ UNCHANGED <<document, accepted, refreshing, keychain, inKeychain, inFile,
                 lastLogin, mixed, outages>>

\* The command's own token may be older than another one of its session.
Ask(p) ==
  LET s == command[p].sid IN
  /\ Does(p, "call")
  /\ \/ s \in accepted /\ Rest(p)
     \/ Goes(p, "refresh")
  /\ UNCHANGED <<document, accepted, refreshing, keychain, inKeychain, inFile,
                 lastLogin, mixed, outages>>

\* DeviceRefresh: the server looks the session up; after any error the tokens
\* are going to be cleared.
Refresh(p) ==
  LET s == command[p].sid IN
  /\ Does(p, "refresh")
  /\ IF FindSession(s) THEN Goes(p, "mint") ELSE Goes(p, "clear")
  /\ UNCHANGED <<document, accepted, refreshing, keychain, inKeychain, inFile,
                 lastLogin, mixed, outages>>

Minted(p) ==
  /\ Does(p, "mint")
  /\ accepted' = accepted \cup {command[p].sid}
  /\ Goes(p, "save")
  /\ UNCHANGED <<document, refreshing, keychain, inKeychain, inFile, lastLogin, mixed,
                 outages>>

\* Then it sends its request again, and is done whatever the answer.
SaveTokens(p) ==
  /\ Does(p, "save")
  /\ Save(command[p].sid) /\ Rest(p)
  /\ UNCHANGED <<document, accepted, refreshing, keychain, lastLogin, mixed, outages>>

ClearTokens(p) ==
  /\ Does(p, "clear")
  /\ Clear /\ Rest(p)
  /\ UNCHANGED <<document, accepted, refreshing, keychain, lastLogin, mixed, outages>>

\* The server cannot be reached, or does not answer.
Outage(p) ==
  /\ outages < MaxOutages /\ outages' = outages + 1
  /\ \/ Does(p, "call") /\ Rest(p)
     \/ command[p].at \in {"refresh", "mint"} /\ Goes(p, "clear")
  /\ UNCHANGED <<document, accepted, refreshing, keychain, inKeychain, inFile,
                 lastLogin, mixed>>

Alone(p) == \A q \in Commands \ {p} : Does(q, "idle")

\* lv login, once its device is approved.
LoginCommand(p, s) ==
  /\ Does(p, "idle")
  /\ CreateSession(s)
  /\ Save(s)
  /\ lastLogin' = s /\ mixed' = ~Alone(p)
  /\ UNCHANGED <<refreshing, keychain, command, outages>>

\* lv logout does not tell the server.
LogoutCommand(p) ==
  /\ Does(p, "idle") /\ Load # NoTokens
  /\ Clear
  /\ lastLogin' = NoTokens /\ mixed' = ~Alone(p)
  /\ UNCHANGED <<document, accepted, refreshing, keychain, command, outages>>

Proceeds(p) == Ask(p) \/ Refresh(p) \/ Minted(p) \/ SaveTokens(p) \/ ClearTokens(p)

SessionNext ==
  \/ \E s \in Sids : BrowserLogin(s) \/ RefreshToken(s) \/ GenerateAccessToken(s)
                     \/ EndSession(s) \/ TokenExpires(s)
  \/ \E p \in Commands : Begin(p) \/ Proceeds(p) \/ Outage(p) \/ LogoutCommand(p)
                         \/ \E s \in Sids : LoginCommand(p, s)
  \/ KeychainChanges

\* Requests are answered, and a token has an expiry date.
SessionFairness ==
  /\ \A s \in Sids : WF_authVars(GenerateAccessToken(s)) /\ WF_authVars(TokenExpires(s))
  /\ \A p \in Commands : WF_authVars(Proceeds(p))

SessionSpec == SessionInit /\ [][SessionNext]_authVars /\ SessionFairness
----------------------------------------------------------------------------
(* Properties *)

\* What Auth (common/middleware/auth.go) and RefreshToken (auth/service.go) leave of
\* a revocation, as access tokens are not looked up: they are served until they
\* expire, and a refresh that has found its session mints another after it is gone.
\* But only so long: some time after a session is deleted no access is left, for good.
RevokedAccessRunsOut ==
  \A s \in Sids : document[s] = "gone" ~> [](s \notin accepted)

\* "Called when a device is removed, so revocation is immediate rather than waiting
\* up to 15 minutes for the access token to expire" (RevokeDeviceSessions in
\* auth/service.go), "immediately kills its sessions" (RevokeDevice in
\* device/service.go): a session that has been deleted gives no access any more.
\* What Auth does refutes it.
RevocationIsImmediate == \A s \in Sids : document[s] = "gone" => s \notin accepted

\* What commands leave on disk is the last login: not a session that the user has
\* logged out of or replaced, and no hole where a live session should be.  Not
\* promised: a command that was running during the login or logout, a keychain
\* that failed and has come back, and, for the hole, a failing keychain or a server
\* that could not be reached (refresh, Save and Clear).
TokensAreLastLogin ==
  (\A p \in Commands : Does(p, "idle")) /\ ~mixed /\ keychain # "back" =>
    \/ Load = lastLogin
    \/ Load = NoTokens /\ (document[lastLogin] = "gone" \/ keychain = "failing"
                           \/ outages > 0)
=============================================================================
