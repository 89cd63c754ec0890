--------------------------- MODULE ServiceProofs ---------------------------
(***************************************************************************)
(* Proofs about the services that run beside the vaults: signing in with   *)
(* an identity provider, the tokens a machine has saved, the event bus and *)
(* the e-mail queue.                                                       *)
(***************************************************************************)
EXTENDS Accounts, Sessions, EmailQueue, EventBus, TLAPS, FiniteSetTheorems,
        FunctionTheorems, WellFoundedInduction

----------------------------------------------------------------------------
(* Accounts *)

Account == [email : Spelling, identity : Identities]
CallbackSteps == {"idle", "findIdentity", "findEmail", "link", "create", "session"}

AccountTypes ==
  /\ primary \in [Identities -> Spelling]
  /\ DOMAIN owned = Identities
  /\ users \in Seq(Account)
  /\ callback \in [Callbacks -> [at : CallbackSteps, of : Identities \cup {"none"},
                                 email : Spelling \cup {NoEmail}, user : Nat]]
  /\ loggedIn \subseteq Identities \X Nat

\* The account is of somebody who has had its address.
IsOwn(u, x) == u \in DOMAIN users /\ users[u].email.address \in owned[x]

CallbackOk(c) ==
  LET k == callback[c] IN
  /\ k.at # "idle" => /\ k.of \in Identities /\ k.email \in Spelling
                      /\ k.email.address \in owned[k.of]
  /\ k.at = "link" /\ k.user # Nameless =>
       k.user \in DOMAIN users /\ users[k.user].email = Lower(k.email)
  /\ k.at = "session" /\ k.user # Nameless => IsOwn(k.user, k.of)

AccountInv ==
  /\ AccountTypes
  /\ \A x \in Identities : primary[x].address \in owned[x]
  /\ \A u \in DOMAIN users : users[u].email.address \in owned[users[u].identity]
  /\ \A u, v \in DOMAIN users : users[u].email = users[v].email => u = v
  /\ \A c \in Callbacks : CallbackOk(c)
  /\ \A s \in loggedIn : s[2] # Nameless => IsOwn(s[2], s[1])

LEMMA AccountFirst == AccountInit => AccountInv
<1> SUFFICES ASSUME AccountInit PROVE AccountInv
  OBVIOUS
<1>1. AccountTypes
  BY DEF AccountInit, AccountTypes, NoCallback, NoEmail, Nameless, CallbackSteps, Account
<1>2. \A c \in Callbacks : CallbackOk(c)
  BY DEF AccountInit, CallbackOk, NoCallback
<1>3. DOMAIN users = {}
  BY DEF AccountInit
<1> QED
  BY <1>1, <1>2, <1>3 DEF AccountInit, AccountInv

\* A step may add addresses and accounts, give an account to another identity that
\* has had its address, and move one callback.
LEMMA AccountStep ==
  ASSUME AccountInv, AccountTypes',
         \A x \in Identities : owned[x] \subseteq owned'[x],
         \A x \in Identities : primary'[x].address \in owned'[x],
         \A u \in DOMAIN users : u \in DOMAIN users' /\ users'[u].email = users[u].email,
         \A u \in DOMAIN users' : users'[u].email.address \in owned'[users'[u].identity],
         \A u, v \in DOMAIN users' : users'[u].email = users'[v].email => u = v,
         \A c \in Callbacks : callback'[c] # callback[c] => CallbackOk(c)',
         \A s \in loggedIn' : s \in loggedIn \/ (s[2] # Nameless => IsOwn(s[2], s[1]))
  PROVE  AccountInv'
<1>1. ASSUME NEW u, NEW x \in Identities, IsOwn(u, x) PROVE IsOwn(u, x)'
  BY <1>1 DEF IsOwn
<1>2. ASSUME NEW c \in Callbacks, callback'[c] = callback[c] PROVE CallbackOk(c)'
  <2>1. CallbackOk(c)
    BY DEF AccountInv
  <2> QED
    BY <1>1, <1>2, <2>1 DEF CallbackOk
<1>3. \A c \in Callbacks : CallbackOk(c)'
  BY <1>2
<1>4. ASSUME NEW s \in loggedIn', s[2] # Nameless PROVE IsOwn(s[2], s[1])'
  <2>1. s[1] \in Identities
    BY <1>4 DEF AccountTypes
  <2> QED
    BY <1>1, <1>4, <2>1 DEF AccountInv
<1> QED
  BY <1>3, <1>4 DEF AccountInv

\* What a new account needs: an address of its identity, and one without account.
LEMMA NewAccount ==
  ASSUME AccountInv, NEW a \in Account, a.email.address \in owned[a.identity],
         HasEmail(a.email) = {}, users' = Append(users, a), UNCHANGED owned
  PROVE  /\ users' \in Seq(Account)
         /\ DOMAIN users' = DOMAIN users \cup {Len(users) + 1}
         /\ users'[Len(users) + 1] = a
         /\ \A u \in DOMAIN users : u \in DOMAIN users' /\ users'[u] = users[u]
         /\ \A u \in DOMAIN users' : users'[u].email.address \in owned'[users'[u].identity]
         /\ \A u, v \in DOMAIN users' : users'[u].email = users'[v].email => u = v
<1>1. users \in Seq(Account)
  BY DEF AccountInv, AccountTypes
<1>2. /\ users' \in Seq(Account)
      /\ DOMAIN users' = DOMAIN users \cup {Len(users) + 1}
      /\ users'[Len(users) + 1] = a
      /\ \A u \in DOMAIN users : u \in DOMAIN users' /\ users'[u] = users[u]
  BY <1>1
<1> QED
  BY <1>1, <1>2 DEF AccountInv, HasEmail

LEMMA AccountNextStep == AccountInv /\ [AccountNext]_accountVars => AccountInv'
<1> SUFFICES ASSUME AccountInv, [AccountNext]_accountVars PROVE AccountInv'
  OBVIOUS
<1>0. AccountTypes /\ \A c \in Callbacks : CallbackOk(c)
  BY DEF AccountInv
<1>k. \A c \in Callbacks : callback[c] \in [at : CallbackSteps, of : Identities \cup {"none"},
                                 email : Spelling \cup {NoEmail}, user : Nat]
  BY <1>0 DEF AccountTypes
\* One callback moves, and nothing else does but the sessions.
<1>1. ASSUME NEW c \in Callbacks, NEW k, callback' = [callback EXCEPT ![c] = k],
             k \in [at : CallbackSteps, of : Identities \cup {"none"},
                    email : Spelling \cup {NoEmail}, user : Nat],
             UNCHANGED <<primary, owned, users>>, CallbackOk(c)',
             loggedIn' \subseteq Identities \X Nat,
             \A s \in loggedIn' : s \in loggedIn \/ (s[2] # Nameless => IsOwn(s[2], s[1]))
      PROVE  AccountInv'
  <2>1. AccountTypes'
    BY <1>0, <1>1 DEF AccountTypes
  <2>2. \A d \in Callbacks : callback'[d] # callback[d] => CallbackOk(d)'
    BY <1>0, <1>1 DEF AccountTypes
  <2> QED
    BY <1>1, <2>1, <2>2, AccountStep DEF AccountInv
<1>2. ASSUME NEW c \in Callbacks, callback' = [callback EXCEPT ![c] = NoCallback],
             UNCHANGED <<primary, owned, users, loggedIn>>
      PROVE  AccountInv'
  <2>1. CallbackOk(c)'
    BY <1>0, <1>2 DEF CallbackOk, NoCallback, AccountTypes
  <2>2. NoCallback \in [at : CallbackSteps, of : Identities \cup {"none"},
                        email : Spelling \cup {NoEmail}, user : Nat]
    BY DEF NoCallback, CallbackSteps, Nameless
  <2> QED
    BY <1>0, <1>1, <1>2, <2>1, <2>2 DEF AccountTypes
<1>3. ASSUME NEW c \in Callbacks, NEW step \in CallbackSteps, NEW u \in Nat,
             CallbackGoes(c, step, u), callback[c].at # "idle",
             UNCHANGED <<primary, owned, users, loggedIn>>,
             step = "link" /\ u # Nameless =>
               u \in DOMAIN users /\ users[u].email = Lower(callback[c].email),
             step = "session" /\ u # Nameless => IsOwn(u, callback[c].of)
      PROVE  AccountInv'
  <2>1. PICK k : k = [callback[c] EXCEPT !.at = step, !.user = u]
    OBVIOUS
  <2>2. callback' = [callback EXCEPT ![c] = k] /\ callback'[c] = k
    BY <1>0, <1>3, <2>1 DEF CallbackGoes, AccountTypes
  <2>3. /\ k.at = step /\ k.user = u /\ k.of = callback[c].of /\ k.email = callback[c].email
        /\ k \in [at : CallbackSteps, of : Identities \cup {"none"},
                  email : Spelling \cup {NoEmail}, user : Nat]
    BY <1>k, <2>1
  <2>4. CallbackOk(c)'
    BY <1>0, <1>3, <2>2, <2>3 DEF CallbackOk, IsOwn
  <2> QED
    BY <1>0, <1>1, <1>3, <2>2, <2>3, <2>4 DEF AccountTypes
<1>4. ASSUME NEW x \in Identities, ChangeAddress(x) PROVE AccountInv'
  <2>1. PICK m \in Spelling : /\ primary' = [primary EXCEPT ![x] = m]
                              /\ owned' = [owned EXCEPT ![x] = @ \cup {m.address}]
    BY <1>4 DEF ChangeAddress
  <2>2. UNCHANGED <<users, callback, loggedIn>>
    BY <1>4 DEF ChangeAddress
  <2>3. AccountTypes'
    BY <1>0, <2>1, <2>2 DEF AccountTypes
  <2>4. /\ \A y \in Identities : owned[y] \subseteq owned'[y]
        /\ \A y \in Identities : primary'[y].address \in owned'[y]
    BY <1>0, <2>1 DEF AccountTypes, AccountInv
  <2>5. ASSUME NEW u \in DOMAIN users PROVE users[u].identity \in Identities
    <3>1. users[u] \in Account
      BY <1>0 DEF AccountTypes
    <3> QED
      BY <3>1 DEF Account
  <2> QED
    BY <2>2, <2>3, <2>4, <2>5, AccountStep DEF AccountInv
<1>5. ASSUME NEW c \in Callbacks, NEW x \in Identities, HandleCallback(c, x) PROVE AccountInv'
  <2>1. PICK k : k = [at |-> "findIdentity", of |-> x, email |-> primary[x], user |-> Nameless]
    OBVIOUS
  <2>2. /\ callback' = [callback EXCEPT ![c] = k] /\ callback'[c] = k
        /\ UNCHANGED <<primary, owned, users, loggedIn>>
    BY <1>0, <1>5, <2>1 DEF HandleCallback, AccountTypes
  <2>3. /\ k.at = "findIdentity" /\ k.of = x /\ k.email = primary[x]
        /\ k \in [at : CallbackSteps, of : Identities \cup {"none"},
                  email : Spelling \cup {NoEmail}, user : Nat]
    BY <1>0, <2>1 DEF AccountTypes, CallbackSteps, Nameless
  <2>4. CallbackOk(c)'
    BY <1>0, <2>2, <2>3 DEF CallbackOk, AccountInv, AccountTypes
  <2> QED
    BY <1>0, <1>1, <2>2, <2>3, <2>4 DEF AccountTypes
<1>6. ASSUME NEW c \in Callbacks, FindUserByOAuth(c) PROVE AccountInv'
  <2>1. callback[c].at # "idle" /\ UNCHANGED <<primary, owned, users, loggedIn>>
    BY <1>6 DEF FindUserByOAuth, CallbackAt
  <2>2. CASE CallbackGoes(c, "findEmail", Nameless)
    BY <1>3, <2>1, <2>2 DEF CallbackSteps, Nameless
  <2>3. CASE \E u \in DOMAIN users : users[u].identity = callback[c].of /\ CallbackGoes(c, "session", u)
    <3>1. PICK u \in DOMAIN users : users[u].identity = callback[c].of /\ CallbackGoes(c, "session", u)
      BY <2>3
    <3>2. u \in Nat /\ IsOwn(u, callback[c].of)
      BY <1>0, <3>1 DEF AccountTypes, IsOwn, AccountInv
    <3> QED
      BY <1>3, <2>1, <3>1, <3>2 DEF CallbackSteps
  <2> QED
    BY <1>6, <2>2, <2>3 DEF FindUserByOAuth
<1>7. ASSUME NEW c \in Callbacks, FindUserByEmail(c) PROVE AccountInv'
  <2>1. callback[c].at # "idle" /\ UNCHANGED <<primary, owned, users, loggedIn>>
    BY <1>7 DEF FindUserByEmail, CallbackAt
  <2>2. CASE CallbackGoes(c, "create", Nameless)
    BY <1>3, <2>1, <2>2 DEF CallbackSteps, Nameless
  <2>3. CASE \E u \in HasEmail(Lower(callback[c].email)) : CallbackGoes(c, "link", u)
    <3>1. PICK u \in HasEmail(Lower(callback[c].email)) : CallbackGoes(c, "link", u)
      BY <2>3
    <3>2. u \in Nat /\ u \in DOMAIN users /\ users[u].email = Lower(callback[c].email)
      BY <1>0, <3>1 DEF AccountTypes, HasEmail
    <3> QED
      BY <1>3, <2>1, <3>1, <3>2 DEF CallbackSteps
  <2> QED
    BY <1>7, <2>2, <2>3 DEF FindUserByEmail
<1>8. ASSUME NEW c \in Callbacks, LinkUser(c) PROVE AccountInv'
  <2> DEFINE k == callback[c]
  <2>1. /\ k.at = "link" /\ CallbackGoes(c, "session", k.user)
        /\ UNCHANGED <<primary, owned, loggedIn>>
    BY <1>8 DEF LinkUser, CallbackAt
  <2>2. CASE k.user = Nameless
    BY <1>3, <1>8, <2>1, <2>2 DEF LinkUser, CallbackSteps, Nameless
  <2>3. CASE k.user # Nameless
    <3>1. PICK u, x, m : u = k.user /\ x = k.of /\ m = k.email
      OBVIOUS
    <3>2. /\ u \in DOMAIN users /\ u \in Nat /\ users[u].email = Lower(m)
          /\ x \in Identities /\ m \in Spelling /\ m.address \in owned[x]
      BY <1>0, <1>k, <2>1, <2>3, <3>1 DEF CallbackOk
    <3>3. users' = [users EXCEPT ![u].identity = x]
      BY <1>8, <2>3, <3>1 DEF LinkUser
    <3>4. Lower(m).address = m.address
      BY <3>2 DEF Lower, Spelling
    <3>5. PICK a : a = [users[u] EXCEPT !.identity = x]
      OBVIOUS
    <3>6. users[u] \in Account
      BY <1>0, <3>2 DEF AccountTypes
    <3>7. a \in Account /\ a.email = users[u].email /\ a.identity = x
      BY <3>2, <3>5, <3>6 DEF Account
    <3>8. users \in Seq(Account) /\ users' = [users EXCEPT ![u] = a]
      BY <1>0, <3>3, <3>5 DEF AccountTypes
    <3>9. /\ users' \in Seq(Account) /\ DOMAIN users' = DOMAIN users
          /\ users'[u] = a /\ \A v \in DOMAIN users \ {u} : users'[v] = users[v]
      BY <3>2, <3>7, <3>8
    <3>10. \A v \in DOMAIN users : users'[v].email = users[v].email
      BY <3>7, <3>9
    <3>11. PICK n : n = [k EXCEPT !.at = "session", !.user = u]
      OBVIOUS
    <3>12. /\ n.at = "session" /\ n.user = u /\ n.of = x /\ n.email = m
           /\ n \in [at : CallbackSteps, of : Identities \cup {"none"},
                     email : Spelling \cup {NoEmail}, user : Nat]
      BY <1>k, <3>1, <3>2, <3>11 DEF CallbackSteps
    <3>13. callback' = [callback EXCEPT ![c] = n] /\ callback'[c] = n
      BY <1>0, <2>1, <3>1, <3>11 DEF CallbackGoes, AccountTypes
    <3>14. AccountTypes'
      BY <1>0, <2>1, <3>9, <3>12, <3>13 DEF AccountTypes
    <3>15. CallbackOk(c)'
      BY <2>1, <3>2, <3>4, <3>9, <3>10, <3>12, <3>13 DEF CallbackOk, IsOwn
    <3>16. \A d \in Callbacks : callback'[d] # callback[d] => CallbackOk(d)'
      BY <1>0, <3>13, <3>15 DEF AccountTypes
    <3>17. \A v \in DOMAIN users' : users'[v].email.address \in owned'[users'[v].identity]
      BY <2>1, <3>2, <3>4, <3>7, <3>9 DEF AccountInv
    <3>18. \A v, w \in DOMAIN users' : users'[v].email = users'[w].email => v = w
      BY <3>9, <3>10 DEF AccountInv
    <3> QED
      BY <2>1, <3>9, <3>10, <3>14, <3>16, <3>17, <3>18, AccountStep DEF AccountInv
  <2> QED
    BY <2>2, <2>3
<1>9. ASSUME NEW c \in Callbacks, CreateUser(c) PROVE AccountInv'
  <2> DEFINE k == callback[c]
  <2>1. k.at = "create" /\ UNCHANGED <<primary, owned, loggedIn>>
    BY <1>9 DEF CreateUser, CallbackAt
  <2>2. CASE HasEmail(k.email) # {}
    BY <1>2, <1>9, <2>1, <2>2 DEF CreateUser
  <2>3. CASE HasEmail(k.email) = {}
    <3>1. PICK x, m, a, u : /\ x = k.of /\ m = k.email /\ u = Len(users) + 1
                            /\ a = [email |-> m, identity |-> x]
      OBVIOUS
    <3>2. x \in Identities /\ m \in Spelling /\ m.address \in owned[x]
      BY <1>0, <2>1, <3>1 DEF CallbackOk
    <3>3. a \in Account /\ a.email = m /\ a.identity = x
      BY <3>1, <3>2 DEF Account
    <3>4. users' = Append(users, a) /\ CallbackGoes(c, "session", u)
      BY <1>9, <2>3, <3>1 DEF CreateUser
    <3>5. /\ users' \in Seq(Account)
          /\ DOMAIN users' = DOMAIN users \cup {u} /\ users'[u] = a
          /\ \A v \in DOMAIN users : v \in DOMAIN users' /\ users'[v] = users[v]
          /\ \A v \in DOMAIN users' : users'[v].email.address \in owned'[users'[v].identity]
          /\ \A v, w \in DOMAIN users' : users'[v].email = users'[w].email => v = w
      BY <2>1, <2>3, <3>1, <3>2, <3>3, <3>4, NewAccount
    <3>6. PICK n : n = [k EXCEPT !.at = "session", !.user = u]
      OBVIOUS
    <3>7. u \in Nat
      BY <1>0, <3>1 DEF AccountTypes
    <3>8. /\ n.at = "session" /\ n.user = u /\ n.of = x /\ n.email = m
          /\ n \in [at : CallbackSteps, of : Identities \cup {"none"},
                    email : Spelling \cup {NoEmail}, user : Nat]
      BY <1>k, <3>1, <3>2, <3>6, <3>7 DEF CallbackSteps
    <3>9. callback' = [callback EXCEPT ![c] = n] /\ callback'[c] = n
      BY <1>0, <3>4, <3>6 DEF CallbackGoes, AccountTypes
    <3>10. AccountTypes'
      BY <1>0, <2>1, <3>5, <3>8, <3>9 DEF AccountTypes
    <3>11. CallbackOk(c)'
      BY <2>1, <3>2, <3>3, <3>5, <3>8, <3>9 DEF CallbackOk, IsOwn
    <3>12. \A d \in Callbacks : callback'[d] # callback[d] => CallbackOk(d)'
      BY <1>0, <3>9, <3>11 DEF AccountTypes
    <3> QED
      BY <2>1, <3>5, <3>10, <3>12, AccountStep DEF AccountInv
  <2> QED
    BY <2>2, <2>3
<1>10. ASSUME NEW c \in Callbacks, OAuthLogin(c) PROVE AccountInv'
  <2>1. PICK x, u : x = callback[c].of /\ u = callback[c].user
    OBVIOUS
  <2>2. /\ loggedIn' = loggedIn \cup {<<x, u>>} /\ callback[c].at = "session"
        /\ callback' = [callback EXCEPT ![c] = NoCallback]
        /\ UNCHANGED <<primary, owned, users>>
    BY <1>10, <2>1 DEF OAuthLogin, CallbackAt
  <2>3. x \in Identities /\ u \in Nat /\ (u # Nameless => IsOwn(u, x))
    BY <1>0, <1>k, <2>1, <2>2 DEF CallbackOk
  <2>4. CallbackOk(c)'
    BY <1>0, <2>2 DEF CallbackOk, NoCallback, AccountTypes
  <2>5. NoCallback \in [at : CallbackSteps, of : Identities \cup {"none"},
                        email : Spelling \cup {NoEmail}, user : Nat]
    BY DEF NoCallback, CallbackSteps, Nameless
  <2>6. loggedIn' \subseteq Identities \X Nat
    BY <1>0, <2>2, <2>3 DEF AccountTypes
  <2>7. \A s \in loggedIn' : s \in loggedIn \/ (s[2] # Nameless => IsOwn(s[2], s[1]))
    BY <2>2, <2>3
  <2> QED
    BY <1>1, <2>2, <2>4, <2>5, <2>6, <2>7
<1>11. ASSUME NEW c \in Callbacks, DatabaseError(c) PROVE AccountInv'
  <2>1. UNCHANGED <<primary, owned, users, loggedIn>>
    BY <1>11 DEF DatabaseError
  <2>2. CASE callback' = [callback EXCEPT ![c] = NoCallback]
    BY <1>2, <2>1, <2>2
  <2>3. CASE CallbackAt(c, "findIdentity") /\ CallbackGoes(c, "session", Nameless)
    BY <1>3, <2>1, <2>3 DEF CallbackAt, CallbackSteps, Nameless
  <2>4. CASE CallbackAt(c, "findEmail") /\ CallbackGoes(c, "link", Nameless)
    BY <1>3, <2>1, <2>4 DEF CallbackAt, CallbackSteps, Nameless
  <2> QED
    BY <1>11, <2>2, <2>3, <2>4 DEF DatabaseError
<1>12. CASE UNCHANGED accountVars
  BY <1>12 DEF accountVars, AccountInv, AccountTypes, CallbackOk, IsOwn
<1> QED
  BY <1>4, <1>5, <1>6, <1>7, <1>8, <1>9, <1>10, <1>11, <1>12 DEF AccountNext, SignIn

\* However callbacks overlap and identities change their addresses, nobody is signed
\* in to an account with an address that was never his, and no address has two
\* accounts under one spelling (FindOrCreateOAuthUser of auth/service.go).
THEOREM AccountsCorrect == AccountSpec => []AccountsAreOwn
<1>1. AccountInv => AccountsAreOwn
  BY DEF AccountInv, AccountsAreOwn, IsOwn
<1> QED
  BY <1>1, AccountFirst, AccountNextStep, PTL DEF AccountSpec

----------------------------------------------------------------------------
(* Saved tokens *)

CommandSteps == {"idle", "call", "refresh", "mint", "save", "clear"}
SavedTokens == Sids \cup {NoTokens}

SessionTypes ==
  /\ document \in [Sids -> {"none", "live", "gone"}]
  /\ keychain \in {"up", "failing", "back"}
  /\ {inKeychain, inFile, lastLogin} \subseteq SavedTokens
  /\ command \in [Commands -> [at : CommandSteps, sid : SavedTokens]]
  /\ mixed \in BOOLEAN /\ outages \in Nat

\* Why the tokens of the last login may have been cleared.
Excused == document[lastLogin] = "gone" \/ outages > 0

\* While no login or logout has overlapped a command, every command that runs has
\* read the tokens of the last login, and clears them with an excuse only.
InOrder ==
  /\ Load \in {lastLogin, NoTokens}
  /\ Load = NoTokens /\ lastLogin # NoTokens => Excused \/ keychain = "failing"
  /\ \A p \in Commands : command[p].at # "idle" =>
       command[p].sid = lastLogin /\ lastLogin # NoTokens
  /\ \A p \in Commands : command[p].at = "clear" => Excused

SessionInv ==
  /\ SessionTypes
  /\ keychain = "up" => inFile = NoTokens
  /\ lastLogin # NoTokens => document[lastLogin] # "none"
  /\ ~mixed /\ keychain # "back" => InOrder

LEMMA SessionFirst == SessionInit => SessionInv
<1> SUFFICES ASSUME SessionInit PROVE SessionInv
  OBVIOUS
<1>1. SessionTypes
  BY SessionAssumption DEF SessionInit, SessionTypes, SavedTokens, CommandSteps, Rests, NoTokens
<1>2. Load = NoTokens /\ \A p \in Commands : command[p].at = "idle"
  BY DEF SessionInit, Load, Rests
<1> QED
  BY <1>1, <1>2 DEF SessionInit, SessionInv, InOrder

\* Where the tokens stay as they are, and documents only go.
LEMMA TokensStay ==
  ASSUME SessionInv, SessionTypes', UNCHANGED <<inKeychain, inFile, lastLogin, mixed>>,
         \/ keychain' = keychain
         \/ keychain = "up" /\ keychain' = "failing"
         \/ keychain' = "back",
         \A s \in Sids : document[s] # "none" => document'[s] # "none",
         \A s \in Sids : document[s] = "gone" => document'[s] = "gone",
         outages' >= outages,
         \A p \in Commands :
           \/ command'[p] = command[p]
           \/ InOrder /\ command'[p].at # "idle" =>
                /\ command'[p].sid = lastLogin /\ lastLogin # NoTokens
                /\ command'[p].at = "clear" => Excused'
  PROVE  SessionInv'
<1>1. SessionTypes /\ lastLogin \in SavedTokens /\ outages \in Nat /\ outages' \in Nat
  BY DEF SessionInv, SessionTypes
<1>2. lastLogin # NoTokens => lastLogin \in Sids
  BY <1>1 DEF SavedTokens
<1>3. Excused /\ lastLogin # NoTokens => Excused'
  BY <1>1, <1>2 DEF Excused
<1>4. lastLogin' # NoTokens => document'[lastLogin'] # "none"
  BY <1>2 DEF SessionInv
<1>5. keychain' = "up" => inFile' = NoTokens
  BY DEF SessionInv
<1>6. ASSUME ~mixed', keychain' # "back" PROVE InOrder'
  <2>1. InOrder
    BY <1>1, <1>6 DEF SessionInv, SessionTypes
  <2>2. CASE keychain' = keychain
    <3>1. Load' = Load
      BY <2>2 DEF Load
    <3>2. ASSUME NEW p \in Commands, command'[p].at # "idle"
          PROVE  command'[p].sid = lastLogin /\ lastLogin # NoTokens
      BY <2>1, <3>2 DEF InOrder
    <3>3. ASSUME NEW p \in Commands, command'[p].at = "clear" PROVE Excused'
      BY <1>3, <2>1, <3>3 DEF InOrder
    <3> QED
      BY <1>3, <2>1, <2>2, <3>1, <3>2, <3>3 DEF InOrder
  <2>3. CASE keychain = "up" /\ keychain' = "failing"
    <3>1. Load' = NoTokens
      BY <2>3 DEF Load, SessionInv
    <3>2. ASSUME NEW p \in Commands, command'[p].at # "idle"
          PROVE  command'[p].sid = lastLogin /\ lastLogin # NoTokens
      BY <2>1, <3>2 DEF InOrder
    <3>3. ASSUME NEW p \in Commands, command'[p].at = "clear" PROVE Excused'
      BY <1>3, <2>1, <3>3 DEF InOrder
    <3> QED
      BY <2>3, <3>1, <3>2, <3>3 DEF InOrder
  <2> QED
    BY <1>6, <2>2, <2>3
<1> QED
  BY <1>4, <1>5, <1>6 DEF SessionInv

\* A step of a command that leaves the tokens alone.
LEMMA CommandGoes ==
  ASSUME SessionInv, NEW p \in Commands, NEW n \in [at : CommandSteps, sid : SavedTokens],
         command' = [command EXCEPT ![p] = n],
         UNCHANGED <<document, keychain, inKeychain, inFile, lastLogin, mixed>>,
         outages' \in Nat, outages' >= outages,
         InOrder /\ n.at # "idle" => /\ n.sid = lastLogin /\ lastLogin # NoTokens
                                     /\ n.at = "clear" => Excused'
  PROVE  SessionInv'
<1>1. SessionTypes /\ command'[p] = n /\ \A q \in Commands \ {p} : command'[q] = command[q]
  BY DEF SessionInv, SessionTypes
<1>2. SessionTypes'
  BY <1>1 DEF SessionTypes
<1>3. ASSUME NEW q \in Commands
      PROVE  \/ command'[q] = command[q]
             \/ InOrder /\ command'[q].at # "idle" =>
                  /\ command'[q].sid = lastLogin /\ lastLogin # NoTokens
                  /\ command'[q].at = "clear" => Excused'
  BY <1>1
<1> QED
  BY <1>2, <1>3, TokensStay

\* Saving the tokens of the last login, or clearing them with an excuse, at the end
\* of a command.
LEMMA TokensChange ==
  ASSUME SessionInv, NEW p \in Commands, Rest(p), UNCHANGED <<document, keychain, outages>>,
         UNCHANGED <<lastLogin, mixed>>,
         \/ Save(command[p].sid) /\ command[p].at = "save"
         \/ Clear /\ command[p].at = "clear"
  PROVE  SessionInv'
<1>1. /\ SessionTypes /\ command'[p] = Rests
      /\ \A q \in Commands \ {p} : command'[q] = command[q]
      /\ command[p].sid \in SavedTokens
  BY DEF SessionInv, SessionTypes, Rest
<1>2. NoTokens \in SavedTokens /\ Rests \in [at : CommandSteps, sid : SavedTokens]
  BY DEF SavedTokens, Rests, CommandSteps
<1>3. inKeychain' \in SavedTokens /\ inFile' \in SavedTokens
  BY <1>1, <1>2 DEF Save, Clear, SessionTypes
<1>4. SessionTypes'
  BY <1>1, <1>2, <1>3 DEF SessionTypes, Rest
<1>5. keychain' = "up" => inFile' = NoTokens
  BY DEF SessionInv, Save, Clear
<1>6. ASSUME ~mixed', keychain' # "back" PROVE InOrder'
  <2>1. InOrder /\ command[p].sid = lastLogin /\ lastLogin # NoTokens
    BY <1>6 DEF SessionInv, InOrder
  <2>2. Excused' = Excused
    BY DEF Excused
  <2>3. \A q \in Commands : command'[q].at # "idle" => q # p
    BY <1>1 DEF Rests
  <2>4. CASE Save(command[p].sid)
    <3>1. Load' = lastLogin
      BY <1>1, <1>6, <2>1, <2>4 DEF Save, Load, SessionTypes, SessionInv
    <3> QED
      BY <1>1, <2>1, <2>2, <2>3, <3>1 DEF InOrder
  <2>5. CASE Clear /\ command[p].at = "clear"
    <3>1. Load' = NoTokens
      BY <1>1, <1>6, <2>5 DEF Clear, Load, SessionTypes
    <3>2. Excused
      BY <2>1, <2>5 DEF InOrder
    <3> QED
      BY <1>1, <2>1, <2>2, <2>3, <3>1, <3>2 DEF InOrder
  <2> QED
    BY <2>4, <2>5
<1> QED
  BY <1>4, <1>5, <1>6 DEF SessionInv

LEMMA SessionNextStep == SessionInv /\ [SessionNext]_authVars => SessionInv'
<1> SUFFICES ASSUME SessionInv, [SessionNext]_authVars PROVE SessionInv'
  OBVIOUS
<1>0. /\ SessionTypes /\ outages \in Nat
      /\ \A p \in Commands : command[p] \in [at : CommandSteps, sid : SavedTokens]
  BY DEF SessionInv, SessionTypes
<1>r. Rests \in [at : CommandSteps, sid : SavedTokens] /\ Rests.at = "idle"
  BY DEF Rests, CommandSteps, SavedTokens
\* A step of the server, on one session.
<1>1. ASSUME NEW s \in Sids, UNCHANGED clientVars,
             \/ document' = document
             \/ document[s] = "none" /\ document' = [document EXCEPT ![s] = "live"]
             \/ document[s] = "live" /\ document' = [document EXCEPT ![s] = "gone"]
      PROVE  SessionInv'
  <2>1. SessionTypes'
    BY <1>0, <1>1 DEF SessionTypes, clientVars
  <2>2. \A t \in Sids : /\ document[t] # "none" => document'[t] # "none"
                        /\ document[t] = "gone" => document'[t] = "gone"
    BY <1>0, <1>1 DEF SessionTypes
  <2> QED
    BY <1>0, <1>1, <2>1, <2>2, TokensStay DEF clientVars
<1>2. ASSUME NEW p \in Commands, Begin(p) PROVE SessionInv'
  <2>1. PICK n : n = [at |-> "call", sid |-> Load]
    OBVIOUS
  <2>2. Load \in SavedTokens /\ Load # NoTokens
    BY <1>0, <1>2 DEF Load, SessionTypes, Begin
  <2>3. n \in [at : CommandSteps, sid : SavedTokens] /\ n.at = "call" /\ n.sid = Load
    BY <2>1, <2>2 DEF CommandSteps
  <2>4. InOrder => n.sid = lastLogin /\ lastLogin # NoTokens
    BY <2>2, <2>3 DEF InOrder
  <2>5. command' = [command EXCEPT ![p] = n]
    BY <1>2, <2>1 DEF Begin
  <2> QED
    <3>1. /\ UNCHANGED <<document, keychain, inKeychain, inFile, lastLogin, mixed>>
          /\ outages' \in Nat /\ outages' >= outages
      BY <1>0, <1>2 DEF Begin
    <3> QED
      BY <2>3, <2>4, <2>5, <3>1, CommandGoes
<1>3. ASSUME NEW p \in Commands, Rest(p), UNCHANGED document, outages' \in Nat,
             UNCHANGED <<keychain, inKeychain, inFile, lastLogin, mixed>>, outages' >= outages
      PROVE  SessionInv'
  <2>1. PICK n : n = Rests
    OBVIOUS
  <2>2. n \in [at : CommandSteps, sid : SavedTokens] /\ n.at = "idle"
    BY <1>r, <2>1
  <2>3. command' = [command EXCEPT ![p] = n]
    BY <1>3, <2>1 DEF Rest
  <2> QED
    BY <1>3, <2>2, <2>3, CommandGoes
<1>4. ASSUME NEW p \in Commands, NEW at \in CommandSteps, Goes(p, at), command[p].at # "idle",
             UNCHANGED <<document, keychain, inKeychain, inFile, lastLogin, mixed>>,
             outages' \in Nat, outages' >= outages,
             InOrder /\ at = "clear" => Excused'
      PROVE  SessionInv'
  <2>1. PICK n : n = [command[p] EXCEPT !.at = at]
    OBVIOUS
  <2>2. /\ n \in [at : CommandSteps, sid : SavedTokens]
        /\ n.at = at /\ n.sid = command[p].sid
    BY <1>0, <2>1
  <2>3. command' = [command EXCEPT ![p] = n]
    BY <1>4, <2>1 DEF Goes
  <2>4. InOrder => command[p].sid = lastLogin /\ lastLogin # NoTokens
    BY <1>4 DEF InOrder
  <2> QED
    BY <1>4, <2>2, <2>3, <2>4, CommandGoes
<1>5. ASSUME NEW p \in Commands, Proceeds(p) PROVE SessionInv'
  <2>1. CASE Ask(p)
    <3>1. /\ command[p].at = "call"
          /\ Rest(p) \/ Goes(p, "refresh")
          /\ UNCHANGED <<document, keychain, inKeychain, inFile, lastLogin, mixed, outages>>
      BY <2>1 DEF Ask, Does
    <3> QED
      BY <1>0, <1>3, <1>4, <3>1 DEF CommandSteps
  <2>2. CASE Refresh(p)
    <3>1. /\ command[p].at = "refresh"
          /\ UNCHANGED <<document, keychain, inKeychain, inFile, lastLogin, mixed, outages>>
      BY <2>2 DEF Refresh, Does
    <3>2. CASE Goes(p, "mint")
      BY <1>0, <1>4, <3>1, <3>2 DEF CommandSteps
    <3>3. CASE Goes(p, "clear") /\ ~FindSession(command[p].sid)
      <4>1. InOrder => command[p].sid = lastLogin /\ lastLogin # NoTokens
        BY <3>1 DEF InOrder
      <4>2. InOrder => lastLogin \in Sids /\ document[lastLogin] \in {"live", "gone"}
        BY <1>0, <4>1 DEF SessionTypes, SavedTokens, SessionInv
      <4>3. InOrder => Excused'
        BY <3>1, <3>3, <4>1, <4>2 DEF FindSession, Excused
      <4> QED
        <5>1. /\ outages' \in Nat /\ outages' >= outages /\ "clear" \in CommandSteps
              /\ command[p].at # "idle"
          BY <1>0, <3>1 DEF CommandSteps
        <5>2. PICK at \in CommandSteps : at = "clear"
          BY <5>1
        <5> QED
          BY <1>4, <3>1, <3>3, <4>3, <5>1, <5>2
    <3> QED
      BY <2>2, <3>2, <3>3 DEF Refresh
  <2>3. CASE Minted(p)
    BY <1>0, <1>4, <2>3 DEF Minted, Does, CommandSteps
  <2>4. CASE SaveTokens(p)
    BY <2>4, TokensChange DEF SaveTokens, Does
  <2>5. CASE ClearTokens(p)
    BY <2>5, TokensChange DEF ClearTokens, Does
  <2> QED
    BY <1>5, <2>1, <2>2, <2>3, <2>4, <2>5 DEF Proceeds
<1>6. ASSUME NEW p \in Commands, Outage(p) PROVE SessionInv'
  <2>1. /\ outages' \in Nat /\ outages' > 0 /\ outages' >= outages
        /\ UNCHANGED <<document, keychain, inKeychain, inFile, lastLogin, mixed>>
        /\ Rest(p) \/ (command[p].at # "idle" /\ Goes(p, "clear"))
    BY <1>0, <1>6 DEF Outage, Does
  <2> QED
    BY <1>3, <1>4, <2>1 DEF CommandSteps, Excused
\* A login or logout starts anew.
<1>7. ASSUME NEW p \in Commands, NEW s \in SavedTokens, UNCHANGED <<keychain, command, outages>>,
             Does(p, "idle"), lastLogin' = s, mixed' = ~Alone(p),
             (keychain # "back" => Load' = s) /\ (keychain = "up" => inFile' = NoTokens),
             SessionTypes', s # NoTokens => document'[s] # "none"
      PROVE  SessionInv'
  <2>1. ~mixed' => \A q \in Commands : command'[q].at = "idle"
    BY <1>7 DEF Alone, Does
  <2> QED
    BY <1>7, <2>1 DEF SessionInv, InOrder
<1>8. ASSUME NEW p \in Commands, NEW s \in Sids, LoginCommand(p, s) PROVE SessionInv'
  <2>1. /\ s \in SavedTokens /\ s # NoTokens
        /\ Save(s) /\ document' = [document EXCEPT ![s] = "live"]
        /\ UNCHANGED <<keychain, command, outages>>
        /\ Does(p, "idle") /\ lastLogin' = s /\ mixed' = ~Alone(p)
    BY <1>8, SessionAssumption DEF LoginCommand, CreateSession, SavedTokens, NoTokens
  <2>2. /\ keychain # "back" => Load' = s
        /\ keychain = "up" => inFile' = NoTokens
    BY <1>0, <2>1 DEF Save, Load, SessionTypes, SessionInv
  <2>3. inKeychain' \in SavedTokens /\ inFile' \in SavedTokens
    BY <1>0, <2>1 DEF Save, SessionTypes
  <2>4. document' \in [Sids -> {"none", "live", "gone"}] /\ document'[s] = "live"
    BY <1>0, <2>1 DEF SessionTypes
  <2>5. SessionTypes'
    BY <1>0, <2>1, <2>3, <2>4 DEF SessionTypes
  <2> QED
    BY <1>7, <2>1, <2>2, <2>4, <2>5
<1>9. ASSUME NEW p \in Commands, LogoutCommand(p) PROVE SessionInv'
  <2>1. /\ NoTokens \in SavedTokens /\ Clear /\ UNCHANGED <<document, keychain, command, outages>>
        /\ Does(p, "idle") /\ lastLogin' = NoTokens /\ mixed' = ~Alone(p)
    BY <1>9 DEF LogoutCommand, SavedTokens
  <2>2. /\ keychain # "back" => Load' = NoTokens
        /\ keychain = "up" => inFile' = NoTokens
    BY <1>0, <2>1 DEF Clear, Load, SessionTypes
  <2>3. SessionTypes'
    BY <1>0, <2>1 DEF SessionTypes, Clear
  <2>4. PICK s : s = NoTokens
    OBVIOUS
  <2> QED
    BY <1>7, <2>1, <2>2, <2>3, <2>4
<1>10. CASE KeychainChanges
  <2>1. SessionTypes'
    BY <1>0, <1>10 DEF SessionTypes, KeychainChanges
  <2> QED
    BY <1>0, <1>10, <2>1, TokensStay DEF KeychainChanges
<1>11. CASE UNCHANGED authVars
  <2>1. SessionTypes'
    BY <1>0, <1>11 DEF SessionTypes, authVars, clientVars
  <2> QED
    BY <1>0, <1>11, <2>1, TokensStay DEF authVars, clientVars
<1>12. ASSUME NEW s \in Sids, BrowserLogin(s) \/ RefreshToken(s) \/ GenerateAccessToken(s)
                              \/ EndSession(s) \/ TokenExpires(s)
       PROVE  SessionInv'
  <2>1. UNCHANGED clientVars
    BY <1>12 DEF BrowserLogin, RefreshToken, GenerateAccessToken, EndSession, TokenExpires
  <2>2. \/ document' = document
        \/ document[s] = "none" /\ document' = [document EXCEPT ![s] = "live"]
        \/ document[s] = "live" /\ document' = [document EXCEPT ![s] = "gone"]
    BY <1>12 DEF BrowserLogin, RefreshToken, GenerateAccessToken, EndSession, TokenExpires,
       CreateSession
  <2> QED
    BY <1>1, <2>1, <2>2
<1> QED
  BY <1>2, <1>5, <1>6, <1>8, <1>9, <1>10, <1>11, <1>12 DEF SessionNext

\* What commands leave on disk is the last login, and no hole where a live session
\* should be (client.go, authstore/store.go, login.go and logout.go), but for what the
\* property excepts: overlapping commands, a keychain that came back, and outages.
THEOREM TokensCorrect == SessionSpec => []TokensAreLastLogin
<1>1. SessionInv => TokensAreLastLogin
  BY DEF SessionInv, InOrder, TokensAreLastLogin, Excused
<1> QED
  BY <1>1, SessionFirst, SessionNextStep, PTL DEF SessionSpec

----------------------------------------------------------------------------
(* Counting in sequences *)

Hits(q, e) == {n \in DOMAIN q : q[n] = e}
Count(q, e) == Cardinality(Hits(q, e))

LEMMA ShiftedSet ==
  ASSUME NEW A, NEW B, IsFiniteSet(B), NEW f \in [A -> B],
         \A x, y \in A : f[x] = f[y] => x = y,
         \A y \in B : \E x \in A : f[x] = y
  PROVE  IsFiniteSet(A) /\ Cardinality(A) = Cardinality(B)
<1>1. f \in Injection(A, B) /\ f \in Surjection(A, B)
  BY Fun_IsInj, Fun_IsSurj
<1> QED
  BY <1>1, FS_Injection

LEMMA CountType ==
  ASSUME NEW S, NEW q \in Seq(S), NEW e
  PROVE  IsFiniteSet(Hits(q, e)) /\ Count(q, e) \in Nat
<1>1. IsFiniteSet(1..Len(q)) /\ Hits(q, e) \in SUBSET (1..Len(q))
  BY FS_Interval DEF Hits
<1>2. IsFiniteSet(Hits(q, e))
  BY <1>1, FS_Subset
<1> QED
  BY <1>2, FS_CardinalityType DEF Count

LEMMA CountEmpty == \A e : Count(<<>>, e) = 0
<1>1. \A e : Hits(<<>>, e) = {}
  BY DEF Hits
<1> QED
  BY <1>1, FS_EmptySet DEF Count

LEMMA CountAppend ==
  ASSUME NEW S, NEW q \in Seq(S), NEW x \in S, NEW e
  PROVE  Count(Append(q, x), e) = Count(q, e) + (IF x = e THEN 1 ELSE 0)
<1>0. IsFiniteSet(Hits(q, e)) /\ Count(q, e) \in Nat
  BY CountType
<1>1. CASE x = e
  <2>1. Hits(Append(q, x), e) = Hits(q, e) \cup {Len(q) + 1}
    BY <1>1 DEF Hits
  <2>2. Len(q) + 1 \notin Hits(q, e)
    BY DEF Hits
  <2> QED
    BY <1>0, <1>1, <2>1, <2>2, FS_AddElement DEF Count
<1>2. CASE x # e
  <2>1. Hits(Append(q, x), e) = Hits(q, e)
    BY <1>2 DEF Hits
  <2> QED
    BY <1>0, <1>2, <2>1 DEF Count
<1> QED
  BY <1>1, <1>2

LEMMA CountTail ==
  ASSUME NEW S, NEW q \in Seq(S), q # <<>>, NEW e
  PROVE  Count(q, e) = Count(Tail(q), e) + (IF Head(q) = e THEN 1 ELSE 0)
<1> DEFINE A == Hits(Tail(q), e)
           B == Hits(q, e) \ {1}
           f == [n \in A |-> n + 1]
<1>t. Tail(q) \in Seq(S)
  OBVIOUS
<1>0. /\ IsFiniteSet(Hits(q, e)) /\ Count(q, e) \in Nat
      /\ Count(Tail(q), e) \in Nat
  BY <1>t, CountType
<1>1. IsFiniteSet(B) /\ Cardinality(B) = IF 1 \in Hits(q, e) THEN Count(q, e) - 1 ELSE Count(q, e)
  BY <1>0, FS_RemoveElement DEF Count
<1>2. 1 \in Hits(q, e) <=> Head(q) = e
  BY DEF Hits
<1>3. f \in [A -> B]
  BY DEF Hits
<1>4. \A x, y \in A : f[x] = f[y] => x = y
  BY DEF Hits
<1>5. ASSUME NEW y \in B PROVE \E x \in A : f[x] = y
  <2>1. y - 1 \in A
    BY DEF Hits
  <2>2. f[y - 1] = y
    BY <2>1 DEF Hits
  <2> QED
    BY <2>1, <2>2
<1>6. Cardinality(A) = Cardinality(B)
  <2> HIDE DEF A, B, f
  <2> QED
    BY <1>1, <1>3, <1>4, <1>5, ShiftedSet
<1> QED
  BY <1>0, <1>1, <1>2, <1>6 DEF Count

LEMMA CountPrefix ==
  ASSUME NEW S, NEW q \in Seq(S), NEW n \in 0..Len(q), NEW e
  PROVE  Count(SubSeq(q, 1, n), e) <= Count(q, e)
<1>1. Hits(SubSeq(q, 1, n), e) \in SUBSET Hits(q, e)
  BY DEF Hits
<1>2. IsFiniteSet(Hits(q, e))
  BY CountType
<1> QED
  BY <1>1, <1>2, FS_Subset DEF Count

----------------------------------------------------------------------------
(* The event bus *)


BusTypes ==
  /\ publishing \in [Events -> {"none", "remote", "local", "done"}]
  /\ busQueue \in [Instances -> Seq(Events)]
  /\ buffer \in [Streams -> Seq(Events)] /\ received \in [Streams -> Seq(Events)]
  /\ doubtful \subseteq Events

\* Also the copies on their way to the stream's instance, and how many there may be.
AllCopies(s, e) == Copies(s, e) + Count(busQueue[Home[s]], e)
Allowance(e) == (IF publishing[e] = "done" THEN 1 ELSE 0) + (IF e \in doubtful THEN 1 ELSE 0)

BusInv ==
  /\ BusTypes
  /\ \A e \in doubtful : publishing[e] \in {"local", "done"}
  /\ \A s \in Streams, e \in Events : AllCopies(s, e) <= Allowance(e)

LEMMA CopiesCount ==
  ASSUME NEW s, NEW e
  PROVE  Copies(s, e) = Count(received[s], e) + Count(buffer[s], e)
BY DEF Copies, Count, Hits

LEMMA BusFirst == BusInit => BusInv
<1> SUFFICES ASSUME BusInit PROVE BusInv
  OBVIOUS
<1>1. BusTypes
  BY DEF BusInit, BusTypes
<1>2. ASSUME NEW s \in Streams, NEW e \in Events PROVE AllCopies(s, e) <= Allowance(e)
  <2>1. received[s] = <<>> /\ buffer[s] = <<>> /\ busQueue[Home[s]] = <<>>
    BY BusAssumption DEF BusInit, BusAssumption
  <2>2. AllCopies(s, e) = 0
    BY <2>1, CountEmpty, CopiesCount DEF AllCopies
  <2>3. Allowance(e) = 0
    BY DEF BusInit, Allowance
  <2> QED
    BY <2>2, <2>3
<1> QED
  BY <1>1, <1>2 DEF BusInv, BusInit

CopiesAreNumbers ==
  \A s \in Streams, e \in Events :
    /\ Count(received[s], e) \in Nat /\ Count(buffer[s], e) \in Nat
    /\ Count(busQueue[Home[s]], e) \in Nat
    /\ AllCopies(s, e) \in Nat /\ Allowance(e) \in Nat

LEMMA CopyTypes == BusTypes => CopiesAreNumbers
<1> SUFFICES ASSUME BusTypes, NEW s \in Streams, NEW e \in Events
             PROVE  /\ Count(received[s], e) \in Nat /\ Count(buffer[s], e) \in Nat
                    /\ Count(busQueue[Home[s]], e) \in Nat
                    /\ AllCopies(s, e) \in Nat /\ Allowance(e) \in Nat
  BY DEF CopiesAreNumbers
<1>1. Home[s] \in Instances
  BY BusAssumption DEF BusAssumption
<1>2. received[s] \in Seq(Events) /\ buffer[s] \in Seq(Events)
      /\ busQueue[Home[s]] \in Seq(Events)
  BY <1>1 DEF BusTypes
<1>3. /\ Count(received[s], e) \in Nat /\ Count(buffer[s], e) \in Nat
      /\ Count(busQueue[Home[s]], e) \in Nat
  BY <1>2, CountType
<1>4. AllCopies(s, e) \in Nat
  BY <1>3, CopiesCount DEF AllCopies
<1> QED
  BY <1>3, <1>4 DEF Allowance

\* A step may take copies away, or add one of an event whose allowance it raises.
LEMMA BusStep ==
  ASSUME BusInv, BusTypes', doubtful \subseteq doubtful',
         \A e \in doubtful' : publishing'[e] \in {"local", "done"},
         \A s \in Streams, e \in Events :
           \/ AllCopies(s, e)' <= AllCopies(s, e) /\ Allowance(e)' >= Allowance(e)
           \/ AllCopies(s, e)' <= AllCopies(s, e) + 1 /\ Allowance(e)' >= Allowance(e) + 1
  PROVE  BusInv'
<1>1. ASSUME NEW s \in Streams, NEW e \in Events PROVE AllCopies(s, e)' <= Allowance(e)'
  <2>1. AllCopies(s, e) \in Nat /\ Allowance(e) \in Nat /\ AllCopies(s, e) <= Allowance(e)
    BY CopyTypes DEF BusInv, CopiesAreNumbers
  <2>p. CopiesAreNumbers'
    BY CopyTypes, PTL
  <2>2. AllCopies(s, e)' \in Nat /\ Allowance(e)' \in Nat
    BY <2>p DEF CopiesAreNumbers
  <2> QED
    BY <2>1, <2>2
<1> QED
  BY <1>1 DEF BusInv

LEMMA Deliveries ==
  ASSUME BusTypes, NEW i, NEW x \in Events, Deliver(i, x)
  PROVE  /\ buffer' \in [Streams -> Seq(Events)]
         /\ \A s \in Streams, e \in Events :
              Count(buffer'[s], e)
                <= Count(buffer[s], e) + (IF Home[s] = i /\ x = e THEN 1 ELSE 0)
<1>1. buffer \in [Streams -> Seq(Events)]
  BY DEF BusTypes
<1>2. ASSUME NEW s \in Streams
      PROVE  \/ buffer'[s] = buffer[s]
             \/ Home[s] = i /\ buffer'[s] = Append(buffer[s], x)
  BY DEF Deliver, Listening
<1>3. buffer' \in [Streams -> Seq(Events)]
  <2>1. \A s \in Streams : buffer'[s] \in Seq(Events)
    BY <1>1, <1>2
  <2>2. buffer' = [s \in Streams |-> buffer'[s]]
    BY DEF Deliver
  <2> QED
    BY <2>1, <2>2
<1>4. ASSUME NEW s \in Streams, NEW e \in Events
      PROVE  Count(buffer'[s], e)
               <= Count(buffer[s], e) + (IF Home[s] = i /\ x = e THEN 1 ELSE 0)
  <2>1. buffer[s] \in Seq(Events) /\ Count(buffer[s], e) \in Nat
    BY <1>1, CountType
  <2>2. Count(Append(buffer[s], x), e) = Count(buffer[s], e) + (IF x = e THEN 1 ELSE 0)
    BY <2>1, CountAppend
  <2>3. CASE buffer'[s] = buffer[s]
    BY <2>1, <2>3
  <2>4. CASE Home[s] = i /\ buffer'[s] = Append(buffer[s], x)
    <3>1. Count(buffer'[s], e) = Count(buffer[s], e) + (IF x = e THEN 1 ELSE 0)
      BY <2>2, <2>4
    <3> QED
      BY <2>1, <2>4, <3>1
  <2> QED
    BY <1>2, <2>3, <2>4
<1> QED
  BY <1>3, <1>4

LEMMA FannedOut ==
  ASSUME BusTypes, NEW x \in Events, FanOut(x)
  PROVE  /\ busQueue' \in [Instances -> Seq(Events)]
         /\ \A i \in Instances, e \in Events :
              Count(busQueue'[i], e) <= Count(busQueue[i], e) + (IF x = e THEN 1 ELSE 0)
<1>1. busQueue \in [Instances -> Seq(Events)]
  BY DEF BusTypes
<1>2. \A i \in Instances : busQueue'[i] \in {busQueue[i], Append(busQueue[i], x)}
  BY DEF FanOut
<1>3. busQueue' \in [Instances -> Seq(Events)]
  <2>1. \A i \in Instances : busQueue'[i] \in Seq(Events)
    BY <1>1, <1>2
  <2>2. busQueue' = [i \in Instances |-> busQueue'[i]]
    BY DEF FanOut
  <2> QED
    BY <2>1, <2>2
<1>4. ASSUME NEW i \in Instances, NEW e \in Events
      PROVE  Count(busQueue'[i], e) <= Count(busQueue[i], e) + (IF x = e THEN 1 ELSE 0)
  <2>1. busQueue[i] \in Seq(Events) /\ Count(busQueue[i], e) \in Nat
    BY <1>1, CountType
  <2>2. Count(Append(busQueue[i], x), e) = Count(busQueue[i], e) + (IF x = e THEN 1 ELSE 0)
    BY <2>1, CountAppend
  <2>3. CASE busQueue'[i] = busQueue[i]
    BY <2>1, <2>3
  <2>4. CASE busQueue'[i] = Append(busQueue[i], x)
    <3>1. Count(busQueue'[i], e) = Count(busQueue[i], e) + (IF x = e THEN 1 ELSE 0)
      BY <2>2, <2>4
    <3> QED
      BY <2>1, <3>1
  <2> QED
    BY <1>2, <2>3, <2>4
<1> QED
  BY <1>3, <1>4

\* The publication of one event moves.
LEMMA Turning ==
  ASSUME BusInv, NEW x \in Events, NEW at \in {"remote", "local", "done"}, Turns(x, at)
  PROVE  /\ publishing' \in [Events -> {"none", "remote", "local", "done"}]
         /\ publishing'[x] = at /\ \A e \in Events \ {x} : publishing'[e] = publishing[e]
BY DEF BusInv, BusTypes, Turns

LEMMA Publication ==
  ASSUME BusInv, NEW x \in Events,
         BeginPublish(x) \/ PublishRemote(x) \/ PublishInDoubt(x) \/ PublishLocal(x)
  PROVE  BusInv'
<1>0. BusTypes /\ CopiesAreNumbers /\ \A s \in Streams : Home[s] \in Instances
  BY CopyTypes, BusAssumption DEF BusInv, BusAssumption
<1>1. \A e : Allowance(e) = (IF publishing[e] = "done" THEN 1 ELSE 0)
                              + (IF e \in doubtful THEN 1 ELSE 0)
  BY DEF Allowance
<1>2. \A e : Allowance(e)' = (IF publishing'[e] = "done" THEN 1 ELSE 0)
                               + (IF e \in doubtful' THEN 1 ELSE 0)
  BY DEF Allowance
<1>c. \A s, e : /\ AllCopies(s, e) = Count(received[s], e) + Count(buffer[s], e)
                                       + Count(busQueue[Home[s]], e)
                /\ AllCopies(s, e)' = Count(received'[s], e) + Count(buffer'[s], e)
                                        + Count(busQueue'[Home[s]], e)
  BY DEF AllCopies, Copies, Count, Hits
<1>n. \A s \in Streams, e \in Events :
        /\ Count(received[s], e) \in Nat /\ Count(buffer[s], e) \in Nat
        /\ Count(busQueue[Home[s]], e) \in Nat
  BY <1>0 DEF CopiesAreNumbers
<1>3. CASE BeginPublish(x)
  <2>1. PICK at \in {"remote", "local"} : Turns(x, at)
    BY <1>3 DEF BeginPublish
  <2>2. publishing[x] = "none" /\ UNCHANGED <<busQueue, buffer, received, doubtful>>
    BY <1>3 DEF BeginPublish
  <2>3. BusTypes'
    BY <1>0, <2>1, <2>2, Turning DEF BusTypes
  <2>4. \A e \in doubtful' : publishing'[e] \in {"local", "done"}
    BY <1>0, <2>1, <2>2, Turning DEF BusInv, BusTypes
  <2>5. ASSUME NEW s \in Streams, NEW e \in Events
        PROVE  AllCopies(s, e)' <= AllCopies(s, e) /\ Allowance(e)' >= Allowance(e)
    <3>1. Allowance(e)' >= Allowance(e)
      BY <1>1, <1>2, <2>1, <2>2, Turning
    <3> QED
      BY <1>c, <1>n, <2>2, <3>1
  <2> QED
    BY <2>2, <2>3, <2>4, <2>5, BusStep
<1>4. CASE PublishRemote(x)
  <2>1. publishing[x] = "remote" /\ UNCHANGED <<buffer, received, doubtful>>
    BY <1>4 DEF PublishRemote
  <2>2. x \notin doubtful
    BY <2>1 DEF BusInv
  <2>3. CASE FanOut(x) /\ Turns(x, "done")
    <3>1. BusTypes'
      BY <1>0, <2>1, <2>3, FannedOut, Turning DEF BusTypes
    <3>2. \A e \in doubtful' : publishing'[e] \in {"local", "done"}
      BY <1>0, <2>1, <2>2, <2>3, Turning DEF BusInv, BusTypes
    <3>3. ASSUME NEW s \in Streams, NEW e \in Events
          PROVE  \/ AllCopies(s, e)' <= AllCopies(s, e) /\ Allowance(e)' >= Allowance(e)
                 \/ AllCopies(s, e)' <= AllCopies(s, e) + 1 /\ Allowance(e)' >= Allowance(e) + 1
      <4>1. Count(busQueue'[Home[s]], e) <= Count(busQueue[Home[s]], e) + (IF x = e THEN 1 ELSE 0)
        BY <1>0, <2>3, FannedOut
      <4>2. Allowance(e)' = Allowance(e) + (IF x = e THEN 1 ELSE 0)
        BY <1>1, <1>2, <2>1, <2>3, Turning
      <4>3. Count(busQueue'[Home[s]], e) \in Nat
        BY <1>0, <3>1, CountType DEF BusTypes
      <4> QED
        BY <1>0, <1>c, <1>n, <2>1, <4>1, <4>2, <4>3 DEF CopiesAreNumbers
    <3> QED
      BY <2>1, <3>1, <3>2, <3>3, BusStep
  <2>4. CASE UNCHANGED busQueue /\ (Turns(x, "local") \/ Turns(x, "done"))
    <3>0. PICK at \in {"local", "done"} : Turns(x, at)
      BY <2>4
    <3>1. BusTypes'
      BY <1>0, <2>1, <2>4, <3>0, Turning DEF BusTypes
    <3>2. \A e \in doubtful' : publishing'[e] \in {"local", "done"}
      BY <1>0, <2>1, <2>2, <3>0, Turning DEF BusInv, BusTypes
    <3>3. ASSUME NEW s \in Streams, NEW e \in Events
          PROVE  AllCopies(s, e)' <= AllCopies(s, e) /\ Allowance(e)' >= Allowance(e)
      <4>1. Allowance(e)' >= Allowance(e)
        BY <1>1, <1>2, <2>1, <3>0, Turning
      <4> QED
        BY <1>c, <1>n, <2>1, <2>4, <4>1
    <3> QED
      BY <2>1, <3>1, <3>2, <3>3, BusStep
  <2> QED
    BY <1>4, <2>3, <2>4 DEF PublishRemote
<1>5. CASE PublishInDoubt(x)
  <2>1. /\ publishing[x] = "remote" /\ UNCHANGED <<buffer, received>>
        /\ doubtful' = doubtful \cup {x} /\ FanOut(x) /\ Turns(x, "local")
    BY <1>5 DEF PublishInDoubt
  <2>2. x \notin doubtful
    BY <2>1 DEF BusInv
  <2>3. BusTypes'
    BY <1>0, <2>1, FannedOut, Turning DEF BusTypes
  <2>4. \A e \in doubtful' : publishing'[e] \in {"local", "done"}
    BY <1>0, <2>1, <2>2, Turning DEF BusInv, BusTypes
  <2>5. ASSUME NEW s \in Streams, NEW e \in Events
        PROVE  \/ AllCopies(s, e)' <= AllCopies(s, e) /\ Allowance(e)' >= Allowance(e)
               \/ AllCopies(s, e)' <= AllCopies(s, e) + 1 /\ Allowance(e)' >= Allowance(e) + 1
    <3>1. Count(busQueue'[Home[s]], e) <= Count(busQueue[Home[s]], e) + (IF x = e THEN 1 ELSE 0)
      BY <1>0, <2>1, FannedOut
    <3>2. Allowance(e)' = Allowance(e) + (IF x = e THEN 1 ELSE 0)
      BY <1>1, <1>2, <2>1, <2>2, Turning
    <3>3. Count(busQueue'[Home[s]], e) \in Nat
      BY <1>0, <2>3, CountType DEF BusTypes
    <3> QED
      BY <1>0, <1>c, <1>n, <2>1, <3>1, <3>2, <3>3 DEF CopiesAreNumbers
  <2> QED
    BY <2>1, <2>3, <2>4, <2>5, BusStep
<1>6. CASE PublishLocal(x)
  <2>1. /\ publishing[x] = "local" /\ UNCHANGED <<busQueue, received, doubtful>>
        /\ Deliver(Origin[x], x) /\ Turns(x, "done")
    BY <1>6 DEF PublishLocal
  <2>2. BusTypes'
    BY <1>0, <2>1, Deliveries, Turning DEF BusTypes
  <2>3. \A e \in doubtful' : publishing'[e] \in {"local", "done"}
    BY <1>0, <2>1, Turning DEF BusInv, BusTypes
  <2>4. ASSUME NEW s \in Streams, NEW e \in Events
        PROVE  \/ AllCopies(s, e)' <= AllCopies(s, e) /\ Allowance(e)' >= Allowance(e)
               \/ AllCopies(s, e)' <= AllCopies(s, e) + 1 /\ Allowance(e)' >= Allowance(e) + 1
    <3>1. Count(buffer'[s], e) <= Count(buffer[s], e) + (IF x = e THEN 1 ELSE 0)
      <4>1. PICK i : i = Origin[x]
        OBVIOUS
      <4>2. Count(buffer'[s], e)
              <= Count(buffer[s], e) + (IF Home[s] = i /\ x = e THEN 1 ELSE 0)
        BY <1>0, <2>1, <4>1, Deliveries
      <4>3. Count(buffer'[s], e) \in Nat
        BY <2>2, CountType DEF BusTypes
      <4> QED
        BY <1>n, <4>2, <4>3
    <3>2. Allowance(e)' = Allowance(e) + (IF x = e THEN 1 ELSE 0)
      BY <1>1, <1>2, <2>1, Turning
    <3>3. Count(buffer'[s], e) \in Nat
      BY <2>2, CountType DEF BusTypes
    <3> QED
      BY <1>0, <1>c, <1>n, <2>1, <3>1, <3>2, <3>3 DEF CopiesAreNumbers
  <2> QED
    BY <2>1, <2>2, <2>3, <2>4, BusStep
<1> QED
  BY <1>3, <1>4, <1>5, <1>6

\* A step that publishes nothing adds no copy.
LEMMA Transport ==
  ASSUME BusInv, UNCHANGED <<publishing, doubtful>>, BusTypes',
         \A s \in Streams, e \in Events :
           Count(received'[s], e) + Count(buffer'[s], e) + Count(busQueue'[Home[s]], e)
             <= Count(received[s], e) + Count(buffer[s], e) + Count(busQueue[Home[s]], e)
  PROVE  BusInv'
<1>c. \A s, e : /\ AllCopies(s, e) = Count(received[s], e) + Count(buffer[s], e)
                                       + Count(busQueue[Home[s]], e)
                /\ AllCopies(s, e)' = Count(received'[s], e) + Count(buffer'[s], e)
                                        + Count(busQueue'[Home[s]], e)
  BY DEF AllCopies, Copies, Count, Hits
<1>1. \A e \in Events : Allowance(e)' = Allowance(e) /\ Allowance(e) \in Int
  BY DEF Allowance
<1>2. \A s \in Streams, e \in Events :
        AllCopies(s, e)' <= AllCopies(s, e) /\ Allowance(e)' >= Allowance(e)
  BY <1>c, <1>1
<1>3. \A e \in doubtful' : publishing'[e] \in {"local", "done"}
  BY DEF BusInv
<1> QED
  BY <1>2, <1>3, BusStep

LEMMA BusNextStep == BusInv /\ [BusNext]_busVars => BusInv'
<1> SUFFICES ASSUME BusInv, [BusNext]_busVars PROVE BusInv'
  OBVIOUS
<1>0. BusTypes /\ CopiesAreNumbers /\ \A s \in Streams : Home[s] \in Instances
  BY CopyTypes, BusAssumption DEF BusInv, BusAssumption
<1>n. \A s \in Streams, e \in Events :
        /\ Count(received[s], e) \in Nat /\ Count(buffer[s], e) \in Nat
        /\ Count(busQueue[Home[s]], e) \in Nat
  BY <1>0 DEF CopiesAreNumbers
<1>1. ASSUME NEW i \in Instances, Consume(i) PROVE BusInv'
  <2> DEFINE q == busQueue[i]
  <2>1. /\ q # <<>> /\ Deliver(i, Head(q)) /\ busQueue' = [busQueue EXCEPT ![i] = Tail(q)]
        /\ UNCHANGED <<publishing, doubtful, received>>
    BY <1>1 DEF Consume
  <2>2. q \in Seq(Events) /\ Head(q) \in Events /\ Tail(q) \in Seq(Events)
    BY <1>0, <2>1 DEF BusTypes
  <2>3. PICK x \in Events : x = Head(q)
    BY <2>2
  <2>4. /\ buffer' \in [Streams -> Seq(Events)]
        /\ \A s \in Streams, e \in Events :
             Count(buffer'[s], e)
               <= Count(buffer[s], e) + (IF Home[s] = i /\ x = e THEN 1 ELSE 0)
    BY <1>0, <2>1, <2>3, Deliveries
  <2>5. BusTypes'
    BY <1>0, <2>1, <2>2, <2>4 DEF BusTypes
  <2>6. \A e \in Events : Count(q, e) = Count(Tail(q), e) + (IF x = e THEN 1 ELSE 0)
    BY <2>1, <2>2, <2>3, CountTail
  <2>7. ASSUME NEW s \in Streams, NEW e \in Events
        PROVE  Count(received'[s], e) + Count(buffer'[s], e) + Count(busQueue'[Home[s]], e)
                 <= Count(received[s], e) + Count(buffer[s], e) + Count(busQueue[Home[s]], e)
    <3>1. Count(buffer'[s], e) \in Nat /\ Count(busQueue'[Home[s]], e) \in Nat
      BY <1>0, <2>5, CountType DEF BusTypes
    <3>2. received'[s] = received[s]
      BY <2>1
    <3>3. CASE Home[s] = i
      <4>1. busQueue'[Home[s]] = Tail(q) /\ busQueue[Home[s]] = q
        BY <1>0, <2>1, <3>3 DEF BusTypes
      <4> QED
        <5>1. Count(buffer'[s], e) <= Count(buffer[s], e) + (IF x = e THEN 1 ELSE 0)
          BY <2>4, <3>3
        <5>2. Count(busQueue[Home[s]], e)
                = Count(busQueue'[Home[s]], e) + (IF x = e THEN 1 ELSE 0)
          BY <2>6, <4>1
        <5>3. Count(received'[s], e) = Count(received[s], e)
          BY <3>2
        <5> QED
          BY <1>n, <3>1, <5>1, <5>2, <5>3
    <3>4. CASE Home[s] # i
      <4>1. busQueue'[Home[s]] = busQueue[Home[s]]
        BY <1>0, <2>1, <3>4 DEF BusTypes
      <4>2. Count(buffer'[s], e) <= Count(buffer[s], e)
        BY <1>n, <2>4, <3>4
      <4> QED
        BY <1>n, <3>1, <3>2, <4>1, <4>2
    <3> QED
      BY <3>3, <3>4
  <2> QED
    BY <2>1, <2>5, <2>7, Transport
<1>2. ASSUME NEW i \in Instances, LoseConnection(i) PROVE BusInv'
  <2>1. PICK n \in 0..Len(busQueue[i]) : busQueue' = [busQueue EXCEPT ![i] = SubSeq(@, 1, n)]
    BY <1>2 DEF LoseConnection
  <2>2. UNCHANGED <<publishing, doubtful, received, buffer>>
    BY <1>2 DEF LoseConnection
  <2>3. busQueue[i] \in Seq(Events) /\ SubSeq(busQueue[i], 1, n) \in Seq(Events)
    BY <1>0 DEF BusTypes
  <2>4. BusTypes'
    BY <1>0, <2>1, <2>2, <2>3 DEF BusTypes
  <2>5. ASSUME NEW s \in Streams, NEW e \in Events
        PROVE  Count(received'[s], e) + Count(buffer'[s], e) + Count(busQueue'[Home[s]], e)
                 <= Count(received[s], e) + Count(buffer[s], e) + Count(busQueue[Home[s]], e)
    <3>1. Count(SubSeq(busQueue[i], 1, n), e) <= Count(busQueue[i], e)
      BY <2>3, CountPrefix
    <3>2. busQueue'[Home[s]] = IF Home[s] = i THEN SubSeq(busQueue[i], 1, n)
                                              ELSE busQueue[Home[s]]
      BY <1>0, <2>1 DEF BusTypes
    <3>3. Count(busQueue'[Home[s]], e) \in Nat
      BY <1>0, <2>4, CountType DEF BusTypes
    <3>4. Count(busQueue'[Home[s]], e) <= Count(busQueue[Home[s]], e)
      BY <1>n, <3>1, <3>2, <3>3
    <3> QED
      BY <1>n, <2>2, <3>3, <3>4
  <2> QED
    BY <2>2, <2>4, <2>5, Transport
<1>3. ASSUME NEW s \in Streams, WriteEvent(s) PROVE BusInv'
  <2> DEFINE q == buffer[s]
  <2>1. /\ q # <<>> /\ buffer' = [buffer EXCEPT ![s] = Tail(q)]
        /\ \/ received' = [received EXCEPT ![s] = Append(@, Head(q))]
           \/ received' = received
        /\ UNCHANGED <<publishing, doubtful, busQueue>>
    BY <1>3 DEF WriteEvent
  <2>2. q \in Seq(Events) /\ Head(q) \in Events /\ Tail(q) \in Seq(Events)
    BY <1>0, <2>1 DEF BusTypes
  <2>3. PICK x \in Events : x = Head(q)
    BY <2>2
  <2>4. received[s] \in Seq(Events) /\ Append(received[s], x) \in Seq(Events)
    BY <1>0 DEF BusTypes
  <2>5. BusTypes'
    BY <1>0, <2>1, <2>2, <2>3, <2>4 DEF BusTypes
  <2>6. ASSUME NEW t \in Streams, NEW e \in Events
        PROVE  Count(received'[t], e) + Count(buffer'[t], e) + Count(busQueue'[Home[t]], e)
                 <= Count(received[t], e) + Count(buffer[t], e) + Count(busQueue[Home[t]], e)
    <3>1. Count(received'[t], e) \in Nat /\ Count(buffer'[t], e) \in Nat
      BY <2>5, CountType DEF BusTypes
    <3>2. Count(q, e) = Count(Tail(q), e) + (IF x = e THEN 1 ELSE 0)
      BY <2>1, <2>2, <2>3, CountTail
    <3>3. Count(Append(received[s], x), e) = Count(received[s], e) + (IF x = e THEN 1 ELSE 0)
      BY <2>4, CountAppend
    <3>4. CASE t = s
      <4>1. buffer'[t] = Tail(q) /\ buffer[t] = q
        BY <1>0, <2>1, <3>4 DEF BusTypes
      <4>2. received'[t] = Append(received[s], x) \/ received'[t] = received[s]
        BY <1>0, <2>1, <2>3, <3>4 DEF BusTypes
      <4> QED
        <5>1. Count(buffer[t], e) = Count(buffer'[t], e) + (IF x = e THEN 1 ELSE 0)
          BY <3>2, <4>1
        <5>2. \/ Count(received'[t], e) = Count(received[t], e) + (IF x = e THEN 1 ELSE 0)
              \/ Count(received'[t], e) = Count(received[t], e)
          BY <3>3, <3>4, <4>2
        <5>3. Count(busQueue'[Home[t]], e) = Count(busQueue[Home[t]], e)
          BY <2>1
        <5> QED
          BY <1>n, <3>1, <5>1, <5>2, <5>3
    <3>5. CASE t # s
      <4>1. buffer'[t] = buffer[t] /\ received'[t] = received[t]
        BY <1>0, <2>1, <3>5 DEF BusTypes
      <4> QED
        BY <1>n, <2>1, <4>1
    <3> QED
      BY <3>4, <3>5
  <2> QED
    BY <2>1, <2>5, <2>6, Transport
<1>4. ASSUME NEW s \in Streams, Close(s) PROVE BusInv'
  <2>1. /\ buffer' = [buffer EXCEPT ![s] = <<>>]
        /\ UNCHANGED <<publishing, doubtful, busQueue, received>>
    BY <1>4 DEF Close
  <2>2. BusTypes'
    BY <1>0, <2>1 DEF BusTypes
  <2>3. ASSUME NEW t \in Streams, NEW e \in Events
        PROVE  Count(received'[t], e) + Count(buffer'[t], e) + Count(busQueue'[Home[t]], e)
                 <= Count(received[t], e) + Count(buffer[t], e) + Count(busQueue[Home[t]], e)
    <3>1. buffer'[t] = <<>> \/ buffer'[t] = buffer[t]
      BY <1>0, <2>1 DEF BusTypes
    <3> QED
      BY <1>n, <2>1, <3>1, CountEmpty
  <2> QED
    BY <2>1, <2>2, <2>3, Transport
<1>5. ASSUME UNCHANGED <<publishing, doubtful, busQueue, received, buffer>> PROVE BusInv'
  <2>1. BusTypes'
    BY <1>0, <1>5 DEF BusTypes
  <2> QED
    BY <1>5, <1>n, <2>1, Transport
<1>6. ASSUME NEW i \in Instances, ConsumerEnds(i) PROVE BusInv'
  BY <1>5, <1>6 DEF ConsumerEnds
<1>7. ASSUME NEW s \in Streams, OpenStream(s) \/ RevokeMachine(s) PROVE BusInv'
  BY <1>5, <1>7 DEF OpenStream, RevokeMachine
<1>8. ASSUME NEW s \in Streams, Disconnect(s) \/ Ping(s) PROVE BusInv'
  BY <1>4, <1>8 DEF Disconnect, Ping
<1>9. CASE UNCHANGED busVars
  BY <1>5, <1>9 DEF busVars
<1> QED
  BY <1>1, <1>2, <1>3, <1>6, <1>7, <1>8, <1>9, Publication DEF BusNext, Publishes

\* No client gets an event twice over the two paths that lead to its instance, unless
\* the publisher was told of an error after the broker had taken the event
\* (Publish and run of events/rabbit.go, "each event exactly once").
THEOREM EventsOnce == BusSpec => []NoEventTwice
<1>1. ASSUME BusInv PROVE NoEventTwice
  <2> SUFFICES ASSUME NEW s \in Streams, NEW e \in Events
               PROVE  Copies(s, e) <= IF e \in doubtful THEN 2 ELSE 1
    BY DEF NoEventTwice
  <2>1. /\ Count(received[s], e) \in Nat /\ Count(buffer[s], e) \in Nat
        /\ Count(busQueue[Home[s]], e) \in Nat
    BY <1>1, CopyTypes DEF BusInv, CopiesAreNumbers
  <2>2. AllCopies(s, e) <= Allowance(e)
    BY <1>1 DEF BusInv
  <2>3. Allowance(e) \in Nat /\ Allowance(e) <= IF e \in doubtful THEN 2 ELSE 1
    BY DEF Allowance
  <2> QED
    BY <2>1, <2>2, <2>3, CopiesCount DEF AllCopies
<1> QED
  BY <1>1, BusFirst, BusNextStep, PTL DEF BusSpec

----------------------------------------------------------------------------
(* The e-mail queue *)

Message == [job : Jobs, retries : 0..(MaxRetries - 1)]
WorkerSteps == {"waiting", "down", "sending", "retrying", "parking", "acking"}

EmailTypes ==
  /\ asked \subseteq Jobs
  /\ sendQueue \in Seq(Message) /\ retryQueue \in Seq(Message)
  /\ worker \in [at : WorkerSteps, msg : Message \cup {NoMessage}]
  /\ worker.at \notin {"waiting", "down"} => worker.msg \in Message
  /\ worker.at = "retrying" => worker.msg.retries + 1 < MaxRetries
  /\ attempts \in [Jobs -> Nat] /\ crashes \in Nat

\* One ticket for each attempt that the messages of a queue still allow for the job.
Tickets(q, j) ==
  {t \in (DOMAIN q) \X (0..(MaxRetries - 1)) : q[t[1]].job = j /\ q[t[1]].retries <= t[2]}
Left(q, j) == Cardinality(Tickets(q, j))

LeftInHand(j) ==
  IF worker.msg.job # j THEN 0
  ELSE CASE worker.at = "sending" -> MaxRetries - worker.msg.retries
         [] worker.at = "retrying" -> MaxRetries - worker.msg.retries - 1
         [] OTHER -> 0

\* The attempts made for a job, and those that are still possible.
Spent(j) == attempts[j] + Left(sendQueue, j) + Left(retryQueue, j) + LeftInHand(j)

\* The worker holds a job that somebody has asked for.
HoldsJob == worker.at \in {"waiting", "down"} \/ worker.msg.job \in asked

EmailInv ==
  /\ EmailTypes /\ HoldsJob
  /\ \A j \in Jobs : Spent(j) <= IF j \in asked THEN MaxRetries * (1 + crashes) ELSE 0

\* The tickets of one message, and how many they are.
TicketsOf(m, j) == {k \in 0..(MaxRetries - 1) : m.job = j /\ m.retries <= k}
Weight(m, j) == IF m.job = j THEN MaxRetries - m.retries ELSE 0

LEMMA MessageWeight ==
  ASSUME NEW m \in Message, NEW j
  PROVE  /\ Weight(m, j) \in Nat /\ Weight(m, j) <= MaxRetries
         /\ IsFiniteSet(TicketsOf(m, j)) /\ Cardinality(TicketsOf(m, j)) = Weight(m, j)
<1>0. MaxRetries \in Nat /\ MaxRetries > 0
  BY EmailAssumption DEF EmailAssumption
<1>1. m.retries \in Nat /\ m.retries <= MaxRetries - 1
  BY <1>0 DEF Message
<1>2. CASE m.job = j
  <2>1. TicketsOf(m, j) = (m.retries)..(MaxRetries - 1)
    BY <1>0, <1>1, <1>2 DEF TicketsOf
  <2>2. PICK a, b \in Int : a = m.retries /\ b = MaxRetries - 1
    BY <1>0, <1>1
  <2>3. IsFiniteSet(a..b) /\ Cardinality(a..b) = IF a > b THEN 0 ELSE b - a + 1
    BY FS_Interval
  <2>4. b - a + 1 = MaxRetries - m.retries /\ ~(a > b)
    BY <1>0, <1>1, <2>2
  <2> QED
    BY <1>0, <1>1, <1>2, <2>1, <2>2, <2>3, <2>4 DEF Weight
<1>3. CASE m.job # j
  <2>1. TicketsOf(m, j) = {}
    BY <1>3 DEF TicketsOf
  <2> QED
    BY <1>0, <1>3, <2>1, FS_EmptySet DEF Weight
<1> QED
  BY <1>2, <1>3

LEMMA NoneLeft == \A j : Left(<<>>, j) = 0
<1>1. \A j : Tickets(<<>>, j) = {}
  BY DEF Tickets
<1> QED
  BY <1>1, FS_EmptySet DEF Left

\* Taking the first message of a queue takes its tickets.
LEMMA LeftTail ==
  ASSUME NEW q \in Seq(Message), q # <<>>, NEW j,
         IsFiniteSet(Tickets(Tail(q), j))
  PROVE  /\ IsFiniteSet(Tickets(q, j))
         /\ Left(q, j) = Left(Tail(q), j) + Weight(Head(q), j)
<1> DEFINE A == Tickets(Tail(q), j)
           B == {t \in Tickets(q, j) : t[1] # 1}
           C == {t \in Tickets(q, j) : t[1] = 1}
           f == [t \in B |-> <<t[1] - 1, t[2]>>]
           g == [t \in C |-> t[2]]
           D == TicketsOf(Head(q), j)
<1>0. /\ Tail(q) \in Seq(Message) /\ Head(q) \in Message /\ Head(q) = q[1]
      /\ Len(q) \in Nat \ {0} /\ DOMAIN q = 1..Len(q) /\ DOMAIN Tail(q) = 1..(Len(q) - 1)
      /\ \A n \in 1..(Len(q) - 1) : Tail(q)[n] = q[n + 1]
  OBVIOUS
<1>1. f \in [B -> A] /\ (\A x, y \in B : f[x] = f[y] => x = y) /\ \A y \in A : \E x \in B : f[x] = y
  <2>1. ASSUME NEW t \in B PROVE f[t] \in A
    BY <1>0 DEF Tickets
  <2>2. ASSUME NEW x \in B, NEW y \in B, f[x] = f[y] PROVE x = y
    <3>1. \A t \in B : t = <<t[1], t[2]>> /\ t[1] \in Nat
      BY <1>0 DEF Tickets
    <3>2. <<x[1] - 1, x[2]>> = <<y[1] - 1, y[2]>>
      BY <2>2
    <3>3. x[1] = y[1] /\ x[2] = y[2]
      BY <3>1, <3>2
    <3> QED
      BY <3>1, <3>3
  <2>3. ASSUME NEW y \in A PROVE \E x \in B : f[x] = y
    <3>1. /\ y = <<y[1], y[2]>> /\ y[1] \in 1..(Len(q) - 1) /\ y[2] \in 0..(MaxRetries - 1)
          /\ Tail(q)[y[1]].job = j /\ Tail(q)[y[1]].retries <= y[2]
      BY <1>0 DEF Tickets
    <3>2. PICK x : x = <<y[1] + 1, y[2]>>
      OBVIOUS
    <3>3. x \in B
      BY <1>0, <3>1, <3>2 DEF Tickets
    <3>4. f[x] = y
      BY <3>1, <3>2, <3>3
    <3> QED
      BY <3>3, <3>4
  <2> QED
    BY <2>1, <2>2, <2>3
<1>2. g \in [C -> D] /\ (\A x, y \in C : g[x] = g[y] => x = y) /\ \A y \in D : \E x \in C : g[x] = y
  <2>1. ASSUME NEW t \in C PROVE g[t] \in D
    BY <1>0 DEF Tickets, TicketsOf
  <2>2. ASSUME NEW x \in C, NEW y \in C, g[x] = g[y] PROVE x = y
    BY <1>0, <2>2 DEF Tickets
  <2>3. ASSUME NEW y \in D PROVE \E x \in C : g[x] = y
    <3>1. PICK x : x = <<1, y>>
      OBVIOUS
    <3>2. x \in C
      BY <1>0, <3>1 DEF Tickets, TicketsOf
    <3> QED
      BY <3>1, <3>2
  <2> QED
    BY <2>1, <2>2, <2>3
<1>3. IsFiniteSet(B) /\ Cardinality(B) = Left(Tail(q), j)
  <2>1. IsFiniteSet(A) /\ Cardinality(A) = Left(Tail(q), j)
    BY DEF Left
  <2> HIDE DEF A, B, f
  <2> QED
    BY <1>1, <2>1, ShiftedSet
<1>4. IsFiniteSet(C) /\ Cardinality(C) = Weight(Head(q), j)
  <2>1. IsFiniteSet(D) /\ Cardinality(D) = Weight(Head(q), j)
    BY <1>0, MessageWeight
  <2> HIDE DEF C, D, g
  <2> QED
    BY <1>2, <2>1, ShiftedSet
<1>5. Tickets(q, j) = B \cup C /\ B \cap C = {}
  OBVIOUS
<1>6. Left(Tail(q), j) \in Nat
  BY FS_CardinalityType DEF Left
<1>7. Weight(Head(q), j) \in Nat
  BY <1>0, MessageWeight
<1> HIDE DEF A, B, C, D, f, g
<1>8. IsFiniteSet(B \cup C) /\ Cardinality(B \cup C) = Cardinality(B) + Cardinality(C) - Cardinality(B \cap C)
  BY <1>3, <1>4, FS_Union
<1> QED
  <2>1. Cardinality({}) = 0
    BY FS_EmptySet
  <2>2. Left(q, j) = Cardinality(B) + Cardinality(C) - Cardinality(B \cap C)
    BY <1>5, <1>8 DEF Left
  <2>3. Cardinality(B \cap C) = 0
    BY <1>5, <2>1
  <2> QED
    BY <1>3, <1>4, <1>5, <1>6, <1>7, <1>8, <2>2, <2>3

LEMMA LeftType ==
  ASSUME NEW q \in Seq(Message), NEW j
  PROVE  IsFiniteSet(Tickets(q, j)) /\ Left(q, j) \in Nat
<1> DEFINE Infinite(n) == \E p \in Seq(Message) : Len(p) = n /\ ~IsFiniteSet(Tickets(p, j))
           Lengths == {n \in Nat : Infinite(n)}
           Less == {ss \in Nat \X Nat : ss[1] < ss[2]}
<1>1. IsWellFoundedOn(Less, Nat)
  BY NatLessThanWellFounded DEF OpToRel
<1>2. ASSUME Lengths # {} PROVE FALSE
  <2>1. PICK n \in Lengths : \A m \in Lengths : <<m, n>> \notin Less
    <3> HIDE DEF Less, Infinite
    <3>1. Lengths \subseteq Nat
      OBVIOUS
    <3> HIDE DEF Lengths
    <3> QED
      BY <1>1, <1>2, <3>1, WFMin
  <2>2. PICK p \in Seq(Message) : Len(p) = n /\ ~IsFiniteSet(Tickets(p, j))
    OBVIOUS
  <2>3. p # <<>>
    <3>1. Tickets(<<>>, j) = {}
      BY DEF Tickets
    <3> QED
      BY <2>2, <3>1, FS_EmptySet
  <2>4. Tail(p) \in Seq(Message) /\ Len(Tail(p)) = n - 1 /\ n \in Nat /\ n - 1 \in Nat
    BY <2>2, <2>3
  <2>5. IsFiniteSet(Tickets(Tail(p), j))
    <3>1. <<n - 1, n>> \in Less
      BY <2>4
    <3>2. n - 1 \notin Lengths
      BY <2>1, <3>1
    <3> QED
      BY <2>4, <3>2
  <2> QED
    BY <2>2, <2>3, <2>5, LeftTail
<1>3. IsFiniteSet(Tickets(q, j))
  <2>1. Len(q) \in Nat
    OBVIOUS
  <2> QED
    BY <1>2, <2>1
<1> QED
  BY <1>3, FS_CardinalityType DEF Left

LEMMA LeftTakes ==
  ASSUME NEW q \in Seq(Message), q # <<>>, NEW j
  PROVE  Left(q, j) = Left(Tail(q), j) + Weight(Head(q), j)
<1>1. Tail(q) \in Seq(Message)
  OBVIOUS
<1>2. IsFiniteSet(Tickets(Tail(q), j))
  BY <1>1, LeftType
<1> QED
  BY <1>2, LeftTail

LEMMA LeftReturns ==
  ASSUME NEW q \in Seq(Message), NEW m \in Message, NEW j
  PROVE  Left(<<m>> \o q, j) = Left(q, j) + Weight(m, j)
<1>1. PICK p : p = <<m>> \o q
  OBVIOUS
<1>2. p \in Seq(Message) /\ p # <<>> /\ Head(p) = m /\ Tail(p) = q
  BY <1>1
<1> QED
  BY <1>1, <1>2, LeftTakes

LEMMA LeftAppend ==
  ASSUME NEW q \in Seq(Message), NEW m \in Message, NEW j
  PROVE  Left(Append(q, m), j) = Left(q, j) + Weight(m, j)
<1> DEFINE D == TicketsOf(m, j)
           C == {t \in Tickets(Append(q, m), j) : t[1] = Len(q) + 1}
           g == [t \in C |-> t[2]]
<1>0. /\ Append(q, m) \in Seq(Message) /\ Len(q) \in Nat
      /\ DOMAIN Append(q, m) = 1..(Len(q) + 1) /\ DOMAIN q = 1..Len(q)
      /\ Append(q, m)[Len(q) + 1] = m
      /\ \A n \in 1..Len(q) : Append(q, m)[n] = q[n]
  OBVIOUS
<1>1. g \in [C -> D] /\ (\A x, y \in C : g[x] = g[y] => x = y) /\ \A y \in D : \E x \in C : g[x] = y
  <2>1. ASSUME NEW t \in C PROVE g[t] \in D
    BY <1>0 DEF Tickets, TicketsOf
  <2>2. ASSUME NEW x \in C, NEW y \in C, g[x] = g[y] PROVE x = y
    BY <1>0, <2>2 DEF Tickets
  <2>3. ASSUME NEW y \in D PROVE \E x \in C : g[x] = y
    <3>1. PICK x : x = <<Len(q) + 1, y>>
      OBVIOUS
    <3>2. x \in C
      BY <1>0, <3>1 DEF Tickets, TicketsOf
    <3> QED
      BY <3>1, <3>2
  <2> QED
    BY <2>1, <2>2, <2>3
<1>2. Weight(m, j) \in Nat /\ IsFiniteSet(D) /\ Cardinality(D) = Weight(m, j)
  BY MessageWeight
<1>3. Tickets(Append(q, m), j) = Tickets(q, j) \cup C
  <2>1. ASSUME NEW t \in Tickets(Append(q, m), j), t \notin C PROVE t \in Tickets(q, j)
    BY <1>0, <2>1 DEF Tickets
  <2>2. ASSUME NEW t \in Tickets(q, j) PROVE t \in Tickets(Append(q, m), j)
    BY <1>0 DEF Tickets
  <2> QED
    BY <2>1, <2>2
<1>4. Tickets(q, j) \cap C = {}
  BY <1>0 DEF Tickets
<1>5. IsFiniteSet(Tickets(q, j)) /\ Left(q, j) \in Nat
  BY LeftType
<1> HIDE DEF C, D, g
<1>6. IsFiniteSet(C) /\ Cardinality(C) = Weight(m, j)
  BY <1>1, <1>2, ShiftedSet
<1>7. Cardinality(Tickets(q, j) \cup C)
        = Cardinality(Tickets(q, j)) + Cardinality(C) - Cardinality(Tickets(q, j) \cap C)
  BY <1>5, <1>6, FS_Union
<1>8. Cardinality(Tickets(q, j) \cap C) = 0
  BY <1>4, FS_EmptySet
<1> QED
  BY <1>2, <1>3, <1>5, <1>6, <1>7, <1>8 DEF Left

Bound(j) == IF j \in asked THEN MaxRetries * (1 + crashes) ELSE 0

LEMMA EmailFirst == EmailInit => EmailInv
<1> SUFFICES ASSUME EmailInit PROVE EmailInv
  OBVIOUS
<1>1. EmailTypes
  BY DEF EmailInit, EmailTypes, Waits, WorkerSteps
<1>2. ASSUME NEW j \in Jobs PROVE Spent(j) = 0
  <2>1. LeftInHand(j) = 0
    BY DEF EmailInit, Waits, LeftInHand
  <2>2. attempts[j] = 0 /\ Left(sendQueue, j) = 0 /\ Left(retryQueue, j) = 0
    BY NoneLeft DEF EmailInit
  <2> QED
    BY <2>1, <2>2 DEF Spent
<1>3. asked = {}
  BY DEF EmailInit
<1>4. HoldsJob
  BY DEF EmailInit, HoldsJob, Waits
<1> QED
  BY <1>1, <1>2, <1>3, <1>4 DEF EmailInv

LEMMA SpentTypes ==
  ASSUME EmailTypes, NEW j \in Jobs
  PROVE  /\ attempts[j] \in Nat /\ Left(sendQueue, j) \in Nat /\ Left(retryQueue, j) \in Nat
         /\ LeftInHand(j) \in Nat /\ Spent(j) \in Nat
<1>1. attempts[j] \in Nat /\ Left(sendQueue, j) \in Nat /\ Left(retryQueue, j) \in Nat
  BY LeftType DEF EmailTypes
<1>2. MaxRetries \in Nat
  BY EmailAssumption DEF EmailAssumption
<1>3. CASE worker.at \in {"sending", "retrying"}
  <2>1. worker.msg \in Message
    BY <1>3 DEF EmailTypes
  <2>2. worker.msg.retries \in Nat /\ worker.msg.retries + 1 <= MaxRetries
    BY <1>2, <2>1 DEF Message
  <2> QED
    BY <1>1, <1>2, <1>3, <2>2 DEF LeftInHand, Spent
<1>4. CASE worker.at \notin {"sending", "retrying"}
  BY <1>1, <1>4 DEF LeftInHand, Spent
<1> QED
  BY <1>3, <1>4

\* The bound stays, or a death of the worker raises it, or a job comes with its own.
LEMMA SpentStep ==
  ASSUME EmailInv, EmailTypes', HoldsJob', asked \subseteq asked',
         \A j \in Jobs :
           \/ Spent(j)' <= Spent(j) /\ crashes' = crashes
           \/ /\ crashes' = crashes + 1 /\ asked' = asked
              /\ Spent(j)' <= Spent(j) + MaxRetries
              /\ j \notin asked => Spent(j)' <= Spent(j)
           \/ crashes' = crashes /\ j \in asked' \ asked /\ Spent(j)' <= Spent(j) + MaxRetries
  PROVE  EmailInv'
<1>0. /\ EmailTypes /\ MaxRetries \in Nat /\ crashes \in Nat
  BY EmailAssumption DEF EmailInv, EmailTypes, EmailAssumption
<1>1. ASSUME NEW j \in Jobs PROVE Spent(j)' <= Bound(j)'
  <2>1. Spent(j) \in Nat /\ Spent(j) <= Bound(j)
    BY <1>0, SpentTypes DEF EmailInv, Bound
  <2>2. Spent(j)' \in Nat
    <3>1. /\ attempts'[j] \in Nat /\ Left(sendQueue', j) \in Nat /\ Left(retryQueue', j) \in Nat
      BY LeftType DEF EmailTypes
    <3>2. LeftInHand(j)' \in Nat
      <4>1. CASE worker'.at \in {"sending", "retrying"}
        <5>1. worker'.msg \in Message
          BY <4>1 DEF EmailTypes
        <5>2. worker'.msg.retries \in Nat /\ worker'.msg.retries + 1 <= MaxRetries
          BY <1>0, <5>1 DEF Message
        <5> QED
          BY <1>0, <4>1, <5>2 DEF LeftInHand
      <4>2. CASE worker'.at \notin {"sending", "retrying"}
        BY <4>2 DEF LeftInHand
      <4> QED
        BY <4>1, <4>2
    <3> QED
      BY <3>1, <3>2 DEF Spent
  <2>3. /\ MaxRetries * (1 + crashes) \in Nat
        /\ MaxRetries * (1 + (crashes + 1)) = MaxRetries * (1 + crashes) + MaxRetries
        /\ MaxRetries * (1 + crashes) >= MaxRetries
    BY <1>0
  <2>4. CASE Spent(j)' <= Spent(j) /\ crashes' = crashes
    BY <2>1, <2>2, <2>3, <2>4 DEF Bound
  <2>5. CASE /\ crashes' = crashes + 1 /\ asked' = asked
             /\ Spent(j)' <= Spent(j) + MaxRetries
             /\ j \notin asked => Spent(j)' <= Spent(j)
    BY <1>0, <2>1, <2>2, <2>3, <2>5 DEF Bound
  <2>6. CASE crashes' = crashes /\ j \in asked' \ asked /\ Spent(j)' <= Spent(j) + MaxRetries
    BY <1>0, <2>1, <2>2, <2>3, <2>6 DEF Bound
  <2> QED
    BY <2>4, <2>5, <2>6
<1> QED
  BY <1>1 DEF EmailInv, Bound

LEMMA EmailNextStep == EmailInv /\ [EmailNext]_emailVars => EmailInv'
<1> SUFFICES ASSUME EmailInv, [EmailNext]_emailVars PROVE EmailInv'
  OBVIOUS
<1>0. /\ EmailTypes /\ MaxRetries \in Nat /\ MaxRetries > 0 /\ crashes \in Nat
      /\ sendQueue \in Seq(Message) /\ retryQueue \in Seq(Message)
  BY EmailAssumption DEF EmailInv, EmailTypes, EmailAssumption
<1>n. \A j \in Jobs :
        /\ attempts[j] \in Nat /\ Left(sendQueue, j) \in Nat /\ Left(retryQueue, j) \in Nat
        /\ LeftInHand(j) \in Nat
  BY <1>0, SpentTypes
<1>w. \A m \in Message, j \in Jobs :
        /\ Weight(m, j) \in Nat /\ Weight(m, j) <= MaxRetries
        /\ m.job = j => Weight(m, j) = MaxRetries - m.retries /\ Weight(m, j) >= 1
        /\ m.job # j => Weight(m, j) = 0
  <2>1. ASSUME NEW m \in Message, NEW j \in Jobs
        PROVE  Weight(m, j) \in Nat /\ Weight(m, j) <= MaxRetries
    BY MessageWeight
  <2>2. ASSUME NEW m \in Message, NEW j \in Jobs
        PROVE  /\ m.job = j => Weight(m, j) = MaxRetries - m.retries /\ Weight(m, j) >= 1
               /\ m.job # j => Weight(m, j) = 0
    <3>1. m.retries \in Nat /\ m.retries <= MaxRetries - 1
      BY <1>0 DEF Message
    <3> QED
      BY <1>0, <3>1 DEF Weight
  <2> QED
    BY <2>1, <2>2
<1>s. \A j : /\ Spent(j) = attempts[j] + Left(sendQueue, j) + Left(retryQueue, j) + LeftInHand(j)
             /\ Spent(j)' = attempts'[j] + Left(sendQueue', j) + Left(retryQueue', j) + LeftInHand(j)'
  BY DEF Spent
<1>1. ASSUME NEW x \in Jobs, PublishJob(x) PROVE EmailInv'
  <2>1. /\ x \notin asked /\ asked' = asked \cup {x}
        /\ UNCHANGED <<retryQueue, worker, attempts, crashes>>
    BY <1>1 DEF PublishJob
  <2>2. PICK m : m = [job |-> x, retries |-> 0]
    OBVIOUS
  <2>3. m \in Message /\ m.job = x
    BY <1>0, <2>2 DEF Message
  <2>4. sendQueue' = Append(sendQueue, m) \/ sendQueue' = sendQueue
    BY <1>1, <2>2 DEF PublishJob
  <2>5. sendQueue' \in Seq(Message)
    BY <1>0, <2>3, <2>4
  <2>6. EmailTypes'
    BY <1>0, <2>1, <2>5 DEF EmailTypes
  <2>7. ASSUME NEW j \in Jobs
        PROVE  \/ Spent(j)' <= Spent(j) /\ crashes' = crashes
               \/ crashes' = crashes /\ j \in asked' \ asked /\ Spent(j)' <= Spent(j) + MaxRetries
    <3>1. LeftInHand(j)' = LeftInHand(j)
      BY <2>1 DEF LeftInHand
    <3>2. Left(Append(sendQueue, m), j) = Left(sendQueue, j) + Weight(m, j)
      BY <1>0, <2>3, LeftAppend
    <3>3. Weight(m, j) \in Nat /\ Weight(m, j) <= MaxRetries /\ (j # x => Weight(m, j) = 0)
      BY <1>w, <2>3
    <3>4. \/ Left(sendQueue', j) = Left(sendQueue, j)
          \/ Left(sendQueue', j) = Left(sendQueue, j) + Weight(m, j)
      BY <2>4, <3>2
    <3>5. Left(retryQueue', j) = Left(retryQueue, j) /\ attempts'[j] = attempts[j]
      BY <2>1
    <3>6. Spent(j)' = Spent(j) \/ Spent(j)' = Spent(j) + Weight(m, j)
      <4>1. CASE Left(sendQueue', j) = Left(sendQueue, j)
        BY <1>s, <3>1, <3>5, <4>1
      <4>2. CASE Left(sendQueue', j) = Left(sendQueue, j) + Weight(m, j)
        BY <1>n, <1>s, <3>1, <3>3, <3>5, <4>2
      <4> QED
        BY <3>4, <4>1, <4>2
    <3>7. Spent(j) \in Nat
      BY <1>n, <1>s
    <3>8. CASE j = x
      BY <1>0, <2>1, <3>3, <3>6, <3>7, <3>8
    <3>9. CASE j # x
      BY <2>1, <3>3, <3>6, <3>7, <3>9
    <3> QED
      BY <3>8, <3>9
  <2>8. HoldsJob'
    BY <2>1 DEF EmailInv, HoldsJob
  <2> QED
    BY <2>1, <2>6, <2>7, <2>8, SpentStep
\* What follows neither asks for a job nor kills the worker.
<1>2. ASSUME UNCHANGED <<asked, crashes>>, EmailTypes', \A j \in Jobs : Spent(j)' <= Spent(j),
             \/ worker'.at \in {"waiting", "down"} \/ worker'.msg.job \in asked
             \/ worker.at \notin {"waiting", "down"} /\ worker'.msg = worker.msg
      PROVE  EmailInv'
  <2>1. HoldsJob'
    BY <1>2 DEF EmailInv, HoldsJob
  <2> QED
    BY <1>2, <2>1, SpentStep
<1>3. CASE TakeDelivery
  <2>1. PICK m \in Message : m = Head(sendQueue) /\ sendQueue # <<>>
    BY <1>0, <1>3 DEF TakeDelivery
  <2>2. /\ sendQueue' = Tail(sendQueue) /\ worker.at = "waiting"
        /\ UNCHANGED <<asked, retryQueue, attempts, crashes>>
    BY <1>3 DEF TakeDelivery, Holds
  <2>3. PICK at \in {"parking", "sending"} : worker' = [at |-> at, msg |-> m]
    BY <1>3, <2>1 DEF TakeDelivery
  <2>4. EmailTypes'
    BY <1>0, <2>1, <2>2, <2>3 DEF EmailTypes, WorkerSteps
  <2>5. ASSUME NEW j \in Jobs PROVE Spent(j)' <= Spent(j)
    <3>1. Left(sendQueue, j) = Left(sendQueue', j) + Weight(m, j)
      BY <1>0, <2>1, <2>2, LeftTakes
    <3>2. Left(sendQueue', j) \in Nat /\ Weight(m, j) \in Nat
      BY <1>w, <2>4, LeftType DEF EmailTypes
    <3>3. LeftInHand(j)' \in {0, Weight(m, j)}
      BY <1>w, <2>3 DEF LeftInHand
    <3>4. Left(retryQueue', j) = Left(retryQueue, j) /\ attempts'[j] = attempts[j]
      BY <2>2
    <3> QED
      BY <1>n, <1>s, <3>1, <3>2, <3>3, <3>4
  <2> QED
    <3>1. m.job \in Jobs
      BY DEF Message
    <3>2. Left(sendQueue, m.job) = Left(sendQueue', m.job) + Weight(m, m.job)
      BY <1>0, <2>1, <2>2, LeftTakes
    <3>3. Left(sendQueue', m.job) \in Nat /\ Weight(m, m.job) >= 1
      BY <1>w, <2>4, <3>1, LeftType DEF EmailTypes
    <3>4. m.job \notin asked => Spent(m.job) <= 0
      BY <3>1 DEF EmailInv
    <3>5. m.job \in asked
      <4>1. PICK a, b, c, d, w \in Int :
              /\ a = attempts[m.job] /\ b = Left(sendQueue, m.job)
              /\ c = Left(retryQueue, m.job) /\ d = LeftInHand(m.job) /\ w = Weight(m, m.job)
        BY <1>n, <1>w, <3>1
      <4>2. a >= 0 /\ b >= 1 /\ c >= 0 /\ d >= 0
        BY <1>n, <1>w, <3>1, <3>2, <3>3, <4>1
      <4>3. Spent(m.job) = a + b + c + d
        BY <1>s, <4>1
      <4> QED
        BY <3>4, <4>2, <4>3
    <3>6. worker'.msg = m
      BY <2>3
    <3> QED
      BY <1>2, <2>2, <2>4, <2>5, <3>5, <3>6
<1>4. CASE SendEmail
  <2>1. PICK m \in Message : m = worker.msg /\ worker.at = "sending"
    BY <1>0, <1>4 DEF SendEmail, Holds, EmailTypes
  <2>2. /\ attempts' = [attempts EXCEPT ![m.job] = @ + 1]
        /\ UNCHANGED <<asked, sendQueue, retryQueue, crashes>>
    BY <1>4, <2>1 DEF SendEmail
  <2>3. PICK at \in {"acking", "retrying", "parking"} :
          WorkerGoes(at) /\ (at = "retrying" => m.retries + 1 < MaxRetries)
    BY <1>4, <2>1 DEF SendEmail, RetryOrPark
  <2>4. worker'.at = at /\ worker'.msg = m
        /\ worker' \in [at : WorkerSteps, msg : Message \cup {NoMessage}]
    BY <1>0, <2>1, <2>3 DEF WorkerGoes, EmailTypes, WorkerSteps
  <2>5. m.job \in Jobs /\ attempts' \in [Jobs -> Nat]
    BY <1>0, <2>2 DEF EmailTypes, Message
  <2>6. EmailTypes'
    BY <1>0, <2>2, <2>3, <2>4, <2>5 DEF EmailTypes
  <2>7. ASSUME NEW j \in Jobs PROVE Spent(j)' <= Spent(j)
    <3>1. LeftInHand(j) = Weight(m, j)
      BY <1>w, <2>1 DEF LeftInHand
    <3>2. LeftInHand(j)' <= IF m.job = j THEN Weight(m, j) - 1 ELSE 0
      BY <1>w, <2>3, <2>4 DEF LeftInHand
    <3>3. LeftInHand(j)' \in Int
      BY <1>0, <1>w, <2>3, <2>4 DEF LeftInHand
    <3>4. attempts'[j] = attempts[j] + (IF m.job = j THEN 1 ELSE 0)
      BY <1>0, <2>2, <2>5 DEF EmailTypes
    <3>5. Left(retryQueue', j) = Left(retryQueue, j) /\ Left(sendQueue', j) = Left(sendQueue, j)
      BY <2>2
    <3> QED
      BY <1>n, <1>w, <1>s, <3>1, <3>2, <3>3, <3>4, <3>5
  <2> QED
    BY <1>2, <2>1, <2>2, <2>4, <2>6, <2>7
<1>5. CASE Retry
  <2>1. PICK m \in Message : m = worker.msg /\ worker.at = "retrying"
    BY <1>0, <1>5 DEF Retry, Holds, EmailTypes
  <2>2. PICK n : n = [m EXCEPT !.retries = @ + 1]
    OBVIOUS
  <2>3. m.retries + 1 < MaxRetries
    BY <1>0, <2>1 DEF EmailTypes
  <2>4. n \in Message /\ n.job = m.job /\ n.retries = m.retries + 1
    <3>1. m.retries \in Nat /\ m.retries + 1 \in 0..(MaxRetries - 1)
      BY <1>0, <2>3 DEF Message
    <3>2. n.job = m.job /\ n.retries = m.retries + 1
      BY <2>2 DEF Message
    <3>3. n = [job |-> n.job, retries |-> n.retries]
      BY <2>2 DEF Message
    <3> QED
      BY <3>1, <3>2, <3>3 DEF Message
  <2>5. /\ retryQueue' = Append(retryQueue, n) \/ retryQueue' = retryQueue
        /\ UNCHANGED <<asked, sendQueue, attempts, crashes>> /\ WorkerGoes("acking")
    BY <1>5, <2>1, <2>2 DEF Retry, Unpublished
  <2>6. worker'.at = "acking" /\ worker'.msg = m
        /\ worker' \in [at : WorkerSteps, msg : Message \cup {NoMessage}]
    BY <1>0, <2>1, <2>5 DEF WorkerGoes, EmailTypes, WorkerSteps
  <2>7. EmailTypes'
    BY <1>0, <2>4, <2>5, <2>6 DEF EmailTypes
  <2>8. ASSUME NEW j \in Jobs PROVE Spent(j)' <= Spent(j)
    <3>1. LeftInHand(j) = IF m.job = j THEN Weight(m, j) - 1 ELSE 0
      BY <1>w, <2>1 DEF LeftInHand
    <3>2. LeftInHand(j)' = 0
      BY <2>6 DEF LeftInHand
    <3>3. \/ Left(retryQueue', j) = Left(retryQueue, j) + Weight(n, j)
          \/ Left(retryQueue', j) = Left(retryQueue, j)
      <4>1. Left(Append(retryQueue, n), j) = Left(retryQueue, j) + Weight(n, j)
        BY <1>0, <2>4, LeftAppend
      <4> QED
        BY <2>5, <4>1
    <3>4. Weight(n, j) = IF m.job = j THEN Weight(m, j) - 1 ELSE 0
      <4>1. m.retries \in Nat
        BY <1>0 DEF Message
      <4> QED
        BY <1>0, <1>w, <2>4, <4>1
    <3>5. attempts'[j] = attempts[j] /\ Left(sendQueue', j) = Left(sendQueue, j)
      BY <2>5
    <3> QED
      BY <1>n, <1>w, <1>s, <3>1, <3>2, <3>3, <3>4, <3>5
  <2> QED
    BY <1>2, <2>1, <2>5, <2>6, <2>7, <2>8
<1>6. CASE Park
  <2>1. PICK m \in Message : m = worker.msg /\ worker.at = "parking"
    BY <1>0, <1>6 DEF Park, Holds, EmailTypes
  <2>2. WorkerGoes("acking") /\ UNCHANGED <<asked, sendQueue, retryQueue, attempts, crashes>>
    BY <1>6 DEF Park, Unpublished
  <2>3. worker'.at = "acking" /\ worker'.msg = m
        /\ worker' \in [at : WorkerSteps, msg : Message \cup {NoMessage}]
    BY <1>0, <2>1, <2>2 DEF WorkerGoes, EmailTypes, WorkerSteps
  <2>4. EmailTypes'
    BY <1>0, <2>1, <2>2, <2>3 DEF EmailTypes
  <2>5. ASSUME NEW j \in Jobs PROVE Spent(j)' <= Spent(j)
    <3>1. LeftInHand(j)' = 0 /\ LeftInHand(j) = 0
      BY <2>1, <2>3 DEF LeftInHand
    <3> QED
      BY <1>n, <1>s, <2>2, <3>1
  <2> QED
    BY <1>2, <2>1, <2>2, <2>3, <2>4, <2>5
<1>7. ASSUME worker' = Waits, UNCHANGED <<asked, sendQueue, retryQueue, attempts, crashes>>
      PROVE  EmailInv'
  <2>1. EmailTypes'
    BY <1>0, <1>7 DEF EmailTypes, Waits, WorkerSteps
  <2>2. ASSUME NEW j \in Jobs PROVE Spent(j)' <= Spent(j)
    <3>1. LeftInHand(j)' = 0
      BY <1>7 DEF LeftInHand, Waits
    <3> QED
      BY <1>7, <1>n, <1>s, <3>1
  <2> QED
    BY <1>2, <1>7, <2>1, <2>2 DEF Waits
<1>8. CASE Bounce
  <2>1. PICK m \in Message : m = Head(retryQueue) /\ retryQueue # <<>>
    BY <1>0, <1>8 DEF Bounce
  <2>2. /\ sendQueue' = Append(sendQueue, m) /\ retryQueue' = Tail(retryQueue)
        /\ UNCHANGED <<asked, worker, attempts, crashes>>
    BY <1>8, <2>1 DEF Bounce
  <2>3. EmailTypes'
    BY <1>0, <2>1, <2>2 DEF EmailTypes
  <2>4. ASSUME NEW j \in Jobs PROVE Spent(j)' <= Spent(j)
    <3>1. Left(retryQueue, j) = Left(retryQueue', j) + Weight(m, j)
      BY <1>0, <2>1, <2>2, LeftTakes
    <3>2. Left(sendQueue', j) = Left(sendQueue, j) + Weight(m, j)
      BY <1>0, <2>2, LeftAppend
    <3>3. Left(retryQueue', j) \in Nat /\ Weight(m, j) \in Nat
      BY <1>w, <2>3, LeftType DEF EmailTypes
    <3>4. LeftInHand(j)' = LeftInHand(j) /\ attempts'[j] = attempts[j]
      BY <2>2 DEF LeftInHand
    <3> QED
      BY <1>n, <1>s, <3>1, <3>2, <3>3, <3>4
  <2>5. worker.at \in {"waiting", "down"} \/ worker.msg.job \in asked
    BY DEF EmailInv, HoldsJob
  <2> QED
    BY <1>2, <2>2, <2>3, <2>4, <2>5
<1>9. CASE WorkerDies
  <2>1. /\ worker' = Down /\ crashes' = crashes + 1 /\ ~Holds("down")
        /\ UNCHANGED <<asked, retryQueue, attempts>>
    BY <1>9 DEF WorkerDies
  <2>0. \A j \in Jobs : LeftInHand(j)' = 0
    BY <2>1 DEF LeftInHand, Down
  <2>h. HoldsJob'
    BY <2>1 DEF HoldsJob, Down
  <2>2. CASE Holds("waiting")
    <3>1. sendQueue' = sendQueue
      BY <1>9, <2>2 DEF WorkerDies
    <3>2. EmailTypes'
      BY <1>0, <2>1, <3>1 DEF EmailTypes, Down, WorkerSteps
    <3>3. \A j \in Jobs : Spent(j)' <= Spent(j) /\ Spent(j) \in Int
      BY <1>n, <1>s, <2>0, <2>1, <3>1
    <3>4. \A j \in Jobs : Spent(j)' <= Spent(j) + MaxRetries
      <4>1. \A j \in Jobs : Spent(j)' \in Int
        BY <1>n, <1>s, <2>0, <2>1, <3>1
      <4> QED
        BY <1>0, <3>3, <4>1
    <3> QED
      BY <2>1, <2>h, <3>2, <3>3, <3>4, SpentStep
  <2>3. CASE ~Holds("waiting")
    <3>1. PICK m \in Message : m = worker.msg
      BY <1>0, <2>1, <2>3 DEF Holds, EmailTypes
    <3>2. sendQueue' = <<m>> \o sendQueue
      BY <1>9, <2>3, <3>1 DEF WorkerDies
    <3>3. EmailTypes'
      BY <1>0, <2>1, <3>1, <3>2 DEF EmailTypes, Down, WorkerSteps
    <3>4. ASSUME NEW j \in Jobs
          PROVE  /\ Spent(j)' <= Spent(j) + MaxRetries
                 /\ j \notin asked => Spent(j)' <= Spent(j)
      <4>1. Left(sendQueue', j) = Left(sendQueue, j) + Weight(m, j)
        BY <1>0, <3>2, LeftReturns
      <4>2. Left(retryQueue', j) = Left(retryQueue, j) /\ attempts'[j] = attempts[j]
        BY <2>1
      <4>3. Weight(m, j) \in Nat /\ Weight(m, j) <= MaxRetries
        BY <1>w
      <4>4. j \notin asked => Weight(m, j) = 0
        BY <1>w, <2>1, <2>3, <3>1 DEF EmailInv, HoldsJob, Holds
      <4>5. PICK w \in Nat : w = Weight(m, j)
        BY <4>3
      <4>6. /\ Spent(j)' = attempts[j] + (Left(sendQueue, j) + w) + Left(retryQueue, j) + 0
            /\ Spent(j) = attempts[j] + Left(sendQueue, j) + Left(retryQueue, j) + LeftInHand(j)
        BY <1>s, <2>0, <4>1, <4>2, <4>5
      <4>7. Spent(j)' <= Spent(j) + w /\ Spent(j) \in Nat /\ Spent(j)' \in Nat
        BY <1>n, <4>6
      <4> QED
        BY <1>0, <4>3, <4>4, <4>5, <4>7
    <3> QED
      BY <2>1, <2>h, <3>3, <3>4, SpentStep
  <2> QED
    BY <2>2, <2>3
<1>10. CASE UNCHANGED emailVars
  BY <1>10 DEF emailVars, EmailInv, EmailTypes, HoldsJob, Spent, LeftInHand
<1>11. CASE Ack \/ WorkerRestarts
  BY <1>7, <1>11 DEF Ack, WorkerRestarts
<1> QED
  BY <1>1, <1>3, <1>4, <1>5, <1>6, <1>8, <1>9, <1>10, <1>11 DEF EmailNext, WorkerStep

\* The mail service is bothered at most MaxRetries times with one job, and once more as
\* often for each death of the worker (handle in email/consumer.go).
THEOREM AttemptsCorrect == EmailSpec => []AttemptsBounded
<1>1. ASSUME EmailInv PROVE AttemptsBounded
  <2> SUFFICES ASSUME NEW j \in Jobs PROVE attempts[j] <= MaxRetries * (1 + crashes)
    BY DEF AttemptsBounded
  <2>1. /\ attempts[j] \in Nat /\ Left(sendQueue, j) \in Nat /\ Left(retryQueue, j) \in Nat
        /\ LeftInHand(j) \in Nat /\ Spent(j) \in Nat
    BY <1>1, SpentTypes DEF EmailInv
  <2>2. attempts[j] <= Spent(j)
    BY <2>1 DEF Spent
  <2>3. MaxRetries * (1 + crashes) \in Nat
    BY <1>1, EmailAssumption DEF EmailAssumption, EmailInv, EmailTypes
  <2>4. Spent(j) <= MaxRetries * (1 + crashes)
    BY <1>1, <2>1, <2>3 DEF EmailInv
  <2> QED
    BY <2>1, <2>2, <2>3, <2>4
<1> QED
  BY <1>1, EmailFirst, EmailNextStep, PTL DEF EmailSpec
=============================================================================
