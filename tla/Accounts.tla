------------------------------ MODULE Accounts ------------------------------
(***************************************************************************)
(* Signing in with an identity provider: the callback of auth/oauth.go,    *)
(* FindOrCreateOAuthUser and OAuthLogin of auth/service.go.  A callback    *)
(* issues its database commands one by one.                                *)
(***************************************************************************)
EXTENDS Integers, Sequences

CONSTANTS
  Identities,     \* accounts at the provider
  Addresses,      \* e-mail addresses, in lower case
  Callbacks,      \* callbacks the server handles at the same time
  MaxUsers,       \* bounds the accounts made
  MaxErrors       \* bounds the database commands that fail

ASSUME AccountAssumption == MaxUsers \in Nat /\ MaxErrors \in Nat

VARIABLES
  primary,    \* the address each identity has now, in the spelling it has now
  owned,      \* history: the addresses each identity has had
  users,      \* the accounts in the order they were made
  callback,   \* the step of each callback
  loggedIn,   \* history: the sessions, as <<identity, account>>
  errors

accountVars == <<primary, owned, users, callback, loggedIn, errors>>

\* An address is spelled in lower case or in another way.
Spelling == [address : Addresses, lower : BOOLEAN]
Lower(m) == [m EXCEPT !.lower = TRUE]

\* What a lookup that fails makes of the account it was to fill in.
Nameless == 0

NoEmail == [address |-> "none", lower |-> TRUE]
NoCallback == [at |-> "idle", of |-> "none", email |-> NoEmail, user |-> Nameless]

AccountInit ==
  /\ primary \in [Identities -> Spelling]
  /\ \A x, y \in Identities : x # y => primary[x].address # primary[y].address
  /\ owned = [x \in Identities |-> {primary[x].address}]
  /\ users = <<>>
  /\ callback = [c \in Callbacks |-> NoCallback]
  /\ loggedIn = {} /\ errors = 0

CallbackAt(c, step) == callback[c].at = step
CallbackGoes(c, step, u) ==
  callback' = [callback EXCEPT ![c].at = step, ![c].user = u]

\* The unique index of users.
HasEmail(m) == {u \in DOMAIN users : users[u].email = m}

\* An identity takes another address, which nobody else has at that moment.
ChangeAddress(x) ==
  /\ \E m \in Spelling :
       /\ \A y \in Identities \ {x} : primary[y].address # m.address
       /\ primary' = [primary EXCEPT ![x] = m]
       /\ owned' = [owned EXCEPT ![x] = @ \cup {m.address}]
  /\ UNCHANGED <<users, callback, loggedIn, errors>>

\* The provider has told who signs in.
HandleCallback(c, x) ==
  /\ CallbackAt(c, "idle")
  /\ callback' = [callback EXCEPT ![c] = [at |-> "findIdentity", of |-> x,
                                          email |-> primary[x], user |-> Nameless]]
  /\ UNCHANGED <<primary, owned, users, loggedIn, errors>>

FindUserByOAuth(c) ==
  LET found == {u \in DOMAIN users : users[u].identity = callback[c].of} IN
  /\ CallbackAt(c, "findIdentity")
  /\ \/ \E u \in found : CallbackGoes(c, "session", u)
     \/ found = {} /\ CallbackGoes(c, "findEmail", Nameless)
  /\ UNCHANGED <<primary, owned, users, loggedIn, errors>>

FindUserByEmail(c) ==
  LET found == HasEmail(Lower(callback[c].email)) IN
  /\ CallbackAt(c, "findEmail")
  /\ \/ \E u \in found : CallbackGoes(c, "link", u)
     \/ found = {} /\ CallbackGoes(c, "create", Nameless)
  /\ UNCHANGED <<primary, owned, users, loggedIn, errors>>

\* Links the identity to the account that has its address, instead of another.
LinkUser(c) ==
  LET u == callback[c].user IN
  /\ CallbackAt(c, "link")
  /\ users' = IF u = Nameless THEN users ELSE [users EXCEPT ![u].identity = callback[c].of]
  /\ CallbackGoes(c, "session", u)
  /\ UNCHANGED <<primary, owned, loggedIn, errors>>

\* No unique index on the address.
CreateUserBug(c) ==
  /\ CallbackAt(c, "create") /\ Len(users) < MaxUsers
  /\ users' = Append(users, [email |-> callback[c].email, identity |-> callback[c].of])
  /\ CallbackGoes(c, "session", Len(users) + 1)
  /\ UNCHANGED <<primary, owned, loggedIn, errors>>

\* With the address as the provider spells it.
CreateUser(c) ==
  /\ CallbackAt(c, "create")
  /\ IF HasEmail(callback[c].email) = {}
       THEN /\ Len(users) < MaxUsers
            /\ users' = Append(users, [email |-> callback[c].email,
                                       identity |-> callback[c].of])
            /\ CallbackGoes(c, "session", Len(users) + 1)
       ELSE callback' = [callback EXCEPT ![c] = NoCallback] /\ UNCHANGED users
  /\ UNCHANGED <<primary, owned, loggedIn, errors>>

OAuthLogin(c) ==
  /\ CallbackAt(c, "session")
  /\ loggedIn' = loggedIn \cup {<<callback[c].of, callback[c].user>>}
  /\ callback' = [callback EXCEPT ![c] = NoCallback]
  /\ UNCHANGED <<primary, owned, users, errors>>

\* The errors of both lookups are ignored; they return an empty account and not
\* none.  Any other error ends the callback.
DatabaseError(c) ==
  /\ errors < MaxErrors /\ errors' = errors + 1
  /\ \/ CallbackAt(c, "findIdentity") /\ CallbackGoes(c, "session", Nameless)
     \/ CallbackAt(c, "findEmail") /\ CallbackGoes(c, "link", Nameless)
     \/ /\ callback[c].at \in {"link", "create", "session"}
        /\ callback' = [callback EXCEPT ![c] = NoCallback]
  /\ UNCHANGED <<primary, owned, users, loggedIn>>

SignIn(c) ==
  \/ FindUserByOAuth(c) \/ FindUserByEmail(c) \/ LinkUser(c) \/ CreateUser(c)
  \/ OAuthLogin(c)

AccountNext ==
  \/ \E x \in Identities : ChangeAddress(x)
  \/ \E c \in Callbacks :
       SignIn(c) \/ DatabaseError(c) \/ \E x \in Identities : HandleCallback(c, x)

AccountSpec == AccountInit /\ [][AccountNext]_accountVars
----------------------------------------------------------------------------
(* Properties *)

\* However callbacks overlap and identities change their addresses, nobody is
\* signed in to an account with an address that was never his, and no address
\* has two accounts under one spelling ("prevents two accounts with same email").
AccountsAreOwn ==
  /\ \A s \in loggedIn : s[2] # Nameless => users[s[2]].email.address \in owned[s[1]]
  /\ \A u, v \in DOMAIN users : users[u].email = users[v].email => u = v

\* "finds existing user or creates new one for OAuth login"
\* (FindOrCreateOAuthUser): whoever is signed in has an account.
LoginHasAccount == \A s \in loggedIn : s[2] # Nameless
=============================================================================
