SPECIFICATION AccountSpec
CONSTANTS
  Identities = {x}
  Addresses = {a}
  Callbacks = {c1}
  MaxUsers = 1
  MaxErrors = 1
INVARIANTS
  LoginHasAccount
CHECK_DEADLOCK FALSE
