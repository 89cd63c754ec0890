SPECIFICATION PeopleSpec
CONSTANTS
  People = {ann, bob}
  Invites = {i1}
  Slots = {s1, s2}
  Nobody = Nobody
  MaxCalls = 4
  Envs = {dev, prod}
  MaxBreaks = 1
  Identities = {x, y}
  Addresses = {a, b}
  Callbacks = {c1, c2}
  MaxUsers = 3
  MaxErrors = 1
  Sids = {sid1, sid2}
  Commands = {p1, p2}
  MaxOutages = 1
SYMMETRY TeamSymmetry
INVARIANTS
  TeamTypes
  OneOwner
  InviteAdmitsOnce
  LiveVaultHasCreator
  AccountsAreOwn
  TokensAreLastLogin
CHECK_DEADLOCK FALSE
