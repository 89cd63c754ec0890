SPECIFICATION StandaloneSpec
CONSTANTS
  alice = alice
  bob = bob
  r1 = r1
  r2 = r2
  c1 = c1
  None = None
  Users = {alice, bob}
  Creator = alice
  WorkspaceAdmins = {}
  Machines = {token}
  TokenMachines = {token}
  Changes = {c1}
  Requests = {r1, r2}
  Operations <- StandaloneOps
  MemberPatches <- AnyWriter
  Transactions = FALSE
  Faults = TRUE
  MaxRevision = 2
  MaxRekeys = 2
SYMMETRY Symmetry
INVARIANTS
  ChainIsGapFree
  KeyVersionsOrdered
PROPERTIES
  ImplementsLog
  RevokedNotRevived
CHECK_DEADLOCK FALSE
