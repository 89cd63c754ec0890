SPECIFICATION Spec
CONSTANTS
  alice = alice
  bob = bob
  r1 = r1
  r2 = r2
  c1 = c1
  None = None
  Users = {alice, bob, carol}
  Creator = alice
  WorkspaceAdmins = {}
  Machines = {}
  TokenMachines = {}
  Changes = {c1}
  Requests = {r1}
  Operations <- FlagOps
  MemberPatches <- Writers
  Transactions = TRUE
  Faults = FALSE
  MaxRevision = 2
  MaxRekeys = 1
PROPERTIES
  WritesAreChecked
CHECK_DEADLOCK FALSE
