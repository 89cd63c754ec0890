SPECIFICATION Spec
CONSTANTS
  alice = alice
  bob = bob
  r1 = r1
  r2 = r2
  c1 = c1
  None = None
  Users = {alice, bob}
  Creator = alice
  WorkspaceAdmins = {}
  Machines = {}
  TokenMachines = {}
  Changes = {c1}
  Requests = {r1}
  Operations <- OrphanOps
  MemberPatches <- Writers
  Transactions = FALSE
  Faults = TRUE
  MaxRevision = 2
  MaxRekeys = 2
INVARIANTS
  KeysAgreeAtRest
CHECK_DEADLOCK FALSE
