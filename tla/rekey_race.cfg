SPECIFICATION Spec
CONSTANTS
  None = None
  Users = {alice, bob}
  Creator = alice
  WorkspaceAdmins = {}
  Machines = {}
  TokenMachines = {}
  Changes = {}
  Requests = {r1, r2}
  Operations <- RaceOps
  MemberPatches <- AdminPatch
  Transactions = TRUE
  Faults = FALSE
  MaxRevision = 2
  MaxRekeys = 2
INVARIANTS
  ExcludedFromRekey
CHECK_DEADLOCK FALSE
