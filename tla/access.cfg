SPECIFICATION UnprotectedSpec
CONSTANTS
  None = None
  Users = {alice, bob}
  Creator = alice
  WorkspaceAdmins = {bob}
  Machines = {token}
  TokenMachines = {token}
  Changes = {}
  Requests = {r1}
  Operations <- AccessOps
  MemberPatches <- AnyPatch
  Transactions = FALSE
  Faults = FALSE
  MaxRevision = 2
  MaxRekeys = 2
INVARIANTS
  KeyKnownOnlyToReaders
  MachinesKeepNoOldKey
CHECK_DEADLOCK FALSE
