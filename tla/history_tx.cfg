SPECIFICATION TransactionalSpec
CONSTANTS
  alice = alice
  bob = bob
  r1 = r1
  r2 = r2
  c1 = c1
  None = None
  Users = {alice, bob}
  Creator = alice
  WorkspaceAdmins = {}
  Machines = {}
  TokenMachines = {}
  Changes = {c1}
  Requests = {r1, r2}
  Operations <- HistoryOps
  MemberPatches <- Writers
  Transactions = TRUE
  Faults = FALSE
  MaxRevision = 2
  MaxRekeys = 2
SYMMETRY Symmetry
INVARIANTS
  TypeInv
  OneKeyPerVersion
  ChainIsGapFree
  KeyVersionsOrdered
  ReviewedByAnother
  ApprovedIsMerged
PROPERTIES
  DecisionsAreFinal
  ImplementsLog
CHECK_DEADLOCK FALSE
