CONSTANTS
  alice = alice
  bob = bob
  Clients <- MCClients
  Admins <- MCAdmins
  Terminals = {1}
  Keys = {k}
  Values = {v1, v2}
  Deleted = Deleted
  None = None
  MaxCommands = 5
  MaxFailures = 1
  Machines = {m1, m2}
  TokenMachines = {m1}
  Fetches = {1}
  Nobody = Nobody
  MaxKeyVersion = 2
  MaxHead = 2
SPECIFICATION ClientsSpec
INVARIANTS
  TypeInv
  LocalReadable
  CleanIsBase
  EditsKept
  OwnEditsOnly
  SecretsOpen
  MachineShutOut
PROPERTIES
  PushEnds
CHECK_DEADLOCK FALSE
