SPECIFICATION ServicesSpec
CONSTANTS
  None = None
  Logins = {l1}
  Users = {alice}
  Devices = {d1, d2}
  Handlers = {h1, h2}
  MaxFailures = 1
  Jobs = {j1, j2, j3}
  Broken = {j3}
  MaxRetries = 2
  MaxCrashes = 1
  i1 = i1
  i2 = i2
  e1 = e1
  e2 = e2
  browser = browser
  machine = machine
  Instances <- MCInstances
  Events <- MCEvents
  Streams <- MCStreams
  Machines <- MCMachines
  Origin <- MCOrigin
  Home <- MCHome
  Visible <- MCVisible
  Buffer = 1
  MaxFaults = 1
  Sids = {s1}
  Commands = {p1, p2}
  MaxOutages = 1
INVARIANTS
  TypeInv
  RevocationRetriable
  FewOrphans
  AttemptsBounded
  NoEventTwice
PROPERTIES
  ImplementsGrant
  ApprovedIsCollected
  PollingEnds
  JobSettles
  EventArrives
  RevokedStreamEnds
  RevokedAccessRunsOut
CHECK_DEADLOCK FALSE
