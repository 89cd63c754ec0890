SPECIFICATION Spec
CONSTANTS
  None = None
  Logins = {l1}
  Users = {alice, bob}
  Devices = {d1, d2}
  Handlers = {h1}
  MaxFailures = 0
INVARIANT
  SessionHasDevice
