\* Two administrators at the same time.
SPECIFICATION Spec
CONSTANTS
  Admins = {a1, a2}
  Inexact <- InexactTenths
  MaxVersions = 3
  MaxFaults = 1
INVARIANTS
  SuccessMeansRunning
