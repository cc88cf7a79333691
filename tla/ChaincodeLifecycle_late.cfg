\* One administrator, one fault.
SPECIFICATION Spec
CONSTANTS
  Admins = {a1}
  Inexact <- InexactTenths
  MaxVersions = 2
  MaxFaults = 1
INVARIANTS
  RunningIsInstantiated
