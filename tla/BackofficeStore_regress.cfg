\* One administrator, one client request that overlaps two upgrades, one restart.
SPECIFICATION StoreSpec
CONSTANTS
  Admins = {a1}
  Clients = {c1}
  Hashes = {h1}
  Inexact <- InexactTenths
  MaxVersions = 3
  MaxFaults = 0
  MaxRows = 1
  MaxMishaps = 1
PROPERTY
  UpgradeIncrements
