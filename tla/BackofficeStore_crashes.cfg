\* One administrator and one client request at a time, three versions, restarts.
SPECIFICATION FairStoreSpec
CONSTANTS
  Admins = {a1}
  Clients = {c1}
  Hashes = {h1}
  Inexact <- InexactTenths
  MaxVersions = 3
  MaxFaults = 2
  MaxRows = 1
  MaxMishaps = 3
INVARIANTS
  StoreTypeOK
  VersionsAreConsecutive
  StoreFollowsNetwork
  StartUpHashesSurvive
  StoredInstantiatedRuns
PROPERTIES
  RegressionHasACause
  UpgradesSurviveCrashes
