\* One administrator at a time, six versions, four faults of the network.
SPECIFICATION FairSpec
CONSTANTS
  Admins = {a1}
  Inexact <- InexactTenths
  MaxVersions = 6
  MaxFaults = 4
INVARIANTS
  TypeOK
  VersionsAreConsecutive
  RunningIsRecorded
  CurrentIsNearRecorded
  SuccessMeansRunning
  InstantiatedIsRunning
  UpgradesAreEndorsable
PROPERTIES
  RunningNeverRegresses
  RegisterSpec
  UpgradesGetThrough
