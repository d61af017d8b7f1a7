SPECIFICATION FairSpec
CONSTANTS
  c1 = c1
  c2 = c2
  w1 = w1
  w2 = w2
  Devices = {d1}
  Flavours = {f1}
  Clusters = {c1, c2}
  Wants = {w1, w2}
  NoDevice = NoDevice
  NoGeo = {}
  Admits <- MCAdmits
  Dist <- MCDist
  FlavoursOf <- MCFlavoursOf
  FirstFlavour <- MCFirstFlavour
  MaxCapacity <- MCMaxCapacity
  BaseVMs = 0
  DB_CLEANUP_DAYS = 0
  Faults = {"error", "crash"}
  Removable = {}
  MaxDocs = 1
  MaxVersions = 2
  MaxDay = 1
  MaxVMs = 1
INVARIANTS TypeOK InsertNeverConflicts MissOnlyIfExpired
PROPERTY RequirementsConverge KeepsContract
CHECK_DEADLOCK FALSE
