SPECIFICATION Spec
CONSTANTS
  c1 = c1
  c2 = c2
  w1 = w1
  w2 = w2
  Devices = {d1}
  Flavours = {f1, f2}
  Clusters = {c1, c2}
  Wants = {w1, w2, w3}
  NoDevice = NoDevice
  NoGeo = {w3}
  Admits <- MCAdmits
  Dist <- MCDist
  FlavoursOf <- MCFlavoursOf
  FirstFlavour <- MCFirstFlavour
  MaxCapacity <- MCMaxCapacity
  BaseVMs = 0
  DB_CLEANUP_DAYS = 1
  Faults = {}
  Removable = {c2}
  MaxDocs = 2
  MaxVersions = 1
  MaxDay = 0
  MaxVMs = 2

INVARIANT PlacedForOwnDocument
PROPERTY MovedToServingCluster
CHECK_DEADLOCK FALSE
