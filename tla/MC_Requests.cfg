SPECIFICATION Spec
CONSTANTS
  z0 = z0
  z1 = z1
  z2 = z2
  None = None
  Commands <- AllCommands
  Endpoints <- AllEndpoints
  Givens <- GivensOf
  Zones <- AllZones
  KnownZones <- SomeZones
  DefaultZone = z0
INVARIANTS TypeOK Reached
PROPERTY DirectSpec
CHECK_DEADLOCK FALSE
