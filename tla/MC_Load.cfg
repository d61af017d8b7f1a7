SPECIFICATION FairSpec
CONSTANTS
  d1 = d1
  d2 = d2
  f1 = f1
  f2 = f2
  s1 = s1
  s2 = s2
  Devices = {d1, d2}
  Flavours = {f1, f2}
  Services = {s1, s2}
  FlavourOf <- MCFlavourOf
  Queues = {0, 1}
  CPUs = {150}
  VMs = {0, 2}
INVARIANT TypeOK
PROPERTY RowGetsLoad
