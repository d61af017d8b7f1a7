SPECIFICATION FairSpec
CONSTANTS
  Frontends = {frontend}
  Optimizers = {optimizer}
  Daemons = {daemon}
  MaxRestarts = 2
INVARIANT TypeOK
PROPERTIES SchemaConverges SettledStays
