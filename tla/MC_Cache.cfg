SPECIFICATION Spec
CONSTANTS
  Kinds <- AllKinds
  Changes = {c1, c2}
  MaxDeeds = 2
  MaxOpens = 2
SYMMETRY AnyOrder
INVARIANTS TypeOK RepeatedViewsAgree PatchedViewsAgree
CHECK_DEADLOCK FALSE
