CONSTANTS
  Buttons <- ButtonShapes
  Rows = {r1, r2}
  Items = {i1}
  Copies = {c1, c2}
  It = It
  MaxTasks = 2
  MaxCalls = 4
  None = None
SPECIFICATION Spec
SYMMETRY Alike
INVARIANTS
  TypeOK
  LoadingClears
  OverlapHasACause
  SuccessIsEarned
  FollowUpsOnNew
  EveryRowIsServed
  NoSilentEnd
