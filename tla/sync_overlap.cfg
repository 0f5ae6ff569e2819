CONSTANTS
  Text = {t0, t1}
  Rid = {a, b}
  NoRid = NoRid
  Seeded = {a}
  FirstText = t0
  PageSize = 1
  MaxClock = 4
  NoContent = NoContent
  MaxLocal = 4
  MaxPages = 3
  Roles <- AnyRole
  Acts <- OverlapActs
SPECIFICATION Spec
INVARIANTS RemoteIdUnique
PROPERTIES PullKeepsEdits
CHECK_DEADLOCK FALSE
