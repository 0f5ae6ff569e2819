CONSTANTS
  Text = {t0, t1}
  Rid = {a, b}
  NoRid = NoRid
  Seeded = {a}
  FirstText = t0
  PageSize = 1
  MaxClock = 4
  NoContent = NoContent
  MaxLocal = 2
  MaxPages = 3
  Roles <- Moderator
  Acts <- QuietActs
SPECIFICATION Spec
INVARIANTS TypeOK
PROPERTIES StatusAdvances  
CHECK_DEADLOCK FALSE
