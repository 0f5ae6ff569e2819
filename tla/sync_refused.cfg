CONSTANTS
  Text = {t0, t1}
  Rid = {a}
  NoRid = NoRid
  Seeded = {a}
  FirstText = t0
  PageSize = 1
  MaxClock = 4
  NoContent = NoContent
  MaxLocal = 1
  MaxPages = 3
  Roles <- Resident
  Acts <- EditActs
SPECIFICATION Spec
PROPERTIES RefusedIsRestored
CHECK_DEADLOCK FALSE
