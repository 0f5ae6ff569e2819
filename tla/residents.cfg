CONSTANTS
  r1 = r1
  r2 = r2
  x = x
  y = y
  Tab = {t1}
  Fetch = {f1, f2, f3}
  Pair = {p1, p2, p3}
  NoPair = NoPair
  NoTab = NoTab
  NoFetch = NoFetch
  Lossy = FALSE
  User = {u1}
  Point = {x, y}
  Place = {n1, n2}
  Request = {r1, r2}
  NoUser = NoUser
  NoPoint = NoPoint
  NoPlace = NoPlace
  Service = {s}
  Event = {e}
  Resident = {u1}
  Title = {x, y}
  Call = {r1, r2}
  MaxWrites = 2
  MaxItems = 1
  NoItem = NoItem
  NoResident = NoResident
  Gone = Gone
  Untitled = Untitled
SYMMETRY Symmetric
SPECIFICATION ResidentsSpec
INVARIANTS
  ResidentsTypeOK NeverReplayed AreasAreApart  ListingsAgree
CHECK_DEADLOCK FALSE
