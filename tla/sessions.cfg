CONSTANTS
  User = {u}
  Pair = {p1, p2, p3}
  Sso = {s1}
  Request = {r1, r2}
  Thread = {t1, t2}
  InitialRole <- Administrators
  Assignable = {"resident", "admin", "banned"}
  Nobody = Nobody
  NoPair = NoPair
  Password = Password
  NoThread = NoThread
  NoRequest = NoRequest
SYMMETRY Symmetric
SPECIFICATION Spec
INVARIANTS RedeemedOnce
PROPERTIES NeverReplays
CHECK_DEADLOCK FALSE
