CONSTANTS
  Message = {m1, m2}
  Own = {m1}
  Mark = {k1, k2}
  MaxDate = 2
  NoPage = NoPage
SYMMETRY Symmetry
SPECIFICATION MessagingSpec
INVARIANTS MessagingTypeOK LiveThreadIsRead 
CHECK_DEADLOCK FALSE
