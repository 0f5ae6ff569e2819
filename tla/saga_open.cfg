CONSTANTS
  owner = owner
  alice = alice
  User = {owner, alice}
  bob = bob
  Booking = {b1}
  Contract = {c1, c2}
  Request = {r1, r2}
  NoBooking = NoBooking
  NoContract = NoContract
  NoUser = NoUser
  Owner = owner
  OwnerPays = FALSE
  Price = 2
  MinBalance <- Floor
  Gift = {1}
  DirectSignatories <- OneDirect
  MayFail <- AllCalls
  MayLoseAck <- AckedSettlement
  MayCrash = TRUE
  SignBeforeLink = TRUE
SYMMETRY SymmetryRC
SPECIFICATION Spec
INVARIANTS FullySignedIsPaid PaidIsSignedByAll LedgerReconciles
PROPERTIES PaymentIsFinal
CHECK_DEADLOCK FALSE
