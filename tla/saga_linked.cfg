CONSTANTS
  owner = owner
  alice = alice
  User = {owner, alice}
  bob = bob
  Booking = {b1}
  Contract = {c1, c2}
  Request = {r1, r2, r3}
  NoBooking = NoBooking
  NoContract = NoContract
  NoUser = NoUser
  Owner = owner
  OwnerPays = FALSE
  Price = 2
  MinBalance <- Floor
  Gift = {1}
  DirectSignatories <- NoDirect
  MayFail <- AllCalls
  MayLoseAck <- AllCalls
  MayCrash = TRUE
  SignBeforeLink = FALSE
SYMMETRY SymmetryRC
SPECIFICATION Spec
INVARIANTS WithdrawalLeavesSignature
PROPERTIES OutcomeIsFinal ImplementsDeal
CHECK_DEADLOCK FALSE
