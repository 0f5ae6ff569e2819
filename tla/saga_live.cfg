CONSTANTS
  owner = owner
  alice = alice
  User = {owner, alice}
  bob = bob
  Booking = {b1}
  Contract = {c1}
  Request = {r1, r2, r3}
  NoBooking = NoBooking
  NoContract = NoContract
  NoUser = NoUser
  Owner = owner
  OwnerPays = TRUE
  Price = 2
  MinBalance <- Floor
  Gift = {1}
  DirectSignatories <- NoDirect
  MayFail <- NoCalls
  MayLoseAck <- NoCalls
  MayCrash = FALSE
  SignBeforeLink = FALSE
SPECIFICATION FairSpec
INVARIANTS Agreement
PROPERTIES PaidLeadsToCompleted LastSignatureConcludes ClaimIsResolved
CHECK_DEADLOCK FALSE
