CONSTANTS
  t1 = t1
  t2 = t2
  t3 = t3
  ann = ann
  ben = ben
  ann1 = ann1
  ann2 = ann2
  ben1 = ben1
  duo = duo
  zone = zone
  label = label
  blank = blank
  word = word
  number = number
  User = {1, 2}
  MaxUser = 3
  Contract = {c1, c2}
  Tx = {t1, t2, t3}
  NoTx = NoTx
  NoContract = NoContract
  Amount = {2}
  MinBalance <- Floor
  Secret = {s1}
  Period = 2
  Start = {0, 2, 4, 6}
  ReplayTtl = 6
  MaxTime = 10
  Voter = {ann, ben}
  Option <- OptionMC
  Budget = 3
  Dto <- DtoMC
  VoteRequest = {t1, t2, t3}
  EndsAt = 1
  MaxNow = 2
  NoWeights = NoWeights
  NoPaper = NoPaper
  Press = {t1, t2, t3}
  VoteKind = {up, down}
  NoVote = NoVote
  Resident = {ann, ben}
  Socket = {ann1, ann2, ben1}
  Owner <- OwnerMC
  Conversation = {duo}
  Member <- MemberMC
  NoEntry = NoEntry
  Signatory = {ann, ben}
  PdfRequest = {t1, t2, t3}
  NoFile = NoFile
  NoDoc = NoDoc
  Account = {ann, ben}
  Email = {e1, e2}
  NoEmail = NoEmail
  NoOwner = NoOwner
  NoRole = NoRole
  Call = {t1, t2, t3}
  Row <- RowMC
  Field = {zone, label}
  Scope = zone
  Column = label
  Value = {blank, word, number}
  Text = {blank, word}
  EmptyText = blank
  NoCondition = NoCondition
  NoOr = NoOr
  NoLimit = NoLimit
  MaxDslResults = 2
  MaxConditions = 3
SYMMETRY SymmetryMC
SPECIFICATION CommunitySpec
INVARIANTS
  NoDeadlock  TotalsWithinBudget RoomsAreComplete PresenceIsAccurate
    DeletionSurvivesFaults UnbanRestoresRole
  NothingIsMissed
PROPERTIES ImplementsLedger ImplementsBallotBox AnswerIsStored
CHECK_DEADLOCK FALSE
