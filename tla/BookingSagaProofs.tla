------------------------- MODULE BookingSagaProofs --------------------------
(***************************************************************************)
(* Theorems about BookingSaga, for any users, bookings, contracts and      *)
(* number of handlers in flight, and for any choice of failing calls: its  *)
(* invariants, what its steps may never do, that it implements             *)
(* BookingDeal, and that bookings, contracts and payments agree.           *)
(***************************************************************************)
EXTENDS BookingSaga, LedgerProofs, TLAPS

AcceptCall == {"resolveNames", "createContract", "reserve", "link",
               "unwindContract", "unwindPayment", "releaseClaim"}
CancelCall == {"voidPayment", "checkPaid", "markCompleted", "cancelContract"}
SignCall == {"settle", "flip", "reread", "announce", "pullSignature"}

\* What the local variables of a handler hold at each of its calls.
HandlerShape ==
  \A r \in Request :
    /\ request[r].at = "createBooking" => request[r].user \in User
    /\ request[r].at \in AcceptCall \cup CancelCall =>
         /\ request[r].booking \in Booking
         /\ request[r].contract \in Contract
         /\ booking[request[r].booking].initiator \in User
    /\ request[r].at \in SignCall =>
         /\ request[r].contract \in Contract
         /\ request[r].user \in User

BookingShape ==
  \A b \in Booking : booking[b].status # "none" => booking[b].initiator \in User

TypeInv == TypeOK /\ HandlerShape /\ BookingShape

\* A handler that proceeds changes its next call and nothing else.
LEMMA ProceedLemma ==
  ASSUME NEW r \in Request, NEW call \in Call \cup {"idle"},
         request \in [Request -> Handler], Proceed(r, call)
  PROVE  /\ request' \in [Request -> Handler]
         /\ \A s \in Request \ {r} : request'[s] = request[s]
         /\ call = "idle" => request'[r] = Idle
         /\ call # "idle" =>
              /\ request'[r].at = call
              /\ request'[r].booking = request[r].booking
              /\ request'[r].contract = request[r].contract
              /\ request'[r].user = request[r].user
<1>1. Idle \in Handler
  BY DEF Idle, InFlight, Handler
<1>2. [request[r] EXCEPT !.at = call] \in Handler
  BY DEF Handler
<1>3. QED
  BY <1>1, <1>2 DEF Proceed, Handler

\* A handler that starts takes the place of an idle one.
LEMMA StartLemma ==
  ASSUME NEW r \in Request, NEW h \in Handler,
         request \in [Request -> Handler], Start(r, h)
  PROVE  /\ request' \in [Request -> Handler]
         /\ request[r].at = "idle"
         /\ request'[r] = h
         /\ \A s \in Request \ {r} : request'[s] = request[s]
BY DEF Start, At

\* Moving points keeps every balance an integer.
LEMMA MovedType ==
  ASSUME NEW f \in [User -> Int], NEW u \in User, NEW v \in User, NEW n \in Nat
  PROVE  Moved(f, u, v, n) \in [User -> Int]
BY DEF Moved

\* Every update of a contract document keeps the documents well formed.
LEMMA ContractUpdateType ==
  ASSUME ContractTypeOK, NEW c \in Contract, NEW u \in User,
         \/ PushSignature(c, u)
         \/ PullSignature(c, u)
         \/ Flip(c)
         \/ CancelContract(c)
         \/ HealContract(c)
  PROVE  ContractTypeOK'
<1>1. CASE PushSignature(c, u)
  BY <1>1 DEF ContractTypeOK, ContractDocument, ContractStatus, PushSignature
<1>2. CASE PullSignature(c, u)
  BY <1>2 DEF ContractTypeOK, ContractDocument, ContractStatus, PullSignature
<1>3. CASE Flip(c)
  BY <1>3 DEF ContractTypeOK, ContractDocument, ContractStatus, Flip
<1>5. CASE CancelContract(c)
  BY <1>5 DEF ContractTypeOK, ContractDocument, ContractStatus, CancelContract
<1>6. CASE HealContract(c)
  BY <1>6 DEF ContractTypeOK, ContractDocument, ContractStatus, HealContract
<1>7. QED
  BY <1>1, <1>2, <1>3, <1>5, <1>6

LEMMA SaveDraftType ==
  ASSUME ContractTypeOK, NEW c \in Contract, NEW b \in Booking \cup {NoBooking},
         NEW signatories \in SUBSET User, SaveDraft(c, b, signatories)
  PROVE  ContractTypeOK'
BY DEF ContractTypeOK, ContractDocument, ContractStatus, SaveDraft

\* The operations of the ledger keep its tables well formed.
LEMMA LedgerStepType ==
  ASSUME LedgerTypeOK, NEW c \in Contract,
         \/ Settle(c)
         \/ Void(c)
         \/ \E u, v \in User, n \in Nat : Reserve(c, u, v, n)
         \/ \E u, v \in User, n \in Nat : Transfer(u, v, n)
         \/ UNCHANGED ledgerVars
  PROVE  LedgerTypeOK'
<1>1. CASE Settle(c)
  <2>1. /\ payment[c].payer \in User
        /\ payment[c].payee \in User
        /\ payment[c].amount \in Nat
    BY <1>1 DEF Settle, Settleable, LedgerTypeOK, PaymentRow, NoRow
  <2>2. balance' \in [User -> Int]
    BY <1>1, <2>1, MovedType DEF Settle, LedgerTypeOK
  <2>3. payment' \in [Contract -> PaymentRow \cup {NoRow}]
    BY <1>1 DEF Settle, Settleable, LedgerTypeOK, PaymentRow, NoRow, PaymentStatus
  <2>4. QED
    BY <1>1, <2>2, <2>3 DEF Settle, LedgerTypeOK
<1>2. CASE Void(c)
  BY <1>2 DEF Void, LedgerTypeOK, PaymentRow, NoRow, PaymentStatus
<1>3. CASE \E u, v \in User, n \in Nat : Reserve(c, u, v, n)
  BY <1>3 DEF Reserve, LedgerTypeOK, PaymentRow, PaymentStatus
<1>4. CASE \E u, v \in User, n \in Nat : Transfer(u, v, n)
  BY <1>4, MovedType DEF Transfer, LedgerTypeOK
<1>5. CASE UNCHANGED ledgerVars
  BY <1>5 DEF ledgerVars, LedgerTypeOK
<1>6. QED
  BY <1>1, <1>2, <1>3, <1>4, <1>5

\* A change of status leaves the rest of the booking documents alone.
LEMMA BookingStatusType ==
  ASSUME booking \in [Booking -> BookingDocument],
         NEW b \in Booking, NEW status \in BookingStatus,
         booking' = [booking EXCEPT ![b].status = status]
  PROVE  /\ booking' \in [Booking -> BookingDocument]
         /\ booking'[b].status = status
         /\ \A d \in Booking : /\ booking'[d].initiator = booking[d].initiator
                               /\ booking'[d].contract = booking[d].contract
                               /\ d # b => booking'[d] = booking[d]
BY DEF BookingDocument

\* The shapes survive when bookings keep their initiators and every handler is
\* as before, idle, or has proceeded within the same operation.
LEMMA ShapeKept ==
  ASSUME HandlerShape,
         booking \in [Booking -> BookingDocument],
         \A d \in Booking : booking'[d].initiator = booking[d].initiator,
         NEW r \in Request,
         \A s \in Request \ {r} : request'[s] = request[s],
         \/ request'[r] = Idle
         \/ request'[r] = request[r]
         \/ /\ request'[r].booking = request[r].booking
            /\ request'[r].contract = request[r].contract
            /\ request'[r].user = request[r].user
            /\ \/ request[r].at \in AcceptCall /\ request'[r].at \in AcceptCall
               \/ request[r].at \in CancelCall /\ request'[r].at \in CancelCall
               \/ request[r].at \in SignCall /\ request'[r].at \in SignCall
  PROVE  HandlerShape'
BY DEF HandlerShape, Idle, InFlight, AcceptCall, CancelCall, SignCall

LEMMA TypeInit == Init => TypeInv
BY DEF Init, LedgerInit, ContractInit, TypeInv, TypeOK, LedgerTypeOK,
       ContractTypeOK, HandlerShape, BookingShape, BookingDocument,
       NoBookingDocument, Handler, Idle, InFlight, NoRow, ContractDocument, NoDocument,
       AcceptCall, CancelCall, SignCall

\* The users' own steps keep the types: requests, claims, signatures, reads.
LEMMA TypeUserStep == TypeInv /\ UserStep => TypeInv'
<1> SUFFICES ASSUME TypeInv, UserStep PROVE TypeInv'
  OBVIOUS
<1> USE SagaAssumption, ContractAssumption
<1>1. ASSUME NEW r \in Request, NEW u \in User, RequestBooking(r, u)
      PROVE  TypeInv'
  BY <1>1 DEF RequestBooking, Start, At, dataVars, TypeInv, TypeOK, LedgerTypeOK,
     ContractTypeOK, HandlerShape, BookingShape, Handler, Idle, InFlight, Call,
     AcceptCall, CancelCall, SignCall
<1>2. ASSUME NEW r \in Request, NEW b \in Booking, NEW c \in Contract,
             Accept(r, b, c)
      PROVE  TypeInv'
  <2> DEFINE h == InFlight("resolveNames", b, c, NoUser)
  <2>1. h = [at |-> "resolveNames", booking |-> b, contract |-> c, user |-> NoUser]
    BY DEF InFlight
  <2>2. h \in Handler
    BY <2>1 DEF Handler, Call
  <2>3. /\ booking' \in [Booking -> BookingDocument]
        /\ booking'[b].status = "accepted"
        /\ \A d \in Booking : /\ booking'[d].initiator = booking[d].initiator
                              /\ d # b => booking'[d] = booking[d]
    BY <1>2, BookingStatusType DEF Accept, TypeInv, TypeOK, BookingStatus
  <2>4. /\ request' \in [Request -> Handler]
        /\ request'[r] = h
        /\ \A s \in Request \ {r} : request'[s] = request[s]
    BY <1>2, <2>2, StartLemma DEF Accept, TypeInv, TypeOK
  <2>5. booking[b].initiator \in User
    BY <1>2 DEF Accept, TypeInv, BookingShape
  <2>6. HandlerShape'
    BY <2>1, <2>3, <2>4, <2>5 DEF TypeInv, HandlerShape, AcceptCall, CancelCall,
       SignCall
  <2>7. BookingShape'
    BY <2>3, <2>5 DEF TypeInv, BookingShape
  <2>8. QED
    BY <1>2, <2>3, <2>4, <2>6, <2>7 DEF Accept, ledgerVars, TypeInv, TypeOK,
       LedgerTypeOK, ContractTypeOK
<1>3. ASSUME NEW b \in Booking, Decline(b)
      PROVE  TypeInv'
  <2>1. /\ booking' \in [Booking -> BookingDocument]
        /\ \A d \in Booking : /\ booking'[d].initiator = booking[d].initiator
                              /\ d # b => booking'[d] = booking[d]
    BY <1>3, BookingStatusType DEF Decline, TypeInv, TypeOK, BookingStatus
  <2>2. booking[b].initiator \in User
    BY <1>3 DEF Decline, TypeInv, BookingShape
  <2>3. HandlerShape' /\ BookingShape'
    BY <1>3, <2>1, <2>2 DEF Decline, TypeInv, HandlerShape, BookingShape
  <2>4. QED
    BY <1>3, <2>1, <2>3 DEF Decline, ledgerVars, TypeInv, TypeOK,
       LedgerTypeOK, ContractTypeOK
<1>4. ASSUME NEW r \in Request, NEW b \in Booking, NEW u \in User, Cancel(r, b, u)
      PROVE  TypeInv'
  <2> DEFINE c == booking[b].contract
             h == InFlight("voidPayment", b, c, NoUser)
  <2>1. /\ booking' \in [Booking -> BookingDocument]
        /\ \A d \in Booking : /\ booking'[d].initiator = booking[d].initiator
                              /\ d # b => booking'[d] = booking[d]
    BY <1>4, BookingStatusType DEF Cancel, TypeInv, TypeOK, BookingStatus
  <2>2. booking[b].initiator \in User
    BY <1>4 DEF Cancel, Cancellable, TypeInv, BookingShape
  <2>3. BookingShape'
    BY <2>1, <2>2 DEF TypeInv, BookingShape
  <2>4. request' \in [Request -> Handler] /\ HandlerShape'
    <3>1. CASE c = NoContract
      BY <1>4, <2>1, <3>1 DEF Cancel, TypeInv, TypeOK, HandlerShape
    <3>2. CASE c # NoContract
      <4>1. c \in Contract
        BY <3>2 DEF TypeInv, TypeOK, BookingDocument
      <4>2. h = [at |-> "voidPayment", booking |-> b, contract |-> c, user |-> NoUser]
        BY DEF InFlight
      <4>3. h \in Handler
        BY <4>1, <4>2 DEF Handler, Call
      <4>4. /\ request' \in [Request -> Handler]
            /\ request'[r] = h
            /\ \A s \in Request \ {r} : request'[s] = request[s]
        BY <1>4, <3>2, <4>3, StartLemma DEF Cancel, TypeInv, TypeOK
      <4>5. QED
        BY <2>1, <2>2, <4>1, <4>2, <4>4 DEF TypeInv, HandlerShape, AcceptCall,
           CancelCall, SignCall
    <3>3. QED
      BY <3>1, <3>2
  <2>5. QED
    BY <1>4, <2>1, <2>3, <2>4 DEF Cancel, ledgerVars, TypeInv, TypeOK,
       LedgerTypeOK, ContractTypeOK
<1>5. ASSUME NEW r \in Request, NEW c \in Contract, NEW u \in User, Sign(r, c, u)
      PROVE  TypeInv'
  <2>1. ContractTypeOK'
    BY <1>5, ContractUpdateType DEF Sign, TypeInv, TypeOK
  <2>2. contract[c].booking \in Booking \cup {NoBooking}
    BY DEF TypeInv, TypeOK, ContractTypeOK, ContractDocument
  <2>3. QED
    BY <1>5, <2>1, <2>2 DEF Sign, Start, At, InFlight, ledgerVars, TypeInv, TypeOK,
       LedgerTypeOK, HandlerShape, BookingShape, Handler, Call,
       AcceptCall, CancelCall, SignCall
<1>6. ASSUME NEW c \in Contract, Heal(c)
      PROVE  TypeInv'
  <2>1. ContractTypeOK'
    BY <1>6, ContractUpdateType DEF Heal, TypeInv, TypeOK
  <2>2. QED
    BY <1>6, <2>1 DEF Heal, ledgerVars, TypeInv, TypeOK, LedgerTypeOK,
       HandlerShape, BookingShape
<1>7. ASSUME NEW c \in Contract, NEW s \in DirectSignatories, CreateDirect(c, s)
      PROVE  TypeInv'
  <2>1. ContractTypeOK'
    BY <1>7, SaveDraftType DEF CreateDirect, TypeInv, TypeOK
  <2>2. QED
    BY <1>7, <2>1 DEF CreateDirect, ledgerVars, TypeInv, TypeOK, LedgerTypeOK,
       HandlerShape, BookingShape
<1>8. ASSUME NEW u \in User, NEW v \in User, NEW n \in Gift, GiveUser(u, v, n)
      PROVE  TypeInv'
  <2>1. LedgerTypeOK'
    BY <1>8, MovedType DEF GiveUser, Transfer, TypeInv, TypeOK, LedgerTypeOK
  <2>2. QED
    BY <1>8, <2>1 DEF GiveUser, TypeInv, TypeOK, ContractTypeOK,
       HandlerShape, BookingShape
<1>9. QED
  BY <1>1, <1>2, <1>3, <1>4, <1>5, <1>6, <1>7, <1>8 DEF UserStep

\* The calls of a handler keep the types.  Each either fails, changing nothing,
\* or has its effect; then the handler proceeds within its operation or ends.
LEMMA TypeHandlerStep ==
  ASSUME TypeInv, NEW r \in Request, HandlerStep(r)
  PROVE  TypeInv'
<1> USE DEF Await, At
<1>1. CASE CreateBooking(r)
  <2>1. /\ request' \in [Request -> Handler]
        /\ request'[r] = Idle
        /\ \A s \in Request \ {r} : request'[s] = request[s]
    BY <1>1, ProceedLemma DEF CreateBooking, TypeInv, TypeOK
  <2>2. CASE UNCHANGED dataVars
    <3>1. HandlerShape'
      BY <2>1, <2>2, ShapeKept DEF dataVars, TypeInv, TypeOK
    <3>2. QED
      BY <2>1, <2>2, <3>1 DEF dataVars, TypeInv, TypeOK, LedgerTypeOK,
         ContractTypeOK, BookingShape
  <2>3. CASE ~ UNCHANGED dataVars
    <3>1. PICK b \in Booking :
            /\ booking[b].status = "none"
            /\ booking' = [booking EXCEPT ![b] =
                             [status |-> "pending", contract |-> NoContract,
                              initiator |-> request[r].user]]
            /\ UNCHANGED <<contract, ledgerVars>>
      BY <1>1, <2>3 DEF CreateBooking
    <3>2. request[r].user \in User
      BY <1>1 DEF CreateBooking, TypeInv, HandlerShape
    <3>3. /\ booking' \in [Booking -> BookingDocument]
          /\ BookingShape'
      BY <3>1, <3>2 DEF TypeInv, TypeOK, BookingDocument, BookingStatus, BookingShape
    <3>4. HandlerShape'
      BY <2>1, <3>1, <3>2 DEF TypeInv, TypeOK, HandlerShape, Idle, InFlight, AcceptCall,
         CancelCall, SignCall
    <3>5. QED
      BY <2>1, <3>1, <3>3, <3>4 DEF ledgerVars, TypeInv, TypeOK, LedgerTypeOK,
         ContractTypeOK
  <2>4. QED
    BY <2>2, <2>3
<1>2. ASSUME NEW Calls, Calls \in {AcceptCall, CancelCall, SignCall},
             request[r].at \in Calls,
             NEW call \in Calls \cup {"idle"}, Proceed(r, call),
             booking' \in [Booking -> BookingDocument],
             \A d \in Booking : /\ booking'[d].initiator = booking[d].initiator
                                /\ booking'[d].status # "none" =>
                                     booking[d].status # "none",
             LedgerTypeOK', ContractTypeOK'
      PROVE  TypeInv'
  <2>1. call \in Call \cup {"idle"}
    BY <1>2 DEF AcceptCall, CancelCall, SignCall, Call
  <2>2. /\ request' \in [Request -> Handler]
        /\ \A s \in Request \ {r} : request'[s] = request[s]
        /\ call = "idle" => request'[r] = Idle
        /\ call # "idle" =>
             /\ request'[r].at = call
             /\ request'[r].booking = request[r].booking
             /\ request'[r].contract = request[r].contract
             /\ request'[r].user = request[r].user
    BY <1>2, <2>1, ProceedLemma DEF TypeInv, TypeOK
  <2>3. HandlerShape'
    BY <1>2, <2>2, ShapeKept DEF TypeInv, TypeOK
  <2>4. BookingShape'
    BY <1>2 DEF TypeInv, BookingShape
  <2>5. QED
    BY <1>2, <2>2, <2>3, <2>4 DEF TypeInv, TypeOK
<1>3. UNCHANGED dataVars =>
        /\ booking' \in [Booking -> BookingDocument]
        /\ LedgerTypeOK' /\ ContractTypeOK'
        /\ UNCHANGED booking
  BY DEF dataVars, TypeInv, TypeOK, LedgerTypeOK, ContractTypeOK
<1>4. UNCHANGED ledgerVars => LedgerTypeOK'
  BY DEF ledgerVars, TypeInv, TypeOK, LedgerTypeOK
<1>5. UNCHANGED contract => ContractTypeOK'
  BY DEF TypeInv, TypeOK, ContractTypeOK
<1>6. UNCHANGED booking => booking' \in [Booking -> BookingDocument]
  BY DEF TypeInv, TypeOK
<1>7. CASE AcceptStep(r)
  <2>1. /\ request[r].at \in AcceptCall
        /\ \E call \in AcceptCall \cup {"idle"} : Proceed(r, call)
    BY <1>7 DEF AcceptStep, ResolveNames, CreateContract, ReservePayment, Link,
       UnwindContract, UnwindPayment, ReleaseClaim, AcceptCall
  <2> DEFINE b == request[r].booking
             c == request[r].contract
  <2>2. b \in Booking /\ c \in Contract /\ booking[b].initiator \in User
    BY <2>1 DEF TypeInv, HandlerShape
  <2>3. Payer(b) \in User /\ Payee(b) \in User /\ Price \in Nat
    BY <2>2, SagaAssumption DEF Payer, Payee
  <2>4. /\ booking' \in [Booking -> BookingDocument]
        /\ \A d \in Booking : /\ booking'[d].initiator = booking[d].initiator
                              /\ booking'[d].status # "none" =>
                                   booking[d].status # "none"
    <3>1. \/ UNCHANGED booking
          \/ booking' = [booking EXCEPT ![b].contract = c] /\ Linkable(b)
          \/ booking' = [booking EXCEPT ![b].status = "pending"] /\ Linkable(b)
      BY <1>7 DEF AcceptStep, ResolveNames, CreateContract, ReservePayment, Link,
         UnwindContract, UnwindPayment, ReleaseClaim, dataVars
    <3>2. CASE UNCHANGED booking
      BY <1>6, <3>2
    <3>3. CASE booking' = [booking EXCEPT ![b].contract = c] /\ Linkable(b)
      BY <2>2, <3>3 DEF TypeInv, TypeOK, BookingDocument
    <3>4. CASE booking' = [booking EXCEPT ![b].status = "pending"] /\ Linkable(b)
      BY <2>2, <3>4, BookingStatusType
         DEF TypeInv, TypeOK, BookingStatus, Linkable
    <3>5. QED
      BY <3>1, <3>2, <3>3, <3>4
  <2>5. ContractTypeOK'
    <3>1. \/ UNCHANGED contract
          \/ SaveDraft(c, b, {Payer(b), Payee(b)})
          \/ CancelContract(c)
      BY <1>7 DEF AcceptStep, ResolveNames, CreateContract, ReservePayment, Link,
         UnwindContract, UnwindPayment, ReleaseClaim, dataVars
    <3>2. {Payer(b), Payee(b)} \in SUBSET User
      BY <2>3
    <3>3. QED
      BY <1>5, <2>2, <2>3, <3>1, <3>2, SaveDraftType, ContractUpdateType
         DEF TypeInv, TypeOK
  <2>6. LedgerTypeOK'
    <3>1. \/ UNCHANGED ledgerVars
          \/ Reserve(c, Payer(b), Payee(b), Price)
          \/ Void(c)
      BY <1>7 DEF AcceptStep, ResolveNames, CreateContract, ReservePayment, Link,
         UnwindContract, UnwindPayment, ReleaseClaim, dataVars, ledgerVars
    <3>2. QED
      BY <1>4, <2>2, <2>3, <3>1, LedgerStepType DEF TypeInv, TypeOK
  <2>7. QED
    BY <1>2, <2>1, <2>4, <2>5, <2>6
<1>8. CASE CancelStep(r)
  <2>1. /\ request[r].at \in CancelCall
        /\ \E call \in CancelCall \cup {"idle"} : Proceed(r, call)
    BY <1>8 DEF CancelStep, VoidPayment, CheckPaid, MarkCompleted,
       CancelLinkedContract, CancelCall
  <2> DEFINE b == request[r].booking
             c == request[r].contract
  <2>2. b \in Booking /\ c \in Contract
    BY <2>1 DEF TypeInv, HandlerShape
  <2>3. /\ \/ UNCHANGED booking
           \/ /\ booking[b].status = "cancelled"
              /\ booking' = [booking EXCEPT ![b].status = "completed"]
        /\ UNCHANGED contract \/ CancelContract(c)
        /\ UNCHANGED ledgerVars \/ Void(c)
    BY <1>8 DEF CancelStep, VoidPayment, CheckPaid, MarkCompleted, SetStatus,
       CancelLinkedContract, dataVars, ledgerVars
  <2>4. /\ booking' \in [Booking -> BookingDocument]
        /\ \A d \in Booking : /\ booking'[d].initiator = booking[d].initiator
                              /\ booking'[d].status # "none" =>
                                   booking[d].status # "none"
    BY <1>6, <2>2, <2>3, BookingStatusType DEF TypeInv, TypeOK, BookingStatus
  <2>5. ContractTypeOK' /\ LedgerTypeOK'
    <3>1. User # {}
      BY SagaAssumption
    <3>2. QED
      BY <1>4, <1>5, <2>2, <2>3, <3>1, ContractUpdateType, LedgerStepType
         DEF TypeInv, TypeOK
  <2>6. QED
    BY <1>2, <2>1, <2>4, <2>5
<1>9. CASE SignStep(r)
  <2>1. /\ request[r].at \in SignCall
        /\ \E call \in SignCall \cup {"idle"} : Proceed(r, call)
    BY <1>9 DEF SignStep, SettlePayment, FlipContract, Reread, Announce, AfterFlip,
       WithdrawSignature, SignCall
  <2> DEFINE b == request[r].booking
             c == request[r].contract
             u == request[r].user
  <2>2. c \in Contract /\ u \in User
    BY <2>1 DEF TypeInv, HandlerShape
  <2>3. /\ \/ UNCHANGED booking
           \/ /\ booking[b].status = "accepted"
              /\ booking' = [booking EXCEPT ![b].status = "completed"]
        /\ \/ UNCHANGED contract
           \/ Flip(c) \/ PullSignature(c, u)
        /\ UNCHANGED ledgerVars \/ Settle(c)
    BY <1>9 DEF SignStep, SettlePayment, FlipContract, Reread, Announce, SetStatus,
       WithdrawSignature, dataVars, ledgerVars
  <2>4. /\ booking' \in [Booking -> BookingDocument]
        /\ \A d \in Booking : /\ booking'[d].initiator = booking[d].initiator
                              /\ booking'[d].status # "none" =>
                                   booking[d].status # "none"
    <3>1. CASE UNCHANGED booking
      BY <1>6, <3>1
    <3>2. CASE /\ booking[b].status = "accepted"
               /\ booking' = [booking EXCEPT ![b].status = "completed"]
      <4>1. CASE b \in Booking
        BY <3>2, <4>1, BookingStatusType DEF TypeInv, TypeOK, BookingStatus
      <4>2. CASE b \notin Booking
        <5>1. booking' = booking
          BY <3>2, <4>2 DEF TypeInv, TypeOK
        <5>2. QED
          BY <1>6, <5>1
      <4>3. QED
        BY <4>1, <4>2
    <3>3. QED
      BY <2>3, <3>1, <3>2
  <2>5. ContractTypeOK' /\ LedgerTypeOK'
    BY <1>4, <1>5, <2>2, <2>3, ContractUpdateType, LedgerStepType
       DEF TypeInv, TypeOK
  <2>6. QED
    BY <1>2, <2>1, <2>4, <2>5
<1>10. QED
  BY <1>1, <1>7, <1>8, <1>9 DEF HandlerStep

\* A handler that dies leaves the data as it is.
LEMMA TypeCrash ==
  ASSUME TypeInv, NEW r \in Request, Crash(r)
  PROVE  TypeInv'
<1>1. /\ request' \in [Request -> Handler]
      /\ request'[r] = Idle
      /\ \A s \in Request \ {r} : request'[s] = request[s]
  BY ProceedLemma DEF Crash, TypeInv, TypeOK
<1>2. HandlerShape'
  BY <1>1, ShapeKept DEF Crash, dataVars, TypeInv, TypeOK
<1>3. QED
  BY <1>1, <1>2 DEF Crash, dataVars, TypeInv, TypeOK, LedgerTypeOK,
     ContractTypeOK, BookingShape

LEMMA TypeStep == TypeInv /\ [Next]_sagaVars => TypeInv'
<1>1. ASSUME TypeInv, UNCHANGED sagaVars PROVE TypeInv'
  BY <1>1 DEF sagaVars, TypeInv, TypeOK, LedgerTypeOK, ContractTypeOK,
     HandlerShape, BookingShape
<1>2. QED
  BY <1>1, TypeUserStep, TypeHandlerStep, TypeCrash DEF Next

\* Documents, rows and handlers stay well formed, for every set of failing calls.
THEOREM TypeCorrect == Spec => []TypeOK
<1>1. TypeInv => TypeOK
  BY DEF TypeInv
<1>2. QED
  BY <1>1, TypeInit, TypeStep, PTL DEF Spec

-----------------------------------------------------------------------------
(* The money of BookingSaga: the floor of the balances, a payment is decided *)
(* once, a fully signed contract is paid, and (when Postgres acknowledges    *)
(* its commits) a paid contract is signed by all.                            *)


\* The type invariant holds in every reachable state.
LEMMA TypeInvariant == Spec => []TypeInv
BY TypeInit, TypeStep, PTL DEF Spec

-----------------------------------------------------------------------------
(* What a step does to the ledger.                                         *)

LEMMA LedgerStep ==
  ASSUME TypeInv, Next
  PROVE  \/ UNCHANGED ledgerVars
         \/ \E c \in Contract : Settle(c) \/ Void(c)
         \/ \E u, v \in User, n \in Nat : Transfer(u, v, n)
         \/ \E r \in Request :
              /\ request[r].at = "reserve"
              /\ \E u, v \in User : Reserve(request[r].contract, u, v, Price)
<1>1. CASE UserStep
  BY <1>1, SagaAssumption DEF UserStep, RequestBooking, Accept, Decline, Cancel, Sign, Heal,
     CreateDirect, GiveUser, dataVars, ledgerVars
<1>2. ASSUME NEW r \in Request, HandlerStep(r)
      PROVE  \/ UNCHANGED ledgerVars
             \/ \E c \in Contract : Settle(c) \/ Void(c)
             \/ /\ request[r].at = "reserve"
                /\ \E u, v \in User : Reserve(request[r].contract, u, v, Price)
  <2> USE DEF Await, At
  <2>1. CASE CreateBooking(r)
    BY <2>1 DEF CreateBooking, dataVars, ledgerVars
  <2>2. CASE AcceptStep(r)
    <3>1. /\ request[r].booking \in Booking /\ request[r].contract \in Contract
          /\ booking[request[r].booking].initiator \in User
      BY <2>2 DEF AcceptStep, ResolveNames, CreateContract, ReservePayment, Link,
         UnwindContract, UnwindPayment, ReleaseClaim, TypeInv, HandlerShape,
         AcceptCall
    <3>2. Payer(request[r].booking) \in User /\ Payee(request[r].booking) \in User
      BY <3>1, SagaAssumption DEF Payer, Payee
    <3>3. QED
      BY <2>2, <3>1, <3>2 DEF AcceptStep, ResolveNames, CreateContract,
         ReservePayment, Link, UnwindContract, UnwindPayment, ReleaseClaim,
         dataVars, ledgerVars
  <2>3. CASE CancelStep(r)
    <3>1. request[r].contract \in Contract
      BY <2>3 DEF CancelStep, VoidPayment, CheckPaid, MarkCompleted,
         CancelLinkedContract, TypeInv, HandlerShape, CancelCall
    <3>2. QED
      BY <2>3, <3>1 DEF CancelStep, VoidPayment, CheckPaid, MarkCompleted,
         CancelLinkedContract, dataVars, ledgerVars
  <2>4. CASE SignStep(r)
    <3>1. request[r].contract \in Contract
      BY <2>4 DEF SignStep, SettlePayment, FlipContract, Reread, Announce,
         WithdrawSignature, TypeInv, HandlerShape, SignCall
    <3>2. QED
      BY <2>4, <3>1 DEF SignStep, SettlePayment, FlipContract, Reread, Announce,
         WithdrawSignature, dataVars, ledgerVars
  <2>5. QED
    BY <1>2, <2>1, <2>2, <2>3, <2>4 DEF HandlerStep
<1>3. ASSUME NEW r \in Request, Crash(r) PROVE UNCHANGED ledgerVars
  BY <1>3 DEF Crash, dataVars, ledgerVars
<1>4. QED
  BY <1>1, <1>2, <1>3 DEF Next

\* A payment leaves the payer at the floor or above, and only adds to the payee.
LEMMA MovedFloor ==
  ASSUME NEW u \in User, NEW v \in User, NEW n \in Nat,
         balance \in [User -> Int], BalanceFloor, CanPay(u, n),
         balance' = Moved(balance, u, v, n)
  PROVE  BalanceFloor'
<1> USE MinBalanceAssumption
<1>1. SUFFICES ASSUME NEW w \in User PROVE balance'[w] >= MinBalance
  BY DEF BalanceFloor
<1>2. balance[w] >= MinBalance /\ balance[w] \in Int
  BY DEF BalanceFloor
<1>3. CASE w = u
  BY <1>2, <1>3 DEF CanPay, Moved
<1>4. CASE w # u
  BY <1>2, <1>4 DEF Moved
<1>5. QED
  BY <1>3, <1>4

\* No interleaving of transfers and settlements takes a balance below the floor,
\* whatever the users, the price and the reservations outstanding.
THEOREM BalancesStayAboveFloor == Spec => []BalanceFloor
<1>1. Init => BalanceFloor
  BY MinBalanceAssumption DEF Init, LedgerInit, BalanceFloor
<1>2. TypeInv /\ BalanceFloor /\ [Next]_sagaVars => BalanceFloor'
  <2> SUFFICES ASSUME TypeInv, BalanceFloor, [Next]_sagaVars PROVE BalanceFloor'
    OBVIOUS
  <2>1. CASE UNCHANGED balance
    BY <2>1 DEF BalanceFloor
  <2>2. ASSUME NEW c \in Contract, Settle(c) PROVE BalanceFloor'
    <3>1. /\ payment[c].payer \in User
          /\ payment[c].payee \in User
          /\ payment[c].amount \in Nat
      BY <2>2 DEF Settle, Settleable, TypeInv, TypeOK, LedgerTypeOK, PaymentRow, NoRow
    <3>2. QED
      BY <2>2, <3>1, MovedFloor DEF Settle, Settleable, TypeInv, TypeOK, LedgerTypeOK
  <2>3. ASSUME NEW u \in User, NEW v \in User, NEW n \in Nat, Transfer(u, v, n)
        PROVE  BalanceFloor'
    BY <2>3, MovedFloor DEF Transfer, TypeInv, TypeOK, LedgerTypeOK
  <2>4. QED
    BY <2>1, <2>2, <2>3, LedgerStep DEF sagaVars, ledgerVars, Void, Reserve
<1>3. QED
  BY <1>1, <1>2, TypeInvariant, PTL DEF Spec

-----------------------------------------------------------------------------
(* A payment is decided once, and a fully signed contract of a booking is  *)
(* paid.  Neither is inductive: a payment row is only safe from the insert *)
(* of reserve because its contract id belongs to one handler of accept.    *)

\* The calls of accept before the payment is reserved.
Opening == {"resolveNames", "createContract", "reserve"}

\* A contract that does not exist yet has no payment.
NoContractNoPayment ==
  \A c \in Contract : contract[c].status = "none" => payment[c].status = "none"

\* An accept that has not reserved yet owns its contract id.
OpeningOwnsContract ==
  \A r \in Request :
    /\ request[r].at \in Opening =>
         /\ payment[request[r].contract].status = "none"
         /\ \A s \in Request \ {r} :
              request[s].at \in Opening => request[s].contract # request[r].contract
    /\ request[r].at \in {"resolveNames", "createContract"} =>
         contract[request[r].contract].status = "none"
    /\ request[r].at = "reserve" => contract[request[r].contract].status # "none"

\* A handler of sign works on an existing contract, and flips one that is paid.
FlipIsPaid ==
  \A r \in Request :
    /\ request[r].at \in SignCall => contract[request[r].contract].status # "none"
    /\ /\ request[r].at = "flip"
       /\ contract[request[r].contract].booking # NoBooking
       => Completed(request[r].contract)

PayInv ==
  /\ NoContractNoPayment
  /\ OpeningOwnsContract
  /\ FlipIsPaid
  /\ FullySignedIsPaid

\* A payment row that is not pending is not touched.
OnlyPendingChanges ==
  \A c \in Contract : payment[c].status # "pending" => payment'[c] = payment[c]

\* No contract is created, or fully signed without being paid.
ContractsProgress ==
  \A c \in Contract :
    /\ contract'[c].booking = contract[c].booking
    /\ contract'[c].status = "none" <=> contract[c].status = "none"
    /\ contract'[c].status = "fully_signed" =>
         contract[c].status = "fully_signed"
           \/ contract[c].booking = NoBooking \/ Completed(c)

\* The steps that create neither a contract nor a payment row.
LEMMA PayInvKept ==
  ASSUME TypeInv, PayInv, OnlyPendingChanges, ContractsProgress,
         NEW r \in Request,
         \A s \in Request \ {r} : request'[s] = request[s],
         \/ request'[r] = request[r]
         \/ request'[r].at \notin Opening \cup SignCall
         \/ /\ request'[r].at \in SignCall
            /\ request'[r].contract \in Contract
            /\ contract[request'[r].contract].status # "none"
            /\ /\ request'[r].at = "flip"
               /\ contract[request'[r].contract].booking # NoBooking
               => payment'[request'[r].contract].status = "completed"
  PROVE  PayInv'
<1>1. \A s \in Request :
        request[s].at \in Opening \cup SignCall => request[s].contract \in Contract
  BY DEF TypeInv, HandlerShape, Opening, AcceptCall
<1>2. \A s \in Request : request'[s].at \in Opening => request'[s] = request[s]
  BY DEF Opening, SignCall
<1>3. NoContractNoPayment'
  BY DEF PayInv, NoContractNoPayment, OnlyPendingChanges, ContractsProgress
<1>4. OpeningOwnsContract'
  BY <1>1, <1>2 DEF PayInv, OpeningOwnsContract, OnlyPendingChanges,
     ContractsProgress, Opening
<1>5. FlipIsPaid'
  <2>1. ASSUME NEW s \in Request, request'[s].at \in SignCall
        PROVE  /\ contract'[request'[s].contract].status # "none"
               /\ request'[s].at = "flip" /\ contract'[request'[s].contract].booking # NoBooking
                  => payment'[request'[s].contract].status = "completed"
    <3>1. CASE request'[s] = request[s]
      BY <1>1, <2>1, <3>1 DEF PayInv, FlipIsPaid, Completed, OnlyPendingChanges, ContractsProgress
    <3>2. CASE request'[s] # request[s]
      BY <2>1, <3>2 DEF ContractsProgress
    <3>3. QED
      BY <3>1, <3>2
  <2>2. QED
    BY <2>1 DEF FlipIsPaid, Completed, SignCall
<1>6. FullySignedIsPaid'
  BY DEF PayInv, FullySignedIsPaid, OnlyPendingChanges, ContractsProgress, Completed
<1>7. QED
  BY <1>3, <1>4, <1>5, <1>6 DEF PayInv

LEMMA OnlyPendingChangesLemma ==
  ASSUME TypeInv, NEW c \in Contract,
         \/ UNCHANGED payment
         \/ Settle(c)
         \/ Void(c)
  PROVE  OnlyPendingChanges
BY DEF TypeInv, TypeOK, LedgerTypeOK, OnlyPendingChanges, Settle, Settleable, Void

LEMMA ContractsProgressLemma ==
  ASSUME TypeInv, NEW c \in Contract, NEW u \in User,
         \/ UNCHANGED contract
         \/ MaySign(c, u) /\ PushSignature(c, u)
         \/ PullSignature(c, u)
         \/ Flip(c) /\ (contract[c].booking # NoBooking => Completed(c))
         \/ CancelContract(c)
         \/ Completed(c) /\ HealContract(c)
  PROVE  ContractsProgress
<1> USE DEF TypeInv, TypeOK, ContractTypeOK, ContractDocument, ContractsProgress
<1>1. CASE UNCHANGED contract
  BY <1>1
<1>2. CASE MaySign(c, u) /\ PushSignature(c, u)
  BY <1>2 DEF MaySign, InProgress, PushSignature
<1>3. CASE PullSignature(c, u)
  BY <1>3 DEF PullSignature
<1>4. CASE Flip(c) /\ (contract[c].booking # NoBooking => Completed(c))
  BY <1>4 DEF Flip
<1>6. CASE CancelContract(c)
  BY <1>6 DEF CancelContract, InProgress
<1>7. CASE Completed(c) /\ HealContract(c)
  BY <1>7 DEF HealContract, InProgress
<1>8. QED
  BY <1>1, <1>2, <1>3, <1>4, <1>6, <1>7

LEMMA PayInvInit == Init => PayInv
BY ContractAssumption DEF Init, LedgerInit, ContractInit, PayInv, NoContractNoPayment, OpeningOwnsContract,
   FlipIsPaid, FullySignedIsPaid, NoDocument, NoRow, Idle, InFlight, Opening, SignCall

\* What users do keeps the invariant: an accept takes an id nobody has.
LEMMA PayInvUserStep == TypeInv /\ PayInv /\ UserStep => PayInv'
<1> SUFFICES ASSUME TypeInv, PayInv, UserStep PROVE PayInv'
  OBVIOUS
<1> USE SagaAssumption
<1>1. ASSUME NEW r \in Request, NEW u \in User, RequestBooking(r, u)
      PROVE  PayInv'
  BY <1>1, PayInvKept DEF RequestBooking, Start, dataVars, OnlyPendingChanges,
     ContractsProgress, TypeInv, TypeOK, InFlight, Opening, SignCall
<1>2. ASSUME NEW r \in Request, NEW b \in Booking, NEW c \in Contract,
             Accept(r, b, c)
      PROVE  PayInv'
  <2>1. /\ \A s \in Request \ {r} : request'[s] = request[s]
        /\ request'[r].at = "resolveNames"
        /\ request'[r].contract = c
        /\ request[r].at = "idle"
    BY <1>2 DEF Accept, Start, At, TypeInv, TypeOK, InFlight
  <2>2. /\ contract[c].status = "none" /\ payment[c].status = "none"
        /\ \A s \in Request : request[s].contract # c
    BY <1>2 DEF Accept, Fresh, PayInv, NoContractNoPayment
  <2>3. UNCHANGED <<contract, payment>>
    BY <1>2 DEF Accept, ledgerVars
  <2>4. OpeningOwnsContract'
    BY <2>1, <2>2, <2>3 DEF PayInv, OpeningOwnsContract, Opening
  <2>5. FlipIsPaid'
    BY <2>1, <2>3 DEF PayInv, FlipIsPaid, SignCall, Completed
  <2>6. QED
    BY <2>3, <2>4, <2>5 DEF PayInv, NoContractNoPayment, FullySignedIsPaid, Completed
<1>3. ASSUME NEW b \in Booking, Decline(b) PROVE PayInv'
  BY <1>3 DEF Decline, ledgerVars, PayInv, NoContractNoPayment, OpeningOwnsContract,
     FlipIsPaid, FullySignedIsPaid, Completed
<1>4. ASSUME NEW r \in Request, NEW b \in Booking, NEW u \in User, Cancel(r, b, u)
      PROVE  PayInv'
  <2>1. OnlyPendingChanges /\ ContractsProgress
    BY <1>4 DEF Cancel, ledgerVars, OnlyPendingChanges, ContractsProgress
  <2>2. /\ \A s \in Request \ {r} : request'[s] = request[s]
        /\ request'[r] = request[r] \/ request'[r].at = "voidPayment"
    BY <1>4 DEF Cancel, Start, TypeInv, TypeOK, InFlight
  <2>3. QED
    BY <2>1, <2>2, PayInvKept DEF Opening, SignCall
<1>5. ASSUME NEW r \in Request, NEW c \in Contract, NEW u \in User, Sign(r, c, u)
      PROVE  PayInv'
  <2>1. OnlyPendingChanges /\ ContractsProgress
    BY <1>5, ContractsProgressLemma, OnlyPendingChangesLemma DEF Sign, ledgerVars
  <2>2. /\ \A s \in Request \ {r} : request'[s] = request[s]
        /\ \/ request'[r] = request[r]
           \/ /\ request'[r].contract = c
              /\ IF contract[c].booking = NoBooking THEN request'[r].at = "flip"
                                                    ELSE request'[r].at = "settle"
    BY <1>5 DEF Sign, Start, TypeInv, TypeOK, InFlight
  <2>3. contract[c].status # "none"
    BY <1>5 DEF Sign, MaySign, InProgress
  <2>4. QED
    BY <2>1, <2>2, <2>3, PayInvKept DEF Opening, SignCall
<1>6. ASSUME NEW c \in Contract, Heal(c) PROVE PayInv'
  <2>1. OnlyPendingChanges
    BY <1>6, OnlyPendingChangesLemma DEF Heal, ledgerVars
  <2>2. ContractsProgress
    BY <1>6, ContractsProgressLemma DEF Heal
  <2>3. CASE Request = {}
    BY <1>6, <2>2, <2>3 DEF Heal, ledgerVars, PayInv, NoContractNoPayment,
       OpeningOwnsContract, FlipIsPaid, FullySignedIsPaid, ContractsProgress, Completed
  <2>4. CASE Request # {}
    BY <1>6, <2>1, <2>2, <2>4, PayInvKept DEF Heal
  <2>5. QED
    BY <2>3, <2>4
<1>7. ASSUME NEW c \in Contract, NEW s \in DirectSignatories, CreateDirect(c, s)
      PROVE  PayInv'
  <2>1. /\ contract[c].status = "none"
        /\ \A r \in Request : request[r].contract # c
        /\ contract'[c].status = "draft"
        /\ \A d \in Contract \ {c} : contract'[d] = contract[d]
        /\ UNCHANGED <<payment, request>>
    BY <1>7 DEF CreateDirect, Fresh, SaveDraft, ledgerVars, TypeInv, TypeOK,
       ContractTypeOK
  <2>2. \A r \in Request :
          request[r].at \in Opening \cup SignCall => request[r].contract \in Contract \ {c}
    BY <2>1 DEF TypeInv, HandlerShape, Opening, AcceptCall
  <2>3. QED
    BY <2>1, <2>2 DEF PayInv, NoContractNoPayment, OpeningOwnsContract,
       FlipIsPaid, FullySignedIsPaid, Completed, Opening, SignCall
<1>8. ASSUME NEW u \in User, NEW v \in User, NEW n \in Gift, GiveUser(u, v, n)
      PROVE  PayInv'
  BY <1>8 DEF GiveUser, Transfer, PayInv, NoContractNoPayment, OpeningOwnsContract,
     FlipIsPaid, FullySignedIsPaid, Completed
<1>9. QED
  BY <1>1, <1>2, <1>3, <1>4, <1>5, <1>6, <1>7, <1>8 DEF UserStep

\* The calls of a handler keep the invariant: reserve inserts the row of its own
\* contract, and only a settled payment lets a handler go on to flip.
LEMMA PayInvHandlerStep ==
  ASSUME TypeInv, PayInv, NEW r \in Request, HandlerStep(r)
  PROVE  PayInv'
<1> DEFINE c == request[r].contract
<1> USE DEF Await, At
<1>1. ASSUME OnlyPendingChanges, ContractsProgress,
             NEW call \in Call \cup {"idle"}, Proceed(r, call),
             \/ call \notin Opening \cup SignCall
             \/ /\ request[r].at \in SignCall
                /\ call \in SignCall
                /\ call = "flip" /\ contract[c].booking # NoBooking =>
                     payment'[c].status = "completed"
      PROVE  PayInv'
  <2>1. /\ \A s \in Request \ {r} : request'[s] = request[s]
        /\ call = "idle" => request'[r] = Idle
        /\ call # "idle" =>
             request'[r].at = call /\ request'[r].contract = request[r].contract
    BY <1>1, ProceedLemma DEF TypeInv, TypeOK
  <2>2. request[r].at \in SignCall => c \in Contract /\ contract[c].status # "none"
    BY DEF TypeInv, HandlerShape, PayInv, FlipIsPaid
  <2>3. CASE call \notin Opening \cup SignCall
    <3>1. request'[r].at = call
      BY <2>1 DEF Idle, InFlight
    <3>2. QED
      BY <1>1, <2>1, <2>3, <3>1, PayInvKept
  <2>4. CASE request[r].at \in SignCall /\ call \in SignCall
    <3>1. /\ request'[r].at = call
          /\ request'[r].contract = c
      BY <2>1, <2>4 DEF SignCall
    <3>2. /\ request'[r].at \in SignCall
          /\ request'[r].contract \in Contract
          /\ contract[request'[r].contract].status # "none"
          /\ /\ request'[r].at = "flip"
             /\ contract[request'[r].contract].booking # NoBooking
             => payment'[request'[r].contract].status = "completed"
      BY <1>1, <2>2, <2>4, <3>1 DEF Opening, SignCall
    <3>3. QED
      BY <1>1, <2>1, <3>2, PayInvKept
  <2>5. QED
    BY <1>1, <2>3, <2>4
<1>2. CASE UNCHANGED dataVars /\ Proceed(r, "idle")
  BY <1>1, <1>2 DEF dataVars, OnlyPendingChanges, ContractsProgress, Opening, SignCall
<1>3. CASE CreateBooking(r)
  BY <1>1, <1>3 DEF CreateBooking, dataVars, ledgerVars, OnlyPendingChanges,
     ContractsProgress, Opening, SignCall
<1>4. CASE AcceptStep(r)
  <2>1. /\ request[r].at \in AcceptCall
        /\ c \in Contract
    BY <1>4 DEF AcceptStep, ResolveNames, CreateContract, ReservePayment, Link,
       UnwindContract, UnwindPayment, ReleaseClaim, AcceptCall, TypeInv, HandlerShape
  <2>2. User # {}
    BY SagaAssumption
  <2>3. CASE ResolveNames(r)
    <3>1. UNCHANGED dataVars /\ request[r].at = "resolveNames"
      BY <2>3 DEF ResolveNames
    <3>2. CASE Proceed(r, "idle")
      BY <1>2, <3>1, <3>2
    <3>3. CASE Proceed(r, "createContract")
      <4>1. /\ \A s \in Request \ {r} : request'[s] = request[s]
            /\ request'[r].at = "createContract"
            /\ request'[r].contract = c
        BY <3>3, ProceedLemma DEF TypeInv, TypeOK, Call
      <4>2. QED
        BY <2>1, <3>1, <4>1 DEF dataVars, PayInv, NoContractNoPayment,
           OpeningOwnsContract, FlipIsPaid, FullySignedIsPaid, Completed, Opening,
           SignCall
    <3>4. QED
      BY <2>3, <3>2, <3>3 DEF ResolveNames
  <2>4. CASE CreateContract(r)
    <3>1. CASE UNCHANGED contract
      <4>1. /\ OnlyPendingChanges /\ ContractsProgress
            /\ Proceed(r, "reserve") \/ Proceed(r, "releaseClaim")
        BY <2>4, <3>1 DEF CreateContract, dataVars, ledgerVars, OnlyPendingChanges,
           ContractsProgress
      <4>2. CASE Proceed(r, "releaseClaim")
        BY <1>1, <4>1, <4>2 DEF Call, Opening, SignCall
      <4>3. CASE SaveDraft(c, request[r].booking,
                           {Payer(request[r].booking), Payee(request[r].booking)})
        <5>1. contract'[c].status = "draft"
          BY <2>1, <4>3 DEF SaveDraft, TypeInv, TypeOK, ContractTypeOK
        <5>2. contract[c].status = "none"
          BY <2>4 DEF CreateContract, PayInv, OpeningOwnsContract
        <5>3. QED
          BY <3>1, <5>1, <5>2
      <4>4. QED
        BY <2>4, <4>2, <4>3 DEF CreateContract
    <3>2. CASE ~ UNCHANGED contract
      <4>1. /\ SaveDraft(c, request[r].booking,
                         {Payer(request[r].booking), Payee(request[r].booking)})
            /\ UNCHANGED payment
            /\ request[r].at = "createContract"
            /\ Proceed(r, "reserve") \/ Proceed(r, "releaseClaim")
        BY <2>4, <3>2 DEF CreateContract, dataVars, ledgerVars
      <4>2. /\ contract'[c].status = "draft"
            /\ \A d \in Contract \ {c} : contract'[d] = contract[d]
        BY <2>1, <4>1 DEF SaveDraft, TypeInv, TypeOK, ContractTypeOK
      <4>3. /\ contract[c].status = "none"
            /\ payment[c].status = "none"
            /\ \A s \in Request \ {r} :
                 request[s].at \in Opening \cup SignCall =>
                   request[s].contract \in Contract \ {c}
        BY <4>1 DEF PayInv, OpeningOwnsContract, FlipIsPaid, Opening, TypeInv,
           HandlerShape, AcceptCall
      <4>4. /\ \A s \in Request \ {r} : request'[s] = request[s]
            /\ request'[r].at \in {"reserve", "releaseClaim"}
            /\ request'[r].contract = c
        BY <4>1, ProceedLemma DEF TypeInv, TypeOK, Call
      <4>5. NoContractNoPayment' /\ FullySignedIsPaid'
        BY <4>1, <4>2 DEF PayInv, NoContractNoPayment, FullySignedIsPaid, Completed
      <4>6. OpeningOwnsContract'
        BY <4>1, <4>2, <4>3, <4>4 DEF PayInv, OpeningOwnsContract, Opening
      <4>7. FlipIsPaid'
        BY <4>1, <4>2, <4>3, <4>4 DEF PayInv, FlipIsPaid, Completed, SignCall
      <4>8. QED
        BY <4>5, <4>6, <4>7 DEF PayInv
    <3>3. QED
      BY <3>1, <3>2
  <2>5. CASE ReservePayment(r)
    <3>1. /\ request[r].at = "reserve"
          /\ UNCHANGED contract
          /\ \A d \in Contract \ {c} : payment'[d] = payment[d]
          /\ Proceed(r, "link") \/ Proceed(r, "unwindContract")
      BY <2>5 DEF ReservePayment, Reserve, dataVars, TypeInv, TypeOK, LedgerTypeOK
    <3>2. /\ payment[c].status = "none"
          /\ contract[c].status # "none"
          /\ \A s \in Request \ {r} :
               request[s].at \in Opening => request[s].contract \in Contract \ {c}
      BY <3>1 DEF PayInv, OpeningOwnsContract, Opening, TypeInv, HandlerShape,
         AcceptCall
    <3>3. /\ \A s \in Request \ {r} : request'[s] = request[s]
          /\ request'[r].at \in {"link", "unwindContract"}
      BY <3>1, ProceedLemma DEF TypeInv, TypeOK, Call
    <3>4. \A d \in Contract : Completed(d) => d # c
      BY <3>2 DEF Completed
    <3>5. NoContractNoPayment' /\ FullySignedIsPaid'
      BY <3>1, <3>2, <3>4 DEF PayInv, NoContractNoPayment, FullySignedIsPaid, Completed
    <3>6. OpeningOwnsContract'
      BY <3>1, <3>2, <3>3 DEF PayInv, OpeningOwnsContract, Opening
    <3>7. FlipIsPaid'
      <4>1. \A s \in Request : request[s].at \in SignCall => request[s].contract \in Contract
        BY DEF TypeInv, HandlerShape
      <4>2. QED
        BY <3>1, <3>3, <3>4, <4>1 DEF PayInv, FlipIsPaid, Completed, SignCall
    <3>8. QED
      BY <3>5, <3>6, <3>7 DEF PayInv
  <2>6. CASE Link(r) \/ UnwindContract(r) \/ UnwindPayment(r) \/ ReleaseClaim(r)
    <3>1. /\ UNCHANGED payment \/ Void(c)
          /\ UNCHANGED contract \/ CancelContract(c)
          /\ \E call \in {"idle", "unwindContract", "unwindPayment", "releaseClaim"} :
               Proceed(r, call)
      BY <2>6 DEF Link, UnwindContract, UnwindPayment, ReleaseClaim, dataVars, ledgerVars
    <3>2. OnlyPendingChanges /\ ContractsProgress
      BY <2>1, <2>2, <3>1, OnlyPendingChangesLemma, ContractsProgressLemma
    <3>3. QED
      BY <1>1, <3>1, <3>2 DEF Call, Opening, SignCall
  <2>7. QED
    BY <1>4, <2>3, <2>4, <2>5, <2>6 DEF AcceptStep
<1>5. CASE CancelStep(r)
  <2>1. /\ c \in Contract
        /\ UNCHANGED payment \/ Void(c)
        /\ UNCHANGED contract \/ CancelContract(c)
        /\ \E call \in CancelCall \cup {"idle"} : Proceed(r, call)
    BY <1>5 DEF CancelStep, VoidPayment, CheckPaid, MarkCompleted,
       CancelLinkedContract, dataVars, ledgerVars, CancelCall, TypeInv, HandlerShape
  <2>2. User # {}
    BY SagaAssumption
  <2>3. OnlyPendingChanges /\ ContractsProgress
    BY <2>1, <2>2, OnlyPendingChangesLemma, ContractsProgressLemma
  <2>4. QED
    BY <1>1, <2>1, <2>3 DEF Call, CancelCall, Opening, SignCall
<1>6. CASE SignStep(r)
  <2>1. request[r].at \in SignCall /\ c \in Contract /\ request[r].user \in User
    BY <1>6 DEF SignStep, SettlePayment, FlipContract, Reread, Announce,
       WithdrawSignature, SignCall, TypeInv, HandlerShape
  <2>2. CASE SettlePayment(r)
    <3>1. /\ UNCHANGED contract
          /\ UNCHANGED payment \/ Settle(c)
      BY <2>2 DEF SettlePayment, dataVars, ledgerVars
    <3>2. OnlyPendingChanges /\ ContractsProgress
      BY <2>1, <3>1, OnlyPendingChangesLemma, ContractsProgressLemma
    <3>3. \/ Proceed(r, "pullSignature")
          \/ Proceed(r, "flip") /\ payment'[c].status = "completed"
      <4>1. ASSUME Settle(c) PROVE payment'[c].status = "completed"
        BY <2>1, <4>1 DEF Settle, Settleable, TypeInv, TypeOK, LedgerTypeOK
      <4>2. QED
        BY <2>2, <4>1 DEF SettlePayment, dataVars, ledgerVars, Completed
    <3>4. CASE Proceed(r, "pullSignature")
      BY <1>1, <2>1, <3>2, <3>4 DEF Call, SignCall
    <3>5. CASE Proceed(r, "flip") /\ payment'[c].status = "completed"
      BY <1>1, <2>1, <3>2, <3>5 DEF Call, SignCall
    <3>6. QED
      BY <3>3, <3>4, <3>5
  <2>3. CASE ~ SettlePayment(r)
    <3>1. /\ UNCHANGED payment
          /\ \/ UNCHANGED contract
             \/ Flip(c) /\ request[r].at = "flip"
             \/ PullSignature(c, request[r].user)
          /\ \E call \in {"idle", "announce", "reread"} : Proceed(r, call)
      BY <1>6, <2>3 DEF SignStep, FlipContract, Reread, Announce, AfterFlip,
         WithdrawSignature, dataVars, ledgerVars
    <3>2. OnlyPendingChanges
      BY <2>1, <3>1, OnlyPendingChangesLemma
    <3>3. request[r].at = "flip" /\ contract[c].booking # NoBooking => Completed(c)
      BY DEF PayInv, FlipIsPaid
    <3>4. ContractsProgress
      BY <2>1, <3>1, <3>3, ContractsProgressLemma
    <3>5. QED
      BY <1>1, <2>1, <3>1, <3>2, <3>4 DEF Call, Opening, SignCall
  <2>4. QED
    BY <2>2, <2>3
<1>7. QED
  BY <1>3, <1>4, <1>5, <1>6 DEF HandlerStep

LEMMA PayInvStep == TypeInv /\ PayInv /\ [Next]_sagaVars => PayInv'
<1>1. ASSUME PayInv, UNCHANGED sagaVars PROVE PayInv'
  BY <1>1 DEF sagaVars, PayInv, NoContractNoPayment, OpeningOwnsContract, FlipIsPaid,
     FullySignedIsPaid, Completed
<1>2. ASSUME TypeInv, PayInv, NEW r \in Request, Crash(r) PROVE PayInv'
  <2>1. /\ \A s \in Request \ {r} : request'[s] = request[s]
        /\ request'[r] = Idle
    BY <1>2, ProceedLemma DEF Crash, TypeInv, TypeOK
  <2>2. OnlyPendingChanges /\ ContractsProgress
    BY <1>2 DEF Crash, dataVars, OnlyPendingChanges, ContractsProgress
  <2>3. QED
    BY <1>2, <2>1, <2>2, PayInvKept DEF Idle, InFlight, Opening, SignCall
<1>3. QED
  BY <1>1, <1>2, PayInvUserStep, PayInvHandlerStep DEF Next

LEMMA PaymentInvariant == Spec => [](TypeInv /\ PayInv)
BY TypeInit, TypeStep, PayInvInit, PayInvStep, PTL DEF Spec

\* "A fully_signed service contract never exists without payment", however many
\* handlers interleave and whichever calls fail.
THEOREM FullySignedContractsArePaid == Spec => []FullySignedIsPaid
<1>1. PayInv => FullySignedIsPaid
  BY DEF PayInv
<1>2. QED
  BY <1>1, PaymentInvariant, PTL

\* A payment row that settle completed or cancel voided is never written again:
\* the only insert, reserve, is made by the one handler that owns its contract.
THEOREM PaymentsAreFinal == Spec => PaymentIsFinal
<1> DEFINE Final == \A c \in Contract : payment[c].status \in {"completed", "cancelled"}
                       => payment'[c] = payment[c]
<1>1. ASSUME TypeInv, PayInv, [Next]_sagaVars PROVE Final
  <2>1. CASE UNCHANGED payment
    BY <2>1
  <2>2. ASSUME NEW c \in Contract, Settle(c) \/ Void(c) PROVE Final
    BY <1>1, <2>2, OnlyPendingChangesLemma DEF OnlyPendingChanges
  <2>3. ASSUME NEW r \in Request, NEW u \in User, NEW v \in User,
               request[r].at = "reserve", Reserve(request[r].contract, u, v, Price)
        PROVE  Final
    <3>1. payment[request[r].contract].status = "none"
      BY <1>1, <2>3 DEF PayInv, OpeningOwnsContract, Opening
    <3>2. QED
      BY <1>1, <2>3, <3>1 DEF Reserve, TypeInv, TypeOK, LedgerTypeOK
  <2>4. QED
    BY <1>1, <2>1, <2>2, <2>3, LedgerStep DEF sagaVars, ledgerVars, Transfer
<1>2. TypeInv /\ PayInv /\ [Next]_sagaVars => [Final]_sagaVars
  BY <1>1
<1>3. QED
  BY <1>2, PaymentInvariant, PTL DEF Spec, PaymentIsFinal

-----------------------------------------------------------------------------
(* The rows explain the balances.  Each operation of the ledger keeps that,  *)
(* except that a reservation written over a completed row would take its     *)
(* points out of the sum: PayInv says that none is.                          *)

LEMMA ReconcilesStep ==
  ASSUME IsFiniteSet(User), IsFiniteSet(Contract), TypeInv, PayInv, LedgerReconciles,
         [Next]_sagaVars
  PROVE  LedgerReconciles'
<1>1. LedgerTypeOK
  BY DEF TypeInv, TypeOK
<1>2. CASE UNCHANGED ledgerVars
  BY <1>2, SharesKept DEF ledgerVars
<1>3. ASSUME NEW c \in Contract, Settle(c) PROVE LedgerReconciles'
  BY <1>1, <1>3, SettleReconciles
<1>4. ASSUME NEW c \in Contract, Void(c) PROVE LedgerReconciles'
  BY <1>1, <1>4, VoidReconciles
<1>5. ASSUME NEW u \in User, NEW v \in User, NEW n \in Nat, Transfer(u, v, n)
      PROVE  LedgerReconciles'
  BY <1>1, <1>5, TransferReconciles
<1>6. ASSUME NEW r \in Request, request[r].at = "reserve", NEW u \in User, NEW v \in User,
             Reserve(request[r].contract, u, v, Price)
      PROVE  LedgerReconciles'
  <2>1. payment[request[r].contract].status = "none"
    BY <1>6 DEF PayInv, OpeningOwnsContract, Opening
  <2> QED
    BY <1>1, <1>6, <2>1, ReserveReconciles
<1>7. CASE UNCHANGED sagaVars
  BY <1>2, <1>7 DEF sagaVars, ledgerVars
<1> QED
  BY <1>2, <1>3, <1>4, <1>5, <1>6, <1>7, LedgerStep

\* The rows of points_transactions explain every balance and no point is
\* created or lost, for any finite sets of users and contracts, whichever calls
\* fail, lose their answer or are never made.
THEOREM RowsExplainBalances ==
  ASSUME IsFiniteSet(User), IsFiniteSet(Contract)
  PROVE  Spec => []LedgerReconciles
<1>1. Init => LedgerReconciles
  BY ReconcilesInit DEF Init
<1>2. TypeInv /\ PayInv /\ LedgerReconciles /\ [Next]_sagaVars => LedgerReconciles'
  BY ReconcilesStep
<1> QED
  BY <1>1, <1>2, PaymentInvariant, PTL DEF Spec

-----------------------------------------------------------------------------
(* The outcome of a booking is final.  A late cancel may complete a booking *)
(* it had cancelled: that a payment of this very booking justifies it rests *)
(* on what cancel knows of the contract it read in the booking.             *)

\* The calls made by a handler that holds an existing contract of its booking.
Tied == {"reserve", "link", "voidPayment", "checkPaid", "markCompleted"}

BelongsTo(c, b) == contract[c].status # "none" /\ contract[c].booking = b

\* A booking is linked to a contract of its own, and so is every such handler.
LinkInv ==
  /\ \A b \in Booking :
       booking[b].contract # NoContract => BelongsTo(booking[b].contract, b)
  /\ \A r \in Request :
       /\ request[r].at \in Tied => BelongsTo(request[r].contract, request[r].booking)
       /\ request[r].at = "markCompleted" => Completed(request[r].contract)

ContractsStay ==
  \A c \in Contract : contract[c].status # "none" =>
    /\ contract'[c].status # "none"
    /\ contract'[c].booking = contract[c].booking
    /\ contract'[c].signatories = contract[c].signatories

PaidStays == \A c \in Contract : Completed(c) => payment'[c].status = "completed"

\* A booking gets a contract from a handler about to link it, and from no other.
LinksArise ==
  \A b \in Booking :
    \/ booking'[b].contract \in {booking[b].contract, NoContract}
    \/ \E r \in Request :
         /\ request[r].at = "link" /\ request[r].booking = b
         /\ booking'[b].contract = request[r].contract

\* A handler holds a contract because it held it before, has just created it,
\* or read it in the booking; it learns that the contract is paid from its row.
TiesArise ==
  \A r \in Request : request'[r].at \in Tied =>
    \/ request'[r] = request[r]
    \/ /\ request'[r].booking = request[r].booking
       /\ request'[r].contract = request[r].contract
       /\ \/ request[r].at \in Tied
          \/ request[r].at = "createContract" /\ BelongsTo(request[r].contract, request[r].booking)'
       /\ request'[r].at = "markCompleted" => Completed(request[r].contract)
    \/ /\ request'[r].at = "voidPayment"
       /\ request'[r].booking \in Booking
       /\ request'[r].contract # NoContract
       /\ request'[r].contract = booking[request'[r].booking].contract

LEMMA LinkInvKept ==
  ASSUME TypeInv, LinkInv, ContractsStay, PaidStays, LinksArise, TiesArise
  PROVE  LinkInv'
<1>1. \A r \in Request : request[r].at \in Tied => request[r].contract \in Contract
  BY DEF TypeInv, HandlerShape, Tied, AcceptCall, CancelCall
<1>2. \A b \in Booking : booking[b].contract \in Contract \cup {NoContract}
  BY DEF TypeInv, TypeOK, BookingDocument
<1>3. ASSUME NEW b \in Booking, booking'[b].contract # NoContract
      PROVE  BelongsTo(booking[b].contract, b)'
  <2>1. CASE booking'[b].contract = booking[b].contract
    BY <1>2, <1>3, <2>1 DEF LinkInv, BelongsTo, ContractsStay
  <2>2. CASE booking'[b].contract # booking[b].contract
    <3>1. PICK r \in Request : /\ request[r].at = "link" /\ request[r].booking = b
                               /\ booking'[b].contract = request[r].contract
      BY <1>3, <2>2 DEF LinksArise
    <3>2. request[r].contract \in Contract /\ BelongsTo(request[r].contract, b)
      BY <1>1, <3>1 DEF LinkInv, Tied
    <3>3. QED
      BY <3>1, <3>2 DEF BelongsTo, ContractsStay
  <2>3. QED
    BY <2>1, <2>2
<1>4. ASSUME NEW r \in Request, request'[r].at \in Tied
      PROVE  /\ BelongsTo(request[r].contract, request[r].booking)'
             /\ request'[r].at = "markCompleted" => Completed(request[r].contract)'
  <2>1. CASE request'[r] = request[r]
    BY <1>1, <1>4, <2>1 DEF LinkInv, BelongsTo, ContractsStay, PaidStays, Completed
  <2>2. CASE /\ request'[r].booking = request[r].booking
             /\ request'[r].contract = request[r].contract
             /\ request[r].at \in Tied
             /\ request'[r].at = "markCompleted" => Completed(request[r].contract)
    BY <1>1, <2>2 DEF LinkInv, BelongsTo, ContractsStay, PaidStays, Completed
  <2>3. CASE /\ request'[r].booking = request[r].booking
             /\ request'[r].contract = request[r].contract
             /\ request[r].at = "createContract"
             /\ BelongsTo(request[r].contract, request[r].booking)'
             /\ request'[r].at = "markCompleted" => Completed(request[r].contract)
    <3>1. request[r].contract \in Contract
      BY <2>3 DEF TypeInv, HandlerShape, AcceptCall
    <3>2. QED
      BY <2>3, <3>1 DEF BelongsTo, PaidStays, Completed
  <2>4. CASE /\ request'[r].at = "voidPayment"
             /\ request'[r].booking \in Booking
             /\ request'[r].contract # NoContract
             /\ request'[r].contract = booking[request'[r].booking].contract
    BY <1>2, <2>4 DEF LinkInv, BelongsTo, ContractsStay
  <2>5. QED
    BY <1>4, <2>1, <2>2, <2>3, <2>4 DEF TiesArise
<1>5. QED
  BY <1>3, <1>4 DEF LinkInv, Tied

\* A settled payment stays settled.
LEMMA PaidStaysLemma == TypeInv /\ PayInv /\ [Next]_sagaVars => PaidStays
<1> SUFFICES ASSUME TypeInv, PayInv, [Next]_sagaVars PROVE PaidStays
  OBVIOUS
<1>1. CASE UNCHANGED payment
  BY <1>1 DEF PaidStays, Completed
<1>2. ASSUME NEW c \in Contract, Settle(c) \/ Void(c) PROVE PaidStays
  BY <1>2, OnlyPendingChangesLemma DEF OnlyPendingChanges, PaidStays, Completed
<1>3. ASSUME NEW r \in Request, NEW u \in User, NEW v \in User,
             request[r].at = "reserve", Reserve(request[r].contract, u, v, Price)
      PROVE  PaidStays
  <2>1. payment[request[r].contract].status = "none"
    BY <1>3 DEF PayInv, OpeningOwnsContract, Opening
  <2>2. QED
    BY <1>3, <2>1 DEF Reserve, PaidStays, Completed, TypeInv, TypeOK, LedgerTypeOK
<1>4. QED
  BY <1>1, <1>2, <1>3, LedgerStep DEF sagaVars, ledgerVars, Transfer

LEMMA ContractsStayLemma ==
  ASSUME TypeInv, NEW c \in Contract, NEW u \in User,
         \/ UNCHANGED contract
         \/ PushSignature(c, u)
         \/ PullSignature(c, u)
         \/ Flip(c)
         \/ CancelContract(c)
         \/ HealContract(c)
         \/ contract[c].status = "none" /\ \E b \in Booking \cup {NoBooking}, s \in SUBSET User :
              SaveDraft(c, b, s)
  PROVE  ContractsStay
<1> USE DEF TypeInv, TypeOK, ContractTypeOK, ContractDocument, ContractsStay
<1>1. CASE UNCHANGED contract
  BY <1>1
<1>2. CASE PushSignature(c, u)
  BY <1>2 DEF PushSignature
<1>3. CASE PullSignature(c, u)
  BY <1>3 DEF PullSignature
<1>4. CASE Flip(c)
  BY <1>4 DEF Flip
<1>5. CASE CancelContract(c)
  BY <1>5 DEF CancelContract
<1>6. CASE HealContract(c)
  BY <1>6 DEF HealContract
<1>7. CASE contract[c].status = "none" /\ \E b \in Booking \cup {NoBooking}, s \in SUBSET User :
              SaveDraft(c, b, s)
  BY <1>7 DEF SaveDraft
<1>8. QED
  BY <1>1, <1>2, <1>3, <1>4, <1>5, <1>6, <1>7

\* What users do: only cancel takes hold of a contract, the linked one.
LEMMA LinkUserStep ==
  ASSUME TypeInv, UserStep
  PROVE  ContractsStay /\ LinksArise /\ TiesArise
<1> USE SagaAssumption, ContractAssumption
<1>1. ASSUME UNCHANGED contract,
             \A b \in Booking : booking'[b].contract = booking[b].contract,
             \A r \in Request : request'[r].at \in Tied => request'[r] = request[r]
      PROVE  ContractsStay /\ LinksArise /\ TiesArise
  BY <1>1 DEF ContractsStay, LinksArise, TiesArise
<1>2. ASSUME NEW r \in Request, NEW u \in User, RequestBooking(r, u)
      PROVE  ContractsStay /\ LinksArise /\ TiesArise
  BY <1>1, <1>2 DEF RequestBooking, Start, dataVars, TypeInv, TypeOK, InFlight, Tied
<1>3. ASSUME NEW r \in Request, NEW b \in Booking, NEW c \in Contract, Accept(r, b, c)
      PROVE  ContractsStay /\ LinksArise /\ TiesArise
  <2>1. /\ \A s \in Request \ {r} : request'[s] = request[s]
        /\ request'[r].at = "resolveNames"
    BY <1>3 DEF Accept, Start, TypeInv, TypeOK, InFlight
  <2>2. \A d \in Booking : booking'[d].contract = booking[d].contract
    BY <1>3, BookingStatusType DEF Accept, TypeInv, TypeOK, BookingStatus
  <2>3. QED
    BY <1>1, <1>3, <2>1, <2>2 DEF Accept, Tied
<1>4. ASSUME NEW b \in Booking, Decline(b)
      PROVE  ContractsStay /\ LinksArise /\ TiesArise
  BY <1>1, <1>4, BookingStatusType DEF Decline, TypeInv, TypeOK, BookingStatus
<1>5. ASSUME NEW r \in Request, NEW b \in Booking, NEW u \in User, Cancel(r, b, u)
      PROVE  ContractsStay /\ LinksArise /\ TiesArise
  <2>1. \A d \in Booking : booking'[d].contract = booking[d].contract
    BY <1>5, BookingStatusType DEF Cancel, TypeInv, TypeOK, BookingStatus
  <2>2. /\ \A s \in Request \ {r} : request'[s] = request[s]
        /\ \/ request'[r] = request[r]
           \/ /\ request'[r].at = "voidPayment"
              /\ request'[r].booking = b
              /\ request'[r].contract = booking[b].contract
              /\ booking[b].contract # NoContract
    BY <1>5 DEF Cancel, Start, TypeInv, TypeOK, InFlight
  <2>3. TiesArise
    BY <2>2 DEF TiesArise
  <2>4. QED
    BY <1>5, <2>1, <2>3 DEF Cancel, ContractsStay, LinksArise
<1>6. ASSUME NEW r \in Request, NEW c \in Contract, NEW u \in User, Sign(r, c, u)
      PROVE  ContractsStay /\ LinksArise /\ TiesArise
  <2>1. ContractsStay
    BY <1>6, ContractsStayLemma DEF Sign
  <2>2. \A s \in Request : request'[s] = request[s] \/ request'[s].at \in {"flip", "settle"}
    BY <1>6 DEF Sign, Start, TypeInv, TypeOK, InFlight
  <2>3. QED
    BY <1>6, <2>1, <2>2 DEF Sign, LinksArise, TiesArise, Tied
<1>7. ASSUME NEW c \in Contract, Heal(c)
      PROVE  ContractsStay /\ LinksArise /\ TiesArise
  BY <1>7, ContractsStayLemma DEF Heal, LinksArise, TiesArise
<1>8. ASSUME NEW c \in Contract, NEW s \in DirectSignatories, CreateDirect(c, s)
      PROVE  ContractsStay /\ LinksArise /\ TiesArise
  BY <1>8, ContractsStayLemma DEF CreateDirect, Fresh, LinksArise, TiesArise
<1>9. ASSUME NEW u \in User, NEW v \in User, NEW n \in Gift, GiveUser(u, v, n)
      PROVE  ContractsStay /\ LinksArise /\ TiesArise
  BY <1>1, <1>9 DEF GiveUser
<1>10. QED
  BY <1>2, <1>3, <1>4, <1>5, <1>6, <1>7, <1>8, <1>9 DEF UserStep

\* The calls of a handler: createContract makes the contract it goes on with,
\* link gives it to the booking, and checkPaid reads the payment row.
LEMMA LinkHandlerStep ==
  ASSUME TypeInv, PayInv, NEW r \in Request, HandlerStep(r)
  PROVE  ContractsStay /\ LinksArise /\ TiesArise
<1> DEFINE c == request[r].contract
           b == request[r].booking
<1> USE SagaAssumption, ContractAssumption
<1> USE DEF Await, At
<1>1. ASSUME NEW call \in Call \cup {"idle"}, Proceed(r, call),
             call \in Tied =>
               /\ request[r].at \in Tied
               /\ call = "markCompleted" => Completed(c)
      PROVE  TiesArise
  <2>1. /\ \A s \in Request \ {r} : request'[s] = request[s]
        /\ request'[r].at = call
        /\ call # "idle" => request'[r].booking = b /\ request'[r].contract = c
    BY <1>1, ProceedLemma DEF TypeInv, TypeOK, Idle, InFlight
  <2>2. QED
    BY <1>1, <2>1 DEF TiesArise, Tied
<1>2. CASE CreateBooking(r)
  <2>1. /\ UNCHANGED contract
        /\ Proceed(r, "idle")
    BY <1>2 DEF CreateBooking, dataVars
  <2>2. \A d \in Booking : booking'[d].contract \in {booking[d].contract, NoContract}
    BY <1>2 DEF CreateBooking, dataVars, TypeInv, TypeOK
  <2>3. QED
    BY <1>1, <2>1, <2>2 DEF ContractsStay, LinksArise, Tied
<1>3. CASE AcceptStep(r)
  <2>1. c \in Contract /\ b \in Booking /\ booking[b].initiator \in User
    BY <1>3 DEF AcceptStep, ResolveNames, CreateContract, ReservePayment, Link,
       UnwindContract, UnwindPayment, ReleaseClaim, AcceptCall, TypeInv, HandlerShape
  <2>2. Payer(b) \in User /\ Payee(b) \in User
    BY <2>1 DEF Payer, Payee
  <2>3. ContractsStay
    <3>1. \/ UNCHANGED contract
          \/ CancelContract(c)
          \/ request[r].at = "createContract" /\ SaveDraft(c, b, {Payer(b), Payee(b)})
      BY <1>3 DEF AcceptStep, ResolveNames, CreateContract, ReservePayment, Link,
         UnwindContract, UnwindPayment, ReleaseClaim, dataVars
    <3>2. request[r].at = "createContract" => contract[c].status = "none"
      BY DEF PayInv, OpeningOwnsContract
    <3>3. QED
      BY <2>1, <2>2, <3>1, <3>2, ContractsStayLemma
  <2>4. LinksArise
    <3>1. \/ UNCHANGED booking
          \/ request[r].at = "link" /\ booking' = [booking EXCEPT ![b].contract = c]
          \/ booking' = [booking EXCEPT ![b].status = "pending"]
      BY <1>3 DEF AcceptStep, ResolveNames, CreateContract, ReservePayment, Link,
         UnwindContract, UnwindPayment, ReleaseClaim, dataVars
    <3>2. QED
      BY <2>1, <3>1 DEF LinksArise, TypeInv, TypeOK, BookingDocument
  <2>5. TiesArise
    <3>1. CASE CreateContract(r) /\ Proceed(r, "reserve")
      <4>1. SaveDraft(c, b, {Payer(b), Payee(b)}) /\ request[r].at = "createContract"
        <5>1. ~ Proceed(r, "releaseClaim")
          <6>1. request'[r].at = "reserve"
            BY <3>1, ProceedLemma DEF TypeInv, TypeOK, Call
          <6>2. QED
            BY <6>1, ProceedLemma DEF TypeInv, TypeOK, Call
        <5>2. QED
          BY <3>1, <5>1 DEF CreateContract
      <4>2. /\ \A s \in Request \ {r} : request'[s] = request[s]
            /\ request'[r].at = "reserve"
            /\ request'[r].booking = b
            /\ request'[r].contract = c
        BY <3>1, ProceedLemma DEF TypeInv, TypeOK, Call
      <4>3. BelongsTo(request[r].contract, request[r].booking)'
        BY <2>1, <4>1, <4>2 DEF SaveDraft, BelongsTo, TypeInv, TypeOK, ContractTypeOK
      <4>4. /\ contract'[c].status # "none"
            /\ contract'[c].booking = b
        BY <4>2, <4>3 DEF BelongsTo
      <4>5. QED
        BY <4>1, <4>2, <4>3, <4>4 DEF TiesArise, BelongsTo
    <3>2. CASE ~ (CreateContract(r) /\ Proceed(r, "reserve"))
      <4>1. \/ \E call \in {"idle", "createContract", "unwindContract", "unwindPayment",
                            "releaseClaim"} : Proceed(r, call)
            \/ request[r].at = "reserve" /\ Proceed(r, "link")
        BY <1>3, <3>2 DEF AcceptStep, ResolveNames, CreateContract, ReservePayment, Link,
           UnwindContract, UnwindPayment, ReleaseClaim
      <4>2. QED
        BY <1>1, <4>1 DEF Call, Tied
    <3>3. QED
      BY <3>1, <3>2
  <2>6. QED
    BY <2>3, <2>4, <2>5
<1>4. CASE CancelStep(r)
  <2>1. /\ request[r].at \in CancelCall
        /\ c \in Contract
        /\ UNCHANGED contract \/ CancelContract(c)
        /\ UNCHANGED booking \/ booking' = [booking EXCEPT ![b].status = "completed"]
    BY <1>4 DEF CancelStep, VoidPayment, CheckPaid, MarkCompleted, SetStatus,
       CancelLinkedContract, dataVars, CancelCall, TypeInv, HandlerShape
  <2>2. User # {}
    BY SagaAssumption
  <2>3. ContractsStay
    BY <2>1, <2>2, ContractsStayLemma
  <2>4. LinksArise
    BY <2>1 DEF LinksArise, TypeInv, TypeOK, BookingDocument
  <2>5. \/ \E call \in {"idle", "cancelContract"} : Proceed(r, call)
        \/ request[r].at = "voidPayment" /\ Proceed(r, "checkPaid")
        \/ request[r].at = "checkPaid" /\ Proceed(r, "markCompleted") /\ Completed(c)
    BY <1>4 DEF CancelStep, VoidPayment, CheckPaid, MarkCompleted, CancelLinkedContract
  <2>6. TiesArise
    BY <1>1, <2>5 DEF Call, Tied
  <2>7. QED
    BY <2>3, <2>4, <2>6
<1>5. CASE SignStep(r)
  <2>1. /\ request[r].at \in SignCall
        /\ c \in Contract /\ request[r].user \in User
        /\ UNCHANGED contract \/ Flip(c) \/ PullSignature(c, request[r].user)
        /\ UNCHANGED booking \/ booking' = [booking EXCEPT ![b].status = "completed"]
        /\ \E call \in SignCall \cup {"idle"} : Proceed(r, call)
    BY <1>5 DEF SignStep, SettlePayment, FlipContract, Reread, Announce, AfterFlip,
       SetStatus, WithdrawSignature, dataVars, SignCall, TypeInv, HandlerShape
  <2>2. ContractsStay
    BY <2>1, ContractsStayLemma
  <2>3. LinksArise
    BY <2>1 DEF LinksArise, TypeInv, TypeOK, BookingDocument
  <2>4. TiesArise
    BY <1>1, <2>1 DEF Call, SignCall, Tied
  <2>5. QED
    BY <2>2, <2>3, <2>4
<1>6. QED
  BY <1>2, <1>3, <1>4, <1>5 DEF HandlerStep

LEMMA LinkInvStep == TypeInv /\ PayInv /\ LinkInv /\ [Next]_sagaVars => LinkInv'
<1> SUFFICES ASSUME TypeInv, PayInv, LinkInv, [Next]_sagaVars PROVE LinkInv'
  OBVIOUS
<1>1. PaidStays
  BY PaidStaysLemma
<1>2. ASSUME UNCHANGED sagaVars PROVE LinkInv'
  BY <1>2 DEF sagaVars, LinkInv, BelongsTo, Completed
<1>3. ASSUME NEW r \in Request, Crash(r) PROVE LinkInv'
  <2>1. /\ \A s \in Request \ {r} : request'[s] = request[s]
        /\ request'[r].at = "idle"
    BY <1>3, ProceedLemma DEF Crash, TypeInv, TypeOK, Idle, InFlight
  <2>2. ContractsStay /\ LinksArise /\ TiesArise
    BY <1>3, <2>1 DEF Crash, dataVars, ContractsStay, LinksArise, TiesArise, Tied
  <2>3. QED
    BY <1>1, <2>2, LinkInvKept
<1>4. ASSUME UserStep PROVE LinkInv'
  BY <1>1, <1>4, LinkUserStep, LinkInvKept
<1>5. ASSUME NEW r \in Request, HandlerStep(r) PROVE LinkInv'
  BY <1>1, <1>5, LinkHandlerStep, LinkInvKept
<1>6. QED
  BY <1>2, <1>3, <1>4, <1>5 DEF Next

LEMMA LinkInvariant == Spec => [](TypeInv /\ PayInv /\ LinkInv)
<1>1. Init => LinkInv
  BY DEF Init, NoBookingDocument, LinkInv, Idle, InFlight, Tied
<1>2. QED
  BY <1>1, LinkInvStep, PaymentInvariant, PTL DEF Spec

\* However late a handler is, it changes the outcome of no booking, but that a
\* cancellation that lost against the payment completes the booking after all.
THEOREM OutcomesAreFinal == Spec => OutcomeIsFinal
<1> DEFINE Final(b) ==
             booking[b].status \in {"declined", "cancelled", "completed"}
             /\ booking'[b].status # booking[b].status
               => /\ booking[b].status = "cancelled"
                  /\ booking'[b].status = "completed"
                  /\ \E c \in ContractsOf(b) : Completed(c)
<1>1. ASSUME TypeInv, LinkInv, Next, NEW b \in Booking PROVE Final(b)
  <2> USE DEF Await, At, TypeInv, TypeOK, BookingDocument
  <2>1. CASE UserStep
    BY <1>1, <2>1 DEF UserStep, RequestBooking, Accept, Decline, Cancel, Cancellable,
       Sign, Heal, CreateDirect, GiveUser, dataVars
  <2>2. ASSUME NEW r \in Request, HandlerStep(r), ~ MarkCompleted(r) PROVE Final(b)
    <3>1. CASE CreateBooking(r)
      BY <1>1, <3>1 DEF CreateBooking, dataVars
    <3>2. CASE AcceptStep(r)
      BY <1>1, <3>2 DEF AcceptStep, ResolveNames, CreateContract, ReservePayment, Link,
         UnwindContract, UnwindPayment, ReleaseClaim, Linkable, dataVars
    <3>3. CASE CancelStep(r)
      BY <1>1, <2>2, <3>3 DEF CancelStep, VoidPayment, CheckPaid, CancelLinkedContract,
         dataVars
    <3>4. CASE SignStep(r)
      BY <1>1, <3>4 DEF SignStep, SettlePayment, FlipContract, Reread, Announce,
         WithdrawSignature, SetStatus, dataVars
    <3>5. QED
      BY <2>2, <3>1, <3>2, <3>3, <3>4 DEF HandlerStep
  <2>3. ASSUME NEW r \in Request, MarkCompleted(r) PROVE Final(b)
    <3> DEFINE c == request[r].contract
    <3>1. /\ c \in Contract
          /\ BelongsTo(c, request[r].booking)
          /\ Completed(c)
      BY <1>1, <2>3 DEF MarkCompleted, LinkInv, Tied, HandlerShape, CancelCall
    <3>2. c \in ContractsOf(request[r].booking)
      BY <3>1 DEF ContractsOf, BelongsTo
    <3>3. \/ UNCHANGED booking
          \/ /\ booking[request[r].booking].status = "cancelled"
             /\ booking' = [booking EXCEPT ![request[r].booking].status = "completed"]
      BY <2>3 DEF MarkCompleted, SetStatus, dataVars
    <3>4. QED
      BY <1>1, <3>1, <3>2, <3>3
  <2>4. ASSUME NEW r \in Request, Crash(r) PROVE Final(b)
    BY <1>1, <2>4 DEF Crash, dataVars
  <2>5. QED
    BY <1>1, <2>1, <2>2, <2>3, <2>4 DEF Next
<1>2. TypeInv /\ PayInv /\ LinkInv /\ [Next]_sagaVars => [\A b \in Booking : Final(b)]_sagaVars
  BY <1>1
<1>3. QED
  BY <1>2, LinkInvariant, PTL DEF Spec, OutcomeIsFinal

-----------------------------------------------------------------------------
(* The last signature.  The request that lands it concludes the contract   *)
(* alone; what it withdraws leaves another signature, and (as long as      *)
(* Postgres acknowledges the commit of a settlement) a paid contract stays *)
(* signed by all.                                                          *)

\* The contract of a booking has two signatories: nobody requests a service of
\* his own, so payer and payee differ in every booking a handler works on.
PartiesInv ==
  /\ \A b \in Booking : booking[b].status # "none" => booking[b].initiator # Owner
  /\ \A r \in Request :
       /\ request[r].at = "createBooking" => request[r].user # Owner
       /\ request[r].at \in AcceptCall => booking[request[r].booking].initiator # Owner
  /\ \A c \in Contract :
       contract[c].status # "none" /\ contract[c].booking # NoBooking
         => \A u \in User : contract[c].signatories \ {u} # {}

\* Only createContract makes the contract of a booking, for its two parties.
DraftsArise ==
  \A c \in Contract :
    contract[c].status = "none" /\ contract'[c].status # "none"
    /\ contract'[c].booking # NoBooking
      => \E r \in Request :
           /\ request[r].at = "createContract"
           /\ contract'[c].signatories = {Payer(request[r].booking), Payee(request[r].booking)}

LEMMA DraftsStep == TypeInv /\ [Next]_sagaVars => DraftsArise
<1> SUFFICES ASSUME TypeInv, [Next]_sagaVars PROVE DraftsArise
  OBVIOUS
<1>1. CASE UNCHANGED contract
  BY <1>1 DEF DraftsArise
<1>2. ASSUME NEW c \in Contract, NEW u \in User,
             \/ MaySign(c, u) /\ PushSignature(c, u)
             \/ PullSignature(c, u)
             \/ Flip(c)
             \/ CancelContract(c)
             \/ HealContract(c)
      PROVE  DraftsArise
  BY <1>2 DEF MaySign, InProgress, PushSignature, PullSignature, Flip, CancelContract,
     HealContract, TypeInv, TypeOK, ContractTypeOK, ContractDocument, DraftsArise
<1>3. ASSUME NEW c \in Contract, NEW s \in DirectSignatories,
             SaveDraft(c, NoBooking, s)
      PROVE  DraftsArise
  BY <1>3 DEF SaveDraft, TypeInv, TypeOK, ContractTypeOK, DraftsArise
<1>4. ASSUME NEW r \in Request, CreateContract(r), ~ UNCHANGED contract PROVE DraftsArise
  BY <1>4 DEF CreateContract, SaveDraft, Await, At, dataVars, TypeInv, TypeOK,
     ContractTypeOK, DraftsArise
<1>5. CASE UserStep
  <2>1. \/ UNCHANGED contract
        \/ \E c \in Contract, u \in User : MaySign(c, u) /\ PushSignature(c, u)
        \/ \E c \in Contract : HealContract(c)
        \/ \E c \in Contract, s \in DirectSignatories : SaveDraft(c, NoBooking, s)
    BY <1>5 DEF UserStep, RequestBooking, Accept, Decline, Cancel, Sign, Heal,
       CreateDirect, GiveUser, dataVars
  <2>2. User # {}
    BY SagaAssumption
  <2>3. QED
    BY <1>1, <1>2, <1>3, <2>1, <2>2
<1>6. ASSUME NEW r \in Request, HandlerStep(r), ~ CreateContract(r) PROVE DraftsArise
  <2> DEFINE c == request[r].contract
  <2> USE DEF Await, At
  <2>1. User # {}
    BY SagaAssumption
  <2>2. \/ UNCHANGED contract
        \/ c \in Contract /\ CancelContract(c)
        \/ c \in Contract /\ Flip(c)
        \/ c \in Contract /\ request[r].user \in User /\ PullSignature(c, request[r].user)
    <3>1. CASE CreateBooking(r)
      BY <3>1 DEF CreateBooking, dataVars
    <3>2. CASE AcceptStep(r)
      BY <1>6, <3>2 DEF AcceptStep, ResolveNames, ReservePayment, Link, UnwindContract,
         UnwindPayment, ReleaseClaim, dataVars, TypeInv, HandlerShape, AcceptCall
    <3>3. CASE CancelStep(r)
      BY <3>3 DEF CancelStep, VoidPayment, CheckPaid, MarkCompleted,
         CancelLinkedContract, dataVars, TypeInv, HandlerShape, CancelCall
    <3>4. CASE SignStep(r)
      BY <3>4 DEF SignStep, SettlePayment, FlipContract, Reread, Announce,
         WithdrawSignature, dataVars, TypeInv, HandlerShape, SignCall
    <3>5. QED
      BY <1>6, <3>1, <3>2, <3>3, <3>4 DEF HandlerStep
  <2>3. QED
    BY <1>1, <1>2, <2>1, <2>2
<1>7. ASSUME NEW r \in Request, Crash(r) PROVE DraftsArise
  BY <1>1, <1>7 DEF Crash, dataVars
<1>8. CASE UNCHANGED sagaVars
  BY <1>1, <1>8 DEF sagaVars
<1>9. QED
  BY <1>1, <1>4, <1>5, <1>6, <1>7, <1>8 DEF Next

\* A booking keeps its initiator, and there are no new ones: the steps of
\* everybody but createBooking.
BookingsStay ==
  \A b \in Booking :
    /\ booking'[b].initiator = booking[b].initiator
    /\ booking'[b].status # "none" => booking[b].status # "none"

LEMMA PartiesKept ==
  ASSUME TypeInv, PartiesInv, ContractsStay, DraftsArise, BookingsStay,
         \A r \in Request :
           \/ request'[r] = request[r]
           \/ request'[r].at \notin {"createBooking"} \cup AcceptCall
           \/ request'[r].at = "createBooking" /\ request'[r].user # Owner
           \/ /\ request'[r].at \in AcceptCall
              /\ request'[r].booking \in Booking
              /\ booking[request'[r].booking].initiator # Owner
  PROVE  PartiesInv'
<1>1. \A r \in Request : request[r].at \in AcceptCall => request[r].booking \in Booking
  BY DEF TypeInv, HandlerShape
<1>2. ASSUME NEW c \in Contract, NEW u \in User,
             contract'[c].status # "none", contract'[c].booking # NoBooking
      PROVE  contract'[c].signatories \ {u} # {}
  <2>1. CASE contract[c].status # "none"
    BY <1>2, <2>1 DEF PartiesInv, ContractsStay
  <2>2. CASE contract[c].status = "none"
    <3>1. PICK r \in Request :
            /\ request[r].at = "createContract"
            /\ contract'[c].signatories = {Payer(request[r].booking), Payee(request[r].booking)}
      BY <1>2, <2>2 DEF DraftsArise
    <3>2. Payer(request[r].booking) # Payee(request[r].booking)
      BY <3>1 DEF PartiesInv, AcceptCall, Payer, Payee
    <3>3. QED
      BY <3>1, <3>2
  <2>3. QED
    BY <2>1, <2>2
<1>3. QED
  BY <1>1, <1>2 DEF PartiesInv, BookingsStay, AcceptCall

LEMMA PartiesStep ==
  ASSUME TypeInv, PayInv, PartiesInv, Next, ContractsStay, DraftsArise
  PROVE  PartiesInv'
<1> USE SagaAssumption
<1>1. CASE UserStep
  <2>1. ASSUME NEW b \in Booking, NEW status \in BookingStatus,
               booking' = [booking EXCEPT ![b].status = status],
               booking[b].status # "none"
        PROVE  BookingsStay
    BY <2>1, BookingStatusType DEF BookingsStay, TypeInv, TypeOK
  <2>2. ASSUME NEW r \in Request, NEW b \in Booking, NEW c \in Contract, Accept(r, b, c)
        PROVE  PartiesInv'
    <3>1. /\ \A s \in Request \ {r} : request'[s] = request[s]
          /\ request'[r].at = "resolveNames"
          /\ request'[r].booking = b
      BY <2>2 DEF Accept, Start, TypeInv, TypeOK, InFlight
    <3>2. BookingsStay /\ booking[b].initiator # Owner
      BY <2>1, <2>2 DEF Accept, BookingStatus, PartiesInv
    <3>3. QED
      BY <3>1, <3>2, PartiesKept DEF AcceptCall
  <2>3. ASSUME NEW r \in Request, NEW u \in User, RequestBooking(r, u)
        PROVE  PartiesInv'
    <3>1. /\ \A s \in Request \ {r} : request'[s] = request[s]
          /\ request'[r].at = "createBooking"
          /\ request'[r].user # Owner
      BY <2>3 DEF RequestBooking, Start, TypeInv, TypeOK, InFlight
    <3>2. BookingsStay
      BY <2>3 DEF RequestBooking, dataVars, BookingsStay
    <3>3. QED
      BY <3>1, <3>2, PartiesKept
  <2>4. ASSUME NEW b \in Booking, Decline(b) PROVE PartiesInv'
    <3>1. BookingsStay
      BY <2>1, <2>4 DEF Decline, BookingStatus
    <3>2. QED
      BY <2>4, <3>1, PartiesKept DEF Decline
  <2>5. ASSUME NEW r \in Request, NEW b \in Booking, NEW u \in User, Cancel(r, b, u)
        PROVE  PartiesInv'
    <3>1. BookingsStay
      BY <2>1, <2>5 DEF Cancel, Cancellable, BookingStatus
    <3>2. \A s \in Request : request'[s] = request[s] \/ request'[s].at = "voidPayment"
      BY <2>5 DEF Cancel, Start, TypeInv, TypeOK, InFlight
    <3>3. QED
      BY <3>1, <3>2, PartiesKept DEF AcceptCall
  <2>6. ASSUME NEW r \in Request, NEW c \in Contract, NEW u \in User, Sign(r, c, u)
        PROVE  PartiesInv'
    <3>1. \A s \in Request : request'[s] = request[s] \/ request'[s].at \in {"flip", "settle"}
      BY <2>6 DEF Sign, Start, TypeInv, TypeOK, InFlight
    <3>2. QED
      BY <2>6, <3>1, PartiesKept DEF Sign, AcceptCall, BookingsStay
  <2>7. CASE UNCHANGED <<booking, request>>
    BY <2>7, PartiesKept DEF BookingsStay
  <2>8. QED
    BY <1>1, <2>2, <2>3, <2>4, <2>5, <2>6, <2>7
       DEF UserStep, Heal, CreateDirect, GiveUser
<1>2. ASSUME NEW r \in Request, CreateBooking(r) PROVE PartiesInv'
  <2>1. /\ \A s \in Request \ {r} : request'[s] = request[s]
        /\ request'[r].at = "idle"
    BY <1>2, ProceedLemma DEF CreateBooking, Await, TypeInv, TypeOK, Idle, InFlight
  <2>2. /\ request[r].at = "createBooking"
        /\ UNCHANGED contract
    BY <1>2 DEF CreateBooking, Await, At, dataVars
  <2>3. /\ \A b \in Booking : booking'[b].status # "none" => booking'[b].initiator # Owner
        /\ \A b \in Booking : booking[b].initiator # Owner => booking'[b].initiator # Owner
    BY <1>2, <2>2 DEF CreateBooking, Await, dataVars, TypeInv, TypeOK, PartiesInv
  <2>4. \A s \in Request : request[s].at \in AcceptCall => request[s].booking \in Booking
    BY DEF TypeInv, HandlerShape
  <2>5. QED
    BY <2>1, <2>2, <2>3, <2>4 DEF PartiesInv, AcceptCall
<1>3. ASSUME NEW r \in Request, HandlerStep(r), ~ CreateBooking(r) PROVE PartiesInv'
  <2> DEFINE b == request[r].booking
  <2>1. /\ \/ request[r].at \in AcceptCall /\ \E call \in AcceptCall \cup {"idle"} : Proceed(r, call)
           \/ \E call \in CancelCall \cup SignCall \cup {"idle"} : Proceed(r, call)
        /\ \/ UNCHANGED booking
           \/ booking' = [booking EXCEPT ![b].contract = request[r].contract]
           \/ \E status \in {"pending", "completed"} :
                /\ booking[b].status \in {"accepted", "cancelled"}
                /\ booking' = [booking EXCEPT ![b].status = status]
    BY <1>3 DEF HandlerStep, AcceptStep, CancelStep, SignStep, ResolveNames,
       CreateContract, ReservePayment, Link, UnwindContract, UnwindPayment, ReleaseClaim,
       VoidPayment, CheckPaid, MarkCompleted, CancelLinkedContract, SettlePayment,
       FlipContract, Reread, Announce, WithdrawSignature, AfterFlip, Linkable, SetStatus,
       Await, At, dataVars, AcceptCall, CancelCall, SignCall
  <2>2. BookingsStay
    <3>1. CASE b \notin Booking
      BY <2>1, <3>1 DEF BookingsStay, TypeInv, TypeOK
    <3>2. CASE b \in Booking
      BY <2>1, <3>2 DEF BookingsStay, TypeInv, TypeOK, BookingDocument
    <3>3. QED
      BY <3>1, <3>2
  <2>3. request[r].at \in AcceptCall => b \in Booking /\ booking[b].initiator # Owner
    BY DEF PartiesInv, TypeInv, HandlerShape
  <2>4. \A s \in Request \ {r} : request'[s] = request[s]
    BY <2>1 DEF Proceed, TypeInv, TypeOK
  <2>5. \/ request'[r].at \notin {"createBooking"} \cup AcceptCall
        \/ /\ request'[r].at \in AcceptCall
           /\ request'[r].booking \in Booking
           /\ booking[request'[r].booking].initiator # Owner
    <3>1. ASSUME NEW call \in CancelCall \cup SignCall \cup {"idle"}, Proceed(r, call)
          PROVE  request'[r].at \notin {"createBooking"} \cup AcceptCall
      BY <3>1, ProceedLemma DEF TypeInv, TypeOK, Idle, InFlight, Call, CancelCall,
         SignCall, AcceptCall
    <3>2. ASSUME NEW call \in AcceptCall, Proceed(r, call)
          PROVE  request'[r].at = call /\ request'[r].booking = b
      BY <3>2, ProceedLemma DEF TypeInv, TypeOK, Call, AcceptCall
    <3>3. QED
      BY <2>1, <2>3, <3>1, <3>2
  <2>6. QED
    BY <2>2, <2>4, <2>5, PartiesKept
<1>4. ASSUME NEW r \in Request, Crash(r) PROVE PartiesInv'
  <2>1. /\ \A s \in Request \ {r} : request'[s] = request[s]
        /\ request'[r].at = "idle"
    BY <1>4, ProceedLemma DEF Crash, TypeInv, TypeOK, Idle, InFlight
  <2>2. QED
    BY <1>4, <2>1, PartiesKept DEF Crash, dataVars, BookingsStay, AcceptCall
<1>5. QED
  BY <1>1, <1>2, <1>3, <1>4 DEF Next

-----------------------------------------------------------------------------
\* The calls of sign between the last signature and the outcome of settle.
Concluding == {"settle", "pullSignature"}

\* The request that landed the last signature is the only one to conclude the
\* contract, that of a booking.
OneConcludes ==
  \A r \in Request : request[r].at \in Concluding =>
    /\ contract[request[r].contract].booking # NoBooking
    /\ AllSigned(request[r].contract)
    /\ \A s \in Request \ {r} :
         request[s].at \in Concluding => request[s].contract # request[r].contract

\* An existing contract keeps its signatories and loses no signature.
KeepsSignatures ==
  \A c \in Contract : contract[c].status # "none" =>
    /\ contract'[c].signatories = contract[c].signatories
    /\ contract[c].signatures \subseteq contract'[c].signatures

\* No payment is settled.
SettlesNothing ==
  \A c \in Contract :
    payment'[c].status = "completed" => payment[c].status = "completed"

OthersWait(r) == \A s \in Request \ {r} : request'[s] = request[s]

\* Nobody starts to conclude a contract, loses a signature or settles.
NothingConcluded ==
  /\ KeepsSignatures /\ SettlesNothing
  /\ \A s \in Request : request'[s].at \in Concluding =>
       request[s].at \in Concluding /\ request'[s].contract = request[s].contract

\* The last signature starts it, ...
LastSigns(r, c, u) ==
  /\ MaySign(c, u) /\ PushSignature(c, u) /\ LastSignature(c, u) /\ UNCHANGED payment
  /\ OthersWait(r)
  /\ request'[r].contract = c
  /\ request'[r].at \in Concluding => contract[c].booking # NoBooking

\* ... settle may pay, ...
Pays(r) ==
  /\ request[r].at = "settle" /\ Settle(request[r].contract) /\ UNCHANGED contract
  /\ OthersWait(r)
  /\ request'[r].contract = request[r].contract
  /\ request'[r].at = "flip" \/ "settle" \in MayLoseAck

\* ... and when it throws, the signature is withdrawn.
Withdraws(r) ==
  /\ request[r].at = "pullSignature"
  /\ PullSignature(request[r].contract, request[r].user) /\ UNCHANGED payment
  /\ OthersWait(r)
  /\ request'[r].at = "idle"

LEMMA KeepsSignaturesLemma ==
  ASSUME TypeInv, NEW c \in Contract, NEW u \in User,
         \/ UNCHANGED contract
         \/ PushSignature(c, u)
         \/ Flip(c)
         \/ CancelContract(c)
         \/ HealContract(c)
         \/ contract[c].status = "none" /\ \E b \in Booking \cup {NoBooking}, s \in SUBSET User :
              SaveDraft(c, b, s)
  PROVE  KeepsSignatures
<1> USE DEF TypeInv, TypeOK, ContractTypeOK, ContractDocument, KeepsSignatures
<1>1. CASE UNCHANGED contract
  BY <1>1
<1>2. CASE PushSignature(c, u)
  BY <1>2 DEF PushSignature
<1>3. CASE Flip(c)
  BY <1>3 DEF Flip
<1>5. CASE CancelContract(c)
  BY <1>5 DEF CancelContract
<1>6. CASE HealContract(c)
  BY <1>6 DEF HealContract
<1>7. CASE contract[c].status = "none" /\ \E b \in Booking \cup {NoBooking}, s \in SUBSET User :
              SaveDraft(c, b, s)
  BY <1>7 DEF SaveDraft
<1>8. QED
  BY <1>1, <1>2, <1>3, <1>5, <1>6, <1>7

LEMMA SettlesNothingLemma ==
  ASSUME TypeInv, NEW c \in Contract,
         \/ UNCHANGED payment
         \/ Void(c)
         \/ \E u, v \in User : Reserve(c, u, v, Price)
  PROVE  SettlesNothing
<1> USE DEF TypeInv, TypeOK, LedgerTypeOK, SettlesNothing
<1>1. CASE UNCHANGED payment
  BY <1>1
<1>2. CASE Void(c)
  BY <1>2 DEF Void
<1>3. CASE \E u, v \in User : Reserve(c, u, v, Price)
  BY <1>3 DEF Reserve
<1>4. QED
  BY <1>1, <1>2, <1>3

\* What users do to the contracts that are being concluded.
LEMMA ConcludeUserStep ==
  ASSUME TypeInv, PayInv, UserStep
  PROVE  \/ NothingConcluded
         \/ \E r \in Request, c \in Contract, u \in User : LastSigns(r, c, u)
<1> DEFINE Goal == \/ NothingConcluded
                   \/ \E r \in Request, c \in Contract, u \in User : LastSigns(r, c, u)
<1> USE SagaAssumption, ContractAssumption
<1>1. ASSUME KeepsSignatures, SettlesNothing,
             \A s \in Request : request'[s] = request[s] \/ request'[s].at \notin Concluding
      PROVE  Goal
  BY <1>1 DEF NothingConcluded
<1>2. UNCHANGED contract => KeepsSignatures
  BY DEF KeepsSignatures
<1>3. UNCHANGED payment => SettlesNothing
  BY DEF SettlesNothing
<1>4. ASSUME NEW r \in Request, NEW u \in User, RequestBooking(r, u)
      PROVE  Goal
  BY <1>1, <1>2, <1>3, <1>4
     DEF RequestBooking, Start, dataVars, TypeInv, TypeOK, InFlight, Concluding
<1>5. ASSUME NEW r \in Request, NEW b \in Booking, NEW c \in Contract, Accept(r, b, c)
      PROVE  Goal
  BY <1>1, <1>2, <1>3, <1>5 DEF Accept, Start, ledgerVars, TypeInv, TypeOK, InFlight, Concluding
<1>6. ASSUME NEW b \in Booking, Decline(b) PROVE Goal
  BY <1>1, <1>2, <1>3, <1>6 DEF Decline, ledgerVars
<1>7. ASSUME NEW r \in Request, NEW b \in Booking, NEW u \in User, Cancel(r, b, u)
      PROVE  Goal
  <2>1. \A s \in Request : request'[s] = request[s] \/ request'[s].at = "voidPayment"
    BY <1>7 DEF Cancel, Start, TypeInv, TypeOK, InFlight
  <2>2. QED
    BY <1>1, <1>2, <1>3, <1>7, <2>1 DEF Cancel, ledgerVars, Concluding
<1>8. ASSUME NEW r \in Request, NEW c \in Contract, NEW u \in User, Sign(r, c, u)
      PROVE  Goal
  <2>1. KeepsSignatures /\ SettlesNothing /\ UNCHANGED payment
    BY <1>3, <1>8, KeepsSignaturesLemma DEF Sign, ledgerVars
  <2>2. CASE UNCHANGED request
    BY <1>1, <2>1, <2>2
  <2>3. CASE ~ UNCHANGED request
    <3>1. /\ LastSignature(c, u)
          /\ OthersWait(r)
          /\ request'[r].contract = c
          /\ request'[r].at \in Concluding => contract[c].booking # NoBooking
      BY <1>8, <2>3 DEF Sign, Concluding, Start, TypeInv, TypeOK, InFlight, OthersWait
    <3>2. LastSigns(r, c, u)
      BY <1>8, <2>1, <3>1 DEF Sign, LastSigns
    <3>3. QED
      BY <3>2
  <2>4. QED
    BY <2>2, <2>3
<1>9. ASSUME NEW c \in Contract, Heal(c) PROVE Goal
  BY <1>1, <1>3, <1>9, KeepsSignaturesLemma DEF Heal, ledgerVars
<1>10. ASSUME NEW c \in Contract, NEW s \in DirectSignatories, CreateDirect(c, s)
      PROVE  Goal
  BY <1>1, <1>3, <1>10, KeepsSignaturesLemma DEF CreateDirect, Fresh, ledgerVars
<1>11. ASSUME NEW u \in User, NEW v \in User, NEW n \in Gift, GiveUser(u, v, n)
      PROVE  Goal
  BY <1>1, <1>2, <1>3, <1>11 DEF GiveUser, Transfer
<1>12. QED
  BY <1>4, <1>5, <1>6, <1>7, <1>8, <1>9, <1>10, <1>11 DEF UserStep

\* What the calls of a handler do to them: settle pays, pullSignature withdraws.
LEMMA ConcludeHandlerStep ==
  ASSUME TypeInv, PayInv, NEW r \in Request, HandlerStep(r)
  PROVE  NothingConcluded \/ Pays(r) \/ Withdraws(r)
<1> DEFINE c == request[r].contract
<1> USE SagaAssumption, ContractAssumption
<1> USE DEF Await, At
<1>1. ASSUME KeepsSignatures, SettlesNothing,
             NEW call \in Call \cup {"idle"}, Proceed(r, call),
             call \in Concluding => request[r].at \in Concluding
      PROVE  NothingConcluded
  <2>1. /\ \A s \in Request \ {r} : request'[s] = request[s]
        /\ request'[r].at = call
        /\ call # "idle" => request'[r].contract = request[r].contract
    BY <1>1, ProceedLemma DEF TypeInv, TypeOK, Idle, InFlight
  <2>2. QED
    BY <1>1, <2>1 DEF NothingConcluded, Concluding
<1>2. CASE CreateBooking(r)
  BY <1>1, <1>2 DEF CreateBooking, dataVars, ledgerVars, KeepsSignatures,
     SettlesNothing, Concluding
<1>3. CASE AcceptStep(r)
  <2> DEFINE b == request[r].booking
  <2>1. c \in Contract /\ b \in Booking /\ booking[b].initiator \in User
    BY <1>3 DEF AcceptStep, ResolveNames, CreateContract, ReservePayment, Link,
       UnwindContract, UnwindPayment, ReleaseClaim, AcceptCall, TypeInv, HandlerShape
  <2>2. Payer(b) \in User /\ Payee(b) \in User
    BY <2>1 DEF Payer, Payee
  <2>3. /\ \/ UNCHANGED contract
           \/ CancelContract(c)
           \/ request[r].at = "createContract" /\ SaveDraft(c, b, {Payer(b), Payee(b)})
        /\ UNCHANGED payment \/ Void(c) \/ Reserve(c, Payer(b), Payee(b), Price)
        /\ \E call \in AcceptCall \cup {"idle"} : Proceed(r, call)
    BY <1>3 DEF AcceptStep, ResolveNames, CreateContract, ReservePayment, Link,
       UnwindContract, UnwindPayment, ReleaseClaim, AcceptCall, dataVars, ledgerVars
  <2>4. request[r].at = "createContract" => contract[c].status = "none"
    BY DEF PayInv, OpeningOwnsContract
  <2>5. KeepsSignatures
    BY <2>1, <2>2, <2>3, <2>4, KeepsSignaturesLemma
  <2>6. SettlesNothing
    BY <2>1, <2>2, <2>3, SettlesNothingLemma
  <2>7. QED
    BY <1>1, <2>3, <2>5, <2>6 DEF AcceptCall, Call, Concluding
<1>4. CASE CancelStep(r)
  <2>1. /\ c \in Contract
        /\ UNCHANGED payment \/ Void(c)
        /\ UNCHANGED contract \/ CancelContract(c)
        /\ \E call \in CancelCall \cup {"idle"} : Proceed(r, call)
    BY <1>4 DEF CancelStep, VoidPayment, CheckPaid, MarkCompleted,
       CancelLinkedContract, dataVars, ledgerVars, CancelCall, TypeInv, HandlerShape
  <2>2. KeepsSignatures /\ SettlesNothing
    BY <2>1, KeepsSignaturesLemma, SettlesNothingLemma
  <2>3. QED
    BY <1>1, <2>1, <2>2 DEF Call, CancelCall, Concluding
<1>5. CASE SignStep(r)
  <2>1. c \in Contract /\ request[r].user \in User
    BY <1>5 DEF SignStep, SettlePayment, FlipContract, Reread, Announce,
       WithdrawSignature, SignCall, TypeInv, HandlerShape
  <2>2. CASE SettlePayment(r)
    <3>1. /\ request[r].at = "settle"
          /\ UNCHANGED contract
          /\ KeepsSignatures
      BY <2>2 DEF SettlePayment, dataVars, KeepsSignatures
    <3>2. \/ Settle(c) /\ Proceed(r, "flip")
          \/ Settle(c) /\ Proceed(r, "pullSignature") /\ "settle" \in MayLoseAck
          \/ UNCHANGED payment /\ \E call \in {"flip", "pullSignature"} : Proceed(r, call)
      BY <2>2 DEF SettlePayment, dataVars, ledgerVars
    <3>3. CASE UNCHANGED payment /\ \E call \in {"flip", "pullSignature"} : Proceed(r, call)
      BY <1>1, <3>1, <3>3 DEF SettlesNothing, Call, Concluding
    <3>4. ASSUME Settle(c), NEW call \in {"flip", "pullSignature"}, Proceed(r, call),
                 call = "flip" \/ "settle" \in MayLoseAck
          PROVE  Pays(r)
      <4>1. /\ OthersWait(r)
            /\ request'[r].at = call
            /\ request'[r].contract = c
        BY <3>4, ProceedLemma DEF TypeInv, TypeOK, Call, OthersWait
      <4>2. QED
        BY <3>1, <3>4, <4>1 DEF Pays
    <3>5. QED
      BY <3>2, <3>3, <3>4
  <2>3. CASE WithdrawSignature(r)
    <3>1. /\ request[r].at = "pullSignature"
          /\ UNCHANGED payment
          /\ UNCHANGED contract \/ PullSignature(c, request[r].user)
          /\ Proceed(r, "idle")
      BY <2>3 DEF WithdrawSignature, dataVars, ledgerVars
    <3>2. OthersWait(r) /\ request'[r].at = "idle"
      BY <3>1, ProceedLemma DEF TypeInv, TypeOK, Call, Idle, InFlight, OthersWait
    <3>3. CASE UNCHANGED contract
      BY <1>1, <3>1, <3>3 DEF KeepsSignatures, SettlesNothing, Concluding
    <3>4. CASE PullSignature(c, request[r].user)
      BY <3>1, <3>2, <3>4 DEF Withdraws
    <3>5. QED
      BY <3>1, <3>3, <3>4
  <2>4. CASE ~ SettlePayment(r) /\ ~ WithdrawSignature(r)
    <3>1. /\ UNCHANGED payment
          /\ UNCHANGED contract \/ Flip(c)
          /\ \E call \in {"idle", "announce", "reread"} : Proceed(r, call)
      BY <1>5, <2>4 DEF SignStep, FlipContract, Reread, Announce, AfterFlip,
         dataVars, ledgerVars
    <3>2. KeepsSignatures /\ SettlesNothing
      BY <2>1, <3>1, KeepsSignaturesLemma, SettlesNothingLemma
    <3>3. QED
      BY <1>1, <3>1, <3>2 DEF Call, Concluding
  <2>5. QED
    BY <2>2, <2>3, <2>4
<1>6. QED
  BY <1>2, <1>3, <1>4, <1>5 DEF HandlerStep

LEMMA ConcludeStep ==
  ASSUME TypeInv, PayInv, [Next]_sagaVars
  PROVE  \/ NothingConcluded
         \/ \E r \in Request, c \in Contract, u \in User : LastSigns(r, c, u)
         \/ \E r \in Request : Pays(r) \/ Withdraws(r)
<1>1. ASSUME UNCHANGED sagaVars PROVE NothingConcluded
  BY <1>1 DEF sagaVars, NothingConcluded, KeepsSignatures, SettlesNothing
<1>2. ASSUME NEW r \in Request, Crash(r) PROVE NothingConcluded
  <2>1. /\ \A s \in Request \ {r} : request'[s] = request[s]
        /\ request'[r].at = "idle"
    BY <1>2, ProceedLemma DEF Crash, TypeInv, TypeOK, Idle, InFlight
  <2>2. QED
    BY <1>2, <2>1 DEF Crash, dataVars, NothingConcluded, KeepsSignatures, SettlesNothing,
       Concluding
<1>3. QED
  BY <1>1, <1>2, ConcludeUserStep, ConcludeHandlerStep DEF Next

\* A handler that concludes has an existing contract.
LEMMA ConcludingExists ==
  ASSUME TypeInv, PayInv, NEW r \in Request, request[r].at \in Concluding
  PROVE  /\ request[r].contract \in Contract
         /\ contract[request[r].contract].status # "none"
BY DEF PayInv, FlipIsPaid, TypeInv, HandlerShape, Concluding, SignCall

LEMMA OneConcludesStep ==
  ASSUME TypeInv, PayInv, OneConcludes, [Next]_sagaVars, ContractsStay
  PROVE  OneConcludes'
<1>1. CASE NothingConcluded
  BY <1>1, ConcludingExists
     DEF NothingConcluded, OneConcludes, KeepsSignatures, ContractsStay, AllSigned
<1>2. ASSUME NEW r \in Request, NEW c \in Contract, NEW u \in User, LastSigns(r, c, u)
      PROVE  OneConcludes'
  <2>1. KeepsSignatures
    BY <1>2, KeepsSignaturesLemma DEF LastSigns
  <2>2. \A s \in Request : request[s].at \in Concluding => request[s].contract # c
    BY <1>2 DEF LastSigns, MaySign, AllSigned, OneConcludes
  <2>3. AllSigned(c)' /\ contract[c].status # "none"
    BY <1>2 DEF LastSigns, MaySign, InProgress, PushSignature, LastSignature, AllSigned,
       TypeInv, TypeOK, ContractTypeOK, ContractDocument
  <2>4. request'[r].at \in Concluding => contract'[c].booking # NoBooking
    BY <1>2, <2>3 DEF LastSigns, ContractsStay
  <2>5. QED
    BY <1>2, <2>1, <2>2, <2>3, <2>4, ConcludingExists
       DEF LastSigns, OthersWait, OneConcludes, KeepsSignatures, ContractsStay, AllSigned
<1>3. ASSUME NEW r \in Request, Pays(r) PROVE OneConcludes'
  BY <1>3 DEF Pays, OthersWait, OneConcludes, AllSigned, Concluding
<1>4. ASSUME NEW r \in Request, Withdraws(r) PROVE OneConcludes'
  <2> DEFINE c == request[r].contract
  <2>1. \A s \in Request \ {r} : request[s].at \in Concluding => request[s].contract # c
    BY <1>4 DEF Withdraws, OneConcludes, Concluding
  <2>2. \A d \in Contract \ {c} : contract'[d] = contract[d]
    BY <1>4, ConcludingExists
       DEF Withdraws, PullSignature, Concluding, TypeInv, TypeOK, ContractTypeOK
  <2>3. QED
    BY <1>4, <2>1, <2>2, ConcludingExists
       DEF Withdraws, OthersWait, OneConcludes, AllSigned, Concluding
<1>5. QED
  BY <1>1, <1>2, <1>3, <1>4, ConcludeStep

ConcludeInv == PartiesInv /\ OneConcludes

LEMMA ConcludeInvStep == TypeInv /\ PayInv /\ ConcludeInv /\ [Next]_sagaVars => ConcludeInv'
<1> SUFFICES ASSUME TypeInv, PayInv, ConcludeInv, [Next]_sagaVars PROVE ConcludeInv'
  OBVIOUS
<1>1. CASE UNCHANGED sagaVars
  BY <1>1 DEF sagaVars, ConcludeInv, PartiesInv, OneConcludes, AllSigned, Payer, Payee
<1>2. CASE Next
  <2>1. ContractsStay
    <3>1. ASSUME NEW r \in Request, Crash(r) PROVE ContractsStay
      BY <3>1 DEF Crash, dataVars, ContractsStay
    <3>2. QED
      BY <1>2, <3>1, LinkUserStep, LinkHandlerStep DEF Next
  <2>2. QED
    BY <1>2, <2>1, DraftsStep, PartiesStep, OneConcludesStep DEF ConcludeInv
<1>3. QED
  BY <1>1, <1>2

LEMMA ConcludeInvariant == Spec => [](TypeInv /\ PayInv /\ ConcludeInv)
<1>1. Init => ConcludeInv
  BY DEF Init, ContractInit, NoBookingDocument, NoDocument, ConcludeInv, PartiesInv,
     OneConcludes, Idle, InFlight, AcceptCall, Concluding
<1>2. QED
  BY <1>1, ConcludeInvStep, PaymentInvariant, PTL DEF Spec

\* Whichever calls fail, lose their answer or are retried, a signature that is
\* rolled back is never the only one of its contract: the update of
\* rollbackSignature that goes back to draft has nothing to match.
THEOREM WithdrawalsLeaveSignatures == Spec => []WithdrawalLeavesSignature
<1>1. TypeInv /\ PayInv /\ ConcludeInv => WithdrawalLeavesSignature
  <2> SUFFICES ASSUME TypeInv, PayInv, ConcludeInv,
                      NEW r \in Request, request[r].at = "pullSignature"
               PROVE  contract[request[r].contract].signatures \ {request[r].user} # {}
    BY DEF WithdrawalLeavesSignature, At
  <2> DEFINE c == request[r].contract
  <2>1. /\ c \in Contract
        /\ contract[c].status # "none"
        /\ request[r].user \in User
    BY ConcludingExists DEF Concluding, TypeInv, HandlerShape, SignCall
  <2>2. AllSigned(c) /\ contract[c].booking # NoBooking
    BY DEF ConcludeInv, OneConcludes, Concluding
  <2>3. contract[c].signatories \ {request[r].user} # {}
    BY <2>1, <2>2 DEF ConcludeInv, PartiesInv
  <2>4. QED
    BY <2>2, <2>3 DEF AllSigned
<1>2. QED
  BY <1>1, ConcludeInvariant, PTL

\* A contract is not paid until its last signature is concluded.
SignedInv ==
  /\ PaidIsSignedByAll
  /\ \A r \in Request : request[r].at \in Concluding => ~ Completed(request[r].contract)

LEMMA SignedInvStep ==
  ASSUME "settle" \notin MayLoseAck
  PROVE  TypeInv /\ PayInv /\ ConcludeInv /\ SignedInv /\ [Next]_sagaVars => SignedInv'
<1> SUFFICES ASSUME TypeInv, PayInv, ConcludeInv, SignedInv, [Next]_sagaVars
             PROVE  SignedInv'
  OBVIOUS
<1>1. \A c \in Contract : Completed(c) => contract[c].status # "none"
  BY DEF PayInv, NoContractNoPayment, Completed
<1>2. ASSUME KeepsSignatures, SettlesNothing PROVE PaidIsSignedByAll'
  BY <1>1, <1>2 DEF SignedInv, PaidIsSignedByAll, KeepsSignatures, SettlesNothing,
     Completed, AllSigned
<1>3. CASE NothingConcluded
  BY <1>2, <1>3, ConcludingExists DEF NothingConcluded, SignedInv, SettlesNothing, Completed
<1>4. ASSUME NEW r \in Request, NEW c \in Contract, NEW u \in User, LastSigns(r, c, u)
      PROVE  SignedInv'
  <2>1. KeepsSignatures /\ SettlesNothing
    BY <1>4, KeepsSignaturesLemma, SettlesNothingLemma DEF LastSigns
  <2>2. ~ Completed(c)
    BY <1>4 DEF LastSigns, MaySign, AllSigned, SignedInv, PaidIsSignedByAll
  <2>3. QED
    BY <1>2, <1>4, <2>1, <2>2 DEF LastSigns, OthersWait, SignedInv, Completed
<1>5. ASSUME NEW r \in Request, Pays(r) PROVE SignedInv'
  <2> DEFINE c == request[r].contract
  <2>1. /\ c \in Contract
        /\ AllSigned(c)
        /\ \A s \in Request \ {r} : request[s].at \in Concluding => request[s].contract # c
    BY <1>5, ConcludingExists DEF Pays, ConcludeInv, OneConcludes, Concluding
  <2>2. \A d \in Contract \ {c} : payment'[d] = payment[d]
    BY <1>5, <2>1 DEF Pays, Settle, TypeInv, TypeOK, LedgerTypeOK
  <2>3. PaidIsSignedByAll'
    BY <1>5, <2>1, <2>2 DEF Pays, SignedInv, PaidIsSignedByAll, Completed, AllSigned
  <2>4. QED
    BY <1>5, <2>1, <2>2, <2>3, ConcludingExists
       DEF Pays, OthersWait, SignedInv, Completed, Concluding
<1>6. ASSUME NEW r \in Request, Withdraws(r) PROVE SignedInv'
  <2> DEFINE c == request[r].contract
  <2>1. c \in Contract /\ ~ Completed(c)
    BY <1>6, ConcludingExists DEF Withdraws, SignedInv, Concluding
  <2>2. \A d \in Contract \ {c} : contract'[d] = contract[d]
    BY <1>6, <2>1 DEF Withdraws, PullSignature, TypeInv, TypeOK, ContractTypeOK
  <2>3. PaidIsSignedByAll'
    BY <1>6, <2>1, <2>2 DEF Withdraws, SignedInv, PaidIsSignedByAll, Completed, AllSigned
  <2>4. QED
    BY <1>6, <2>3 DEF Withdraws, OthersWait, SignedInv, Completed, Concluding
<1>7. QED
  BY <1>3, <1>4, <1>5, <1>6, ConcludeStep

\* Points move only for a contract that every signatory signed, and no signature
\* of a paid contract is withdrawn: on the one condition that the answer of a
\* committed settlement is never lost.
THEOREM PaidContractsAreSignedByAll ==
  ASSUME "settle" \notin MayLoseAck
  PROVE  Spec => []PaidIsSignedByAll
<1>1. Init => SignedInv
  BY DEF Init, LedgerInit, SignedInv, PaidIsSignedByAll, Completed, Idle, InFlight,
     NoRow, Concluding
<1>2. TypeInv /\ PayInv /\ ConcludeInv /\ SignedInv /\ [Next]_sagaVars => SignedInv'
  BY SignedInvStep
<1>3. SignedInv => PaidIsSignedByAll
  BY DEF SignedInv
<1>4. QED
  BY <1>1, <1>2, <1>3, ConcludeInvariant, PTL DEF Spec
-----------------------------------------------------------------------------
(* The saga implements BookingDeal.  A deal is paid once, because only the   *)
(* contract that its booking is linked to is ever signed by its parties: a   *)
(* reservation that an unwinding left pending, or one that a second accept   *)
(* makes, is settled by nobody.                                              *)

\* The contract is the one its booking is linked to.
Linked(c) ==
  contract[c].booking # NoBooking /\ booking[contract[c].booking].contract = c

\* The row is the price of a booking, from its payer to its payee.
Owed(c) ==
  LET b == contract[c].booking
  IN  /\ b \in Booking
      /\ booking[b].initiator \in User
      /\ payment[c].payer = Payer(b) /\ payment[c].payee = Payee(b)
      /\ payment[c].amount = Price

DealInv ==
  /\ \A b \in Booking :
       /\ booking[b].contract # NoContract =>
            booking[b].status \in {"accepted", "cancelled", "completed"}
       /\ booking[b].status = "none" => booking[b].initiator = NoUser
  /\ \A c \in Contract :
       /\ payment[c].status # "none" => Owed(c)
       /\ Completed(c) => Linked(c)
  /\ \A r \in Request : request[r].at = "settle" => Linked(request[r].contract)

SagaInv == TypeInv /\ PayInv /\ LinkInv /\ ConcludeInv /\ DealInv

PaidDeal(b) == \E c \in ContractsOf(b) : Completed(c)

LEMMA DealStates ==
  ASSUME NEW b
  PROVE  /\ PaidDeal(b) => DealState(b) = "paid"
         /\ ~ PaidDeal(b) =>
              /\ booking[b].status = "none" => DealState(b) = "absent"
              /\ booking[b].status = "pending" => DealState(b) = "requested"
              /\ booking[b].status = "declined" => DealState(b) = "refused"
              /\ booking[b].status \in {"accepted", "completed"} => DealState(b) = "agreed"
              /\ booking[b].status = "cancelled" =>
                   DealState(b) = IF Undecided(b) THEN "agreed" ELSE "withdrawn"
BY DEF DealState, PaidDeal

LEMMA NextDealStates ==
  ASSUME NEW b
  PROVE  /\ PaidDeal(b)' => DealState(b)' = "paid"
         /\ ~ PaidDeal(b)' =>
              /\ booking'[b].status = "none" => DealState(b)' = "absent"
              /\ booking'[b].status = "pending" => DealState(b)' = "requested"
              /\ booking'[b].status = "declined" => DealState(b)' = "refused"
              /\ booking'[b].status \in {"accepted", "completed"} => DealState(b)' = "agreed"
              /\ booking'[b].status = "cancelled" =>
                   DealState(b)' = IF Undecided(b)' THEN "agreed" ELSE "withdrawn"
BY DEF DealState, PaidDeal

\* The moves of one deal that the abstract specification allows, payment aside.
LEMMA DealMoves ==
  ASSUME NEW b \in Booking, UNCHANGED balance,
         \A d \in Booking \ {b} : DealState(d)' = DealState(d),
         \A d \in Booking : booking'[d].initiator = booking[d].initiator,
         \/ DealState(b)' = DealState(b)
         \/ DealState(b) = "requested" /\ DealState(b)' \in {"agreed", "refused", "withdrawn"}
         \/ DealState(b) = "agreed" /\ DealState(b)' \in {"requested", "withdrawn"}
  PROVE  [Deal!Next]_Deal!dealVars
<1> DEFINE deal == [d \in Booking |-> [state |-> DealState(d),
                                       initiator |-> booking[d].initiator]]
<1>1. deal' = [deal EXCEPT ![b].state = DealState(b)'] /\ deal[b].state = DealState(b)
  OBVIOUS
<1>2. CASE DealState(b)' = DealState(b)
  <2>1. deal' = deal
    BY <1>2
  <2>2. QED
    BY <2>1 DEF Deal!dealVars
<1>3. CASE DealState(b) = "requested" /\ DealState(b)' \in {"agreed", "refused", "withdrawn"}
  <2>1. Deal!Agree(b) \/ Deal!Refuse(b) \/ Deal!Withdraw(b)
    BY <1>1, <1>3 DEF Deal!Agree, Deal!Refuse, Deal!Withdraw, Deal!Change
  <2>2. QED
    BY <2>1 DEF Deal!Next
<1>4. CASE DealState(b) = "agreed" /\ DealState(b)' \in {"requested", "withdrawn"}
  <2>1. Deal!FallBack(b) \/ Deal!Withdraw(b)
    BY <1>1, <1>4 DEF Deal!FallBack, Deal!Withdraw, Deal!Change
  <2>2. QED
    BY <2>1 DEF Deal!Next
<1>5. QED
  BY <1>2, <1>3, <1>4

\* What keeps the rows and the links: a booking keeps the contract it is linked
\* to and its initiator, and a new row is owed.
LEMMA DealInvKept ==
  ASSUME SagaInv, ContractsStay,
         \A b \in Booking :
           /\ booking[b].initiator # NoUser => booking'[b].initiator = booking[b].initiator
           /\ booking[b].contract # NoContract => booking'[b].contract = booking[b].contract
           /\ booking'[b].contract # NoContract =>
                booking'[b].status \in {"accepted", "cancelled", "completed"}
           /\ booking'[b].status = "none" => booking'[b].initiator = NoUser,
         \A c \in Contract :
           \/ payment'[c] = payment[c]
           \/ /\ payment[c].status = "pending"
              /\ \E status \in PaymentStatus : payment'[c] = [payment[c] EXCEPT !.status = status]
              /\ payment'[c].status = "completed" => Linked(c)
           \/ \E r \in Request :
                /\ request[r].at = "reserve" /\ request[r].contract = c
                /\ payment'[c] = [status |-> "pending", payer |-> Payer(request[r].booking),
                                  payee |-> Payee(request[r].booking), amount |-> Price],
         \A r \in Request : request'[r].at = "settle" =>
           /\ request'[r].contract \in Contract
           /\ contract[request'[r].contract].status # "none"
           /\ Linked(request'[r].contract)
  PROVE  DealInv'
<1> USE SagaAssumption, ContractAssumption
<1>1. ASSUME NEW c \in Contract, contract[c].status # "none", Linked(c)
      PROVE  Linked(c)'
  <2>1. contract[c].booking \in Booking /\ contract'[c].booking = contract[c].booking
    BY <1>1 DEF Linked, ContractsStay, SagaInv, TypeInv, TypeOK, ContractTypeOK, ContractDocument
  <2>2. QED
    BY <1>1, <2>1 DEF Linked
<1>2. ASSUME NEW b \in Booking, booking[b].initiator \in User
      PROVE  /\ booking'[b].initiator = booking[b].initiator
             /\ Payer(b)' = Payer(b) /\ Payee(b)' = Payee(b)
  BY <1>2 DEF Payer, Payee
<1>3. \A c \in Contract : payment[c].status # "none" => contract[c].status # "none"
  BY DEF SagaInv, PayInv, NoContractNoPayment
<1>4. ASSUME NEW c \in Contract, payment'[c].status # "none"
      PROVE  Owed(c)'
  <2>1. CASE /\ payment[c].status # "none" /\ payment'[c].payer = payment[c].payer
             /\ payment'[c].payee = payment[c].payee /\ payment'[c].amount = payment[c].amount
    <3>1. Owed(c) /\ contract'[c].booking = contract[c].booking
      BY <1>3, <2>1 DEF SagaInv, DealInv, ContractsStay
    <3>2. QED
      BY <1>2, <2>1, <3>1 DEF Owed
  <2>2. ASSUME NEW r \in Request, request[r].at = "reserve", request[r].contract = c,
               payment'[c] = [status |-> "pending", payer |-> Payer(request[r].booking),
                              payee |-> Payee(request[r].booking), amount |-> Price]
        PROVE  Owed(c)'
    <3>1. /\ request[r].booking \in Booking /\ BelongsTo(c, request[r].booking)
          /\ booking[request[r].booking].initiator \in User
      BY <2>2 DEF SagaInv, LinkInv, Tied, TypeInv, HandlerShape, AcceptCall
    <3>2. contract'[c].booking = request[r].booking
      BY <3>1 DEF BelongsTo, ContractsStay
    <3>3. QED
      BY <1>2, <2>2, <3>1, <3>2 DEF Owed
  <2>3. CASE /\ payment[c].status = "pending"
             /\ \E status \in PaymentStatus : payment'[c] = [payment[c] EXCEPT !.status = status]
    <3>1. payment[c] \in PaymentRow
      BY <2>3 DEF SagaInv, TypeInv, TypeOK, LedgerTypeOK, NoRow
    <3>2. QED
      BY <2>1, <2>3, <3>1 DEF PaymentRow
  <2>4. QED
    BY <1>4, <2>1, <2>2, <2>3
<1>5. ASSUME NEW c \in Contract, Completed(c)' PROVE Linked(c)'
  <2>1. payment'[c].status = "completed"
    BY <1>5 DEF Completed
  <2>2. \/ Completed(c)
        \/ payment[c].status = "pending" /\ Linked(c)
    <3>1. CASE payment'[c] = payment[c]
      BY <2>1, <3>1 DEF Completed
    <3>2. ASSUME NEW r \in Request,
                 payment'[c] = [status |-> "pending", payer |-> Payer(request[r].booking),
                                payee |-> Payee(request[r].booking), amount |-> Price]
          PROVE  FALSE
      BY <2>1, <3>2
    <3>3. QED
      BY <2>1, <3>1, <3>2
  <2>3. contract[c].status # "none" /\ Linked(c)
    BY <1>3, <2>2 DEF Completed, SagaInv, DealInv
  <2>4. QED
    BY <1>1, <2>3
<1>6. ASSUME NEW r \in Request, request'[r].at = "settle" PROVE Linked(request[r].contract)'
  <2>1. PICK c \in Contract : c = request'[r].contract
    BY <1>6
  <2>2. Linked(c)'
    BY <1>1, <1>6, <2>1
  <2>3. QED
    BY <2>1, <2>2 DEF Linked
<1>7. QED
  BY <1>4, <1>5, <1>6 DEF DealInv

\* A step that settles nothing and touches one deal.
LEMMA OneDealMoves ==
  ASSUME SagaInv, ContractsStay, NEW b \in Booking, UNCHANGED balance,
         \A d \in Booking \ {b} : booking'[d] = booking[d],
         booking'[b].initiator = booking[b].initiator,
         \/ booking'[b].status = booking[b].status
         \/ /\ booking[b].status = "pending"
            /\ booking'[b].status \in {"accepted", "declined", "cancelled"}
         \/ /\ booking[b].status = "accepted"
            /\ booking'[b].status \in {"pending", "cancelled", "completed"}
         \/ PaidDeal(b),
         \A c \in Contract :
           \/ payment'[c] = payment[c]
           \/ /\ contract[c].booking = b
              /\ payment[c].status = "pending" /\ payment'[c].status = "cancelled"
           \/ \E r \in Request :
                /\ request[r].at = "reserve" /\ request[r].contract = c
                /\ request[r].booking = b
                /\ payment'[c].status = "pending",
         \A r \in Request :
           \/ request'[r] = request[r]
           \/ /\ request[r].at \in Opening => request[r].booking = b
              /\ request'[r].at \in Opening =>
                   /\ request'[r].booking = b
                   /\ request[r].at \in Opening \/ booking[b].status = "pending"
  PROVE  [Deal!Next]_Deal!dealVars
<1>1. ASSUME NEW c \in Contract, payment[c].status # "none" \/ payment'[c].status # "none"
      PROVE  contract'[c].booking = contract[c].booking
  <2>1. payment[c].status # "none" => contract[c].status # "none"
    BY DEF SagaInv, PayInv, NoContractNoPayment
  <2>2. \A r \in Request : request[r].at = "reserve" /\ request[r].contract = c
                             => contract[c].status # "none"
    BY DEF SagaInv, LinkInv, BelongsTo, Tied
  <2>3. QED
    BY <1>1, <2>1, <2>2 DEF ContractsStay
<1>2. ASSUME NEW d \in Booking PROVE PaidDeal(d)' <=> PaidDeal(d)
  <2>1. ASSUME NEW c \in Contract PROVE Completed(c)' <=> Completed(c)
    <3>1. \A r \in Request : request[r].at = "reserve" /\ request[r].contract = c
                               => payment[c].status = "none"
      BY DEF SagaInv, PayInv, OpeningOwnsContract, Opening
    <3>2. QED
      BY <3>1 DEF Completed
  <2>2. QED
    BY <1>1, <2>1 DEF PaidDeal, ContractsOf, Completed
<1>3. ASSUME NEW d \in Booking \ {b} PROVE Undecided(d)' <=> Undecided(d)
  <2>1. (\E r \in Request : request'[r].booking = d /\ request'[r].at \in Opening)
        <=> \E r \in Request : request[r].booking = d /\ request[r].at \in Opening
    BY <1>3
  <2>2. \A c \in Contract : contract'[c].booking = d /\ payment'[c].status = "pending"
                             <=> contract[c].booking = d /\ payment[c].status = "pending"
    <3>1. \A c \in Contract, r \in Request :
            request[r].at = "reserve" /\ request[r].contract = c => contract[c].booking = request[r].booking
      BY DEF SagaInv, LinkInv, BelongsTo, Tied
    <3>2. QED
      BY <1>1, <1>3, <3>1
  <2>3. QED
    BY <2>1, <2>2 DEF Undecided, ContractsOf, Opening
<1>4. ASSUME booking[b].status = "cancelled", Undecided(b)' PROVE Undecided(b)
  <2>1. CASE \E r \in Request : request'[r].booking = b /\ request'[r].at \in Opening
    BY <1>4, <2>1 DEF Undecided, Opening
  <2>2. CASE \E c \in Contract : contract'[c].booking = b /\ payment'[c].status = "pending"
    <3>1. PICK c \in Contract : contract'[c].booking = b /\ payment'[c].status = "pending"
      BY <2>2
    <3>2. CASE payment[c].status = "pending"
      BY <1>1, <3>1, <3>2 DEF Undecided, ContractsOf
    <3>3. CASE payment[c].status # "pending"
      BY <3>1, <3>3 DEF Undecided
    <3>4. QED
      BY <3>2, <3>3
  <2>3. QED
    BY <1>4, <2>1, <2>2 DEF Undecided, ContractsOf, Opening
<1>5. \A d \in Booking \ {b} : DealState(d)' = DealState(d)
  BY <1>2, <1>3 DEF DealState, PaidDeal
<1>6. \/ DealState(b)' = DealState(b)
      \/ DealState(b) = "requested" /\ DealState(b)' \in {"agreed", "refused", "withdrawn"}
      \/ DealState(b) = "agreed" /\ DealState(b)' \in {"requested", "withdrawn"}
  <2>1. CASE PaidDeal(b)
    BY <1>2, <2>1, DealStates, NextDealStates
  <2>2. CASE ~ PaidDeal(b)
    <3>1. ~ PaidDeal(b)' /\ booking[b].status \in BookingStatus \cup {"none"}
      BY <1>2, <2>2 DEF SagaInv, TypeInv, TypeOK, BookingDocument
    <3>2. QED
      BY <1>4, <2>2, <3>1, DealStates, NextDealStates DEF BookingStatus
  <2>3. QED
    BY <2>1, <2>2
<1>7. QED
  BY <1>5, <1>6, DealMoves

\* A step that touches no deal.
LEMMA DealsRest ==
  ASSUME SagaInv, ContractsStay, UNCHANGED <<booking, payment, balance>>,
         \A r \in Request :
           \/ request'[r] = request[r]
           \/ request[r].at \notin Opening /\ request'[r].at \notin Opening
  PROVE  [Deal!Next]_Deal!dealVars
<1>1. \A c \in Contract : payment[c].status # "none" => contract'[c].booking = contract[c].booking
  BY DEF SagaInv, PayInv, NoContractNoPayment, ContractsStay
<1>2. \A d \in Booking : PaidDeal(d)' <=> PaidDeal(d)
  BY <1>1 DEF PaidDeal, ContractsOf, Completed
<1>3. ASSUME NEW d \in Booking PROVE Undecided(d)' <=> Undecided(d)
  <2>1. (\E r \in Request : request'[r].booking = d /\ request'[r].at \in Opening)
        <=> \E r \in Request : request[r].booking = d /\ request[r].at \in Opening
    OBVIOUS
  <2>2. QED
    BY <1>1, <2>1 DEF Undecided, ContractsOf, Opening
<1>4. \A d \in Booking : DealState(d)' = DealState(d)
  BY <1>2, <1>3 DEF DealState, PaidDeal
<1>5. QED
  BY <1>4 DEF Deal!dealVars

\* The ledger moves points as the abstract specification does.
LEMMA GiveIsMoved ==
  ASSUME NEW u \in User, NEW v \in User, u # v, NEW n \in Int, balance \in [User -> Int]
  PROVE  Moved(balance, u, v, n) = [balance EXCEPT ![u] = @ - n, ![v] = @ + n]
<1> DEFINE given == [balance EXCEPT ![u] = @ - n, ![v] = @ + n]
<1>1. /\ given = [w \in User |-> given[w]]
      /\ given[u] = balance[u] - n /\ given[v] = balance[v] + n
      /\ \A w \in User \ {u, v} : given[w] = balance[w]
  OBVIOUS
<1>2. \A w \in User : balance[w] \in Int
  OBVIOUS
<1> HIDE DEF given
<1>3. \A w \in User : Moved(balance, u, v, n)[w] = given[w]
  BY <1>1, <1>2 DEF Moved
<1>4. Moved(balance, u, v, n) = [w \in User |-> Moved(balance, u, v, n)[w]]
  BY DEF Moved
<1>5. QED
  BY <1>1, <1>3, <1>4 DEF given

\* A handler about to settle has the contract its booking is linked to.
LEMMA SettlersStay ==
  ASSUME SagaInv, NEW r \in Request, request[r].at = "settle"
  PROVE  /\ request[r].contract \in Contract
         /\ contract[request[r].contract].status # "none"
         /\ Linked(request[r].contract)
BY ConcludingExists DEF SagaInv, DealInv, Concluding

\* A step that changes no deal, booking or payment.
LEMMA DealRestStep ==
  ASSUME SagaInv, ContractsStay, UNCHANGED <<booking, payment, balance>>,
         \A r \in Request :
           \/ request'[r] = request[r]
           \/ /\ request[r].at \notin Opening /\ request'[r].at \notin Opening
              /\ request'[r].at = "settle" =>
                   /\ request'[r].contract \in Contract
                   /\ contract[request'[r].contract].status # "none"
                   /\ Linked(request'[r].contract)
  PROVE  DealInv' /\ [Deal!Next]_Deal!dealVars
<1>1. [Deal!Next]_Deal!dealVars
  BY DealsRest
<1>2. \A r \in Request : request'[r].at = "settle" =>
        /\ request'[r].contract \in Contract
        /\ contract[request'[r].contract].status # "none"
        /\ Linked(request'[r].contract)
  BY SettlersStay
<1>3. \A b \in Booking :
        /\ booking[b].contract # NoContract =>
             booking[b].status \in {"accepted", "cancelled", "completed"}
        /\ booking[b].status = "none" => booking[b].initiator = NoUser
  BY DEF SagaInv, DealInv
<1>4. DealInv'
  BY <1>2, <1>3, DealInvKept
<1>5. QED
  BY <1>1, <1>4

\* A step that changes the status of a booking, and perhaps what a handler does.
LEMMA DealStatusStep ==
  ASSUME SagaInv, UNCHANGED <<contract, payment, balance>>,
         NEW b \in Booking, NEW status \in BookingStatus,
         booking' = [booking EXCEPT ![b].status = status],
         \/ /\ booking[b].status = "pending"
            /\ status \in {"accepted", "declined", "cancelled"}
         \/ /\ booking[b].status = "accepted"
            /\ status \in {"cancelled", "completed"}
         \/ /\ booking[b].status = "accepted" /\ status = "pending"
            /\ booking[b].contract = NoContract
         \/ /\ booking[b].status = "cancelled" /\ status = "completed" /\ PaidDeal(b),
         \A r \in Request :
           \/ request'[r] = request[r]
           \/ /\ request'[r].at # "settle" /\ request[r].at \notin Opening
              /\ request'[r].at \in Opening =>
                   request'[r].booking = b /\ booking[b].status = "pending"
  PROVE  DealInv' /\ [Deal!Next]_Deal!dealVars
<1>1. /\ booking'[b].status = status
      /\ booking'[b].initiator = booking[b].initiator
      /\ booking'[b].contract = booking[b].contract
      /\ \A d \in Booking \ {b} : booking'[d] = booking[d]
  BY DEF SagaInv, TypeInv, TypeOK, BookingDocument
<1>2. ContractsStay
  BY DEF ContractsStay
<1>3. \A r \in Request : request'[r].at = "settle" =>
        /\ request'[r].contract \in Contract
        /\ contract[request'[r].contract].status # "none"
        /\ Linked(request'[r].contract)
  BY SettlersStay
<1>4. \A d \in Booking :
        /\ booking[d].initiator # NoUser => booking'[d].initiator = booking[d].initiator
        /\ booking[d].contract # NoContract => booking'[d].contract = booking[d].contract
        /\ booking'[d].contract # NoContract =>
             booking'[d].status \in {"accepted", "cancelled", "completed"}
        /\ booking'[d].status = "none" => booking'[d].initiator = NoUser
  BY <1>1 DEF SagaInv, DealInv, BookingStatus
<1>5. DealInv'
  BY <1>2, <1>3, <1>4, DealInvKept
<1>6. \/ booking'[b].status = booking[b].status
      \/ /\ booking[b].status = "pending"
         /\ booking'[b].status \in {"accepted", "declined", "cancelled"}
      \/ /\ booking[b].status = "accepted"
         /\ booking'[b].status \in {"pending", "cancelled", "completed"}
      \/ PaidDeal(b)
  BY <1>1 DEF BookingStatus
<1>7. [Deal!Next]_Deal!dealVars
  BY <1>1, <1>2, <1>6, OneDealMoves
<1>8. QED
  BY <1>5, <1>7

LEMMA DealUserStep ==
  ASSUME SagaInv, ~ SignBeforeLink, UserStep
  PROVE  DealInv' /\ [Deal!Next]_Deal!dealVars
<1> USE SagaAssumption
<1>t. /\ request \in [Request -> Handler] /\ booking \in [Booking -> BookingDocument]
      /\ TypeInv /\ PayInv
  BY DEF SagaInv, TypeInv, TypeOK
<1>1. ContractsStay
  BY <1>t, LinkUserStep
<1>2. ASSUME NEW r \in Request, NEW u \in User, RequestBooking(r, u)
      PROVE  DealInv' /\ [Deal!Next]_Deal!dealVars
  <2>1. /\ \A s \in Request \ {r} : request'[s] = request[s]
        /\ request[r].at = "idle" /\ request'[r].at = "createBooking"
    BY <1>2, <1>t DEF RequestBooking, Start, At, InFlight
  <2>2. QED
    BY <1>1, <1>2, <2>1, DealRestStep DEF RequestBooking, dataVars, Opening
<1>3. ASSUME NEW r \in Request, NEW b \in Booking, NEW c \in Contract, Accept(r, b, c)
      PROVE  DealInv' /\ [Deal!Next]_Deal!dealVars
  <2>1. /\ \A s \in Request \ {r} : request'[s] = request[s]
        /\ request[r].at = "idle" /\ request'[r].at = "resolveNames" /\ request'[r].booking = b
    BY <1>3, <1>t DEF Accept, Start, At, InFlight
  <2>2. QED
    BY <1>3, <2>1, DealStatusStep DEF Accept, ledgerVars, Opening, BookingStatus
<1>4. ASSUME NEW b \in Booking, Decline(b)
      PROVE  DealInv' /\ [Deal!Next]_Deal!dealVars
  BY <1>4, DealStatusStep DEF Decline, ledgerVars, BookingStatus
<1>5. ASSUME NEW r \in Request, NEW b \in Booking, NEW u \in User, Cancel(r, b, u)
      PROVE  DealInv' /\ [Deal!Next]_Deal!dealVars
  <2>1. \A s \in Request :
          \/ request'[s] = request[s]
          \/ request[s].at = "idle" /\ request'[s].at = "voidPayment"
    BY <1>5, <1>t DEF Cancel, Start, At, InFlight
  <2>2. booking[b].status \in {"pending", "accepted"}
    BY <1>5 DEF Cancel, Cancellable
  <2>3. QED
    BY <1>5, <2>1, <2>2, DealStatusStep DEF Cancel, ledgerVars, Opening, BookingStatus
<1>6. ASSUME NEW r \in Request, NEW c \in Contract, NEW u \in User, Sign(r, c, u)
      PROVE  DealInv' /\ [Deal!Next]_Deal!dealVars
  <2>1. /\ \A s \in Request \ {r} : request'[s] = request[s]
        /\ \/ request'[r] = request[r]
           \/ /\ request[r].at = "idle" /\ request'[r].contract = c
              /\ \/ request'[r].at = "flip"
                 \/ request'[r].at = "settle" /\ contract[c].booking # NoBooking
    BY <1>6, <1>t DEF Sign, Start, At, InFlight
  <2>2. contract[c].status # "none" /\ (contract[c].booking # NoBooking => Linked(c))
    BY <1>6 DEF Sign, Published, Linked, MaySign, InProgress
  <2>3. QED
    BY <1>1, <1>6, <2>1, <2>2, DealRestStep DEF Sign, ledgerVars, Opening
<1>7. ASSUME NEW c \in Contract, Heal(c)
      PROVE  DealInv' /\ [Deal!Next]_Deal!dealVars
  BY <1>1, <1>7, DealRestStep DEF Heal, ledgerVars
<1>8. ASSUME NEW c \in Contract, NEW s \in DirectSignatories, CreateDirect(c, s)
      PROVE  DealInv' /\ [Deal!Next]_Deal!dealVars
  BY <1>1, <1>8, DealRestStep DEF CreateDirect, ledgerVars
<1>9. ASSUME NEW u \in User, NEW v \in User, NEW n \in Gift, GiveUser(u, v, n)
      PROVE  DealInv' /\ [Deal!Next]_Deal!dealVars
  <2>1. UNCHANGED <<booking, contract, payment, request>>
    BY <1>9 DEF GiveUser, Transfer
  <2>2. DealInv'
    BY <2>1 DEF SagaInv, DealInv, Linked, Owed, Payer, Payee, Completed
  <2>3. \A d \in Booking : DealState(d)' = DealState(d)
    BY <2>1 DEF DealState, Undecided, ContractsOf, Completed
  <2>4. Deal!Give(u, v, n)
    <3>1. balance' = [balance EXCEPT ![u] = @ - n, ![v] = @ + n]
      BY <1>9, GiveIsMoved DEF GiveUser, Transfer, SagaInv, TypeInv, TypeOK, LedgerTypeOK
    <3>2. QED
      BY <1>9, <3>1 DEF GiveUser, Transfer, CanPay, Deal!Give
  <2>5. Deal!Next
    BY <2>1, <2>3, <2>4 DEF Deal!Next
  <2>6. QED
    BY <2>2, <2>5
<1>10. QED
  BY <1>2, <1>3, <1>4, <1>5, <1>6, <1>7, <1>8, <1>9 DEF UserStep

\* A payment is voided, if it is still pending.
LEMMA DealVoidStep ==
  ASSUME SagaInv, NEW c \in Contract, Void(c), UNCHANGED <<booking, contract>>,
         \A r \in Request :
           \/ request'[r] = request[r]
           \/ request[r].at \notin Opening /\ request'[r].at \notin Opening \cup {"settle"}
  PROVE  DealInv' /\ [Deal!Next]_Deal!dealVars
<1>1. ContractsStay /\ UNCHANGED balance
  BY DEF ContractsStay, Void
<1>2. CASE payment[c].status # "pending"
  BY <1>1, <1>2, DealRestStep DEF Void
<1>3. CASE payment[c].status = "pending"
  <2>1. /\ payment'[c] = [payment[c] EXCEPT !.status = "cancelled"]
        /\ payment'[c].status = "cancelled"
        /\ \A d \in Contract \ {c} : payment'[d] = payment[d]
    BY <1>3 DEF Void, SagaInv, TypeInv, TypeOK, LedgerTypeOK, PaymentRow, NoRow
  <2>2. contract[c].booking \in Booking
    BY <1>3 DEF SagaInv, DealInv, Owed
  <2>3. [Deal!Next]_Deal!dealVars
    <3>1. PICK b \in Booking : b = contract[c].booking
      BY <2>2
    <3>2. /\ booking'[b].initiator = booking[b].initiator
          /\ booking'[b].status = booking[b].status
          /\ \A d \in Booking \ {b} : booking'[d] = booking[d]
      OBVIOUS
    <3>3. \A d \in Contract :
            \/ payment'[d] = payment[d]
            \/ /\ contract[d].booking = b
               /\ payment[d].status = "pending" /\ payment'[d].status = "cancelled"
      BY <1>3, <2>1, <3>1
    <3>4. QED
      BY <1>1, <3>2, <3>3, OneDealMoves
  <2>4. DealInv'
    <3>1. \A d \in Contract :
            \/ payment'[d] = payment[d]
            \/ /\ payment[d].status = "pending"
               /\ \E status \in PaymentStatus :
                    payment'[d] = [payment[d] EXCEPT !.status = status]
               /\ payment'[d].status = "completed" => Linked(d)
      BY <1>3, <2>1 DEF PaymentStatus
    <3>2. \A r \in Request : request'[r].at = "settle" =>
            /\ request'[r].contract \in Contract
            /\ contract[request'[r].contract].status # "none"
            /\ Linked(request'[r].contract)
      BY SettlersStay
    <3>3. \A b \in Booking :
            /\ booking[b].contract # NoContract =>
                 booking[b].status \in {"accepted", "cancelled", "completed"}
            /\ booking[b].status = "none" => booking[b].initiator = NoUser
      BY DEF SagaInv, DealInv
    <3>4. QED
      BY <1>1, <3>1, <3>2, <3>3, DealInvKept
  <2>5. QED
    BY <2>3, <2>4
<1>4. QED
  BY <1>2, <1>3

\* A settlement pays the deal, which is agreed and was never paid.
LEMMA DealPaidStep ==
  ASSUME SagaInv, NEW r \in Request, request[r].at = "settle",
         Settle(request[r].contract), UNCHANGED <<booking, contract>>,
         OthersWait(r), request'[r].at \notin Opening \cup {"settle"}
  PROVE  DealInv' /\ [Deal!Next]_Deal!dealVars
<1> USE SagaAssumption, ContractAssumption
<1>1. PICK c \in Contract : c = request[r].contract
  BY SettlersStay
<1>2. Linked(c) /\ Settle(c) /\ payment[c].status = "pending" /\ Owed(c)
  BY <1>1, SettlersStay DEF Settle, Settleable, SagaInv, DealInv
<1>3. /\ payment'[c] = [payment[c] EXCEPT !.status = "completed"]
      /\ payment'[c].status = "completed"
      /\ \A d \in Contract \ {c} : payment'[d] = payment[d]
  BY <1>2 DEF Settle, SagaInv, TypeInv, TypeOK, LedgerTypeOK, PaymentRow, NoRow
<1>4. DealInv'
  <2>1. \A d \in Contract :
          \/ payment'[d] = payment[d]
          \/ /\ payment[d].status = "pending"
             /\ \E status \in PaymentStatus :
                  payment'[d] = [payment[d] EXCEPT !.status = status]
             /\ payment'[d].status = "completed" => Linked(d)
    BY <1>2, <1>3 DEF PaymentStatus
  <2>2. \A s \in Request : request'[s].at = "settle" =>
          /\ request'[s].contract \in Contract
          /\ contract[request'[s].contract].status # "none"
          /\ Linked(request'[s].contract)
    BY SettlersStay DEF OthersWait
  <2>3. \A b \in Booking :
          /\ booking[b].contract # NoContract =>
               booking[b].status \in {"accepted", "cancelled", "completed"}
          /\ booking[b].status = "none" => booking[b].initiator = NoUser
    BY DEF SagaInv, DealInv
  <2>4. ContractsStay
    BY DEF ContractsStay
  <2>5. QED
    BY <2>1, <2>2, <2>3, <2>4, DealInvKept
<1>5. PICK b \in Booking : b = contract[c].booking
  BY <1>2 DEF Owed
<1>6. /\ booking[b].contract = c
      /\ booking[b].status \in {"accepted", "cancelled", "completed"}
      /\ booking[b].initiator \in User /\ booking[b].initiator # Owner
  BY <1>2, <1>5 DEF Linked, Owed, SagaInv, DealInv, ConcludeInv, PartiesInv
<1>7. DealState(b) = "agreed"
  <2>1. ~ PaidDeal(b)
    <3>1. \A d \in ContractsOf(b) : Completed(d) => d = c
      BY <1>5, <1>6 DEF ContractsOf, SagaInv, DealInv, Linked
    <3>2. QED
      BY <1>2, <3>1 DEF PaidDeal, Completed
  <2>2. Undecided(b)
    BY <1>2, <1>5 DEF Undecided, ContractsOf
  <2>3. QED
    BY <1>6, <2>1, <2>2, DealStates
<1>8. DealState(b)' = "paid"
  BY <1>3, <1>5, NextDealStates DEF PaidDeal, ContractsOf, Completed
<1>9. ASSUME NEW d \in Booking \ {b} PROVE DealState(d)' = DealState(d)
  <2>1. \A e \in Contract : e \in ContractsOf(d) => payment'[e] = payment[e]
    BY <1>3, <1>5 DEF ContractsOf
  <2>2. ContractsOf(d)' = ContractsOf(d) /\ ContractsOf(d) \subseteq Contract
    BY DEF ContractsOf
  <2>3. Undecided(d)' <=> Undecided(d)
    <3>1. (\E s \in Request : request'[s].booking = d /\ request'[s].at \in Opening)
          <=> \E s \in Request : request[s].booking = d /\ request[s].at \in Opening
      BY DEF OthersWait, Opening
    <3>2. QED
      BY <2>1, <2>2, <3>1 DEF Undecided, Opening
  <2>4. PaidDeal(d)' <=> PaidDeal(d)
    BY <2>1, <2>2 DEF PaidDeal, Completed
  <2>5. QED
    BY <2>3, <2>4 DEF DealState, PaidDeal
<1>10. Deal!Pay(b)
  <2>1. /\ Payer(b) \in User /\ Payee(b) \in User /\ Payer(b) # Payee(b)
        /\ payment[c].payer = Payer(b) /\ payment[c].payee = Payee(b)
        /\ payment[c].amount = Price
    BY <1>2, <1>5, <1>6 DEF Owed, Payer, Payee
  <2>2. /\ balance[Payer(b)] - Price >= MinBalance
        /\ balance' = Moved(balance, Payer(b), Payee(b), Price)
    BY <1>2, <2>1 DEF Settle, Settleable, CanPay
  <2>3. balance' = [balance EXCEPT ![Payer(b)] = @ - Price, ![Payee(b)] = @ + Price]
    BY <2>1, <2>2, GiveIsMoved DEF SagaInv, TypeInv, TypeOK, LedgerTypeOK
  <2>4. Deal!Give(Payer(b), Payee(b), Price)
    BY <2>1, <2>2, <2>3 DEF Deal!Give
  <2>5. IF OwnerPays THEN Deal!Give(Owner, booking[b].initiator, Price)
                     ELSE Deal!Give(booking[b].initiator, Owner, Price)
    BY <2>4 DEF Payer, Payee
  <2>6. Deal!Change(b, {"agreed"}, "paid")
    BY <1>7, <1>8, <1>9 DEF Deal!Change
  <2>7. QED
    BY <2>5, <2>6 DEF Deal!Pay
<1>11. QED
  BY <1>4, <1>10 DEF Deal!Next

\* A booking is created: its deal is asked for.
LEMMA DealAskStep ==
  ASSUME SagaInv, NEW r \in Request, request[r].at = "createBooking",
         NEW b \in Booking, booking[b].status = "none",
         booking' = [booking EXCEPT ![b] = [status |-> "pending", contract |-> NoContract,
                                            initiator |-> request[r].user]],
         UNCHANGED <<contract, payment, balance>>,
         OthersWait(r), request'[r].at \notin Opening \cup {"settle"}
  PROVE  DealInv' /\ [Deal!Next]_Deal!dealVars
<1> USE SagaAssumption
<1>1. /\ booking'[b] = [status |-> "pending", contract |-> NoContract,
                        initiator |-> request[r].user]
      /\ \A d \in Booking \ {b} : booking'[d] = booking[d]
      /\ request[r].user \in User /\ request[r].user # Owner
  BY DEF SagaInv, TypeInv, TypeOK, HandlerShape, ConcludeInv, PartiesInv
<1>2. booking[b].initiator = NoUser /\ booking[b].contract = NoContract
  BY DEF SagaInv, DealInv
<1>3. DealInv'
  <2>1. \A s \in Request : request'[s].at = "settle" =>
          /\ request'[s].contract \in Contract
          /\ contract[request'[s].contract].status # "none"
          /\ Linked(request'[s].contract)
    BY SettlersStay DEF OthersWait
  <2>2. \A d \in Booking :
          /\ booking[d].initiator # NoUser => booking'[d].initiator = booking[d].initiator
          /\ booking[d].contract # NoContract => booking'[d].contract = booking[d].contract
          /\ booking'[d].contract # NoContract =>
               booking'[d].status \in {"accepted", "cancelled", "completed"}
          /\ booking'[d].status = "none" => booking'[d].initiator = NoUser
    BY <1>1, <1>2 DEF SagaInv, DealInv
  <2>3. ContractsStay
    BY DEF ContractsStay
  <2>4. QED
    BY <2>1, <2>2, <2>3, DealInvKept
<1>4. ~ PaidDeal(b) /\ ~ PaidDeal(b)'
  <2>1. \A c \in ContractsOf(b) : ~ Completed(c)
    BY <1>2 DEF ContractsOf, SagaInv, DealInv, Linked
  <2>2. QED
    BY <2>1 DEF PaidDeal, ContractsOf, Completed
<1>5. DealState(b) = "absent" /\ DealState(b)' = "requested"
  BY <1>1, <1>4, DealStates, NextDealStates
<1>6. ASSUME NEW d \in Booking \ {b} PROVE DealState(d)' = DealState(d)
  <2>1. (\E s \in Request : request'[s].booking = d /\ request'[s].at \in Opening)
        <=> \E s \in Request : request[s].booking = d /\ request[s].at \in Opening
    BY DEF OthersWait, Opening
  <2>2. Undecided(d)' <=> Undecided(d)
    BY <2>1 DEF Undecided, ContractsOf, Opening
  <2>3. QED
    BY <1>1, <2>2 DEF DealState, ContractsOf, Completed
<1>7. PICK u \in User : u = request[r].user /\ u # Owner
  BY <1>1
<1>8. Deal!Ask(b, u)
  <2> DEFINE deal == [d \in Booking |-> [state |-> DealState(d),
                                         initiator |-> booking[d].initiator]]
  <2>1. deal' = [deal EXCEPT ![b] = [state |-> "requested", initiator |-> u]]
    <3>1. booking'[b].initiator = u
      BY <1>1, <1>7
    <3>2. \A d \in Booking \ {b} : booking'[d].initiator = booking[d].initiator
      BY <1>1
    <3>3. QED
      BY <1>5, <1>6, <3>1, <3>2
  <2>2. deal[b].state = "absent"
    BY <1>5
  <2>3. QED
    BY <1>7, <2>1, <2>2 DEF Deal!Ask
<1>9. Deal!Next
  BY <1>8 DEF Deal!Next
<1>10. QED
  BY <1>3, <1>9

\* The calls of accept: a handler that has not reserved yet leaves the deal
\* undecided, the link is the first of its booking, and a booking that is
\* released has none.
LEMMA DealAcceptStep ==
  ASSUME SagaInv, NEW r \in Request, AcceptStep(r), ContractsStay
  PROVE  DealInv' /\ [Deal!Next]_Deal!dealVars
<1> USE SagaAssumption, ContractAssumption
<1> DEFINE b == request[r].booking
           c == request[r].contract
<1>1. /\ request \in [Request -> Handler] /\ booking \in [Booking -> BookingDocument]
      /\ payment \in [Contract -> PaymentRow \cup {NoRow}]
  BY DEF SagaInv, TypeInv, TypeOK, LedgerTypeOK
<1>2. /\ request[r].at \in AcceptCall
      /\ b \in Booking /\ c \in Contract
  BY DEF AcceptStep, ResolveNames, CreateContract, ReservePayment, Link, UnwindContract,
     UnwindPayment, ReleaseClaim, Await, At, AcceptCall, SagaInv, TypeInv, HandlerShape
<1>3. ASSUME NEW call \in AcceptCall \cup {"idle"}, Proceed(r, call)
      PROVE  /\ \A s \in Request \ {r} : request'[s] = request[s]
             /\ request'[r].at = call
             /\ call # "idle" => request'[r].booking = b
  BY <1>1, <1>3, ProceedLemma DEF Call, AcceptCall, Idle, InFlight
\* Every call but the void of the payment.
<1>4. ASSUME NEW call \in AcceptCall \cup {"idle"}, Proceed(r, call),
             call \in Opening => request[r].at \in Opening,
             UNCHANGED balance,
             \/ UNCHANGED booking
             \/ Linkable(b) /\ booking' = [booking EXCEPT ![b].contract = c]
             \/ Linkable(b) /\ booking' = [booking EXCEPT ![b].status = "pending"],
             \/ UNCHANGED payment
             \/ request[r].at = "reserve" /\ Reserve(c, Payer(b), Payee(b), Price)
      PROVE  DealInv' /\ [Deal!Next]_Deal!dealVars
  <2>1. \A s \in Request :
          \/ request'[s] = request[s]
          \/ /\ request[s].at \in Opening => request[s].booking = b
             /\ request'[s].at # "settle"
             /\ request'[s].at \in Opening =>
                  request'[s].booking = b /\ request[s].at \in Opening
    BY <1>3, <1>4 DEF Opening, AcceptCall
  <2>2. /\ \A d \in Booking \ {b} : booking'[d] = booking[d]
        /\ booking'[b].initiator = booking[b].initiator
        /\ \/ booking'[b].status = booking[b].status
           \/ booking[b].status = "accepted" /\ booking'[b].status = "pending"
        /\ booking[b].contract # NoContract => booking'[b] = booking[b]
        /\ booking'[b].contract # NoContract =>
             booking'[b] = booking[b] \/ booking'[b].status = "accepted"
        /\ booking'[b].status = "none" => booking'[b] = booking[b]
    BY <1>1, <1>2, <1>4 DEF Linkable, BookingDocument
  <2>3. \A d \in Contract :
          \/ payment'[d] = payment[d]
          \/ /\ request[r].at = "reserve" /\ request[r].contract = d
             /\ payment'[d] = [status |-> "pending", payer |-> Payer(request[r].booking),
                               payee |-> Payee(request[r].booking), amount |-> Price]
    BY <1>1, <1>2, <1>4 DEF Reserve
  <2>4. [Deal!Next]_Deal!dealVars
    <3>1. PICK a \in Booking : a = b
      BY <1>2
    <3>2. \A d \in Contract :
            \/ payment'[d] = payment[d]
            \/ \E s \in Request :
                 /\ request[s].at = "reserve" /\ request[s].contract = d
                 /\ request[s].booking = a
                 /\ payment'[d].status = "pending"
      BY <2>3, <3>1
    <3>3. /\ \A d \in Booking \ {a} : booking'[d] = booking[d]
          /\ booking'[a].initiator = booking[a].initiator
          /\ \/ booking'[a].status = booking[a].status
             \/ booking[a].status = "accepted" /\ booking'[a].status = "pending"
      BY <2>2, <3>1
    <3>4. \A s \in Request :
            \/ request'[s] = request[s]
            \/ /\ request[s].at \in Opening => request[s].booking = a
               /\ request'[s].at \in Opening =>
                    request'[s].booking = a /\ request[s].at \in Opening
      BY <2>1, <3>1
    <3>5. QED
      BY <1>4, <3>2, <3>3, <3>4, OneDealMoves
  <2>5. DealInv'
    <3>1. \A s \in Request : request'[s].at = "settle" =>
            /\ request'[s].contract \in Contract
            /\ contract[request'[s].contract].status # "none"
            /\ Linked(request'[s].contract)
      BY <2>1, SettlersStay
    <3>2. \A d \in Booking :
            /\ booking[d].initiator # NoUser => booking'[d].initiator = booking[d].initiator
            /\ booking[d].contract # NoContract => booking'[d].contract = booking[d].contract
            /\ booking'[d].contract # NoContract =>
                 booking'[d].status \in {"accepted", "cancelled", "completed"}
            /\ booking'[d].status = "none" => booking'[d].initiator = NoUser
      <4>1. \A d \in Booking :
              /\ booking[d].contract # NoContract =>
                   booking[d].status \in {"accepted", "cancelled", "completed"}
              /\ booking[d].status = "none" => booking[d].initiator = NoUser
        BY DEF SagaInv, DealInv
      <4>2. QED
        BY <1>2, <2>2, <4>1
    <3>3. QED
      BY <2>3, <3>1, <3>2, DealInvKept
  <2>6. QED
    BY <2>4, <2>5
<1>5. CASE ~ UnwindPayment(r)
  <2>1. \E call \in AcceptCall \cup {"idle"} :
          /\ Proceed(r, call) /\ (call \in Opening => request[r].at \in Opening)
          /\ UNCHANGED balance
          /\ \/ UNCHANGED booking
             \/ Linkable(b) /\ booking' = [booking EXCEPT ![b].contract = c]
             \/ Linkable(b) /\ booking' = [booking EXCEPT ![b].status = "pending"]
          /\ \/ UNCHANGED payment
             \/ request[r].at = "reserve" /\ Reserve(c, Payer(b), Payee(b), Price)
    BY <1>5 DEF AcceptStep, ResolveNames, CreateContract, ReservePayment, Link,
       UnwindContract, ReleaseClaim, Await, At, dataVars, ledgerVars, Reserve, AcceptCall,
       Opening
  <2>2. QED
    BY <1>4, <2>1
<1>6. CASE UnwindPayment(r)
  <2>1. /\ request[r].at = "unwindPayment" /\ UNCHANGED <<booking, contract>>
        /\ Proceed(r, "releaseClaim")
        /\ Void(c) \/ UNCHANGED ledgerVars
    BY <1>6 DEF UnwindPayment, Await, At, dataVars, ledgerVars
  <2>2. \A s \in Request :
          \/ request'[s] = request[s]
          \/ request[s].at \notin Opening /\ request'[s].at \notin Opening \cup {"settle"}
    BY <1>3, <2>1 DEF AcceptCall, Opening
  <2>3. CASE Void(c)
    BY <1>2, <2>1, <2>2, <2>3, DealVoidStep
  <2>4. CASE UNCHANGED ledgerVars
    BY <2>1, <2>2, <2>4, DealRestStep DEF ledgerVars
  <2>5. QED
    BY <2>1, <2>3, <2>4
<1>7. QED
  BY <1>5, <1>6

\* The calls of cancel and of sign.
LEMMA DealCancelStep ==
  ASSUME SagaInv, NEW r \in Request, CancelStep(r), ContractsStay
  PROVE  DealInv' /\ [Deal!Next]_Deal!dealVars
<1> DEFINE b == request[r].booking
           c == request[r].contract
<1>1. /\ request[r].at \in CancelCall
      /\ b \in Booking /\ c \in Contract
      /\ \E call \in CancelCall \cup {"idle"} : Proceed(r, call)
  BY DEF CancelStep, VoidPayment, CheckPaid, MarkCompleted, CancelLinkedContract, Await, At,
     CancelCall, SagaInv, TypeInv, HandlerShape
<1>2. \A s \in Request :
        \/ request'[s] = request[s]
        \/ request[s].at \notin Opening /\ request'[s].at \notin Opening \cup {"settle"}
  BY <1>1, ProceedLemma DEF SagaInv, TypeInv, TypeOK, Call, CancelCall, Opening, Idle, InFlight
<1>3. CASE VoidPayment(r)
  <2>1. Void(c) \/ UNCHANGED ledgerVars
    BY <1>3 DEF VoidPayment, Await, dataVars, ledgerVars
  <2>2. UNCHANGED <<booking, contract>>
    BY <1>3 DEF VoidPayment, Await, dataVars
  <2>3. QED
    BY <1>1, <1>2, <2>1, <2>2, DealVoidStep, DealRestStep DEF ledgerVars
<1>4. CASE CheckPaid(r) \/ CancelLinkedContract(r)
  <2>1. UNCHANGED <<booking, payment, balance>>
    BY <1>4 DEF CheckPaid, CancelLinkedContract, Await, dataVars, ledgerVars
  <2>2. QED
    BY <1>2, <2>1, DealRestStep
<1>5. CASE MarkCompleted(r)
  <2>1. /\ UNCHANGED <<contract, payment, balance>>
        /\ \/ UNCHANGED booking
           \/ /\ booking[b].status = "cancelled"
              /\ booking' = [booking EXCEPT ![b].status = "completed"]
    BY <1>5 DEF MarkCompleted, SetStatus, Await, dataVars, ledgerVars
  <2>2. PaidDeal(b)
    BY <1>1, <1>5 DEF MarkCompleted, Await, At, SagaInv, LinkInv, BelongsTo, Tied, PaidDeal,
       ContractsOf
  <2>3. PICK a \in Booking : a = b
    BY <1>1
  <2>4. CASE UNCHANGED booking
    BY <1>2, <2>1, <2>4, DealRestStep
  <2>5. CASE /\ booking[a].status = "cancelled" /\ PaidDeal(a)
             /\ booking' = [booking EXCEPT ![a].status = "completed"]
    BY <1>2, <2>1, <2>5, DealStatusStep DEF BookingStatus
  <2>6. QED
    BY <2>1, <2>2, <2>3, <2>4, <2>5
<1>6. QED
  BY <1>3, <1>4, <1>5 DEF CancelStep

LEMMA DealSignStep ==
  ASSUME SagaInv, NEW r \in Request, SignStep(r), ContractsStay
  PROVE  DealInv' /\ [Deal!Next]_Deal!dealVars
<1> USE ContractAssumption
<1> DEFINE b == request[r].booking
           c == request[r].contract
<1>1. /\ request[r].at \in SignCall
      /\ \E call \in {"flip", "reread", "announce", "pullSignature", "idle"} : Proceed(r, call)
  BY DEF SignStep, SettlePayment, FlipContract, Reread, Announce, AfterFlip,
     WithdrawSignature, Await, At, SignCall
<1>2. /\ OthersWait(r)
      /\ request[r].at \notin Opening /\ request'[r].at \notin Opening \cup {"settle"}
  BY <1>1, ProceedLemma DEF SagaInv, TypeInv, TypeOK, Call, SignCall, Opening, Idle, InFlight,
     OthersWait
<1>3. ASSUME UNCHANGED <<booking, payment, balance>>
      PROVE  DealInv' /\ [Deal!Next]_Deal!dealVars
  BY <1>2, <1>3, DealRestStep DEF OthersWait
<1>4. CASE SettlePayment(r)
  <2>1. /\ request[r].at = "settle" /\ UNCHANGED <<booking, contract>>
        /\ Settle(c) \/ UNCHANGED ledgerVars
    BY <1>4 DEF SettlePayment, Await, At, dataVars, ledgerVars
  <2>2. QED
    BY <1>2, <1>3, <2>1, DealPaidStep DEF ledgerVars
<1>5. CASE FlipContract(r) \/ Reread(r) \/ WithdrawSignature(r)
  BY <1>3, <1>5 DEF FlipContract, Reread, WithdrawSignature, Await, dataVars, ledgerVars
<1>6. CASE Announce(r)
  <2>1. /\ UNCHANGED <<contract, payment, balance>>
        /\ \/ UNCHANGED booking
           \/ /\ booking[b].status = "accepted"
              /\ booking' = [booking EXCEPT ![b].status = "completed"]
    BY <1>6 DEF Announce, SetStatus, Await, dataVars, ledgerVars
  <2>2. CASE UNCHANGED booking
    BY <1>3, <2>1, <2>2
  <2>3. CASE b \notin Booking
    <3>1. UNCHANGED booking
      BY <2>1, <2>3 DEF SagaInv, TypeInv, TypeOK
    <3>2. QED
      BY <2>2, <3>1
  <2>4. ASSUME NEW a \in Booking, booking[a].status = "accepted",
               booking' = [booking EXCEPT ![a].status = "completed"]
        PROVE  DealInv' /\ [Deal!Next]_Deal!dealVars
    BY <1>2, <2>1, <2>4, DealStatusStep DEF BookingStatus, OthersWait
  <2>5. QED
    BY <2>1, <2>2, <2>3, <2>4
<1>7. QED
  BY <1>4, <1>5, <1>6 DEF SignStep

LEMMA DealStep ==
  ASSUME SagaInv, ~ SignBeforeLink, [Next]_sagaVars
  PROVE  DealInv' /\ [Deal!Next]_Deal!dealVars
<1> USE ContractAssumption
<1>1. CASE UserStep
  BY <1>1, DealUserStep
<1>2. ASSUME NEW r \in Request, HandlerStep(r), ~ CreateBooking(r)
      PROVE  DealInv' /\ [Deal!Next]_Deal!dealVars
  BY <1>2, LinkHandlerStep, DealAcceptStep, DealCancelStep, DealSignStep
     DEF HandlerStep, SagaInv
<1>3. ASSUME NEW r \in Request, CreateBooking(r)
      PROVE  DealInv' /\ [Deal!Next]_Deal!dealVars
  <2>1. request[r].at = "createBooking" /\ OthersWait(r) /\ request'[r].at = "idle"
    BY <1>3, ProceedLemma DEF CreateBooking, Await, At, SagaInv, TypeInv, TypeOK, Idle,
       InFlight, OthersWait
  <2>2. CASE UNCHANGED dataVars
    <3>1. ContractsStay
      BY <2>2 DEF dataVars, ContractsStay
    <3>2. QED
      BY <2>1, <2>2, <3>1, DealRestStep DEF dataVars, Opening, OthersWait
  <2>3. ASSUME NEW b \in Booking, booking[b].status = "none",
               booking' = [booking EXCEPT ![b] =
                             [status |-> "pending", contract |-> NoContract,
                              initiator |-> request[r].user]],
               UNCHANGED <<contract, ledgerVars>>
        PROVE  DealInv' /\ [Deal!Next]_Deal!dealVars
    BY <2>1, <2>3, DealAskStep DEF ledgerVars, Opening
  <2>4. QED
    BY <1>3, <2>2, <2>3 DEF CreateBooking, Await
<1>4. ASSUME NEW r \in Request, Crash(r)
      PROVE  DealInv' /\ [Deal!Next]_Deal!dealVars
  <2>1. OthersWait(r) /\ request'[r].at = "idle" /\ UNCHANGED dataVars
    BY <1>4, ProceedLemma DEF Crash, SagaInv, TypeInv, TypeOK, Idle, InFlight, OthersWait
  <2>2. ContractsStay
    BY <2>1 DEF dataVars, ContractsStay
  <2>3. CASE request[r].at \notin Opening
    BY <2>1, <2>2, <2>3, DealRestStep DEF dataVars, Opening, OthersWait
  <2>4. CASE request[r].at \in Opening
    <3>1. PICK b \in Booking : b = request[r].booking
      BY <2>4 DEF Opening, AcceptCall, SagaInv, TypeInv, HandlerShape
    <3>2. [Deal!Next]_Deal!dealVars
      BY <2>1, <2>2, <3>1, OneDealMoves DEF dataVars, Opening, OthersWait
    <3>3. \A s \in Request : request'[s].at = "settle" =>
            /\ request'[s].contract \in Contract
            /\ contract[request'[s].contract].status # "none"
            /\ Linked(request'[s].contract)
      BY <2>1, SettlersStay DEF OthersWait
    <3>4. \A d \in Booking :
            /\ booking[d].contract # NoContract =>
                 booking[d].status \in {"accepted", "cancelled", "completed"}
            /\ booking[d].status = "none" => booking[d].initiator = NoUser
      BY DEF SagaInv, DealInv
    <3>5. DealInv'
      BY <2>1, <2>2, <3>3, <3>4, DealInvKept DEF dataVars
    <3>6. QED
      BY <3>2, <3>5
  <2>5. QED
    BY <2>3, <2>4
<1>5. CASE UNCHANGED sagaVars
  <2>1. DealInv'
    BY <1>5 DEF sagaVars, SagaInv, DealInv, Linked, Owed, Payer, Payee, Completed
  <2>2. \A d \in Booking : DealState(d)' = DealState(d)
    BY <1>5 DEF sagaVars, DealState, Undecided, ContractsOf, Completed
  <2>3. QED
    BY <1>5, <2>1, <2>2 DEF sagaVars, Deal!dealVars
<1>6. QED
  BY <1>1, <1>2, <1>3, <1>4, <1>5 DEF Next

LEMMA DealInit == Init => DealInv /\ Deal!Init
<1> SUFFICES ASSUME Init PROVE DealInv /\ Deal!Init
  OBVIOUS
<1> USE DEF Init, LedgerInit, ContractInit, NoBookingDocument, NoRow, Idle, InFlight
<1>1. DealInv
  BY DEF DealInv, Completed
<1>2. \A b \in Booking : DealState(b) = "absent" /\ booking[b].initiator = NoUser
  BY DEF DealState, ContractsOf, Completed
<1>3. QED
  BY <1>1, <1>2 DEF Deal!Init

\* The saga implements BookingDeal for any users, bookings, contracts and
\* handlers, whichever calls fail, lose their answer or are never made: a deal
\* is agreed, falls back, is refused or withdrawn, or is paid once, by its payer
\* to its payee, and points move in no other way but as gifts. The condition is
\* that a contract is signed only once accept has linked it to its booking.
THEOREM DealImplemented ==
  ASSUME ~ SignBeforeLink
  PROVE  Spec => ImplementsDeal
<1>1. SagaInv /\ [Next]_sagaVars => DealInv' /\ [Deal!Next]_Deal!dealVars
  BY DealStep
<1>2. SagaInv <=> TypeInv /\ PayInv /\ LinkInv /\ ConcludeInv /\ DealInv
  BY DEF SagaInv
<1>3. QED
  BY <1>1, <1>2, DealInit, LinkInvariant, ConcludeInvariant, PTL
     DEF Spec, ImplementsDeal, Deal!Spec

-----------------------------------------------------------------------------
(* When no call fails, the booking, its contracts and their payments agree   *)
(* whenever nobody works on the booking.  What is inductive is what they are *)
(* while somebody does: untouched, claimed by one accept, or agreed.         *)

\* An idle handler holds no booking, one of sign that of its contract.
HoldInv ==
  /\ \A r \in Request :
       /\ request[r].at \in {"idle", "createBooking"} => request[r].booking = NoBooking
       /\ request[r].at \in SignCall =>
            contract[request[r].contract].booking = request[r].booking
       /\ request[r].at \in Concluding =>
            request[r].user \in contract[request[r].contract].signatories
  /\ \A c \in Contract :
       /\ contract[c].status = "none" => contract[c].booking = NoBooking
       /\ contract[c].status = "draft" => contract[c].signatures = {}

\* What a handler holds follows from what it held, or from what it starts with.
LEMMA HoldKept ==
  ASSUME TypeInv, PayInv, HoldInv, ContractsStay,
         \A c \in Contract :
           /\ contract'[c].status = "none" => contract'[c].booking = NoBooking
           /\ contract'[c].status = "draft" => contract'[c].signatures = {},
         \A r \in Request :
           \/ request'[r] = request[r]
           \/ request'[r].at \notin {"idle", "createBooking"} \cup SignCall
           \/ request'[r].at \in {"idle", "createBooking"} /\ request'[r].booking = NoBooking
           \/ /\ request'[r].at \in SignCall
              /\ request'[r].contract \in Contract
              /\ contract[request'[r].contract].status # "none"
              /\ contract[request'[r].contract].booking = request'[r].booking
              /\ request'[r].at \in Concluding =>
                   request'[r].user \in contract[request'[r].contract].signatories
  PROVE  HoldInv'
<1>1. ASSUME NEW r \in Request
      PROVE  /\ request'[r].at \in {"idle", "createBooking"} => request'[r].booking = NoBooking
             /\ request'[r].at \in SignCall =>
                  contract'[request'[r].contract].booking = request'[r].booking
             /\ request'[r].at \in Concluding =>
                  request'[r].user \in contract'[request'[r].contract].signatories
  <2>1. CASE request'[r] = request[r]
    <3>1. request[r].at \in SignCall =>
            request[r].contract \in Contract /\ contract[request[r].contract].status # "none"
      BY DEF PayInv, FlipIsPaid, TypeInv, HandlerShape
    <3>2. request[r].at \in Concluding => request[r].at \in SignCall
      BY DEF Concluding, SignCall
    <3>3. QED
      BY <2>1, <3>1, <3>2 DEF HoldInv, ContractsStay
  <2>2. CASE request'[r].at \notin {"idle", "createBooking"} \cup SignCall
    BY <2>2 DEF Concluding, SignCall
  <2>3. CASE request'[r].at \in {"idle", "createBooking"} /\ request'[r].booking = NoBooking
    BY <2>3 DEF Concluding, SignCall
  <2>4. CASE /\ request'[r].at \in SignCall
             /\ request'[r].contract \in Contract
             /\ contract[request'[r].contract].status # "none"
             /\ contract[request'[r].contract].booking = request'[r].booking
             /\ request'[r].at \in Concluding =>
                  request'[r].user \in contract[request'[r].contract].signatories
    BY <2>4 DEF ContractsStay, SignCall
  <2>5. QED
    BY <2>1, <2>2, <2>3, <2>4
<1>2. QED
  BY <1>1 DEF HoldInv

\* A draft has no signatures, and what does not exist no booking.
LEMMA DraftsKept ==
  ASSUME TypeInv, HoldInv, NEW c \in Contract, NEW u \in User,
         \/ UNCHANGED contract
         \/ MaySign(c, u) /\ PushSignature(c, u)
         \/ PullSignature(c, u)
         \/ Flip(c)
         \/ CancelContract(c)
         \/ HealContract(c)
         \/ \E b \in Booking \cup {NoBooking}, s \in SUBSET User : SaveDraft(c, b, s)
  PROVE  \A d \in Contract :
           /\ contract'[d].status = "none" => contract'[d].booking = NoBooking
           /\ contract'[d].status = "draft" => contract'[d].signatures = {}
<1> USE DEF TypeInv, TypeOK, ContractTypeOK, ContractDocument, HoldInv
<1>1. CASE UNCHANGED contract
  BY <1>1
<1>2. CASE MaySign(c, u) /\ PushSignature(c, u)
  BY <1>2 DEF PushSignature
<1>3. CASE PullSignature(c, u)
  BY <1>3 DEF PullSignature
<1>4. CASE Flip(c)
  BY <1>4 DEF Flip
<1>5. CASE CancelContract(c)
  BY <1>5 DEF CancelContract
<1>6. CASE HealContract(c)
  BY <1>6 DEF HealContract
<1>7. CASE \E b \in Booking \cup {NoBooking}, s \in SUBSET User : SaveDraft(c, b, s)
  BY <1>7 DEF SaveDraft
<1>8. QED
  BY <1>1, <1>2, <1>3, <1>4, <1>5, <1>6, <1>7

LEMMA HoldUserStep ==
  ASSUME TypeInv, PayInv, HoldInv, UserStep, ContractsStay
  PROVE  HoldInv'
<1> USE SagaAssumption, ContractAssumption
<1>1. \A c \in Contract :
        /\ contract'[c].status = "none" => contract'[c].booking = NoBooking
        /\ contract'[c].status = "draft" => contract'[c].signatures = {}
  <2>1. \/ UNCHANGED contract
        \/ \E c \in Contract, u \in User : MaySign(c, u) /\ PushSignature(c, u)
        \/ \E c \in Contract : HealContract(c)
        \/ \E c \in Contract, s \in DirectSignatories : SaveDraft(c, NoBooking, s)
    BY DEF UserStep, RequestBooking, Accept, Decline, Cancel, Sign, Heal,
       CreateDirect, GiveUser, dataVars
  <2>2. \A s \in DirectSignatories : s \in SUBSET User
    OBVIOUS
  <2>3. CASE UNCHANGED contract
    BY <2>3 DEF HoldInv
  <2>4. QED
    BY <2>1, <2>2, <2>3, DraftsKept
<1>2. \/ UNCHANGED request
      \/ \E r \in Request, u \in User :
           Start(r, InFlight("createBooking", NoBooking, NoContract, u))
      \/ \E r \in Request, b \in Booking, c \in Contract :
           Start(r, InFlight("resolveNames", b, c, NoUser))
      \/ \E r \in Request, b \in Booking :
           Start(r, InFlight("voidPayment", b, booking[b].contract, NoUser))
      \/ \E r \in Request, c \in Contract, u \in User, call \in {"flip", "settle"} :
           /\ MaySign(c, u)
           /\ Start(r, InFlight(call, contract[c].booking, c, u))
  BY DEF UserStep, RequestBooking, Accept, Decline, Cancel, Sign, Heal, CreateDirect, GiveUser
<1>3. request \in [Request -> Handler]
  BY DEF TypeInv, TypeOK
<1>4. ASSUME NEW r \in Request
      PROVE  \/ request'[r] = request[r]
             \/ request'[r].at \notin {"idle", "createBooking"} \cup SignCall
             \/ request'[r].at \in {"idle", "createBooking"} /\ request'[r].booking = NoBooking
             \/ /\ request'[r].at \in SignCall
                /\ request'[r].contract \in Contract
                /\ contract[request'[r].contract].status # "none"
                /\ contract[request'[r].contract].booking = request'[r].booking
                /\ request'[r].at \in Concluding =>
                     request'[r].user \in contract[request'[r].contract].signatories
  BY <1>2, <1>3 DEF Start, InFlight, SignCall, MaySign, InProgress
<1>5. QED
  BY <1>1, <1>4, HoldKept

LEMMA HoldHandlerStep ==
  ASSUME TypeInv, PayInv, HoldInv, NEW r \in Request, HandlerStep(r), ContractsStay
  PROVE  HoldInv'
<1> DEFINE b == request[r].booking
           c == request[r].contract
<1> USE SagaAssumption, ContractAssumption
<1> USE DEF Await, At
<1>1. \A d \in Contract :
        /\ contract'[d].status = "none" => contract'[d].booking = NoBooking
        /\ contract'[d].status = "draft" => contract'[d].signatures = {}
  <2>1. CASE UNCHANGED contract
    BY <2>1 DEF HoldInv
  <2>2. ASSUME NEW d \in Contract, CancelContract(d) \/ Flip(d)
        PROVE  \A e \in Contract :
                 /\ contract'[e].status = "none" => contract'[e].booking = NoBooking
                 /\ contract'[e].status = "draft" => contract'[e].signatures = {}
    BY <2>2, DraftsKept
  <2>3. CASE CreateBooking(r)
    BY <2>1, <2>3 DEF CreateBooking, dataVars
  <2>4. CASE AcceptStep(r)
    <3>1. c \in Contract /\ b \in Booking /\ booking[b].initiator \in User
      BY <2>4 DEF AcceptStep, ResolveNames, CreateContract, ReservePayment, Link,
         UnwindContract, UnwindPayment, ReleaseClaim, AcceptCall, TypeInv, HandlerShape
    <3>2. {Payer(b), Payee(b)} \in SUBSET User
      BY <3>1 DEF Payer, Payee
    <3>3. \/ UNCHANGED contract
          \/ CancelContract(c)
          \/ SaveDraft(c, b, {Payer(b), Payee(b)})
      BY <2>4 DEF AcceptStep, ResolveNames, CreateContract, ReservePayment, Link,
         UnwindContract, UnwindPayment, ReleaseClaim, dataVars
    <3>4. CASE SaveDraft(c, b, {Payer(b), Payee(b)})
      BY <3>1, <3>2, <3>4, DraftsKept
    <3>5. QED
      BY <2>1, <2>2, <3>1, <3>3, <3>4
  <2>5. CASE CancelStep(r)
    BY <2>1, <2>2, <2>5 DEF CancelStep, VoidPayment, CheckPaid, MarkCompleted,
       CancelLinkedContract, dataVars, TypeInv, HandlerShape, CancelCall
  <2>6. CASE SignStep(r)
    <3>1. c \in Contract /\ request[r].user \in User
      BY <2>6 DEF SignStep, SettlePayment, FlipContract, Reread, Announce,
         WithdrawSignature, SignCall, TypeInv, HandlerShape
    <3>2. \/ UNCHANGED contract
          \/ Flip(c)
          \/ PullSignature(c, request[r].user)
      BY <2>6 DEF SignStep, SettlePayment, FlipContract, Reread, Announce,
         WithdrawSignature, dataVars
    <3>3. QED
      BY <2>1, <2>2, <3>1, <3>2, DraftsKept
  <2>7. QED
    BY <2>3, <2>4, <2>5, <2>6 DEF HandlerStep
<1>2. \/ request[r].at \in {"createBooking"} \cup AcceptCall \cup CancelCall
         /\ \E call \in AcceptCall \cup CancelCall \cup {"idle"} : Proceed(r, call)
      \/ request[r].at \in SignCall
         /\ \E call \in {"flip", "reread", "announce", "idle"} : Proceed(r, call)
      \/ request[r].at = "settle" /\ Proceed(r, "pullSignature")
  BY DEF HandlerStep, CreateBooking, AcceptStep, CancelStep, SignStep, ResolveNames,
     CreateContract, ReservePayment, Link, UnwindContract, UnwindPayment, ReleaseClaim,
     VoidPayment, CheckPaid, MarkCompleted, CancelLinkedContract, SettlePayment,
     FlipContract, Reread, Announce, WithdrawSignature, AfterFlip, AcceptCall, CancelCall,
     SignCall
<1>3. ASSUME NEW call \in Call \cup {"idle"}, Proceed(r, call),
             call \in SignCall => request[r].at \in SignCall,
             call \in Concluding => request[r].at = "settle",
             call # "createBooking"
      PROVE  HoldInv'
  <2>1. /\ \A s \in Request \ {r} : request'[s] = request[s]
        /\ request'[r].at = call
        /\ call = "idle" => request'[r].booking = NoBooking
        /\ call # "idle" => request'[r].contract = c /\ request'[r].booking = b
                            /\ request'[r].user = request[r].user
    BY <1>3, ProceedLemma DEF TypeInv, TypeOK, Idle, InFlight
  <2>2. request[r].at \in SignCall => c \in Contract /\ contract[c].status # "none"
    BY DEF PayInv, FlipIsPaid, TypeInv, HandlerShape
  <2>3. \/ request'[r].at \notin {"idle", "createBooking"} \cup SignCall
        \/ request'[r].at \in {"idle", "createBooking"} /\ request'[r].booking = NoBooking
        \/ /\ request'[r].at \in SignCall
           /\ request'[r].contract \in Contract
           /\ contract[request'[r].contract].status # "none"
           /\ contract[request'[r].contract].booking = request'[r].booking
           /\ request'[r].at \in Concluding =>
                request'[r].user \in contract[request'[r].contract].signatories
    BY <1>3, <2>1, <2>2 DEF HoldInv, SignCall, Concluding
  <2>4. QED
    BY <1>1, <2>1, <2>3, HoldKept
<1>4. QED
  BY <1>2, <1>3 DEF Call, AcceptCall, CancelCall, SignCall, Concluding

LEMMA HoldStep ==
  ASSUME TypeInv, PayInv, LinkInv, HoldInv, [Next]_sagaVars
  PROVE  HoldInv'
<1>1. ASSUME NEW r \in Request, Crash(r) PROVE HoldInv'
  <2>1. /\ \A s \in Request \ {r} : request'[s] = request[s]
        /\ request'[r].at = "idle" /\ request'[r].booking = NoBooking
        /\ UNCHANGED contract
    BY <1>1, ProceedLemma DEF Crash, dataVars, TypeInv, TypeOK, Idle, InFlight
  <2>2. QED
    BY <2>1 DEF HoldInv, SignCall, Concluding
<1>2. CASE UNCHANGED sagaVars
  BY <1>2 DEF sagaVars, HoldInv
<1>3. QED
  BY <1>1, <1>2, HoldUserStep, HoldHandlerStep, LinkUserStep, LinkHandlerStep DEF Next

\* Every call returns what it did, and no handler dies.
Faultless == MayFail = {} /\ MayLoseAck = {} /\ ~ MayCrash

Handlers(b) == {r \in Request : request[r].booking = b}

\* No contract was made for the booking, and nothing is under way for it.
Untouched(b) ==
  booking[b].contract = NoContract /\ ContractsOf(b) = {} /\ Handlers(b) = {}

\* What a handler of accept has done so far; it unwinds only what was cancelled.
Claims(b, r) ==
  LET c == request[r].contract
  IN  /\ request[r].at \in AcceptCall
      /\ IF request[r].at \in {"resolveNames", "createContract"}
           THEN ContractsOf(b) = {} ELSE ContractsOf(b) = {c}
      /\ request[r].at \in {"reserve", "link", "unwindContract"} =>
           contract[c].status = "draft"
      /\ request[r].at = "reserve" => payment[c].status = "none"
      /\ request[r].at \in {"link", "unwindContract", "unwindPayment"} =>
           payment[c].status = "pending"
      /\ request[r].at \in {"unwindPayment", "releaseClaim"} =>
           contract[c].status = "cancelled"
      /\ request[r].at = "releaseClaim" => payment[c].status = "cancelled"
      /\ request[r].at \in {"unwindContract", "unwindPayment", "releaseClaim"} =>
           booking[b].status = "cancelled"

\* Claimed by accept, which is under way, or has been and the contract is undone.
Claimed(b) ==
  /\ booking[b].contract = NoContract
  /\ \A r, s \in Handlers(b) : r = s
  /\ \A r \in Handlers(b) : Claims(b, r)
  /\ booking[b].status = "accepted" => Handlers(b) # {}
  /\ Handlers(b) = {} => \A c \in ContractsOf(b) :
       contract[c].status = "cancelled" /\ payment[c].status = "cancelled"

\* What a handler of cancel or sign has found out.
Concludes(b, r) ==
  LET c == booking[b].contract
  IN  /\ request[r].at \in CancelCall \cup SignCall
      /\ request[r].contract = c
      /\ request[r].at \in CancelCall => booking[b].status = "cancelled"
      /\ request[r].at \in {"flip", "reread", "announce", "checkPaid", "markCompleted"} =>
           Completed(c)
      /\ request[r].at = "reread" => contract[c].status = "fully_signed"
      /\ request[r].at = "voidPayment" => payment[c].status \in {"pending", "completed"}
      /\ request[r].at = "cancelContract" => payment[c].status = "cancelled"

\* One handler cancels the booking, any number work on its signatures.
OneCancels(b) ==
  /\ \A r \in Handlers(b) : Concludes(b, r)
  /\ \A r, s \in Handlers(b) :
       request[r].at \in CancelCall /\ request[s].at \in CancelCall => r = s

\* The payment of a linked contract agrees with the contract.
RowFits(c) ==
  /\ payment[c].status \in {"pending", "completed", "cancelled"}
  /\ payment[c].status = "pending" => InProgress(c)
  /\ payment[c].status = "completed" => contract[c].status \in {"partial", "fully_signed"}
  /\ payment[c].status = "cancelled" => InProgress(c) \/ contract[c].status = "cancelled"

\* As long as the booking disagrees, whoever is to end that is under way.
Resolved(b, c) ==
  /\ booking[b].status = "accepted" =>
       /\ payment[c].status # "cancelled"
       /\ payment[c].status = "pending" /\ AllSigned(c) =>
            \E r \in Handlers(b) : request[r].at \in {"settle", "pullSignature"}
       /\ Completed(c) =>
            \E r \in Handlers(b) : request[r].at \in {"flip", "reread", "announce"}
  /\ booking[b].status = "cancelled" =>
       \/ \E r \in Handlers(b) : request[r].at \in CancelCall
       \/ payment[c].status = "cancelled" /\ contract[c].status = "cancelled"
  /\ booking[b].status = "completed" => Completed(c)

Agreed(b) ==
  LET c == booking[b].contract
  IN  c # NoContract /\ ContractsOf(b) = {c} /\ OneCancels(b) /\ RowFits(c) /\ Resolved(b, c)

Phase(b) ==
  \/ booking[b].status \in {"none", "pending", "declined"} /\ Untouched(b)
  \/ booking[b].status \in {"accepted", "cancelled"} /\ Claimed(b)
  \/ booking[b].status \in {"accepted", "cancelled", "completed"} /\ Agreed(b)

PhaseInv == \A b \in Booking : Phase(b)

LEMMA ProceedHandlers ==
  ASSUME NEW r \in Request, NEW call \in Call \cup {"idle"},
         request \in [Request -> Handler], Proceed(r, call), NEW b \in Booking
  PROVE  /\ call # "idle" => Handlers(b)' = Handlers(b)
         /\ call = "idle" => Handlers(b)' = Handlers(b) \ {r}
BY ProceedLemma, ContractAssumption DEF Handlers, Idle, InFlight

LEMMA StartHandlers ==
  ASSUME TypeInv, HoldInv, NEW r \in Request, NEW h, Start(r, h), NEW b \in Booking
  PROVE  /\ h.booking = b => Handlers(b)' = Handlers(b) \cup {r}
         /\ h.booking # b => Handlers(b)' = Handlers(b)
         /\ r \notin Handlers(b) /\ OthersWait(r) /\ request'[r] = h
<1>1. /\ request'[r] = h /\ \A s \in Request \ {r} : request'[s] = request[s]
      /\ request[r].booking = NoBooking
  BY DEF TypeInv, TypeOK, HoldInv, Start, At
<1>2. QED
  BY <1>1, ContractAssumption DEF Handlers, OthersWait

\* A booking whose document, contracts, payments and handlers stay keeps its phase.
LEMMA PhaseStill ==
  ASSUME NEW b \in Booking, Phase(b), booking'[b] = booking[b],
         \A c \in Contract : contract[c].booking = b \/ contract'[c].booking = b =>
           contract'[c] = contract[c] /\ payment'[c] = payment[c],
         \A r \in Request : request[r].booking = b \/ request'[r].booking = b =>
           request'[r] = request[r]
  PROVE  Phase(b)'
<1>1. /\ ContractsOf(b)' = ContractsOf(b)
      /\ \A c \in ContractsOf(b) : contract'[c] = contract[c] /\ payment'[c] = payment[c]
  BY DEF ContractsOf
<1>2. /\ Handlers(b)' = Handlers(b)
      /\ \A r \in Handlers(b) : request'[r] = request[r]
  BY DEF Handlers
<1>3. Untouched(b) => Untouched(b)'
  BY <1>1, <1>2 DEF Untouched
<1>4. ASSUME NEW r \in Handlers(b), Claims(b, r) PROVE Claims(b, r)'
  BY <1>1, <1>2, <1>4 DEF Claims
<1>5. Claimed(b) => Claimed(b)'
  BY <1>1, <1>2, <1>4 DEF Claimed
<1>6. ASSUME Agreed(b) PROVE Agreed(b)'
  <2> DEFINE c == booking[b].contract
  <2>1. PICK d : d = c /\ d \in ContractsOf(b)
    BY <1>6 DEF Agreed
  <2>2. contract'[d] = contract[d] /\ payment'[d] = payment[d]
    BY <1>1, <2>1
  <2>3. RowFits(d)'
    BY <1>6, <2>1, <2>2 DEF Agreed, RowFits, InProgress
  <2>4. OneCancels(b)'
    BY <1>2, <1>6, <2>1, <2>2 DEF Agreed, OneCancels, Concludes, Completed
  <2>5. Resolved(b, d)'
    BY <1>2, <1>6, <2>1, <2>2 DEF Agreed, Resolved, AllSigned, Completed
  <2>6. QED
    BY <1>1, <1>6, <2>1, <2>3, <2>4, <2>5 DEF Agreed
<1>7. QED
  BY <1>3, <1>5, <1>6 DEF Phase

\* A step on one booking, on a contract and with a handler of it.
LEMMA PhaseFocus ==
  ASSUME PhaseInv, NEW b \in Booking \cup {NoBooking}, b \in Booking => Phase(b)',
         \A d \in Booking \ {b} : booking'[d] = booking[d],
         \A c \in Contract :
           \/ contract'[c] = contract[c] /\ payment'[c] = payment[c]
           \/ contract[c].booking \in {b, NoBooking} /\ contract'[c].booking \in {b, NoBooking},
         \A r \in Request :
           \/ request'[r] = request[r]
           \/ request[r].booking \in {b, NoBooking} /\ request'[r].booking \in {b, NoBooking}
  PROVE  PhaseInv'
<1>1. ASSUME NEW d \in Booking \ {b} PROVE Phase(d)'
  BY <1>1, PhaseStill, ContractAssumption DEF PhaseInv
<1>2. QED
  BY <1>1 DEF PhaseInv

AgreeInv == SagaInv /\ HoldInv /\ PhaseInv

\* A handler of accept is the only one of its booking.
LEMMA ClaimPhase ==
  ASSUME AgreeInv, NEW r \in Request, request[r].at \in AcceptCall,
         NEW b, b = request[r].booking
  PROVE  /\ b \in Booking /\ request[r].contract \in Contract
         /\ Handlers(b) = {r} /\ Claims(b, r)
         /\ booking[b].contract = NoContract
         /\ booking[b].status \in {"accepted", "cancelled"}
<1>1. b \in Booking /\ request[r].contract \in Contract /\ r \in Handlers(b)
  BY DEF AgreeInv, SagaInv, TypeInv, HandlerShape, Handlers
<1>2. Phase(b)
  BY <1>1 DEF AgreeInv, PhaseInv
<1>3. ~ Untouched(b)
  BY <1>1 DEF Untouched
<1>4. ~ Agreed(b)
  BY <1>1 DEF Agreed, OneCancels, Concludes, AcceptCall, CancelCall, SignCall
<1>5. QED
  BY <1>1, <1>2, <1>3, <1>4 DEF Phase, Claimed

\* A linked booking is agreed, ...
LEMMA LinkedPhase ==
  ASSUME AgreeInv, NEW b \in Booking, booking[b].contract # NoContract
  PROVE  /\ Agreed(b) /\ booking[b].contract \in Contract
         /\ booking[b].status \in {"accepted", "cancelled", "completed"}
<1>1. Phase(b)
  BY DEF AgreeInv, PhaseInv
<1>2. booking[b].contract \in Contract
  BY DEF AgreeInv, SagaInv, TypeInv, TypeOK, BookingDocument
<1>3. QED
  BY <1>1, <1>2 DEF Phase, Untouched, Claimed

\* ... and so is that of a handler of cancel or sign, which holds its contract.
LEMMA ConcludePhase ==
  ASSUME AgreeInv, NEW r \in Request, request[r].at \in CancelCall \cup SignCall,
         NEW b, b = request[r].booking, b # NoBooking
  PROVE  /\ b \in Booking /\ r \in Handlers(b)
         /\ Agreed(b) /\ Concludes(b, r)
         /\ request[r].contract = booking[b].contract
         /\ booking[b].contract \in Contract
         /\ booking[b].status \in {"accepted", "cancelled", "completed"}
<1>1. b \in Booking /\ r \in Handlers(b)
  BY DEF AgreeInv, SagaInv, TypeInv, TypeOK, Handler, Handlers
<1>2. Phase(b)
  BY <1>1 DEF AgreeInv, PhaseInv
<1>3. ~ Untouched(b)
  BY <1>1 DEF Untouched
<1>4. ~ Claimed(b)
  BY <1>1 DEF Claimed, Claims, AcceptCall, CancelCall, SignCall
<1>5. Agreed(b)
  BY <1>2, <1>3, <1>4 DEF Phase
<1>6. QED
  BY <1>1, <1>2, <1>3, <1>4, <1>5, LinkedPhase DEF Phase, Agreed, OneCancels, Concludes

LEMMA ClaimedAfter ==
  ASSUME NEW b \in Booking, NEW r \in Request, Handlers(b)' = {r}, Claims(b, r)',
         booking'[b].contract = NoContract, booking'[b].status \in {"accepted", "cancelled"}
  PROVE  Phase(b)'
BY DEF Phase, Claimed

\* What does not create a contract leaves every booking its contracts.
LEMMA ContractsOfStay ==
  ASSUME AgreeInv, NEW b \in Booking,
         \A c \in Contract : contract'[c].booking = contract[c].booking
  PROVE  ContractsOf(b)' = ContractsOf(b)
BY DEF ContractsOf

-----------------------------------------------------------------------------
\* The calls of accept.
LEMMA AgreeAcceptStep ==
  ASSUME Faultless, AgreeInv, NEW r \in Request, AcceptStep(r),
         NEW b, b = request[r].booking, NEW c, c = request[r].contract
  PROVE  PhaseInv'
<1> USE ContractAssumption
<1>1. request[r].at \in AcceptCall
  BY DEF AcceptStep, ResolveNames, CreateContract, ReservePayment, Link,
     UnwindContract, UnwindPayment, ReleaseClaim, Await, At, AcceptCall
<1>2. /\ b \in Booking /\ c \in Contract
      /\ Handlers(b) = {r} /\ Claims(b, r)
      /\ booking[b].contract = NoContract
      /\ booking[b].status \in {"accepted", "cancelled"}
  BY <1>1, ClaimPhase
<1>3. /\ request \in [Request -> Handler] /\ booking \in [Booking -> BookingDocument]
      /\ contract \in [Contract -> ContractDocument]
      /\ payment \in [Contract -> PaymentRow \cup {NoRow}]
  BY DEF AgreeInv, SagaInv, TypeInv, TypeOK, ContractTypeOK, LedgerTypeOK
<1>4. \E call \in AcceptCall \cup {"idle"} : Proceed(r, call)
  BY DEF AcceptStep, ResolveNames, CreateContract, ReservePayment, Link,
     UnwindContract, UnwindPayment, ReleaseClaim, Await, AcceptCall
<1>5. /\ \A s \in Request \ {r} : request'[s] = request[s]
      /\ request'[r].booking \in {b, NoBooking}
  BY <1>3, <1>4, ProceedLemma DEF AcceptCall, Call, Idle, InFlight
<1>6. ASSUME \A d \in Booking \ {b} : booking'[d] = booking[d],
             \A d \in Contract \ {c} : contract'[d] = contract[d] /\ payment'[d] = payment[d],
             contract[c].booking \in {b, NoBooking}, contract'[c].booking \in {b, NoBooking},
             Phase(b)'
      PROVE  PhaseInv'
  BY <1>2, <1>5, <1>6, PhaseFocus DEF AgreeInv
<1>7. contract[c].booking \in {b, NoBooking}
  <2>1. CASE request[r].at \in {"resolveNames", "createContract"}
    BY <1>2, <2>1 DEF AgreeInv, SagaInv, PayInv, OpeningOwnsContract, HoldInv
  <2>2. CASE request[r].at \notin {"resolveNames", "createContract"}
    BY <1>2, <2>2 DEF Claims, ContractsOf
  <2>3. QED
    BY <2>1, <2>2
<1>8. ASSUME NEW call \in AcceptCall, Proceed(r, call)
      PROVE  /\ Handlers(b)' = {r}
             /\ request'[r].at = call /\ request'[r].contract = c
  BY <1>2, <1>3, <1>8, ProceedLemma, ProceedHandlers DEF AcceptCall, Call
<1>9. CASE ResolveNames(r)
  <2>1. request[r].at = "resolveNames" /\ UNCHANGED dataVars /\ Proceed(r, "createContract")
    BY <1>9 DEF Faultless, ResolveNames, Await, At
  <2>2. Claims(b, r)'
    BY <1>2, <1>8, <2>1 DEF Claims, AcceptCall, dataVars, ContractsOf
  <2>3. Phase(b)'
    BY <1>2, <1>8, <2>1, <2>2, ClaimedAfter DEF dataVars, AcceptCall
  <2>4. QED
    BY <1>6, <1>7, <2>1, <2>3 DEF dataVars
<1>10. CASE CreateContract(r)
  <2>1. /\ request[r].at = "createContract" /\ Proceed(r, "reserve")
        /\ SaveDraft(c, b, {Payer(b), Payee(b)}) /\ UNCHANGED <<booking, payment>>
    BY <1>10 DEF Faultless, CreateContract, Await, At, ledgerVars
  <2>2. /\ contract'[c].status = "draft" /\ contract'[c].booking = b
        /\ \A d \in Contract \ {c} : contract'[d] = contract[d]
    BY <1>2, <1>3, <2>1 DEF SaveDraft
  <2>3. payment[c].status = "none"
    BY <2>1 DEF AgreeInv, SagaInv, PayInv, OpeningOwnsContract, Opening
  <2>4. ContractsOf(b)' = {c}
    BY <1>2, <2>1, <2>2 DEF Claims, ContractsOf
  <2>5. request'[r].at = "reserve" /\ request'[r].contract = c
    BY <1>8, <2>1 DEF AcceptCall
  <2>6. Claims(b, r)'
    BY <2>1, <2>2, <2>3, <2>4, <2>5 DEF Claims, AcceptCall
  <2>7. Phase(b)'
    BY <1>2, <1>8, <2>1, <2>6, ClaimedAfter DEF AcceptCall
  <2>8. QED
    BY <1>6, <1>7, <2>1, <2>2, <2>7
<1>11. CASE ReservePayment(r)
  <2>1. /\ request[r].at = "reserve" /\ Proceed(r, "link")
        /\ Reserve(c, Payer(b), Payee(b), Price) /\ UNCHANGED <<booking, contract>>
    BY <1>11 DEF Faultless, ReservePayment, Await, At
  <2>2. /\ payment'[c].status = "pending"
        /\ \A d \in Contract \ {c} : payment'[d] = payment[d]
    BY <1>2, <1>3, <2>1 DEF Reserve
  <2>3. request'[r].at = "link" /\ request'[r].contract = c
    BY <1>8, <2>1 DEF AcceptCall
  <2>4. Claims(b, r)'
    BY <1>2, <2>1, <2>2, <2>3 DEF Claims, AcceptCall, ContractsOf
  <2>5. Phase(b)'
    BY <1>2, <1>8, <2>1, <2>4, ClaimedAfter DEF AcceptCall
  <2>6. QED
    BY <1>6, <1>7, <2>1, <2>2, <2>5
<1>12. CASE Link(r)
  <2>1. /\ request[r].at = "link" /\ UNCHANGED <<contract, payment>>
        /\ booking' = IF Linkable(b) THEN [booking EXCEPT ![b].contract = c] ELSE booking
        /\ Proceed(r, IF Linkable(b) THEN "idle" ELSE "unwindContract")
    BY <1>12 DEF Faultless, Link, Await, At, ledgerVars
  <2>2. /\ contract[c].status = "draft" /\ payment[c].status = "pending"
        /\ ContractsOf(b) = {c}
    BY <1>2, <2>1 DEF Claims
  <2>3. CASE ~ Linkable(b)
    <3>1. booking[b].status = "cancelled"
      BY <1>2, <2>3 DEF Linkable
    <3>2. /\ request'[r].at = "unwindContract" /\ request'[r].contract = c
          /\ Handlers(b)' = {r} /\ UNCHANGED booking
      BY <1>8, <2>1, <2>3 DEF AcceptCall
    <3>3. Claims(b, r)'
      BY <2>1, <2>2, <3>1, <3>2 DEF Claims, AcceptCall, ContractsOf
    <3>4. Phase(b)'
      BY <1>2, <3>2, <3>3, ClaimedAfter
    <3>5. QED
      BY <1>6, <1>7, <2>1, <3>2, <3>4
  <2>4. CASE Linkable(b)
    <3>1. Handlers(b)' = {}
      BY <1>2, <1>3, <2>1, <2>4, ProceedHandlers
    <3>2. /\ booking'[b].contract = c /\ booking'[b].status = "accepted"
          /\ \A d \in Booking \ {b} : booking'[d] = booking[d]
      BY <1>2, <1>3, <2>1, <2>4 DEF Linkable, BookingDocument
    <3>3. ~ AllSigned(c)
      <4>1. contract[c].signatures = {} /\ contract[c].booking \in Booking
        BY <1>2, <2>2 DEF AgreeInv, HoldInv, ContractsOf
      <4>2. \A u \in User : contract[c].signatories \ {u} # {}
        BY <1>2, <2>2, <4>1 DEF AgreeInv, SagaInv, ConcludeInv, PartiesInv
      <4>3. QED
        BY <4>1, <4>2, SagaAssumption DEF AllSigned
    <3>4. c # NoContract
      BY <1>2, SagaAssumption
    <3>5. OneCancels(b)'
      BY <3>1 DEF OneCancels
    <3>6. RowFits(c)'
      BY <2>1, <2>2 DEF RowFits, InProgress
    <3>7. Resolved(b, c)'
      BY <2>1, <2>2, <3>2, <3>3 DEF Resolved, AllSigned, Completed
    <3>8. ContractsOf(b)' = {c}
      BY <2>1, <2>2 DEF ContractsOf
    <3>9. Agreed(b)'
      BY <3>2, <3>4, <3>5, <3>6, <3>7, <3>8 DEF Agreed
    <3>10. Phase(b)'
      BY <3>2, <3>9 DEF Phase
    <3>11. QED
      BY <1>6, <1>7, <2>1, <3>2, <3>10
  <2>5. QED
    BY <2>3, <2>4
<1>13. CASE UnwindContract(r)
  <2>1. /\ request[r].at = "unwindContract" /\ Proceed(r, "unwindPayment")
        /\ CancelContract(c) /\ UNCHANGED <<booking, payment>>
    BY <1>13 DEF Faultless, UnwindContract, Await, At, ledgerVars
  <2>2. /\ contract[c].status = "draft" /\ payment[c].status = "pending"
        /\ ContractsOf(b) = {c} /\ booking[b].status = "cancelled"
    BY <1>2, <2>1 DEF Claims
  <2>3. /\ contract'[c].status = "cancelled" /\ contract'[c].booking = contract[c].booking
        /\ \A d \in Contract \ {c} : contract'[d] = contract[d]
    BY <1>2, <1>3, <2>1, <2>2 DEF CancelContract, InProgress, ContractDocument
  <2>4. request'[r].at = "unwindPayment" /\ request'[r].contract = c
    BY <1>8, <2>1 DEF AcceptCall
  <2>5. ContractsOf(b)' = {c}
    BY <2>2, <2>3 DEF ContractsOf
  <2>6. Claims(b, r)'
    BY <2>1, <2>2, <2>3, <2>4, <2>5 DEF Claims, AcceptCall
  <2>7. Phase(b)'
    BY <1>2, <1>8, <2>1, <2>6, ClaimedAfter DEF AcceptCall
  <2>8. QED
    BY <1>6, <1>7, <2>1, <2>3, <2>7
<1>14. CASE UnwindPayment(r)
  <2>1. /\ request[r].at = "unwindPayment" /\ Proceed(r, "releaseClaim")
        /\ Void(c) /\ UNCHANGED <<booking, contract>>
    BY <1>14 DEF Faultless, UnwindPayment, Await, At
  <2>2. /\ contract[c].status = "cancelled" /\ payment[c].status = "pending"
        /\ ContractsOf(b) = {c} /\ booking[b].status = "cancelled"
    BY <1>2, <2>1 DEF Claims
  <2>3. /\ payment'[c].status = "cancelled"
        /\ \A d \in Contract \ {c} : payment'[d] = payment[d]
    BY <1>2, <1>3, <2>1, <2>2 DEF Void, PaymentRow, NoRow
  <2>4. request'[r].at = "releaseClaim" /\ request'[r].contract = c
    BY <1>8, <2>1 DEF AcceptCall
  <2>5. Claims(b, r)'
    BY <2>1, <2>2, <2>3, <2>4 DEF Claims, AcceptCall, ContractsOf
  <2>6. Phase(b)'
    BY <1>2, <1>8, <2>1, <2>5, ClaimedAfter DEF AcceptCall
  <2>7. QED
    BY <1>6, <1>7, <2>1, <2>3, <2>6
<1>15. CASE ReleaseClaim(r)
  <2>1. request[r].at = "releaseClaim" /\ Proceed(r, "idle") /\ UNCHANGED <<contract, payment>>
    BY <1>15 DEF Faultless, ReleaseClaim, Await, At, ledgerVars
  <2>2. /\ contract[c].status = "cancelled" /\ payment[c].status = "cancelled"
        /\ ContractsOf(b) = {c} /\ booking[b].status = "cancelled"
    BY <1>2, <2>1 DEF Claims
  <2>3. UNCHANGED booking
    BY <1>15, <2>2 DEF Faultless, ReleaseClaim, Await, Linkable
  <2>4. Handlers(b)' = {}
    BY <1>2, <1>3, <2>1, ProceedHandlers
  <2>5. Phase(b)'
    BY <1>2, <2>1, <2>2, <2>3, <2>4 DEF Phase, Claimed, ContractsOf
  <2>6. QED
    BY <1>6, <1>7, <2>1, <2>3, <2>5
<1>16. QED
  BY <1>9, <1>10, <1>11, <1>12, <1>13, <1>14, <1>15 DEF AcceptStep

\* Nobody but r cancels the booking.
OthersKeep(b, r) == \A s \in Handlers(b) \ {r} : request[s].at \notin CancelCall

\* A payment stays what it is, or is settled.
StaysOrSettles(c) ==
  \/ payment'[c].status = payment[c].status
  \/ payment[c].status = "pending" /\ payment'[c].status = "completed"

\* What the other handlers of the booking found out stays true.
LEMMA OneCancelsAfter ==
  ASSUME NEW b \in Booking, NEW r \in Request, NEW c, c = booking[b].contract,
         booking'[b].contract = c, OneCancels(b), OthersWait(r),
         Handlers(b)' \subseteq Handlers(b) \cup {r},
         r \in Handlers(b)' => Concludes(b, r)',
         r \in Handlers(b)' /\ request'[r].at \in CancelCall => OthersKeep(b, r),
         \/ OthersKeep(b, r)
         \/ booking'[b].status = booking[b].status /\ StaysOrSettles(c),
         Completed(c) => payment'[c].status = "completed",
         contract[c].status = "fully_signed" => contract'[c].status = "fully_signed"
  PROVE  OneCancels(b)'
<1>1. ASSUME NEW s \in Request, s # r, s \in Handlers(b)' PROVE Concludes(b, s)'
  <2>1. Concludes(b, s) /\ request'[s] = request[s] /\ s \in Handlers(b) \ {r}
    BY <1>1 DEF OneCancels, OthersWait
  <2>2. CASE OthersKeep(b, r)
    BY <2>1, <2>2 DEF Concludes, OthersKeep, Completed, CancelCall, SignCall
  <2>3. CASE booking'[b].status = booking[b].status /\ StaysOrSettles(c)
    BY <2>1, <2>3 DEF Concludes, StaysOrSettles, Completed, CancelCall, SignCall
  <2>4. QED
    BY <2>2, <2>3
<1>2. ASSUME NEW s \in Handlers(b)', NEW t \in Handlers(b)',
             request'[s].at \in CancelCall, request'[t].at \in CancelCall
      PROVE  s = t
  <2>1. s \in Request /\ t \in Request
    BY DEF Handlers
  <2>2. QED
    BY <1>2, <2>1 DEF OneCancels, OthersKeep, OthersWait
<1>3. \A s \in Handlers(b)' : Concludes(b, s)'
  BY <1>1 DEF Handlers
<1>4. QED
  BY <1>2, <1>3 DEF OneCancels

LEMMA AgreedAfter ==
  ASSUME NEW b \in Booking, NEW c, c = booking[b].contract, Agreed(b),
         booking'[b].contract = c,
         booking'[b].status \in {"accepted", "cancelled", "completed"},
         \A d \in Contract : contract'[d].booking = contract[d].booking,
         OneCancels(b)', RowFits(c)', Resolved(b, c)'
  PROVE  Phase(b)'
<1>1. c # NoContract /\ ContractsOf(b)' = {c}
  BY DEF Agreed, ContractsOf
<1>2. QED
  BY <1>1 DEF Phase, Agreed

-----------------------------------------------------------------------------
\* The calls of cancel.
LEMMA AgreeCancelStep ==
  ASSUME Faultless, AgreeInv, NEW r \in Request, CancelStep(r),
         NEW b, b = request[r].booking, NEW c, c = request[r].contract
  PROVE  PhaseInv'
<1> USE ContractAssumption
<1>1. request[r].at \in CancelCall
  BY DEF CancelStep, VoidPayment, CheckPaid, MarkCompleted, CancelLinkedContract,
     Await, At, CancelCall
<1>2. /\ b \in Booking /\ c \in Contract /\ r \in Handlers(b)
      /\ Agreed(b) /\ Concludes(b, r) /\ booking[b].contract = c
      /\ booking[b].status = "cancelled"
  <2>1. b \in Booking
    BY <1>1 DEF AgreeInv, SagaInv, TypeInv, HandlerShape
  <2>2. QED
    BY <1>1, <2>1, ConcludePhase DEF Concludes
<1>3. /\ request \in [Request -> Handler] /\ booking \in [Booking -> BookingDocument]
      /\ contract \in [Contract -> ContractDocument]
      /\ payment \in [Contract -> PaymentRow \cup {NoRow}]
  BY DEF AgreeInv, SagaInv, TypeInv, TypeOK, ContractTypeOK, LedgerTypeOK
<1>4. \E call \in CancelCall \cup {"idle"} : Proceed(r, call)
  BY DEF CancelStep, VoidPayment, CheckPaid, MarkCompleted, CancelLinkedContract,
     Await, CancelCall
<1>5. /\ \A s \in Request \ {r} : request'[s] = request[s]
      /\ request'[r].booking \in {b, NoBooking}
      /\ OthersWait(r) /\ OthersKeep(b, r)
  BY <1>1, <1>2, <1>3, <1>4, ProceedLemma
     DEF CancelCall, Call, Idle, InFlight, OthersWait, OthersKeep, Agreed, OneCancels
<1>6. ASSUME \A d \in Booking \ {b} : booking'[d] = booking[d],
             \A d \in Contract \ {c} : contract'[d] = contract[d] /\ payment'[d] = payment[d],
             contract'[c].booking = contract[c].booking,
             Phase(b)'
      PROVE  PhaseInv'
  <2>1. contract[c].booking = b
    BY <1>2 DEF Agreed, ContractsOf
  <2>2. QED
    BY <1>2, <1>5, <1>6, <2>1, PhaseFocus DEF AgreeInv
<1>7. OneCancels(b) /\ RowFits(c) /\ Resolved(b, c)
  BY <1>2 DEF Agreed
<1>8. ASSUME NEW call \in CancelCall, Proceed(r, call)
      PROVE  /\ Handlers(b)' = Handlers(b)
             /\ request'[r].at = call /\ request'[r].contract = c
             /\ \E s \in Handlers(b)' : request'[s].at \in CancelCall
  BY <1>2, <1>3, <1>8, ProceedLemma, ProceedHandlers DEF CancelCall, Call
<1>9. Proceed(r, "idle") => Handlers(b)' = Handlers(b) \ {r}
  BY <1>2, <1>3, ProceedHandlers
<1>10. CASE VoidPayment(r)
  <2>1. /\ request[r].at = "voidPayment" /\ Void(c) /\ UNCHANGED <<booking, contract>>
        /\ Proceed(r, IF payment[c].status = "pending" THEN "cancelContract" ELSE "checkPaid")
    BY <1>10 DEF Faultless, VoidPayment, Await, At
  <2>2. /\ payment[c].status \in {"pending", "completed"}
        /\ payment[c].status = "pending" => payment'[c].status = "cancelled"
        /\ payment[c].status = "completed" => payment'[c] = payment[c]
        /\ \A d \in Contract \ {c} : payment'[d] = payment[d]
    BY <1>2, <1>3, <2>1 DEF Concludes, Void, PaymentRow, NoRow
  <2>3. /\ Handlers(b)' = Handlers(b) /\ request'[r].contract = c
        /\ request'[r].at = IF payment[c].status = "pending" THEN "cancelContract" ELSE "checkPaid"
        /\ \E s \in Handlers(b)' : request'[s].at \in CancelCall
    BY <1>8, <2>1 DEF CancelCall
  <2>4. Concludes(b, r)'
    BY <1>2, <2>1, <2>2, <2>3 DEF Concludes, Completed, CancelCall
  <2>5. OneCancels(b)'
    <3>1. booking'[b].contract = c /\ UNCHANGED contract
      BY <1>2, <2>1
    <3>2. Completed(c) => payment'[c].status = "completed"
      BY <2>2 DEF Completed
    <3>3. Handlers(b)' \subseteq Handlers(b) \cup {r}
      BY <2>3
    <3>4. QED
      BY <1>2, <1>5, <1>7, <2>4, <3>1, <3>2, <3>3, OneCancelsAfter
  <2>6. RowFits(c)'
    BY <1>7, <2>1, <2>2 DEF RowFits, InProgress
  <2>7. Resolved(b, c)'
    BY <1>2, <2>1, <2>3 DEF Resolved
  <2>8. Phase(b)'
    BY <1>2, <2>1, <2>5, <2>6, <2>7, AgreedAfter
  <2>9. QED
    BY <1>6, <2>1, <2>2, <2>8
<1>11. CASE CheckPaid(r)
  <2>1. /\ request[r].at = "checkPaid" /\ UNCHANGED dataVars /\ Proceed(r, "markCompleted")
    BY <1>2, <1>11 DEF Faultless, CheckPaid, Await, At, Concludes
  <2>2. /\ Handlers(b)' = Handlers(b) /\ request'[r].contract = c
        /\ request'[r].at = "markCompleted"
        /\ \E s \in Handlers(b)' : request'[s].at \in CancelCall
    BY <1>8, <2>1 DEF CancelCall
  <2>3. Concludes(b, r)'
    BY <1>2, <2>1, <2>2 DEF Concludes, Completed, CancelCall, dataVars
  <2>4. OneCancels(b)'
    BY <1>2, <1>5, <1>7, <2>1, <2>2, <2>3, OneCancelsAfter DEF Completed, dataVars
  <2>5. RowFits(c)'
    BY <1>7, <2>1 DEF RowFits, InProgress, dataVars
  <2>6. Resolved(b, c)'
    BY <1>2, <2>1, <2>2 DEF Resolved, dataVars
  <2>7. Phase(b)'
    BY <1>2, <2>1, <2>4, <2>5, <2>6, AgreedAfter DEF dataVars
  <2>8. QED
    BY <1>6, <2>1, <2>7 DEF dataVars
<1>12. CASE MarkCompleted(r)
  <2>1. /\ request[r].at = "markCompleted" /\ Proceed(r, "idle")
        /\ booking' = [booking EXCEPT ![b].status = "completed"]
        /\ UNCHANGED <<contract, payment>>
    BY <1>2, <1>12 DEF Faultless, MarkCompleted, SetStatus, Await, At, ledgerVars
  <2>2. /\ booking'[b].status = "completed" /\ booking'[b].contract = c
        /\ \A d \in Booking \ {b} : booking'[d] = booking[d]
    BY <1>2, <1>3, <2>1 DEF BookingDocument
  <2>3. Completed(c)
    BY <1>2, <2>1 DEF Concludes
  <2>4. OneCancels(b)'
    BY <1>2, <1>5, <1>7, <1>9, <2>1, <2>2, OneCancelsAfter DEF Completed
  <2>5. RowFits(c)'
    BY <1>7, <2>1 DEF RowFits, InProgress
  <2>6. Resolved(b, c)'
    BY <2>1, <2>2, <2>3 DEF Resolved, Completed
  <2>7. Phase(b)'
    BY <1>2, <2>1, <2>2, <2>4, <2>5, <2>6, AgreedAfter
  <2>8. QED
    BY <1>6, <2>1, <2>2, <2>7
<1>13. CASE CancelLinkedContract(r)
  <2>1. /\ request[r].at = "cancelContract" /\ Proceed(r, "idle")
        /\ CancelContract(c) /\ UNCHANGED <<booking, payment>>
    BY <1>13 DEF Faultless, CancelLinkedContract, Await, At, ledgerVars
  <2>2. payment[c].status = "cancelled"
    BY <1>2, <2>1 DEF Concludes
  <2>3. /\ contract'[c].status = "cancelled" /\ contract'[c].booking = contract[c].booking
        /\ contract[c].status # "fully_signed"
        /\ \A d \in Contract \ {c} : contract'[d] = contract[d]
    BY <1>2, <1>3, <1>7, <2>1, <2>2 DEF CancelContract, RowFits, InProgress, ContractDocument
  <2>4. OneCancels(b)'
    BY <1>2, <1>5, <1>7, <1>9, <2>1, <2>2, <2>3, OneCancelsAfter DEF Completed
  <2>5. RowFits(c)'
    BY <2>1, <2>2, <2>3 DEF RowFits
  <2>6. Resolved(b, c)'
    BY <1>2, <2>1, <2>2, <2>3 DEF Resolved
  <2>7. Phase(b)'
    BY <1>2, <2>1, <2>3, <2>4, <2>5, <2>6, AgreedAfter
  <2>8. QED
    BY <1>6, <2>1, <2>3, <2>7
<1>14. QED
  BY <1>10, <1>11, <1>12, <1>13 DEF CancelStep

\* The calls of sign on a contract that two users wrote themselves.
LEMMA AgreeDirectStep ==
  ASSUME AgreeInv, NEW r \in Request, SignStep(r), request[r].booking = NoBooking
  PROVE  PhaseInv'
<1> DEFINE c == request[r].contract
<1> USE ContractAssumption
<1>1. request[r].at \in SignCall
  BY DEF SignStep, SettlePayment, FlipContract, Reread, Announce, WithdrawSignature,
     Await, At, SignCall
<1>2. c \in Contract /\ contract[c].booking = NoBooking /\ request[r].at \notin Concluding
  BY <1>1 DEF AgreeInv, SagaInv, TypeInv, HandlerShape, HoldInv, ConcludeInv, OneConcludes
<1>3. /\ request \in [Request -> Handler] /\ booking \in [Booking -> BookingDocument]
      /\ contract \in [Contract -> ContractDocument]
  BY DEF AgreeInv, SagaInv, TypeInv, TypeOK, ContractTypeOK
<1>4. /\ UNCHANGED payment
      /\ UNCHANGED contract \/ Flip(c)
      /\ \E call \in SignCall \cup {"idle"} : Proceed(r, call)
  BY <1>2 DEF SignStep, SettlePayment, FlipContract, Reread, Announce, WithdrawSignature,
     AfterFlip, Await, At, dataVars, ledgerVars, SignCall, Concluding
<1>5. UNCHANGED booking
  BY <1>2, <1>3 DEF SignStep, SettlePayment, FlipContract, Reread, Announce,
     WithdrawSignature, SetStatus, Await, At, dataVars, Concluding
<1>6. /\ contract'[c].booking = NoBooking
      /\ \A d \in Contract \ {c} : contract'[d] = contract[d]
  BY <1>2, <1>3, <1>4 DEF Flip, ContractDocument
<1>7. /\ \A s \in Request \ {r} : request'[s] = request[s]
      /\ request'[r].booking = NoBooking
  BY <1>3, <1>4, ProceedLemma DEF SignCall, Call, Idle, InFlight
<1>8. QED
  BY <1>2, <1>4, <1>5, <1>6, <1>7, PhaseFocus DEF AgreeInv

\* The calls of sign on the contract of a booking.
LEMMA AgreeSignStep ==
  ASSUME Faultless, AgreeInv, NEW r \in Request, SignStep(r),
         NEW b, b = request[r].booking, b # NoBooking,
         NEW c, c = request[r].contract
  PROVE  PhaseInv'
<1> USE ContractAssumption
<1>1. request[r].at \in SignCall
  BY DEF SignStep, SettlePayment, FlipContract, Reread, Announce, WithdrawSignature,
     Await, At, SignCall
<1>2. /\ b \in Booking /\ c \in Contract /\ r \in Handlers(b)
      /\ Agreed(b) /\ Concludes(b, r) /\ booking[b].contract = c
      /\ booking[b].status \in {"accepted", "cancelled", "completed"}
  BY <1>1, ConcludePhase
<1>3. /\ request \in [Request -> Handler] /\ booking \in [Booking -> BookingDocument]
      /\ contract \in [Contract -> ContractDocument]
      /\ payment \in [Contract -> PaymentRow \cup {NoRow}]
  BY DEF AgreeInv, SagaInv, TypeInv, TypeOK, ContractTypeOK, LedgerTypeOK
<1>4. \E call \in SignCall \cup {"idle"} : Proceed(r, call)
  BY DEF SignStep, SettlePayment, FlipContract, Reread, Announce, WithdrawSignature,
     AfterFlip, Await, SignCall
<1>5. /\ \A s \in Request \ {r} : request'[s] = request[s]
      /\ request'[r].booking \in {b, NoBooking} /\ request'[r].at \in SignCall \cup {"idle"}
      /\ OthersWait(r)
  BY <1>2, <1>3, <1>4, ProceedLemma DEF SignCall, Call, Idle, InFlight, OthersWait
<1>6. ASSUME \A d \in Booking \ {b} : booking'[d] = booking[d],
             \A d \in Contract \ {c} : contract'[d] = contract[d] /\ payment'[d] = payment[d],
             contract'[c].booking = contract[c].booking,
             Phase(b)'
      PROVE  PhaseInv'
  <2>1. contract[c].booking = b
    BY <1>2 DEF Agreed, ContractsOf
  <2>2. QED
    BY <1>2, <1>5, <1>6, <2>1, PhaseFocus DEF AgreeInv
<1>7. OneCancels(b) /\ RowFits(c) /\ Resolved(b, c)
  BY <1>2 DEF Agreed
<1>8. ASSUME NEW call \in SignCall, Proceed(r, call)
      PROVE  Handlers(b)' = Handlers(b) /\ request'[r].at = call /\ request'[r].contract = c
  BY <1>2, <1>3, <1>8, ProceedLemma, ProceedHandlers DEF SignCall, Call
<1>9. Proceed(r, "idle") => Handlers(b)' = Handlers(b) \ {r}
  BY <1>2, <1>3, ProceedHandlers
<1>10. \A s \in Handlers(b) \ {r} : s \in Handlers(b)' /\ request'[s] = request[s]
  BY <1>5 DEF Handlers
<1>11. (\E s \in Handlers(b) : request[s].at \in CancelCall) =>
         \E s \in Handlers(b)' : request'[s].at \in CancelCall
  BY <1>1, <1>10 DEF SignCall, CancelCall
<1>12. request'[r].at \notin CancelCall
  BY <1>5 DEF SignCall, CancelCall
<1>13. CASE SettlePayment(r)
  <2>1. /\ request[r].at = "settle" /\ UNCHANGED <<booking, contract>>
        /\ IF Settleable(c) THEN Settle(c) ELSE UNCHANGED ledgerVars
        /\ Proceed(r, IF Settleable(c) \/ Completed(c) THEN "flip" ELSE "pullSignature")
    BY <1>13 DEF Faultless, SettlePayment, Await, At
  <2>2. /\ Handlers(b)' = Handlers(b) /\ request'[r].contract = c
        /\ request'[r].at = IF Settleable(c) \/ Completed(c) THEN "flip" ELSE "pullSignature"
    BY <1>8, <2>1 DEF SignCall
  <2>3. /\ \A d \in Contract \ {c} : payment'[d] = payment[d]
        /\ Settleable(c) => payment[c].status = "pending" /\ payment'[c].status = "completed"
        /\ ~ Settleable(c) => payment'[c] = payment[c]
    BY <1>2, <1>3, <2>1 DEF Settle, Settleable, PaymentRow, NoRow, ledgerVars
  <2>4. contract[c].status # "draft"
    <3>1. AllSigned(c) /\ contract[c].booking \in Booking
      BY <1>2, <2>1
         DEF AgreeInv, SagaInv, ConcludeInv, OneConcludes, Concluding, Agreed, ContractsOf
    <3>2. contract[c].status # "none"
      BY <2>1, ConcludingExists DEF AgreeInv, SagaInv, Concluding
    <3>3. \A u \in User : contract[c].signatories \ {u} # {}
      BY <1>2, <3>1, <3>2 DEF AgreeInv, SagaInv, ConcludeInv, PartiesInv
    <3>4. QED
      BY <1>2, <3>1, <3>3, SagaAssumption DEF AgreeInv, HoldInv, AllSigned
  <2>5. Concludes(b, r)'
    BY <1>2, <2>1, <2>2, <2>3 DEF Concludes, Completed, CancelCall, SignCall
  <2>6. OneCancels(b)'
    <3>1. StaysOrSettles(c) /\ (Completed(c) => payment'[c].status = "completed")
      BY <2>3 DEF StaysOrSettles, Completed
    <3>2. QED
      BY <1>2, <1>5, <1>7, <1>12, <2>1, <2>2, <2>5, <3>1, OneCancelsAfter
  <2>7. RowFits(c)'
    BY <1>7, <2>1, <2>3, <2>4 DEF RowFits, InProgress
  <2>8. Resolved(b, c)'
    <3>1. CASE Settleable(c) \/ Completed(c)
      <4>1. payment'[c].status = "completed" /\ payment[c].status # "cancelled"
        BY <2>3, <3>1 DEF Completed
      <4>2. QED
        BY <1>2, <1>7, <1>11, <2>1, <2>2, <3>1, <4>1 DEF Resolved, Completed
    <3>2. CASE ~ Settleable(c) /\ ~ Completed(c)
      BY <1>2, <1>7, <1>11, <2>1, <2>2, <2>3, <3>2 DEF Resolved, Completed
    <3>3. QED
      BY <3>1, <3>2
  <2>9. Phase(b)'
    BY <1>2, <2>1, <2>6, <2>7, <2>8, AgreedAfter
  <2>10. QED
    BY <1>6, <2>1, <2>3, <2>9
<1>14. CASE FlipContract(r)
  <2>1. /\ request[r].at = "flip" /\ Flip(c) /\ UNCHANGED <<booking, payment>>
        /\ Proceed(r, IF contract[c].status = "partial" THEN "announce" ELSE "reread")
    BY <1>2, <1>14 DEF Faultless, FlipContract, AfterFlip, Await, At, ledgerVars
  <2>2. /\ Handlers(b)' = Handlers(b) /\ request'[r].contract = c
        /\ request'[r].at = IF contract[c].status = "partial" THEN "announce" ELSE "reread"
    BY <1>8, <2>1 DEF SignCall
  <2>3. Completed(c)
    BY <1>2, <2>1 DEF Concludes
  <2>4. /\ contract'[c].status = "fully_signed" /\ contract'[c].booking = contract[c].booking
        /\ \A d \in Contract \ {c} : contract'[d] = contract[d]
    BY <1>2, <1>3, <1>7, <2>1, <2>3 DEF Flip, RowFits, Completed, ContractDocument
  <2>5. Concludes(b, r)'
    BY <1>2, <2>1, <2>2, <2>3, <2>4 DEF Concludes, Completed, CancelCall, SignCall
  <2>6. OneCancels(b)'
    <3>1. StaysOrSettles(c) /\ (Completed(c) => payment'[c].status = "completed")
      BY <2>1 DEF StaysOrSettles, Completed
    <3>2. QED
      BY <1>2, <1>5, <1>7, <1>12, <2>1, <2>2, <2>4, <2>5, <3>1, OneCancelsAfter
  <2>7. RowFits(c)'
    BY <2>1, <2>3, <2>4 DEF RowFits, Completed
  <2>8. Resolved(b, c)'
    BY <1>2, <1>7, <1>11, <2>1, <2>2, <2>3 DEF Resolved, Completed
  <2>9. Phase(b)'
    BY <1>2, <2>1, <2>4, <2>6, <2>7, <2>8, AgreedAfter
  <2>10. QED
    BY <1>6, <2>1, <2>4, <2>9
<1>15. CASE Reread(r)
  <2>1. request[r].at = "reread" /\ UNCHANGED dataVars /\ Proceed(r, "announce")
    BY <1>2, <1>15 DEF Faultless, Reread, AfterFlip, Await, At, Concludes
  <2>2. /\ Handlers(b)' = Handlers(b) /\ request'[r].contract = c
        /\ request'[r].at = "announce"
    BY <1>8, <2>1 DEF SignCall
  <2>3. Completed(c)
    BY <1>2, <2>1 DEF Concludes
  <2>4. Concludes(b, r)'
    BY <1>2, <2>1, <2>2, <2>3 DEF Concludes, Completed, CancelCall, SignCall, dataVars
  <2>5. OneCancels(b)'
    <3>1. StaysOrSettles(c) /\ (Completed(c) => payment'[c].status = "completed")
      BY <2>1 DEF StaysOrSettles, Completed, dataVars
    <3>2. QED
      BY <1>2, <1>5, <1>7, <1>12, <2>1, <2>2, <2>4, <3>1, OneCancelsAfter DEF dataVars
  <2>6. RowFits(c)'
    BY <1>7, <2>1 DEF RowFits, InProgress, dataVars
  <2>7. Resolved(b, c)'
    BY <1>2, <1>7, <1>11, <2>1, <2>2, <2>3 DEF Resolved, Completed, dataVars
  <2>8. Phase(b)'
    BY <1>2, <2>1, <2>5, <2>6, <2>7, AgreedAfter DEF dataVars
  <2>9. QED
    BY <1>6, <2>1, <2>8 DEF dataVars
<1>16. CASE Announce(r)
  <2>1. /\ request[r].at = "announce" /\ Proceed(r, "idle")
        /\ booking' = IF booking[b].status = "accepted"
                        THEN [booking EXCEPT ![b].status = "completed"] ELSE booking
        /\ UNCHANGED <<contract, payment>>
    BY <1>2, <1>16 DEF Faultless, Announce, SetStatus, Await, At, ledgerVars
  <2>2. /\ booking'[b].contract = c
        /\ booking'[b].status =
             IF booking[b].status = "accepted" THEN "completed" ELSE booking[b].status
        /\ \A d \in Booking \ {b} : booking'[d] = booking[d]
    BY <1>2, <1>3, <2>1 DEF BookingDocument
  <2>3. Completed(c)
    BY <1>2, <2>1 DEF Concludes
  <2>4. OneCancels(b)'
    <3>1. StaysOrSettles(c) /\ (Completed(c) => payment'[c].status = "completed")
      BY <2>1 DEF StaysOrSettles, Completed
    <3>2. booking[b].status = "accepted" => OthersKeep(b, r)
      BY <1>7 DEF OneCancels, Concludes, OthersKeep
    <3>3. r \notin Handlers(b)' /\ Handlers(b)' \subseteq Handlers(b) \cup {r}
      BY <1>9, <2>1
    <3>4. QED
      BY <1>2, <1>5, <1>7, <2>1, <2>2, <3>1, <3>2, <3>3, OneCancelsAfter
  <2>5. RowFits(c)'
    BY <1>7, <2>1 DEF RowFits, InProgress
  <2>6. Resolved(b, c)'
    BY <1>2, <1>7, <1>11, <2>1, <2>2, <2>3 DEF Resolved, Completed
  <2>7. Phase(b)'
    BY <1>2, <2>1, <2>2, <2>4, <2>5, <2>6, AgreedAfter
  <2>8. QED
    BY <1>6, <2>1, <2>2, <2>7
<1>17. CASE WithdrawSignature(r)
  <2>1. /\ request[r].at = "pullSignature" /\ Proceed(r, "idle")
        /\ PullSignature(c, request[r].user) /\ UNCHANGED <<booking, payment>>
    BY <1>17 DEF Faultless, WithdrawSignature, Await, At, ledgerVars
  <2>2. /\ contract'[c].status = contract[c].status
        /\ contract'[c].booking = contract[c].booking
        /\ contract'[c].signatories = contract[c].signatories
        /\ contract'[c].signatures = contract[c].signatures \ {request[r].user}
        /\ \A d \in Contract \ {c} : contract'[d] = contract[d]
    BY <1>2, <1>3, <2>1 DEF PullSignature, ContractDocument
  <2>3. request[r].user \in contract[c].signatories
    BY <2>1 DEF AgreeInv, HoldInv, Concluding
  <2>4. ~ AllSigned(c)'
    BY <2>2, <2>3 DEF AllSigned
  <2>5. OneCancels(b)'
    <3>1. StaysOrSettles(c) /\ (Completed(c) => payment'[c].status = "completed")
      BY <2>1 DEF StaysOrSettles, Completed
    <3>2. r \notin Handlers(b)' /\ Handlers(b)' \subseteq Handlers(b) \cup {r}
      BY <1>9, <2>1
    <3>3. QED
      BY <1>2, <1>5, <1>7, <2>1, <2>2, <3>1, <3>2, OneCancelsAfter
  <2>6. RowFits(c)'
    BY <1>7, <2>1, <2>2 DEF RowFits, InProgress
  <2>7. Resolved(b, c)'
    <3>1. (\E s \in Handlers(b) : request[s].at \in {"flip", "reread", "announce"}) =>
            \E s \in Handlers(b)' : request'[s].at \in {"flip", "reread", "announce"}
      BY <1>10, <2>1
    <3>2. QED
      BY <1>7, <1>11, <2>1, <2>2, <2>4, <3>1 DEF Resolved, Completed
  <2>8. Phase(b)'
    BY <1>2, <2>1, <2>2, <2>5, <2>6, <2>7, AgreedAfter
  <2>9. QED
    BY <1>6, <2>1, <2>2, <2>8
<1>18. QED
  BY <1>13, <1>14, <1>15, <1>16, <1>17 DEF SignStep

LEMMA AgreeAccept ==
  ASSUME AgreeInv, NEW r \in Request, NEW b \in Booking, NEW c \in Contract, Accept(r, b, c)
  PROVE  PhaseInv'
<1> DEFINE h == InFlight("resolveNames", b, c, NoUser)
<1>1. Start(r, h) /\ h.booking = b /\ h.at = "resolveNames" /\ UNCHANGED <<contract, payment>>
  BY DEF Accept, InFlight, ledgerVars
<1> HIDE DEF h
<1>2. Handlers(b)' = Handlers(b) \cup {r} /\ OthersWait(r) /\ request'[r] = h
  BY <1>1, StartHandlers DEF AgreeInv, SagaInv
<1>3. request[r].booking = NoBooking
  BY <1>1 DEF AgreeInv, HoldInv, Start, At
<1>4. Untouched(b)
  BY DEF AgreeInv, PhaseInv, Phase, Agreed, Accept
<1>5. /\ booking'[b].status = "accepted" /\ booking'[b].contract = booking[b].contract
      /\ \A d \in Booking \ {b} : booking'[d] = booking[d]
  BY DEF Accept, AgreeInv, SagaInv, TypeInv, TypeOK, BookingDocument
<1>6. Handlers(b)' = {r} /\ ContractsOf(b)' = {} /\ booking'[b].contract = NoContract
  BY <1>1, <1>2, <1>4, <1>5 DEF Untouched, ContractsOf
<1>7. Claims(b, r)'
  BY <1>1, <1>2, <1>6 DEF Claims, AcceptCall
<1>8. Phase(b)'
  BY <1>5, <1>6, <1>7, ClaimedAfter
<1>9. QED
  BY <1>1, <1>2, <1>3, <1>5, <1>8, PhaseFocus DEF AgreeInv, OthersWait

\* Cancel claims the booking; if it is linked, the handler goes on.
LEMMA AgreeCancel ==
  ASSUME AgreeInv, NEW r \in Request, NEW b \in Booking, NEW u \in User, Cancel(r, b, u)
  PROVE  PhaseInv'
<1> USE ContractAssumption
<1>1. /\ booking'[b].status = "cancelled" /\ booking'[b].contract = booking[b].contract
      /\ \A d \in Booking \ {b} : booking'[d] = booking[d]
      /\ booking[b].status \in {"pending", "accepted"}
      /\ UNCHANGED <<contract, payment>>
  BY DEF Cancel, Cancellable, ledgerVars, AgreeInv, SagaInv, TypeInv, TypeOK, BookingDocument
<1>2. Phase(b)
  BY DEF AgreeInv, PhaseInv
<1>3. CASE booking[b].contract = NoContract
  <2>1. UNCHANGED request
    BY <1>3 DEF Cancel
  <2>2. CASE Untouched(b)
    <3>1. Handlers(b)' = {} /\ ContractsOf(b)' = {}
      BY <1>1, <2>1, <2>2 DEF Untouched, Handlers, ContractsOf
    <3>2. Phase(b)'
      BY <1>1, <1>3, <3>1 DEF Phase, Claimed
    <3>3. QED
      BY <1>1, <2>1, <3>2, PhaseFocus DEF AgreeInv
  <2>3. CASE Claimed(b)
    <3>1. Handlers(b)' = Handlers(b) /\ ContractsOf(b)' = ContractsOf(b)
      BY <1>1, <2>1 DEF Handlers, ContractsOf
    <3>2. ASSUME NEW s \in Handlers(b), Claims(b, s) PROVE Claims(b, s)'
      BY <1>1, <2>1, <3>1, <3>2 DEF Claims
    <3>3. Claimed(b)'
      BY <1>1, <2>1, <2>3, <3>1, <3>2 DEF Claimed
    <3>4. Phase(b)'
      BY <1>1, <3>3 DEF Phase
    <3>5. QED
      BY <1>1, <2>1, <3>4, PhaseFocus DEF AgreeInv
  <2>4. QED
    BY <1>2, <1>3, <2>2, <2>3 DEF Phase, Agreed
<1>4. CASE booking[b].contract # NoContract
  <2>1. PICK c \in Contract : c = booking[b].contract
    BY <1>4, LinkedPhase
  <2>2. Agreed(b) /\ booking[b].status = "accepted"
    BY <1>1, <1>4, LinkedPhase
  <2> DEFINE h == InFlight("voidPayment", b, c, NoUser)
  <2>3. Start(r, h) /\ h.booking = b /\ h.at = "voidPayment" /\ h.contract = c
    BY <1>4, <2>1 DEF Cancel, InFlight
  <2> HIDE DEF h
  <2>4. /\ Handlers(b)' = Handlers(b) \cup {r}
        /\ OthersWait(r) /\ request'[r] = h /\ r \notin Handlers(b)
    BY <2>3, StartHandlers DEF AgreeInv, SagaInv
  <2>5. request[r].booking = NoBooking
    BY <2>3 DEF AgreeInv, HoldInv, Start, At
  <2>6. OneCancels(b) /\ RowFits(c) /\ Resolved(b, c)
    BY <2>1, <2>2 DEF Agreed
  <2>7. payment[c].status \in {"pending", "completed"}
    BY <2>2, <2>6 DEF RowFits, Resolved
  <2>8. Concludes(b, r)'
    BY <1>1, <2>1, <2>3, <2>4, <2>7 DEF Concludes, CancelCall
  <2>9. OneCancels(b)'
    <3>1. OthersKeep(b, r)
      BY <2>2, <2>6 DEF OneCancels, Concludes, OthersKeep
    <3>2. Completed(c) => payment'[c].status = "completed"
      BY <1>1 DEF Completed
    <3>3. booking'[b].contract = c /\ Handlers(b)' \subseteq Handlers(b) \cup {r}
      BY <1>1, <2>1, <2>4
    <3>4. QED
      BY <1>1, <2>1, <2>4, <2>6, <2>8, <3>1, <3>2, <3>3, OneCancelsAfter
  <2>10. RowFits(c)'
    BY <1>1, <2>6 DEF RowFits, InProgress
  <2>11. Resolved(b, c)'
    BY <1>1, <2>3, <2>4 DEF Resolved, CancelCall
  <2>12. Phase(b)'
    BY <1>1, <2>1, <2>2, <2>9, <2>10, <2>11, AgreedAfter
  <2>13. QED
    BY <1>1, <2>3, <2>4, <2>5, <2>12, PhaseFocus DEF AgreeInv, OthersWait
<1>5. QED
  BY <1>3, <1>4

\* A signature is added to a contract that is linked, or that two users wrote.
LEMMA AgreeSign ==
  ASSUME ~ SignBeforeLink, AgreeInv,
         NEW r \in Request, NEW c \in Contract, NEW u \in User, Sign(r, c, u)
  PROVE  PhaseInv'
<1> USE ContractAssumption
<1> DEFINE call == IF contract[c].booking = NoBooking THEN "flip" ELSE "settle"
<1>1. PICK b \in Booking \cup {NoBooking} : b = contract[c].booking
  BY DEF AgreeInv, SagaInv, TypeInv, TypeOK, ContractTypeOK, ContractDocument
<1> DEFINE h == InFlight(call, b, c, u)
<1>2. /\ contract'[c].status = "partial" /\ contract'[c].booking = b
      /\ contract'[c].signatories = contract[c].signatories
      /\ contract'[c].signatures = contract[c].signatures \cup {u}
      /\ \A d \in Contract \ {c} : contract'[d] = contract[d]
      /\ InProgress(c) /\ UNCHANGED <<booking, payment>>
  BY <1>1 DEF Sign, MaySign, PushSignature, ledgerVars, AgreeInv, SagaInv, TypeInv, TypeOK,
     ContractTypeOK, ContractDocument
<1>3. IF LastSignature(c, u) THEN Start(r, h) ELSE UNCHANGED request
  BY <1>1 DEF Sign
<1>4. h.booking = b /\ h.at = call /\ h.contract = c
  BY DEF InFlight
<1> HIDE DEF h
<1>5. LastSignature(c, u) =>
        /\ request[r].booking = NoBooking
        /\ OthersWait(r) /\ request'[r] = h
        /\ b \in Booking => r \notin Handlers(b) /\ Handlers(b)' = Handlers(b) \cup {r}
  <2>1. ASSUME LastSignature(c, u)
        PROVE  request[r].booking = NoBooking /\ OthersWait(r) /\ request'[r] = h
    BY <1>3, <2>1 DEF Start, At, AgreeInv, HoldInv, SagaInv, TypeInv, TypeOK, OthersWait
  <2>2. ASSUME LastSignature(c, u), b \in Booking
        PROVE  r \notin Handlers(b) /\ Handlers(b)' = Handlers(b) \cup {r}
    BY <1>3, <1>4, <2>2, StartHandlers DEF AgreeInv, SagaInv
  <2>3. QED
    BY <2>1, <2>2
<1>6. ASSUME b \in Booking PROVE Phase(b)'
  <2>1. booking[b].contract = c /\ c # NoContract /\ call = "settle"
    BY <1>1, <1>6, SagaAssumption DEF Sign, Published
  <2>2. Agreed(b) /\ booking[b].status \in {"accepted", "cancelled", "completed"}
    BY <1>6, <2>1, LinkedPhase
  <2>3. OneCancels(b) /\ RowFits(c) /\ Resolved(b, c)
    BY <2>1, <2>2 DEF Agreed
  <2>4. /\ \A s \in Handlers(b) : s \in Handlers(b)' /\ request'[s] = request[s]
        /\ LastSignature(c, u) => \E s \in Handlers(b)' : request'[s].at = "settle"
    <3>1. CASE LastSignature(c, u)
      BY <1>4, <1>5, <1>6, <2>1, <3>1 DEF OthersWait, Handlers
    <3>2. CASE ~ LastSignature(c, u)
      BY <1>3, <3>2 DEF Handlers
    <3>3. QED
      BY <3>1, <3>2
  <2>5. OneCancels(b)'
    <3>1. /\ Completed(c) => payment'[c].status = "completed"
          /\ StaysOrSettles(c)
          /\ contract[c].status # "fully_signed"
      BY <1>2 DEF Completed, StaysOrSettles, InProgress
    <3>2. CASE LastSignature(c, u)
      <4>1. Concludes(b, r)'
        BY <1>2, <1>4, <1>5, <2>1, <3>2 DEF Concludes, CancelCall, SignCall
      <4>2. request'[r].at \notin CancelCall /\ Handlers(b)' \subseteq Handlers(b) \cup {r}
        BY <1>4, <1>5, <1>6, <2>1, <3>2 DEF CancelCall
      <4>3. QED
        BY <1>2, <1>5, <1>6, <2>1, <2>3, <3>1, <3>2, <4>1, <4>2, OneCancelsAfter
    <3>3. CASE ~ LastSignature(c, u)
      <4>1. UNCHANGED request /\ Handlers(b)' = Handlers(b)
        BY <1>3, <3>3 DEF Handlers
      <4>2. ASSUME NEW s \in Handlers(b), Concludes(b, s) PROVE Concludes(b, s)'
        BY <1>2, <2>1, <3>1, <4>1, <4>2 DEF Concludes, Completed
      <4>3. QED
        BY <2>3, <4>1, <4>2 DEF OneCancels
    <3>4. QED
      BY <3>2, <3>3
  <2>6. RowFits(c)'
    BY <1>2, <2>3 DEF RowFits, InProgress
  <2>7. Resolved(b, c)'
    <3>1. AllSigned(c)' => LastSignature(c, u)
      BY <1>2 DEF AllSigned, LastSignature
    <3>2. (\E s \in Handlers(b) : request[s].at \in {"flip", "reread", "announce"}) =>
            \E s \in Handlers(b)' : request'[s].at \in {"flip", "reread", "announce"}
      BY <2>4
    <3>3. (\E s \in Handlers(b) : request[s].at \in CancelCall) =>
            \E s \in Handlers(b)' : request'[s].at \in CancelCall
      BY <2>4
    <3>4. LastSignature(c, u) =>
            \E s \in Handlers(b)' : request'[s].at \in {"settle", "pullSignature"}
      BY <2>4
    <3>5. contract[c].status # "cancelled"
      BY <1>2 DEF InProgress
    <3>6. QED
      BY <1>2, <2>3, <3>1, <3>2, <3>3, <3>4, <3>5 DEF Resolved, Completed
  <2>8. Phase(b)'
    <3>1. \A d \in Contract : contract'[d].booking = contract[d].booking
      BY <1>1, <1>2
    <3>2. booking'[b].contract = c /\ booking'[b].status \in {"accepted", "cancelled", "completed"}
      BY <1>2, <2>1, <2>2
    <3>3. QED
      BY <1>6, <2>1, <2>2, <2>5, <2>6, <2>7, <3>1, <3>2, AgreedAfter
  <2>9. QED
    BY <2>8
<1>7. \A s \in Request :
        \/ request'[s] = request[s]
        \/ request[s].booking \in {b, NoBooking} /\ request'[s].booking \in {b, NoBooking}
  BY <1>3, <1>4, <1>5 DEF OthersWait
<1>8. QED
  BY <1>1, <1>2, <1>6, <1>7, PhaseFocus DEF AgreeInv

\* A read heals the contract of a completed payment.
LEMMA AgreeHeal ==
  ASSUME AgreeInv, NEW c \in Contract, Heal(c)
  PROVE  PhaseInv'
<1> USE ContractAssumption
<1>1. PICK b \in Booking : b = contract[c].booking
  BY DEF Heal, AgreeInv, SagaInv, TypeInv, TypeOK, ContractTypeOK, ContractDocument
<1>2. /\ contract'[c].status = "fully_signed" /\ contract'[c].booking = b
      /\ contract'[c].signatories = contract[c].signatories
      /\ contract'[c].signatures = contract[c].signatures
      /\ \A d \in Contract \ {c} : contract'[d] = contract[d]
      /\ Completed(c) /\ InProgress(c) /\ UNCHANGED <<booking, payment, request>>
  BY <1>1 DEF Heal, HealContract, ledgerVars, AgreeInv, SagaInv, TypeInv, TypeOK,
     ContractTypeOK, ContractDocument
<1>3. booking[b].contract = c /\ c # NoContract
  BY <1>1, <1>2, SagaAssumption DEF AgreeInv, SagaInv, DealInv, Linked
<1>4. Agreed(b) /\ booking[b].status \in {"accepted", "cancelled", "completed"}
  BY <1>3, LinkedPhase
<1>5. OneCancels(b) /\ RowFits(c) /\ Resolved(b, c) /\ Handlers(b)' = Handlers(b)
  BY <1>2, <1>3, <1>4 DEF Agreed, Handlers
<1>6. ASSUME NEW s \in Handlers(b), Concludes(b, s) PROVE Concludes(b, s)'
  BY <1>2, <1>3, <1>6 DEF Concludes, Completed
<1>7. OneCancels(b)'
  BY <1>2, <1>5, <1>6 DEF OneCancels
<1>8. RowFits(c)'
  BY <1>2 DEF RowFits, Completed
<1>9. Resolved(b, c)'
  BY <1>2, <1>5 DEF Resolved, Completed
<1>10. Phase(b)'
  <2>1. \A d \in Contract : contract'[d].booking = contract[d].booking
    BY <1>1, <1>2
  <2>2. QED
    BY <1>2, <1>3, <1>4, <1>7, <1>8, <1>9, <2>1, AgreedAfter
<1>11. QED
  BY <1>1, <1>2, <1>10, PhaseFocus DEF AgreeInv

LEMMA AgreeUserStep ==
  ASSUME ~ SignBeforeLink, AgreeInv, UserStep
  PROVE  PhaseInv'
<1> USE ContractAssumption
<1>t. /\ request \in [Request -> Handler] /\ booking \in [Booking -> BookingDocument]
      /\ contract \in [Contract -> ContractDocument]
  BY DEF AgreeInv, SagaInv, TypeInv, TypeOK, ContractTypeOK
<1>1. ASSUME NEW r \in Request, NEW u \in User, RequestBooking(r, u)
      PROVE  PhaseInv'
  <2>1. /\ request[r].booking = NoBooking /\ request'[r].booking = NoBooking
        /\ \A s \in Request \ {r} : request'[s] = request[s]
    BY <1>1, <1>t DEF RequestBooking, Start, At, InFlight, AgreeInv, HoldInv
  <2>2. QED
    BY <1>1, <2>1, PhaseFocus DEF RequestBooking, dataVars, AgreeInv
<1>2. ASSUME NEW b \in Booking, Decline(b) PROVE PhaseInv'
  <2>1. /\ booking'[b].status = "declined" /\ booking'[b].contract = booking[b].contract
        /\ \A d \in Booking \ {b} : booking'[d] = booking[d]
        /\ UNCHANGED <<contract, payment, request>>
    BY <1>2, <1>t DEF Decline, ledgerVars, BookingDocument
  <2>2. Untouched(b)
    BY <1>2 DEF AgreeInv, PhaseInv, Phase, Decline
  <2>3. Phase(b)'
    BY <2>1, <2>2 DEF Phase, Untouched, ContractsOf, Handlers
  <2>4. QED
    BY <2>1, <2>3, PhaseFocus DEF AgreeInv
<1>3. ASSUME NEW c \in Contract, NEW s \in DirectSignatories, CreateDirect(c, s)
      PROVE  PhaseInv'
  <2>1. /\ contract[c].booking = NoBooking /\ contract'[c].booking = NoBooking
        /\ \A d \in Contract \ {c} : contract'[d] = contract[d]
        /\ UNCHANGED <<booking, payment, request>>
    BY <1>3, <1>t DEF CreateDirect, Fresh, SaveDraft, ledgerVars, AgreeInv, HoldInv
  <2>2. QED
    BY <2>1, PhaseFocus DEF AgreeInv
<1>4. ASSUME NEW u \in User, NEW v \in User, NEW n \in Gift, GiveUser(u, v, n)
      PROVE  PhaseInv'
  <2>1. UNCHANGED <<booking, contract, payment, request>>
    BY <1>4 DEF GiveUser, Transfer
  <2>2. QED
    BY <2>1, PhaseFocus DEF AgreeInv
<1>5. QED
  BY <1>1, <1>2, <1>3, <1>4, AgreeAccept, AgreeCancel, AgreeSign, AgreeHeal DEF UserStep

\* A created booking is untouched.
LEMMA AgreeCreateBooking ==
  ASSUME Faultless, AgreeInv, NEW r \in Request, CreateBooking(r)
  PROVE  PhaseInv'
<1> USE ContractAssumption
<1>1. PICK b \in Booking :
        /\ booking[b].status = "none"
        /\ booking' = [booking EXCEPT ![b] =
                         [status |-> "pending", contract |-> NoContract,
                          initiator |-> request[r].user]]
        /\ UNCHANGED <<contract, payment>>
        /\ request[r].at = "createBooking" /\ Proceed(r, "idle")
  BY DEF Faultless, CreateBooking, Await, At, ledgerVars
<1>2. /\ booking'[b].status = "pending" /\ booking'[b].contract = NoContract
      /\ \A d \in Booking \ {b} : booking'[d] = booking[d]
  BY <1>1 DEF AgreeInv, SagaInv, TypeInv, TypeOK
<1>3. Untouched(b)
  BY <1>1 DEF AgreeInv, PhaseInv, Phase
<1>4. /\ \A s \in Request \ {r} : request'[s] = request[s]
      /\ request[r].booking = NoBooking /\ request'[r].booking = NoBooking
  BY <1>1, ProceedLemma DEF AgreeInv, SagaInv, TypeInv, TypeOK, HoldInv, Idle, InFlight
<1>5. Untouched(b)'
  BY <1>1, <1>2, <1>3, <1>4 DEF Untouched, ContractsOf, Handlers
<1>6. Phase(b)'
  BY <1>2, <1>5 DEF Phase
<1>7. QED
  BY <1>1, <1>2, <1>4, <1>6, PhaseFocus DEF AgreeInv

LEMMA AgreeStep ==
  ASSUME Faultless, ~ SignBeforeLink, AgreeInv, [Next]_sagaVars
  PROVE  PhaseInv'
<1>1. ASSUME NEW r \in Request, CancelStep(r) PROVE PhaseInv'
  BY <1>1, AgreeCancelStep
<1>2. ASSUME NEW r \in Request, AcceptStep(r) PROVE PhaseInv'
  BY <1>2, AgreeAcceptStep
<1>3. ASSUME NEW r \in Request, SignStep(r) PROVE PhaseInv'
  BY <1>3, AgreeSignStep, AgreeDirectStep
<1>4. CASE UNCHANGED sagaVars
  <2>1. \A b \in Booking : Phase(b)'
    BY <1>4, PhaseStill DEF sagaVars, AgreeInv, PhaseInv
  <2>2. QED
    BY <2>1 DEF PhaseInv
<1>5. QED
  BY <1>1, <1>2, <1>3, <1>4, AgreeUserStep, AgreeCreateBooking
     DEF Next, HandlerStep, Crash, Faultless

LEMMA AgreeInit == Init => HoldInv /\ PhaseInv
<1> SUFFICES ASSUME Init PROVE HoldInv /\ PhaseInv
  OBVIOUS
<1> USE ContractAssumption
         DEF Init, ContractInit, NoBookingDocument, NoDocument, Idle, InFlight
<1>1. HoldInv
  BY DEF HoldInv, SignCall, Concluding
<1>2. ASSUME NEW b \in Booking PROVE Phase(b)
  <2>1. Handlers(b) = {} /\ ContractsOf(b) = {}
    BY DEF Handlers, ContractsOf
  <2>2. QED
    BY <2>1 DEF Phase, Untouched
<1>3. QED
  BY <1>1, <1>2 DEF PhaseInv

\* What holds in every phase, and what a phase says when nobody works on the booking.
LEMMA PhasesAgree == AgreeInv => Agreement
<1> SUFFICES ASSUME AgreeInv PROVE Agreement
  OBVIOUS
<1> USE ContractAssumption
<1>1. ASSUME NEW c \in Contract, Completed(c)
      PROVE  /\ contract[c].booking \in Booking
             /\ booking[contract[c].booking].contract = c
             /\ Agreed(contract[c].booking)
             /\ contract[c].status # "cancelled"
  <2>1. PICK b : b = contract[c].booking
    OBVIOUS
  <2>2. b \in Booking /\ booking[b].contract = c
    BY <1>1, <2>1 DEF AgreeInv, SagaInv, DealInv, Linked, TypeInv, TypeOK, ContractTypeOK,
       ContractDocument
  <2>3. Agreed(b)
    BY <2>2, LinkedPhase, SagaAssumption
  <2>4. contract[c].status # "cancelled"
    BY <1>1, <2>2, <2>3 DEF Agreed, RowFits, Completed
  <2>5. QED
    BY <2>1, <2>2, <2>3, <2>4
<1>2. CancelledIsUnpaid
  BY <1>1 DEF CancelledIsUnpaid
<1>3. ASSUME NEW b \in Booking, Quiet(b)
      PROVE  /\ booking[b].status = "completed" <=> \E c \in ContractsOf(b) : Completed(c)
             /\ booking[b].status \in {"pending", "declined", "cancelled"} =>
                  \A c \in ContractsOf(b) : ~ InProgress(c) /\ payment[c].status # "pending"
             /\ booking[b].status = "accepted" =>
                  /\ booking[b].contract # NoContract
                  /\ payment[booking[b].contract].status = "pending"
                  /\ \E u \in User : MaySign(booking[b].contract, u)
  <2>1. Phase(b) /\ Handlers(b) = {}
    BY <1>3 DEF AgreeInv, PhaseInv, Quiet, Handlers
  <2>2. CASE Untouched(b) /\ booking[b].status \in {"none", "pending", "declined"}
    BY <2>2 DEF Untouched
  <2>3. CASE Claimed(b) /\ booking[b].status \in {"accepted", "cancelled"}
    BY <2>1, <2>3 DEF Claimed, InProgress, Completed
  <2>4. CASE Agreed(b) /\ booking[b].status \in {"accepted", "cancelled", "completed"}
    <3>1. PICK c : c = booking[b].contract
      OBVIOUS
    <3>2. c \in Contract /\ c # NoContract /\ ContractsOf(b) = {c}
      BY <2>4, <3>1 DEF Agreed, ContractsOf
    <3>3. RowFits(c) /\ Resolved(b, c)
      BY <2>4, <3>1 DEF Agreed
    <3>4. CASE booking[b].status = "completed"
      BY <3>2, <3>3, <3>4 DEF Resolved
    <3>5. CASE booking[b].status = "cancelled"
      BY <2>1, <3>2, <3>3, <3>5 DEF Resolved, Completed, InProgress
    <3>6. CASE booking[b].status = "accepted"
      <4>1. payment[c].status = "pending" /\ InProgress(c) /\ ~ AllSigned(c)
        BY <2>1, <3>3, <3>6 DEF Resolved, RowFits, Completed
      <4>2. contract[c].signatories \subseteq User
        BY <3>2 DEF AgreeInv, SagaInv, TypeInv, TypeOK, ContractTypeOK, ContractDocument
      <4>3. \E u \in User : MaySign(c, u)
        BY <4>1, <4>2 DEF AllSigned, MaySign
      <4>4. QED
        BY <3>1, <3>2, <3>6, <4>1, <4>3 DEF Completed
    <3>7. QED
      BY <2>4, <3>4, <3>5, <3>6
  <2>5. QED
    BY <2>1, <2>2, <2>3, <2>4 DEF Phase
<1>4. QED
  BY <1>2, <1>3 DEF Agreement

\* For any users, bookings, contracts and handlers: when no call fails and no
\* handler dies, a booking nobody works on agrees with its contracts and their
\* payments, however requests, decisions, signatures, reads and cancellations
\* interleaved. The condition on faults is needed, a handler that dies leaves its
\* booking half done; so is that a contract is signed only once it is linked.
THEOREM BookingsAgree ==
  ASSUME Faultless, ~ SignBeforeLink
  PROVE  Spec => []Agreement
<1>1. Init => DealInv /\ HoldInv /\ PhaseInv
  BY AgreeInit, DealInit
<1>2. SagaInv /\ [Next]_sagaVars => DealInv'
  BY DealStep
<1>3. AgreeInv /\ [Next]_sagaVars => HoldInv'
  BY HoldStep DEF AgreeInv, SagaInv
<1>4. AgreeInv /\ [Next]_sagaVars => PhaseInv'
  BY AgreeStep
<1>5. AgreeInv <=> SagaInv /\ HoldInv /\ PhaseInv
  BY DEF AgreeInv
<1>6. SagaInv <=> TypeInv /\ PayInv /\ LinkInv /\ ConcludeInv /\ DealInv
  BY DEF SagaInv
<1>7. QED
  BY <1>1, <1>2, <1>3, <1>4, <1>5, <1>6, PhasesAgree, LinkInvariant, ConcludeInvariant, PTL
     DEF Spec
=============================================================================
