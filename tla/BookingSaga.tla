---------------------------- MODULE BookingSaga -----------------------------
(***************************************************************************)
(* The booking saga of the API: api/src/bookings, api/src/contracts and    *)
(* api/src/points.  A booking of a paid service is requested, accepted,    *)
(* declined or cancelled; accepting it creates a contract (MongoDB) and    *)
(* reserves its payment (Postgres); the last signature of the contract     *)
(* settles the payment and completes the booking.                          *)
(*                                                                         *)
(* No transaction spans the two databases.  A handler is a sequence of     *)
(* awaited calls, each of which is atomic in its own database, and other   *)
(* handlers run between any two of them.  A handler in flight is a Request *)
(* whose "at" names the call it makes next; that call and the synchronous  *)
(* code up to the following await are one step.                            *)
(*                                                                         *)
(* Reads made only to reject early (the booking exists, the user is a      *)
(* party, not signed yet) are merged with the conditional update that      *)
(* follows them and checks the same thing: a stale read only rejects more. *)
(***************************************************************************)
EXTENDS ServiceContracts

CONSTANTS
  Request,     \* the handlers that may be in flight at the same time
  Owner,       \* the user who published the service
  OwnerPays,   \* service.direction = "request": the owner pays the initiator
  Price,       \* computeServicePrice of the service
  NoContract,
  NoUser,
  Gift,        \* amounts users transfer to each other
  MayFail,     \* calls that may throw without having had any effect
  MayLoseAck,  \* calls that may take effect and still throw
  MayCrash,    \* a handler may die between two calls (restart of the API)
  SignBeforeLink  \* a party signs a contract found in GET /contracts before
                  \* accept has linked it to the booking

\* The awaited calls of the handlers, in the order they are made.
Call == {"createBooking", "resolveNames", "createContract", "reserve", "link",
         "unwindContract", "unwindPayment", "releaseClaim",
         "voidPayment", "checkPaid", "markCompleted", "cancelContract",
         "settle", "flip", "reread", "announce", "pullSignature"}

ASSUME SagaAssumption ==
  /\ Owner \in User /\ OwnerPays \in BOOLEAN /\ Price \in Nat
  /\ NoContract \notin Contract /\ NoUser \notin User
  /\ Gift \subseteq Nat
  /\ MayFail \subseteq Call /\ MayLoseAck \subseteq Call
  /\ MayCrash \in BOOLEAN /\ SignBeforeLink \in BOOLEAN

VARIABLES
  booking,     \* the booking documents
  request      \* the handlers in flight

sagaVars == <<booking, contract, balance, payment, transferred, request>>

BookingStatus == {"pending", "accepted", "declined", "cancelled", "completed"}

BookingDocument ==
  [status : BookingStatus \cup {"none"}, initiator : User \cup {NoUser},
   contract : Contract \cup {NoContract}]

NoBookingDocument ==
  [status |-> "none", initiator |-> NoUser, contract |-> NoContract]

\* What a handler in flight holds in its local variables.
Handler ==
  [at : Call \cup {"idle"}, booking : Booking \cup {NoBooking},
   contract : Contract \cup {NoContract}, user : User \cup {NoUser}]

InFlight(call, b, c, u) == [at |-> call, booking |-> b, contract |-> c, user |-> u]

Idle == InFlight("idle", NoBooking, NoContract, NoUser)

Init ==
  /\ LedgerInit
  /\ ContractInit
  /\ booking = [b \in Booking |-> NoBookingDocument]
  /\ request = [r \in Request |-> Idle]

-----------------------------------------------------------------------------
\* resolveParties.
Payer(b) == IF OwnerPays THEN Owner ELSE booking[b].initiator
Payee(b) == IF OwnerPays THEN booking[b].initiator ELSE Owner

Active(b) == booking[b].status \in {"pending", "accepted"}

SetStatus(b, from, to) ==
  booking' = IF booking[b].status \in from
               THEN [booking EXCEPT ![b].status = to]
               ELSE booking

-----------------------------------------------------------------------------
At(r, call) == request[r].at = call

Start(r, handler) == At(r, "idle") /\ request' = [request EXCEPT ![r] = handler]

\* The handler awaits its next call; "idle" is its return, or its throw.
Proceed(r, call) ==
  request' = [request EXCEPT ![r] =
                IF call = "idle" THEN Idle ELSE [@ EXCEPT !.at = call]]

dataVars == <<booking, contract, balance, payment, transferred>>

\* The awaited call of r takes effect and returns, takes effect and throws
\* (its answer was lost), or throws without effect.
Await(r, call, effect, onReturn, onThrow) ==
  /\ At(r, call)
  /\ \/ effect /\ Proceed(r, onReturn)
     \/ call \in MayLoseAck /\ effect /\ Proceed(r, onThrow)
     \/ call \in MayFail /\ UNCHANGED dataVars /\ Proceed(r, onThrow)

\* A contract id that no document and no handler in flight has.  Contract is
\* finite: it bounds how often a booking is accepted again after an unwinding.
Fresh(c) ==
  /\ contract[c].status = "none"
  /\ \A r \in Request : request[r].contract # c

-----------------------------------------------------------------------------
(* BookingsService.request: findOne an active booking, then create one.    *)

RequestBooking(r, u) ==
  /\ u # Owner
  /\ ~ \E b \in Booking : booking[b].initiator = u /\ Active(b)
  /\ Start(r, InFlight("createBooking", NoBooking, NoContract, u))
  /\ UNCHANGED dataVars

CreateBooking(r) ==
  \E b \in Booking :
    /\ booking[b].status = "none"
    /\ Await(r, "createBooking",
             /\ booking' = [booking EXCEPT ![b] =
                              [status |-> "pending", contract |-> NoContract,
                               initiator |-> request[r].user]]
             /\ UNCHANGED <<contract, ledgerVars>>,
             "idle", "idle")

-----------------------------------------------------------------------------
(* BookingsService.accept by the owner of the service.                     *)

\* The atomic claim.  The id the contract will get is picked here.
Accept(r, b, c) ==
  /\ booking[b].status = "pending"
  /\ Fresh(c)
  /\ booking' = [booking EXCEPT ![b].status = "accepted"]
  /\ Start(r, InFlight("resolveNames", b, c, NoUser))
  /\ UNCHANGED <<contract, ledgerVars>>

\* resolveNames is awaited before the try block: its error unwinds nothing.
ResolveNames(r) ==
  Await(r, "resolveNames", UNCHANGED dataVars, "createContract", "idle")

\* createServiceContract: the PDF that follows the save is best effort.
CreateContract(r) ==
  LET b == request[r].booking
  IN  Await(r, "createContract",
            /\ SaveDraft(request[r].contract, b, {Payer(b), Payee(b)})
            /\ UNCHANGED <<booking, ledgerVars>>,
            "reserve", "releaseClaim")

\* Mutant of ReservePayment: payer and payee are swapped.
ReservePaymentSwapped(r) ==
  LET b == request[r].booking
  IN  Await(r, "reserve",
            /\ Reserve(request[r].contract, Payee(b), Payer(b), Price)
            /\ UNCHANGED <<booking, contract>>,
            "link", "unwindContract")

ReservePayment(r) ==
  LET b == request[r].booking
  IN  Await(r, "reserve",
            /\ Reserve(request[r].contract, Payer(b), Payee(b), Price)
            /\ UNCHANGED <<booking, contract>>,
            "link", "unwindContract")

\* Mutant of Linkable: the filter on contractId is missing.
LinkableAgain(b) == booking[b].status = "accepted"

\* The guarded link: a booking cancelled meanwhile does not match.
Linkable(b) == booking[b].status = "accepted" /\ booking[b].contract = NoContract

\* Mutant of Link: the contract id is not stored.
LinkForgotten(r) ==
  Await(r, "link", UNCHANGED dataVars, "idle", "unwindContract")

Link(r) ==
  LET b == request[r].booking
  IN  Await(r, "link",
            /\ booking' = IF Linkable(b)
                            THEN [booking EXCEPT ![b].contract = request[r].contract]
                            ELSE booking
            /\ UNCHANGED <<contract, ledgerVars>>,
            IF Linkable(b) THEN "idle" ELSE "unwindContract", "unwindContract")

\* compensateAccept: three calls whose errors are swallowed.
UnwindContract(r) ==
  Await(r, "unwindContract",
        CancelContract(request[r].contract) /\ UNCHANGED <<booking, ledgerVars>>,
        "unwindPayment", "unwindPayment")

UnwindPayment(r) ==
  Await(r, "unwindPayment",
        Void(request[r].contract) /\ UNCHANGED <<booking, contract>>,
        "releaseClaim", "releaseClaim")

\* Mutant of ReleaseClaim: the filter on the status is missing.
ReleaseClaimAny(r) ==
  LET b == request[r].booking
  IN  Await(r, "releaseClaim",
            /\ booking' = IF booking[b].contract = NoContract
                            THEN [booking EXCEPT ![b].status = "pending"]
                            ELSE booking
            /\ UNCHANGED <<contract, ledgerVars>>,
            "idle", "idle")

ReleaseClaim(r) ==
  LET b == request[r].booking
  IN  Await(r, "releaseClaim",
            /\ booking' = IF Linkable(b)
                            THEN [booking EXCEPT ![b].status = "pending"]
                            ELSE booking
            /\ UNCHANGED <<contract, ledgerVars>>,
            "idle", "idle")

\* BookingsService.decline: one atomic claim.
Decline(b) ==
  /\ booking[b].status = "pending"
  /\ booking' = [booking EXCEPT ![b].status = "declined"]
  /\ UNCHANGED <<contract, ledgerVars, request>>

-----------------------------------------------------------------------------
(* BookingsService.cancel by a party of the booking.                       *)

\* The initiator cancels a pending or an accepted booking, the owner only an
\* accepted one.
Cancellable(b, u) ==
  booking[b].status \in IF u = booking[b].initiator THEN {"pending", "accepted"}
                                                    ELSE {"accepted"}

\* The atomic claim; without a linked contract the handler is done.
Cancel(r, b, u) ==
  LET c == booking[b].contract
  IN  /\ u \in {booking[b].initiator, Owner}
      /\ Cancellable(b, u)
      /\ booking' = [booking EXCEPT ![b].status = "cancelled"]
      /\ IF c = NoContract
           THEN At(r, "idle") /\ UNCHANGED request
           ELSE Start(r, InFlight("voidPayment", b, c, NoUser))
      /\ UNCHANGED <<contract, ledgerVars>>

\* Mutant of VoidPayment: the contract is cancelled without it.
VoidPaymentSkipped(r) ==
  Await(r, "voidPayment", UNCHANGED dataVars, "cancelContract", "idle")

\* A pending payment is voided first; otherwise it may have been settled.
VoidPayment(r) ==
  LET c == request[r].contract
  IN  Await(r, "voidPayment",
            Void(c) /\ UNCHANGED <<booking, contract>>,
            IF payment[c].status = "pending" THEN "cancelContract" ELSE "checkPaid",
            "idle")

\* Mutant of CheckPaid: a payment that was not voided is taken for unpaid.
CheckPaidIgnored(r) ==
  Await(r, "checkPaid", UNCHANGED dataVars, "cancelContract", "idle")

CheckPaid(r) ==
  Await(r, "checkPaid", UNCHANGED dataVars,
        IF Completed(request[r].contract) THEN "markCompleted" ELSE "cancelContract",
        "idle")

\* A settled payment wins: the booking is completed after all.
MarkCompleted(r) ==
  Await(r, "markCompleted",
        /\ SetStatus(request[r].booking, {"cancelled"}, "completed")
        /\ UNCHANGED <<contract, ledgerVars>>,
        "idle", "idle")

CancelLinkedContract(r) ==
  Await(r, "cancelContract",
        CancelContract(request[r].contract) /\ UNCHANGED <<booking, ledgerVars>>,
        "idle", "idle")

-----------------------------------------------------------------------------
(* ContractsService.sign by a signatory.                                   *)

\* The contract is linked to its booking, or belongs to none.
Published(c) ==
  contract[c].booking # NoBooking => booking[contract[c].booking].contract = c

\* The atomic claim of the signature slot.  Only the request that lands the
\* last signature goes on to settle (a booking's contract) and to flip.
Sign(r, c, u) ==
  /\ SignBeforeLink \/ Published(c)
  /\ MaySign(c, u)
  /\ PushSignature(c, u)
  /\ IF LastSignature(c, u)
       THEN Start(r, InFlight(IF contract[c].booking = NoBooking THEN "flip" ELSE "settle",
                              contract[c].booking, c, u))
       ELSE At(r, "idle") /\ UNCHANGED request
  /\ UNCHANGED <<booking, ledgerVars>>

\* Mutant of SettlePayment: its error is swallowed.
SettlePaymentSwallowed(r) ==
  LET c == request[r].contract
  IN  Await(r, "settle",
            /\ IF Settleable(c) THEN Settle(c) ELSE UNCHANGED ledgerVars
            /\ UNCHANGED <<booking, contract>>,
            "flip", "flip")

\* completeServicePayment: nothing to do when already completed; it throws
\* when there is no row, when it was voided and when the payer cannot pay.
SettlePayment(r) ==
  LET c == request[r].contract
  IN  Await(r, "settle",
            /\ IF Settleable(c) THEN Settle(c) ELSE UNCHANGED ledgerVars
            /\ UNCHANGED <<booking, contract>>,
            IF Settleable(c) \/ Completed(c) THEN "flip" ELSE "pullSignature",
            "pullSignature")

\* Announcing a signed contract concerns bookings only.
AfterFlip(r) == IF request[r].booking = NoBooking THEN "idle" ELSE "announce"

FlipContract(r) ==
  LET c == request[r].contract
  IN  Await(r, "flip",
            Flip(c) /\ UNCHANGED <<booking, ledgerVars>>,
            IF contract[c].status = "partial" THEN AfterFlip(r) ELSE "reread",
            "idle")

\* Mutant of Reread: a flip that did not match is taken for a cancellation.
RereadCancelled(r) == Await(r, "reread", UNCHANGED dataVars, "idle", "idle")

\* The flip did not match: a read may have flipped the contract first.
Reread(r) ==
  Await(r, "reread", UNCHANGED dataVars,
        IF contract[request[r].contract].status = "fully_signed"
          THEN AfterFlip(r) ELSE "idle",
        "idle")

\* CONTRACT_FULLY_SIGNED is emitted once the PDF is stamped: the listener
\* onContractFullySigned completes the booking.
Announce(r) ==
  Await(r, "announce",
        /\ SetStatus(request[r].booking, {"accepted"}, "completed")
        /\ UNCHANGED <<contract, ledgerVars>>,
        "idle", "idle")

\* Mutant of WithdrawSignature: the signature stays.
WithdrawSignatureKept(r) ==
  Await(r, "pullSignature", UNCHANGED dataVars, "idle", "idle")

\* rollbackSignature, best effort.  Its second update, back to draft when no
\* signature is left, has no step: WithdrawalLeavesSignature says it never runs.
WithdrawSignature(r) ==
  Await(r, "pullSignature",
        /\ PullSignature(request[r].contract, request[r].user)
        /\ UNCHANGED <<booking, ledgerVars>>,
        "idle", "idle")

-----------------------------------------------------------------------------
\* ContractsService.findOne: a read heals the contract of a completed payment.
Heal(c) ==
  /\ contract[c].booking # NoBooking
  /\ Completed(c)
  /\ HealContract(c)
  /\ UNCHANGED <<booking, ledgerVars, request>>

\* ContractsService.create: a contract two users write themselves.
CreateDirect(c, signatories) ==
  /\ Fresh(c)
  /\ SaveDraft(c, NoBooking, signatories)
  /\ UNCHANGED <<booking, ledgerVars, request>>

\* PointsController.transfer.
GiveUser(u, v, amount) ==
  /\ Transfer(u, v, amount)
  /\ UNCHANGED <<booking, contract, request>>

\* The handler dies between two calls.
Crash(r) ==
  /\ MayCrash
  /\ ~ At(r, "idle")
  /\ Proceed(r, "idle")
  /\ UNCHANGED dataVars

-----------------------------------------------------------------------------
\* What users do; nobody has to.
UserStep ==
  \/ \E r \in Request, u \in User : RequestBooking(r, u)
  \/ \E r \in Request, b \in Booking, c \in Contract : Accept(r, b, c)
  \/ \E b \in Booking : Decline(b)
  \/ \E r \in Request, b \in Booking, u \in User : Cancel(r, b, u)
  \/ \E r \in Request, c \in Contract, u \in User : Sign(r, c, u)
  \/ \E c \in Contract : Heal(c)
  \/ \E c \in Contract, s \in DirectSignatories : CreateDirect(c, s)
  \/ \E u, v \in User, amount \in Gift : GiveUser(u, v, amount)

AcceptStep(r) ==
  \/ ResolveNames(r)
  \/ CreateContract(r)
  \/ ReservePayment(r)
  \/ Link(r)
  \/ UnwindContract(r)
  \/ UnwindPayment(r)
  \/ ReleaseClaim(r)

CancelStep(r) ==
  \/ VoidPayment(r)
  \/ CheckPaid(r)
  \/ MarkCompleted(r)
  \/ CancelLinkedContract(r)

SignStep(r) ==
  \/ SettlePayment(r)
  \/ FlipContract(r)
  \/ Reread(r)
  \/ Announce(r)
  \/ WithdrawSignature(r)

\* The next call of a handler in flight.
HandlerStep(r) ==
  \/ CreateBooking(r)
  \/ AcceptStep(r)
  \/ CancelStep(r)
  \/ SignStep(r)

Next ==
  \/ UserStep
  \/ \E r \in Request : HandlerStep(r)
  \/ \E r \in Request : Crash(r)

Spec == Init /\ [][Next]_sagaVars

\* The event loop resumes every handler whose call has returned.
FairSpec == Spec /\ \A r \in Request : WF_sagaVars(HandlerStep(r))

-----------------------------------------------------------------------------
(***************************************************************************)
(* Properties.                                                             *)
(***************************************************************************)

\* Every document, row and handler is well formed.
TypeOK ==
  /\ LedgerTypeOK
  /\ ContractTypeOK
  /\ booking \in [Booking -> BookingDocument]
  /\ request \in [Request -> Handler]

\* "Settle before flipping so a fully_signed service contract never exists
\* without payment" (contracts.service.ts, sign): whatever handlers interleave,
\* fail or die, a contract of a booking is fully signed only if it is paid.
FullySignedIsPaid ==
  \A c \in Contract :
    contract[c].status = "fully_signed" /\ contract[c].booking # NoBooking
      => Completed(c)

\* Points leave the payer only for a contract that every signatory signed, and
\* no late rollbackSignature takes one of the signatures back.
PaidIsSignedByAll ==
  \A c \in Contract : Completed(c) => AllSigned(c)

\* A rolled back signature is never the only one of its contract, whatever
\* retries and failures came before: the last to sign is the one withdrawn, and
\* another party's signature stays.
WithdrawalLeavesSignature ==
  \A r \in Request : At(r, "pullSignature") =>
    contract[request[r].contract].signatures \ {request[r].user} # {}

\* No balance is below the floor, although a reservation holds no funds and
\* transfers and settlements of the same payer interleave.
BalanceFloor == \A u \in User : balance[u] >= MinBalance

\* The contracts of a booking; an unwound accept leaves its contract behind.
ContractsOf(b) == {c \in Contract : contract[c].booking = b}

\* Cancel voids the payment first, "a settled payment wins the race".
CancelledIsUnpaid ==
  \A c \in Contract : contract[c].status = "cancelled" => ~ Completed(c)

\* A settled or voided payment is never changed again: retries of settle,
\* cancel against settle and the unwinding of accept do not undo it.
PaymentIsFinal ==
  [][\A c \in Contract : payment[c].status \in {"completed", "cancelled"}
       => payment'[c] = payment[c]]_sagaVars

\* A booking leaves a final status only from cancelled to completed, and only
\* when one of its contracts is paid.
OutcomeIsFinal ==
  [][\A b \in Booking :
       booking[b].status \in {"declined", "cancelled", "completed"}
       /\ booking'[b].status # booking[b].status
         => /\ booking[b].status = "cancelled"
            /\ booking'[b].status = "completed"
            /\ \E c \in ContractsOf(b) : Completed(c)]_sagaVars

\* No handler of the booking, or of one of its contracts, is in flight.
Quiet(b) == \A r \in Request : request[r].booking # b

\* Between handlers the booking, its contracts and their payments agree: money
\* moved exactly for a completed booking; a cancelled or declined one has no
\* contract left to sign or payment left to settle; an accepted one is linked to
\* a contract that somebody can still sign, so nothing is stuck. A cancelled
\* contract is never paid, even in between.
Agreement ==
  CancelledIsUnpaid /\ \A b \in Booking : Quiet(b) =>
    /\ booking[b].status = "completed" <=> \E c \in ContractsOf(b) : Completed(c)
    /\ booking[b].status \in {"pending", "declined", "cancelled"} =>
         \A c \in ContractsOf(b) : ~ InProgress(c) /\ payment[c].status # "pending"
    /\ booking[b].status = "accepted" =>
         /\ booking[b].contract # NoContract
         /\ payment[booking[b].contract].status = "pending"
         /\ \E u \in User : MaySign(booking[b].contract, u)

\* Once the points have moved, the booking ends completed and its contract fully
\* signed, even if a cancellation claimed the booking meanwhile.
PaidLeadsToCompleted ==
  \A c \in Contract : Completed(c) ~>
    /\ contract[c].status = "fully_signed"
    /\ \E b \in Booking : c \in ContractsOf(b) /\ booking[b].status = "completed"

\* A contract that every signatory signed does not stay in progress: the last
\* signature concludes it, or is withdrawn because the payment failed.
LastSignatureConcludes ==
  \A c \in Contract :
    InProgress(c) /\ AllSigned(c) ~> ~ (InProgress(c) /\ AllSigned(c))

\* An accepted booking without a contract does not stay so: accept links one or
\* releases its claim, or the booking is cancelled.
ClaimIsResolved == \A b \in Booking : Linkable(b) ~> ~ Linkable(b)

-----------------------------------------------------------------------------
(* Claims of the source, checked by runs of their own.                     *)

\* "Saga: any failure unwinds the contract/payment and releases the claim"
\* (bookings.service.ts, accept): a contract whose accept neither linked it nor
\* is in flight any more is not paid.
FailedAcceptIsUnwound ==
  \A c \in Contract :
    ~ Published(c) /\ (\A r \in Request : request[r].contract # c)
      => ~ Completed(c)

\* "You already have an active booking for this service" (bookings.service.ts,
\* request): an initiator has at most one.
OneActiveBooking ==
  \A b1, b2 \in Booking :
    Active(b1) /\ Active(b2) /\ booking[b1].initiator = booking[b2].initiator
      => b1 = b2

-----------------------------------------------------------------------------
(***************************************************************************)
(* The saga implements BookingDeal, in which a booking has one state and   *)
(* is decided in one step.  What decides is the payment row: as long as a  *)
(* payment of a cancelled booking may still be reserved or is pending, the *)
(* deal is still agreed.                                                   *)
(***************************************************************************)

Undecided(b) ==
  \/ \E c \in ContractsOf(b) : payment[c].status = "pending"
  \/ \E r \in Request :
       /\ request[r].booking = b
       /\ request[r].at \in {"resolveNames", "createContract", "reserve"}

DealState(b) ==
  IF \E c \in ContractsOf(b) : Completed(c) THEN "paid"
  ELSE CASE booking[b].status = "none"     -> "absent"
         [] booking[b].status = "pending"  -> "requested"
         [] booking[b].status = "declined" -> "refused"
         [] booking[b].status = "cancelled" /\ ~ Undecided(b) -> "withdrawn"
         [] OTHER                          -> "agreed"

Deal == INSTANCE BookingDeal WITH
  deal <- [b \in Booking |-> [state |-> DealState(b),
                              initiator |-> booking[b].initiator]]

\* Seen through that mapping, every step of the saga is a step of the abstract
\* specification or changes nothing.
ImplementsDeal == Deal!Spec
=============================================================================
