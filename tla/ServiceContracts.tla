-------------------------- MODULE ServiceContracts --------------------------
(***************************************************************************)
(* The contract documents kept in MongoDB (api/src/contracts).  Each       *)
(* operator below is one conditional update of one document, which MongoDB *)
(* executes atomically; an update whose filter does not match changes      *)
(* nothing.  Module BookingSaga composes them into the request handlers.   *)
(* The service depends on PointsService, as this module on PointsLedger.   *)
(***************************************************************************)
EXTENDS PointsLedger

CONSTANTS
  Booking,     \* booking ids
  NoBooking,   \* the bookingId of a contract two users wrote themselves
  DirectSignatories  \* sets of signatories of contracts not made by a booking

ASSUME ContractAssumption ==
  /\ NoBooking \notin Booking
  /\ DirectSignatories \subseteq SUBSET User

VARIABLE contract      \* the contract documents

ContractStatus == {"draft", "partial", "fully_signed", "cancelled"}

ContractDocument ==
  [status : ContractStatus \cup {"none"}, booking : Booking \cup {NoBooking},
   signatories : SUBSET User, signatures : SUBSET User]

NoDocument == [status |-> "none", booking |-> NoBooking,
               signatories |-> {}, signatures |-> {}]

ContractTypeOK == contract \in [Contract -> ContractDocument]

ContractInit == contract = [c \in Contract |-> NoDocument]

-----------------------------------------------------------------------------
\* HEALABLE_CONTRACT_STATUSES: what may still be signed, healed or cancelled.
InProgress(c) == contract[c].status \in {"draft", "partial"}

AllSigned(c) == contract[c].signatories \subseteq contract[c].signatures

\* create and createServiceContract save a draft.
SaveDraft(c, b, signatories) ==
  contract' = [contract EXCEPT ![c] =
                 [status |-> "draft", booking |-> b,
                  signatories |-> signatories, signatures |-> {}]]

\* The filter of the signature claim in sign.
MaySign(c, u) ==
  /\ InProgress(c)
  /\ u \in contract[c].signatories
  /\ u \notin contract[c].signatures

PushSignature(c, u) ==
  contract' = [contract EXCEPT ![c].signatures = @ \cup {u},
                               ![c].status = "partial"]

\* Mutant of LastSignature: "some" signatory signed instead of "every".
LastSignatureSome(c, u) == contract[c].signatories \cap {u} # {}

\* u's signature is the one that completes the contract.
LastSignature(c, u) ==
  contract[c].signatories \subseteq contract[c].signatures \cup {u}

\* The guarded flip of sign.
Flip(c) ==
  contract' = IF contract[c].status = "partial"
                THEN [contract EXCEPT ![c].status = "fully_signed"]
                ELSE contract

\* rollbackSignature: its filter is the id alone.
PullSignature(c, u) ==
  contract' = [contract EXCEPT ![c].signatures = @ \ {u}]

\* cancelContract: conditional on the contract still being in progress; on a
\* fully signed contract the code throws and nothing changes.
CancelContract(c) ==
  contract' = IF InProgress(c)
                THEN [contract EXCEPT ![c].status = "cancelled"]
                ELSE contract

\* The guarded write of findOne's reconciliation.
HealContract(c) ==
  /\ InProgress(c)
  /\ contract' = [contract EXCEPT ![c].status = "fully_signed"]
=============================================================================
