---------------------------- MODULE MCCommunity -----------------------------
(* The parts of the API that share no state, in one instance for TLC. A      *)
(* behaviour moves one part and leaves the others where they start: steps of *)
(* two parts commute, so that interleaving them would show nothing more.     *)
EXTENDS PointsTransactions, Totp, CommunityVotes, Votes, Presence,
        ContractDocuments, Accounts, DslQuery, TLC

CONSTANTS
  t1, t2, t3,             \* transactions, requests and calls of every part
  ann, ben,               \* residents
  ann1, ann2, ben1,       \* their sockets
  duo,                    \* a conversation of theirs
  zone, label,            \* fields of the documents that a query reads
  blank, word, number     \* their values: "", another string, a number

VARIABLE part             \* the part that moves

Floor == -2
SymmetryMC == Permutations({t1, t2, t3}) \cup Permutations(Contract)

OwnerMC == ann1 :> ann @@ ann2 :> ann @@ ben1 :> ben
MemberMC == duo :> {ann, ben}

OptionMC == {"a", "b"}
Weigh(x, y) == "a" :> x @@ "b" :> y
Body(choices, weights) == [choices |-> choices, weights |-> weights]

\* A single choice, the same one twice, two choices with weights within the
\* budget and over it, a negative weight, an option that does not exist.
DtoMC ==
  {Body(<<"a">>, NoWeights), Body(<<"b", "b">>, NoWeights),
   Body(<<"a", "b">>, Weigh(2, 1)), Body(<<"a">>, Weigh(2, 2)),
   Body(<<"a">>, Weigh(3, -1)), Body(<<"a", "c">>, NoWeights),
   Body(<<"b">>, "c" :> 1)}

RowMC == {zone :> word @@ label :> word, zone :> word @@ label :> blank,
          zone :> number @@ label :> word, zone :> number @@ label :> number}

Part == {"ledger", "totp", "votes", "press", "presence", "pdf", "accounts",
         "dsl"}

CommunityInit ==
  /\ part \in Part
  /\ Init /\ TotpInit /\ VotesInit /\ PressInit /\ PresenceInit /\ PdfInit
  /\ AccountsInit /\ DslInit
  \* a part that stays where it starts starts in one way
  /\ part # "votes" => voteType = "binary"
  /\ part # "pdf" => ~imported
  /\ part # "accounts" => answered = {}

CommunityNext ==
  \/ /\ part = "ledger" /\ Next
     /\ UNCHANGED <<part, totpVars, votesVars, voteVars, presenceVars, pdfVars,
                    accountVars, dslVars>>
  \/ /\ part = "totp" /\ TotpNext
     /\ UNCHANGED <<part, transactionVars, votesVars, voteVars, presenceVars,
                    pdfVars, accountVars, dslVars>>
  \/ /\ part = "votes" /\ VotesNext
     /\ UNCHANGED <<part, transactionVars, totpVars, voteVars, presenceVars,
                    pdfVars, accountVars, dslVars>>
  \/ /\ part = "press" /\ PressNext
     /\ UNCHANGED <<part, transactionVars, totpVars, votesVars, presenceVars,
                    pdfVars, accountVars, dslVars>>
  \/ /\ part = "presence" /\ PresenceNext
     /\ UNCHANGED <<part, transactionVars, totpVars, votesVars, voteVars,
                    pdfVars, accountVars, dslVars>>
  \/ /\ part = "pdf" /\ PdfNext
     /\ UNCHANGED <<part, transactionVars, totpVars, votesVars, voteVars,
                    presenceVars, accountVars, dslVars>>
  \/ /\ part = "accounts" /\ AccountsNext
     /\ UNCHANGED <<part, transactionVars, totpVars, votesVars, voteVars,
                    presenceVars, pdfVars, dslVars>>
  \/ /\ part = "dsl" /\ DslNext
     /\ UNCHANGED <<part, transactionVars, totpVars, votesVars, voteVars,
                    presenceVars, pdfVars, accountVars>>

communityVars == <<part, transactionVars, totpVars, votesVars, voteVars,
                   presenceVars, pdfVars, accountVars, dslVars>>

CommunitySpec == CommunityInit /\ [][CommunityNext]_communityVars
=============================================================================
