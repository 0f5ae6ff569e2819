--------------------------- MODULE CommunityVotes ---------------------------
(* One community vote, src/api/src/community-votes/community-votes.service:  *)
(* residents cast ballots until the vote is closed by its creator, by an     *)
(* administrator or by the first reader of the results after its deadline.   *)
(* Every request reads the document and acts on it in a later step.          *)
EXTENDS Sums, Sequences, FiniteSets, SequencesExt

CONSTANTS
  Voter,      \* the residents
  Option,     \* the options of the vote
  Budget,     \* MAX_WEIGHT_BUDGET
  Dto,        \* the bodies of POST /community-votes/:id/cast
  VoteRequest,\* identities of requests
  EndsAt,     \* the deadline
  MaxNow,     \* bound of the clock
  NoWeights,  \* a body or a ballot without weights
  NoPaper     \* no ballot

\* The options of a vote are the entries of an array.
ASSUME OptionsAreFinite == IsFiniteSet(Option) /\ Budget \in Nat

\* A body names options, known or not and maybe twice, and may weigh some.  A
\* weight is a number of the smallest fractions in use.
ASSUME DtoShape ==
  \A d \in Dto : /\ DOMAIN d = {"choices", "weights"}
                 /\ d.choices \in Seq(STRING)
                 /\ d.weights # NoWeights => /\ DOMAIN d.weights \subseteq STRING
                                   /\ d.weights \in [DOMAIN d.weights -> Int]

\* An entry of casts.
Cast == [userId : Voter, choices : SUBSET Option,
         weights : {d.weights : d \in Dto}]

ASSUME NoPaperIsNone == NoPaper \notin {{c} : c \in Cast}

VARIABLES
  voteType,    \* binary, single_choice, multiple_choice or weighted
  status,      \* open or closed
  casts,       \* the ballots in the order they were pushed
  now,         \* the clock of the API
  voteRequest, \* what every request is about to do
  results      \* the last answer of GET results, by request

votesVars == <<voteType, status, casts, now, voteRequest, results>>

VoteType == {"binary", "single_choice", "multiple_choice", "weighted"}
SingleChoice == {"binary", "single_choice"}

NoResults == [totals |-> [o \in Option |-> 0], participants |-> 0,
              status |-> "open"]
Idle == [pc |-> "new"]

VotesInit ==
  /\ voteType \in VoteType
  /\ status = "open"
  /\ casts = <<>>
  /\ now = 0
  /\ voteRequest = [r \in VoteRequest |-> Idle]
  /\ results = [r \in VoteRequest |-> NoResults]

HasVoted(v) == \E i \in DOMAIN casts : casts[i].userId = v

WeightSum(w) == Total(w)

\* Mutant of WithinBudget: every weight is compared with the budget.
EachWithinBudget(w) ==
  /\ \A o \in DOMAIN w : w[o] >= 0 /\ w[o] <= Budget
  /\ WeightSum(w) > 0

\* assertWeightsWithinBudget
WithinBudget(w) ==
  /\ \A o \in DOMAIN w : w[o] >= 0
  /\ WeightSum(w) > 0
  /\ WeightSum(w) <= Budget

\* The checks of cast on the body, its choices collapsed to a set.
BodyIsValid(d) ==
  LET choices == ToSet(d.choices)
  IN  /\ voteType \in SingleChoice => Cardinality(choices) = 1
      /\ voteType = "weighted" => d.weights # NoWeights
      /\ choices \subseteq Option
      /\ d.weights # NoWeights => DOMAIN d.weights \subseteq Option
      /\ voteType = "weighted" => WithinBudget(d.weights)

\* cast: the first read, its checks, and the date put into the filter.
ReadVote(r, v, d) ==
  /\ voteRequest[r] = Idle
  /\ voteRequest' = [voteRequest EXCEPT ![r] =
       IF status = "closed" \/ now > EndsAt \/ HasVoted(v) \/ ~BodyIsValid(d)
       THEN [pc |-> "refused"]
       ELSE [pc |-> "push", user |-> v, date |-> now,
             choices |-> ToSet(d.choices), weights |-> d.weights]]
  /\ UNCHANGED <<voteType, status, casts, now, results>>

\* Mutant of MayPush: the filter does not repeat the check of the voter.
MayPushTwice(q) == status = "open" /\ EndsAt > q.date

\* The filter of findOneAndUpdate.
MayPush(q) ==
  /\ status = "open"
  /\ EndsAt > q.date
  /\ ~HasVoted(q.user)

\* cast: the guarded push.
PushBallot(r) ==
  LET q == voteRequest[r]
  IN  /\ q.pc = "push"
      /\ MayPush(q)
      /\ casts' = Append(casts, [userId |-> q.user, choices |-> q.choices,
                                 weights |-> q.weights])
      /\ voteRequest' = [voteRequest EXCEPT ![r] = [pc |-> "cast"]]
      /\ UNCHANGED <<voteType, status, now, results>>

\* cast: the filter found nothing, and the request is refused.
BallotRefused(r) ==
  /\ voteRequest[r].pc = "push"
  /\ ~MayPush(voteRequest[r])
  /\ voteRequest' = [voteRequest EXCEPT ![r] = [pc |-> "refused"]]
  /\ UNCHANGED <<voteType, status, casts, now, results>>

\* What a ballot adds to an option in getResults.
Adds(c, o) ==
  IF voteType = "weighted" /\ c.weights # NoWeights
  THEN IF o \in DOMAIN c.weights THEN c.weights[o] ELSE 0
  ELSE IF o \in c.choices THEN 1 ELSE 0

Tally(ballots) ==
  [o \in Option |-> Total([i \in DOMAIN ballots |-> Adds(ballots[i], o)])]

Answer(ballots, s) ==
  [totals |-> Tally(ballots), participants |-> Len(ballots), status |-> s]

\* getResults: the read, and the answer where nothing is to be closed.
ReadResults(r) ==
  /\ voteRequest[r] = Idle
  /\ IF status = "open" /\ now > EndsAt
     THEN /\ voteRequest' = [voteRequest EXCEPT ![r] =
                               [pc |-> "close", seen |-> casts]]
          /\ UNCHANGED results
     ELSE /\ voteRequest' = [voteRequest EXCEPT ![r] = [pc |-> "done"]]
          /\ results' = [results EXCEPT ![r] = Answer(casts, status)]
  /\ UNCHANGED <<voteType, status, casts, now>>

\* getResults after the deadline: the guarded write, then the answer computed
\* from the ballots of the read.
CloseLazily(r) ==
  /\ voteRequest[r].pc = "close"
  /\ status' = "closed"
  /\ results' = [results EXCEPT ![r] =
                   Answer(voteRequest[r].seen, "closed")]
  /\ voteRequest' = [voteRequest EXCEPT ![r] = [pc |-> "done"]]
  /\ UNCHANGED <<voteType, casts, now>>

\* close, by the creator or an administrator: read, then an unguarded save.
ReadToClose(r) ==
  /\ voteRequest[r] = Idle
  /\ voteRequest' = [voteRequest EXCEPT ![r] = [pc |-> "save"]]
  /\ UNCHANGED <<voteType, status, casts, now, results>>

SaveClosed(r) ==
  /\ voteRequest[r].pc = "save"
  /\ status' = "closed"
  /\ voteRequest' = [voteRequest EXCEPT ![r] = [pc |-> "done"]]
  /\ UNCHANGED <<voteType, casts, now, results>>

VotesTick ==
  /\ now < MaxNow
  /\ now' = now + 1
  /\ UNCHANGED <<voteType, status, casts, voteRequest, results>>

VotesNext ==
  \/ \E r \in VoteRequest :
       \/ \E v \in Voter, d \in Dto : ReadVote(r, v, d)
       \/ PushBallot(r)
       \/ BallotRefused(r)
       \/ ReadResults(r)
       \/ CloseLazily(r)
       \/ ReadToClose(r)
       \/ SaveClosed(r)
  \/ VotesTick

VotesSpec == VotesInit /\ [][VotesNext]_votesVars

-----------------------------------------------------------------------------
VotesTypeOK ==
  /\ voteType \in VoteType
  /\ status \in {"open", "closed"}
  /\ \A i \in DOMAIN casts : casts[i].userId \in Voter
  /\ now \in 0..MaxNow
  /\ \A r \in VoteRequest :
       voteRequest[r].pc \in {"new", "push", "close", "save", "cast",
                              "refused", "done"}

\* The ballot of v as the abstract box holds it: the set of the ballots that
\* name v, which a second one would change.
BallotOf(v) ==
  LET mine == {i \in DOMAIN casts : casts[i].userId = v}
  IN  IF mine = {} THEN NoPaper ELSE {casts[i] : i \in mine}

\* Concurrent casts, a close and a deadline that pass between the check and
\* the push never let a resident vote twice, or anybody vote once the document
\* says closed. community-votes.service.ts:157-168.
Box == INSTANCE BallotBox WITH
         open <- status = "open",
         box <- [v \in Voter |-> BallotOf(v)],
         Paper <- {{c} : c \in Cast}
ImplementsBallotBox == Box!BoxSpec

\* What one ballot may add to the totals.
Worth == CASE voteType = "weighted" -> Budget
           [] voteType = "multiple_choice" -> Cardinality(Option)
           [] OTHER -> 1

\* No ballot weighs more than one voter may: the totals of any answer are
\* natural numbers and do not exceed the budget (or one, or one per option)
\* times the participants. community-votes.service.ts:133-155, 279-296.
TotalsWithinBudget ==
  \A r \in VoteRequest :
    LET answer == results[r]
    IN  /\ \A o \in Option : answer.totals[o] >= 0
        /\ Total(answer.totals) <= Worth * answer.participants
=============================================================================
