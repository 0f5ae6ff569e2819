------------------------------- MODULE Votes --------------------------------
(* The vote of one resident on one incident, service or event,               *)
(* src/api/src/votes/votes.service.ts: pressing the same button twice takes  *)
(* the vote back, another button changes it. The request reads the stored    *)
(* vote and then deletes, updates or creates a document in a later step; a   *)
(* unique index on the resident and the target allows one document.          *)
EXTENDS FiniteSets

CONSTANTS
  Press,     \* requests of the resident
  VoteKind,  \* the votes the target allows
  NoVote     \* no document

ASSUME VotesConstants == NoVote \notin Press \X VoteKind

VARIABLES
  stored,    \* the document: the request that created it and its type
  press,     \* what a request is about
  rivals     \* history: the requests that were under way together with one

voteVars == <<stored, press, rivals>>

Waiting == [pc |-> "new"]

PressTypeOK ==
  /\ stored \in (Press \X VoteKind) \cup {NoVote}
  /\ DOMAIN press = Press
  /\ rivals \in [Press -> SUBSET Press]

PressInit ==
  /\ stored = NoVote
  /\ press = [r \in Press |-> Waiting]
  /\ rivals = [r \in Press |-> {}]

UnderWay == {r \in Press : press[r].pc = "act"}

\* cast: the checks of the target have passed, findOne returns.
ReadOwnVote(r, t) ==
  /\ press[r] = Waiting
  /\ press' = [press EXCEPT ![r] = [pc |-> "act", type |-> t, seen |-> stored]]
  /\ rivals' = [q \in Press |-> IF q = r THEN UnderWay
                                ELSE IF q \in UnderWay THEN rivals[q] \cup {r}
                                ELSE rivals[q]]
  /\ UNCHANGED stored

Replies(r, action) ==
  /\ press' = [press EXCEPT ![r] = [pc |-> action, type |-> press[r].type]]
  /\ UNCHANGED rivals

Acts(r) == press[r].pc = "act"
Sees(r) == press[r].seen # NoVote

\* The document a request read, if it is still there: its own id finds it.
StillThere(r) == stored # NoVote /\ stored[1] = press[r].seen[1]

\* The same type again: deleteOne, which finds nothing if it is gone.
RemoveVote(r) ==
  /\ Acts(r) /\ Sees(r)
  /\ press[r].seen[2] = press[r].type
  /\ stored' = IF StillThere(r) THEN NoVote ELSE stored
  /\ Replies(r, "removed")

\* Another type: save updates the document, or throws when it is gone.
ChangeVote(r) ==
  /\ Acts(r) /\ Sees(r)
  /\ press[r].seen[2] # press[r].type
  /\ IF StillThere(r)
     THEN stored' = <<stored[1], press[r].type>> /\ Replies(r, "changed")
     ELSE UNCHANGED stored /\ Replies(r, "failed")

\* None was seen: create. A duplicate key means that a concurrent first vote
\* won, and counts as success.
AddVote(r) ==
  /\ Acts(r) /\ ~Sees(r)
  /\ stored' = IF stored = NoVote THEN <<r, press[r].type>> ELSE stored
  /\ Replies(r, "added")

\* Mutant of FailVote: every error of create counts as a duplicate key.
SwallowFailure(r) ==
  /\ Acts(r)
  /\ UNCHANGED stored
  /\ Replies(r, IF Sees(r) THEN "failed" ELSE "added")

\* The database refuses the statement: the request fails.
FailVote(r) ==
  /\ Acts(r)
  /\ UNCHANGED stored
  /\ Replies(r, "failed")

PressNext ==
  \E r \in Press :
    \/ \E t \in VoteKind : ReadOwnVote(r, t)
    \/ RemoveVote(r)
    \/ ChangeVote(r)
    \/ AddVote(r)
    \/ FailVote(r)

PressSpec == PressInit /\ [][PressNext]_voteVars

-----------------------------------------------------------------------------
Answers(r, action) == press[r].pc = "act" /\ press'[r].pc = action

\* An answer is true when it is given: "added" leaves a vote of that type
\* stored, however often the button is pressed, unless another button was
\* pressed meanwhile; "changed" and "removed" are true unless another request
\* was under way. votes.service.ts:66-88.
AnswerIsStored ==
  [][\A r \in Press :
       /\ Answers(r, "added") =>
            \/ stored' # NoVote /\ stored'[2] = press[r].type
            \/ \E q \in rivals[r] : press[q].type # press[r].type
       /\ Answers(r, "changed") =>
            stored' # NoVote /\ stored'[2] = press[r].type
       /\ Answers(r, "removed") => stored' = NoVote \/ rivals[r] # {}]_voteVars
=============================================================================
