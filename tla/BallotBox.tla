----------------------------- MODULE BallotBox ------------------------------
(* What a community vote promises: one ballot per resident, none after the   *)
(* vote is closed, none ever changed or taken back.                          *)
CONSTANTS
  Voter,    \* the residents
  Paper,    \* what a ballot may say
  NoPaper   \* no ballot

VARIABLES
  open,     \* ballots are still taken
  box       \* the ballot of every resident

ballotBoxVars == <<open, box>>

BoxInit ==
  /\ open = TRUE
  /\ box = [v \in Voter |-> NoPaper]

DropIn(v) ==
  /\ open
  /\ box[v] = NoPaper
  /\ box'[v] # NoPaper /\ box'[v] \in Paper
  /\ box' = [box EXCEPT ![v] = box'[v]]
  /\ UNCHANGED open

Seal ==
  /\ open
  /\ open' = FALSE
  /\ UNCHANGED box

BoxNext == Seal \/ \E v \in Voter : DropIn(v)

BoxSpec == BoxInit /\ [][BoxNext]_ballotBoxVars
=============================================================================
