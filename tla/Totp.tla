------------------------------- MODULE Totp --------------------------------
(* The one-time codes of a sign-in, src/api/src/auth/totp.service.ts: a code *)
(* is accepted during its own period and one period on either side, and the  *)
(* codes already accepted are kept in the memory of one process.             *)
(*                                                                           *)
(* verify is synchronous, so a call is one step. A code is named by the      *)
(* secret it is computed from and the start of its period; two periods with  *)
(* the same six digits are told apart.                                       *)
EXTENDS Integers

CONSTANTS
  Secret,     \* the secrets of the accounts
  Period,     \* length of a period (30 s)
  Start,      \* the periods that occur, each named by its start
  ReplayTtl,  \* how long an accepted code is remembered (REPLAY_TTL_MS)
  MaxTime     \* bound of the clock

\* 90 s is three periods: a code may be sent from one period early.
ASSUME TotpConstants ==
  /\ Period \in Nat \ {0}
  /\ Start \subseteq Nat
  /\ ReplayTtl \in Nat
  /\ ReplayTtl >= 3 * Period

VARIABLES
  time,       \* Date.now()
  usedCodes,  \* the codes accepted, each with the time it is forgotten
  acceptances \* history: how often each code was accepted since the restart

totpVars == <<time, usedCodes, acceptances>>

Code == Secret \X Start

TotpTypeOK ==
  /\ time \in Nat
  /\ usedCodes \subseteq [code : Code, until : Nat]
  /\ acceptances \in [Code -> Nat]

TotpInit ==
  /\ time = 0
  /\ usedCodes = {}
  /\ acceptances = [c \in Code |-> 0]

\* speakeasy.totp.verify with window 1.
InWindow(c) == c[2] - Period <= time /\ time < c[2] + 2 * Period

\* Mutant of Remembered: a code is forgotten as it becomes a period old.
RememberedForAPeriod ==
  {entry \in usedCodes : entry.until - 2 * Period >= time}

\* purgeExpiredCodes: a code is forgotten once its time has passed.
Remembered == {entry \in usedCodes : entry.until >= time}

\* verify(secret, token) for a code of the set Code, answering true.
AcceptCode(c) ==
  /\ \A entry \in Remembered : entry.code # c
  /\ InWindow(c)
  /\ usedCodes' = Remembered \cup {[code |-> c, until |-> time + ReplayTtl]}
  /\ acceptances' = [acceptances EXCEPT ![c] = @ + 1]
  /\ UNCHANGED time

\* verify answering false: a code used before, or out of its window. The
\* purge has run all the same.
RefuseCode(c) ==
  /\ (\E entry \in Remembered : entry.code = c) \/ ~InWindow(c)
  /\ usedCodes' = Remembered
  /\ UNCHANGED <<time, acceptances>>

TotpTick ==
  /\ time < MaxTime
  /\ time' = time + 1
  /\ UNCHANGED <<usedCodes, acceptances>>

\* The process restarts with an empty store; the history starts again too.
TotpRestart ==
  /\ usedCodes' = {}
  /\ acceptances' = [c \in Code |-> 0]
  /\ UNCHANGED time

TotpNext ==
  \/ \E c \in Code : AcceptCode(c) \/ RefuseCode(c)
  \/ TotpTick
  \/ TotpRestart

TotpSpec == TotpInit /\ [][TotpNext]_totpVars

-----------------------------------------------------------------------------
\* Between two restarts a code opens one session only, although it stays valid
\* for three periods and is forgotten by a clock: it is never purged while it
\* could still be accepted. totp.service.ts:37-61.
CodeIsUsedOnce == \A c \in Code : acceptances[c] <= 1
=============================================================================
