---------------------------- MODULE SessionProofs ----------------------------
(***************************************************************************)
(* Refresh tokens and SSO tokens are single-use, for any users, pairs and  *)
(* requests of browsers and of the threads of a desktop; unless an answer  *)
(* is lost, those threads never present a refresh token twice; a one-time  *)
(* code is accepted once, for every period and every time to live of at    *)
(* least three of them.                                                    *)
(***************************************************************************)
EXTENDS DesktopSession, Totp, TLAPS

\* A request that has taken credential c and has still to issue a pair for it.
Claims(r, c) == req[r].op \in {"issue", "exchange"} /\ req[r].from = c

\* A pair has been issued for c.
Spent(c) == \E p \in Pair : Issued(p) /\ origin[p] = c

Free(c) == ~Spent(c) /\ \A r \in Request : ~Claims(r, c)

\* The credentials that are single-use.
Token == Sso \cup Pair

\* A credential other than a password is free, claimed by one request, or
\* spent on one pair, and only a free one can be presented with success: the
\* hash of a user is of a free pair of the user.
ClaimInv ==
  /\ RedeemedOnce
  /\ \A r, q \in Request, c \in Token :
       Claims(r, c) => ~Spent(c) /\ (Claims(q, c) => q = r)
  /\ \A u \in User : hash[u] # NoPair =>
       Issued(hash[u]) /\ owner[hash[u]] = u /\ Free(hash[u])
  /\ \A s \in Sso : sso[s].status # "used" => Free(s)
  /\ \A p \in Pair : ~Issued(p) => Free(p)

-----------------------------------------------------------------------------
(* Types.                                                                    *)

LEMMA AnswerType ==
  ASSUME TypeOK, NEW r, NEW p \in Pair \cup {NoPair}, Answer(r, p)
  PROVE  req' \in [Request -> RequestState]
BY DEF TypeOK, Answer, Goto, Reply, Idle, RequestState

LEMMA GotoType ==
  ASSUME TypeOK, NEW r, NEW next \in RequestState, Goto(r, next)
  PROVE  req' \in [Request -> RequestState]
BY DEF TypeOK, Goto

LEMMA ClaimType ==
  ASSUME TypeOK, NEW r \in Request, req[r].op \in {"issue", "exchange"}
  PROVE  req[r].user \in User /\ req[r].from \in Credential
BY DEF TypeOK, RequestState, Idle, Reply

LEMMA IssuingType ==
  ASSUME NEW u \in User, NEW c \in Credential
  PROVE  Issuing(u, c) \in RequestState
BY DEF Issuing, RequestState

LEMMA DropType ==
  ASSUME TypeOK, NEW rs, DropAnswers(rs)
  PROVE  req' \in [Request -> RequestState]
BY DEF TypeOK, DropAnswers, RequestState

ServerType == TypeOK /\ call' \in [Thread -> Request \cup {NoRequest}]

LEMMA RotateType ==
  ASSUME ServerType, NEW r, NEW p \in Pair, Rotate(r, p)
  PROVE  TypeOK'
<1>1. CASE Redeemable(p)
  <2>1. req' \in [Request -> RequestState]
    BY <1>1, GotoType, IssuingType DEF Rotate, Issued, ServerType, TypeOK, Credential
  <2> QED BY <2>1, <1>1 DEF Rotate, ServerType, TypeOK, accountVars, pairVars
<1>2. CASE ~Redeemable(p)
  <2>1. req' \in [Request -> RequestState]
    BY <1>2, AnswerType DEF Rotate, Refuse, ServerType
  <2> QED BY <2>1, <1>2 DEF Rotate, ServerType, TypeOK, accountVars, pairVars
<1> QED BY <1>1, <1>2

LEMMA ExchangeType ==
  ASSUME ServerType, NEW r, NEW s \in Sso, NEW matches \in BOOLEAN, Exchange(r, s, matches)
  PROVE  TypeOK'
<1>1. req' \in [Request -> RequestState]
  <2>1. CASE sso[s].status = "unused" /\ matches
    <3>1. sso[s].user \in User
      BY <2>1 DEF ServerType, TypeOK, SsoState, NoSso
    <3>2. [op |-> "exchange", user |-> sso[s].user, from |-> s] \in RequestState
      BY <3>1 DEF RequestState, Credential
    <3> QED BY <2>1, <3>2, GotoType DEF Exchange, ServerType
  <2>2. CASE ~(sso[s].status = "unused" /\ matches)
    BY <2>2, AnswerType DEF Exchange, Refuse, ServerType
  <2> QED BY <2>1, <2>2
<1>2. sso' \in [Sso -> SsoState]
  <2>1. CASE sso[s].status = "unused"
    <3>1. sso[s] \in [user : User, surface : Surface, status : {"unused", "used", "expired"}]
      BY <2>1 DEF ServerType, TypeOK, SsoState, NoSso
    <3>2. [sso[s] EXCEPT !.status = "used"] \in SsoState
      BY <3>1 DEF SsoState
    <3> QED BY <2>1, <3>2 DEF Exchange, ServerType, TypeOK
  <2>2. CASE sso[s].status # "unused"
    BY <2>2 DEF Exchange, ServerType, TypeOK
  <2> QED BY <2>1, <2>2
<1> QED BY <1>1, <1>2 DEF Exchange, ServerType, TypeOK, accountVars, tokenVars, pairVars

LEMMA GenerateSsoType ==
  ASSUME ServerType, NEW s \in Sso, NEW p \in Pair, NEW for \in Surface, GenerateSso(s, p, for)
  PROVE  TypeOK'
<1>1. owner[p] \in User
  BY DEF ServerType, TypeOK, GenerateSso, Valid, Issued
<1>2. sso' \in [Sso -> SsoState]
  BY <1>1 DEF ServerType, TypeOK, GenerateSso, SsoState
<1> QED BY <1>2 DEF GenerateSso, ServerType, TypeOK, accountVars, tokenVars, pairVars

LEMMA GeneratePairType ==
  ASSUME ServerType, NEW r \in Request, GeneratePair(r)
  PROVE  TypeOK'
<1>1. req[r].user \in User /\ req[r].from \in Credential
  BY ClaimType DEF GeneratePair, ServerType
<1>2. AskedOn(req[r].from) \in Surface
  <2>1. CASE req[r].from \in Sso
    BY <2>1 DEF AskedOn, ServerType, TypeOK, SsoState, NoSso, Surface
  <2>2. CASE req[r].from \notin Sso
    BY <2>2 DEF AskedOn, ServerType, TypeOK, Surface
  <2> QED BY <2>1, <2>2
<1>3. req' \in [Request -> RequestState]
  BY AnswerType DEF GeneratePair, ServerType
<1> QED BY <1>1, <1>2, <1>3 DEF GeneratePair, ServerType, TypeOK, accountVars

LEMMA RevokeType ==
  ASSUME ServerType, NEW r \in Request, NEW part \in {"refresh", "access"}, Revoke(r, part)
  PROVE  TypeOK'
<1>1. req[r] \in [op : {"revoke"}, user : User, pair : Pair,
                  left : SUBSET {"refresh", "access"}]
  BY DEF ServerType, TypeOK, Revoke, RequestState, Idle, Reply
<1>2. req' \in [Request -> RequestState]
  <2>1. Idle \in RequestState
    BY DEF RequestState
  <2>2. [req[r] EXCEPT !.left = req[r].left \ {part}] \in RequestState
    BY <1>1 DEF RequestState
  <2> QED BY <2>1, <2>2, GotoType DEF Revoke, ServerType
<1> QED BY <1>1, <1>2 DEF Revoke, ServerType, TypeOK, accountVars, pairVars

\* Steps of a request that only change what it has to do.
LEMMA RequestStepType ==
  ASSUME ServerType, NEW r \in Request,
         \/ ReadSsoUser(r)
         \/ \E u \in User : Login(r, u)
         \/ \E p \in Pair : Logout(r, p) \/ BeginDeletion(r, p)
  PROVE  TypeOK'
<1>1. req' \in [Request -> RequestState]
  <2>1. CASE ReadSsoUser(r)
    <3>1. Issuing(req[r].user, req[r].from) \in RequestState
      BY <2>1, ClaimType, IssuingType DEF ReadSsoUser, ServerType
    <3> QED BY <2>1, <3>1, AnswerType, GotoType DEF ReadSsoUser, Refuse, ServerType
  <2>2. CASE \E u \in User : Login(r, u)
    BY <2>2, GotoType, IssuingType DEF Login, ServerType, Credential
  <2>3. ASSUME NEW p \in Pair, Logout(r, p) \/ BeginDeletion(r, p)
        PROVE  req' \in [Request -> RequestState]
    <3>1. owner[p] \in User
      BY <2>3 DEF ServerType, TypeOK, Logout, BeginDeletion, Valid, Issued
    <3>2. /\ [op |-> "revoke", user |-> owner[p], pair |-> p,
              left |-> {"refresh", "access"}] \in RequestState
          /\ [op |-> "delete", user |-> owner[p]] \in RequestState
      BY <3>1 DEF RequestState
    <3> QED BY <2>3, <3>2, GotoType DEF Logout, BeginDeletion, ServerType
  <2> QED BY <2>1, <2>2, <2>3
<1> QED
  BY <1>1 DEF ReadSsoUser, Login, Logout, BeginDeletion, ServerType, TypeOK, accountVars,
              tokenVars, pairVars

LEMMA DeleteAccountType ==
  ASSUME ServerType, NEW r \in Request, DeleteAccount(r)
  PROVE  TypeOK'
<1>1. req[r].user \in User
  BY DEF ServerType, TypeOK, DeleteAccount, RequestState, Idle, Reply
<1>2. req' \in [Request -> RequestState]
  <2>1. Idle \in RequestState
    BY DEF RequestState
  <2> QED BY <2>1, GotoType DEF DeleteAccount, ServerType
<1> QED BY <1>1, <1>2 DEF DeleteAccount, ServerType, TypeOK, pairVars, Role

\* Steps that concern no request.
LEMMA AccountStepType ==
  ASSUME ServerType,
         \/ \E u \in User, new \in Assignable : WriteRole(u, new)
         \/ \E p \in Pair : ExpireAccess(p)
         \/ \E s \in Sso : ExpireSso(s)
  PROVE  TypeOK'
<1>1. CASE \E u \in User, new \in Assignable : WriteRole(u, new)
  BY <1>1, SessionAssumption DEF WriteRole, ServerType, TypeOK, tokenVars, pairVars, Role
<1>2. CASE \E p \in Pair : ExpireAccess(p)
  BY <1>2 DEF ExpireAccess, ServerType, TypeOK, accountVars, tokenVars, pairVars
<1>3. ASSUME NEW s \in Sso, ExpireSso(s)
      PROVE  TypeOK'
  <2>1. sso[s] \in [user : User, surface : Surface, status : {"unused", "used", "expired"}]
    BY <1>3 DEF ExpireSso, ServerType, TypeOK, SsoState, NoSso
  <2>2. [sso[s] EXCEPT !.status = "expired"] \in SsoState
    BY <2>1 DEF SsoState
  <2> QED BY <1>3, <2>2 DEF ExpireSso, ServerType, TypeOK, accountVars, tokenVars, pairVars
<1> QED BY <1>1, <1>2, <1>3

LEMMA OthersType ==
  ASSUME DesktopTypeOK, Others
  PROVE  DesktopTypeOK'
<1>1. ServerType
  BY DEF DesktopTypeOK, Others, ServerType, TypeOK
<1>2. TypeOK'
  <2>1. CASE ServerStep
    BY <1>1, <2>1, RequestStepType, GeneratePairType, DeleteAccountType, RevokeType,
       AccountStepType DEF ServerStep
  <2>2. CASE BrowserStep
    BY <1>1, <2>2, RequestStepType, RotateType, AccountStepType, GenerateSsoType, ExchangeType
    DEF BrowserStep, Refresh
  <2>3. CASE \E p \in Pair : TokenExpires(p)
    BY <1>1, <2>3, AccountStepType DEF TokenExpires
  <2> QED BY <2>1, <2>2, <2>3 DEF Others
<1> QED BY <1>2 DEF DesktopTypeOK, Calling, Others, desktopVars

LEMMA CallType ==
  ASSUME DesktopTypeOK, NEW t \in Thread, NEW r \in Request,
         NEW as \in {"signing", "refreshing"}, Call(t, r, as)
  PROVE  /\ at' \in [Thread -> {"idle", "wants", "signing", "refreshing"}]
         /\ call' \in [Thread -> Request \cup {NoRequest}]
         /\ \A u \in Thread : Calling(u)' => call'[u] \in Request
BY DEF DesktopTypeOK, TypeOK, Call, Calling

LEMMA DesktopStepType ==
  ASSUME DesktopTypeOK, DesktopStep
  PROVE  DesktopTypeOK'
<1> USE DEF DesktopTypeOK, Calling
<1>1. ASSUME NEW t \in Thread, NeedToken(t)
      PROVE  DesktopTypeOK'
  BY <1>1 DEF NeedToken, sessionVars, TypeOK
<1>2. ASSUME NEW t \in Thread, RefreshAccessToken(t)
      PROVE  DesktopTypeOK'
  <2>1. CASE refresh = NoPair \/ Fresh(access)
    BY <1>2, <2>1 DEF RefreshAccessToken, Return, sessionVars, TypeOK
  <2>2. CASE ~(refresh = NoPair \/ Fresh(access))
    <3>1. PICK r \in Request : Call(t, r, "refreshing") /\ Rotate(r, refresh) /\ monitor' = t
      BY <1>2, <2>2 DEF RefreshAccessToken
    <3>2. ServerType
      BY <3>1, CallType DEF ServerType
    <3>3. TypeOK'
      BY <2>2, <3>1, <3>2, RotateType
    <3>4. UNCHANGED <<access, refresh, mainView, torn>>
      BY <1>2 DEF RefreshAccessToken
    <3> HIDE DEF Calling
    <3> QED BY <3>1, <3>3, <3>4, CallType
  <2> QED BY <2>1, <2>2
<1>3. ASSUME NEW t \in Thread, SignIn(t)
      PROVE  DesktopTypeOK'
  <2>1. PICK r \in Request, s \in Sso : Call(t, r, "signing") /\ Exchange(r, s, TRUE)
    BY <1>3 DEF SignIn
  <2>2. ServerType
    BY <2>1, CallType DEF ServerType
  <2>3. TypeOK'
    BY <2>1, <2>2, ExchangeType
  <2>4. UNCHANGED <<access, refresh, mainView, monitor, torn>>
    BY <1>3 DEF SignIn
  <2> HIDE DEF Calling
  <2> QED BY <2>1, <2>3, <2>4, CallType
<1>4. ASSUME NEW t \in Thread, ApplyTokens(t)
      PROVE  DesktopTypeOK'
  <2>1. req[call[t]].pair \in Pair
    BY <1>4 DEF ApplyTokens, TypeOK, RequestState, Idle, Reply
  <2>2. req' \in [Request -> RequestState]
    BY <1>4, DropType DEF ApplyTokens
  <2> QED BY <1>4, <2>1, <2>2 DEF ApplyTokens, Return, DropAnswers, TypeOK, accountVars,
                                  tokenVars, pairVars
<1>5. ASSUME NEW t \in Thread, Refused(t)
      PROVE  DesktopTypeOK'
  <2>1. CASE DropAnswers({call[t]}) /\ Return(t)
    BY <1>5, <2>1, DropType DEF Refused, Return, DropAnswers, TypeOK, accountVars, tokenVars,
                                pairVars
  <2>2. CASE refresh # NoPair /\ UNCHANGED call /\ Rotate(call[t], refresh) /\ monitor' = t
             /\ at' = [at EXCEPT ![t] = "refreshing"]
    <3>1. ServerType
      BY <2>2 DEF ServerType, TypeOK
    <3>2. TypeOK'
      BY <2>2, <3>1, RotateType
    <3> QED BY <1>5, <2>2, <3>2 DEF Refused
  <2> QED BY <1>5, <2>1, <2>2 DEF Refused
<1>6. ASSUME NEW t \in Thread, TimeOut(t)
      PROVE  DesktopTypeOK'
  BY <1>6, DropType DEF TimeOut, Return, DropAnswers, TypeOK, accountVars, tokenVars, pairVars
<1>7. CASE NavigateToMain
  BY <1>7 DEF NavigateToMain, sessionVars, TypeOK
<1>8. CASE ClearSession
  BY <1>8 DEF ClearSession, sessionVars, TypeOK
<1>9. CASE Restart
  BY <1>9, DropType DEF Restart, DropAnswers, TypeOK, accountVars, tokenVars, pairVars
<1> QED BY <1>1, <1>2, <1>3, <1>4, <1>5, <1>6, <1>7, <1>8, <1>9 DEF DesktopStep

\* Types are kept, whatever the API, the browsers and the threads do.
THEOREM TypeCorrect == Spec => []DesktopTypeOK
<1>1. Init => DesktopTypeOK
  <2>1. Idle \in RequestState /\ NoSso \in SsoState
    BY DEF RequestState, SsoState
  <2>2. InitialRole \in [User -> Role] /\ "browser" \in Surface
    BY SessionAssumption DEF Role, Surface
  <2>3. Init => TypeOK
    BY <2>1, <2>2 DEF Init, SessionInit, TypeOK
  <2> QED BY <2>3 DEF Init, DesktopTypeOK, Calling
<1>2. DesktopTypeOK /\ [Next]_vars => DesktopTypeOK'
  <2>1. CASE UNCHANGED vars
    BY <2>1 DEF vars, sessionVars, desktopVars, DesktopTypeOK, Calling, TypeOK
  <2> QED BY <2>1, OthersType, DesktopStepType DEF Next
<1> QED BY <1>1, <1>2, PTL DEF Spec

-----------------------------------------------------------------------------
(* Single use.                                                               *)

\* Steps that issue no pair, and after which no hash and no SSO token is new.
Settled ==
  /\ UNCHANGED <<owner, origin>>
  /\ \A u \in User : hash'[u] \in {hash[u], NoPair}
  /\ \A s \in Sso : sso'[s].status # "used" => sso[s].status # "used"

LEMMA NothingTaken ==
  ASSUME ClaimInv, Settled,
         \A r \in Request, c \in Token : Claims(r, c)' => Claims(r, c)
  PROVE  ClaimInv'
<1>1. \A c : Spent(c)' = Spent(c)
  BY DEF Settled, Spent, Issued
<1>2. \A c \in Token : Free(c) => Free(c)'
  BY <1>1 DEF Free
<1> QED BY <1>1, <1>2 DEF ClaimInv, RedeemedOnce, Settled, Issued, Token

\* A request takes a free credential, which no hash and no SSO token offers
\* any longer.
LEMMA FreeTaken ==
  ASSUME ClaimInv, Settled, NEW r0 \in Request, NEW c0 \in Token, Free(c0),
         \A r \in Request, c \in Token :
           Claims(r, c)' => Claims(r, c) \/ (r = r0 /\ c = c0),
         \A u \in User : hash'[u] = NoPair \/ hash'[u] # c0,
         \A s \in Sso : sso'[s].status # "used" => s # c0,
         c0 \in Pair => Issued(c0)
  PROVE  ClaimInv'
<1>1. \A c : Spent(c)' = Spent(c)
  BY DEF Settled, Spent, Issued
<1>2. \A c \in Token : c # c0 /\ Free(c) => Free(c)'
  BY <1>1 DEF Free
<1>3. \A r, q \in Request, c \in Token :
        Claims(r, c)' => ~Spent(c)' /\ (Claims(q, c)' => q = r)
  <2> SUFFICES ASSUME NEW r \in Request, NEW q \in Request, NEW c \in Token,
                      Claims(r, c)'
               PROVE  ~Spent(c)' /\ (Claims(q, c)' => q = r)
    OBVIOUS
  <2>1. CASE c = c0
    BY <1>1, <2>1 DEF Free
  <2>2. CASE c # c0
    BY <1>1, <2>2 DEF ClaimInv
  <2> QED BY <2>1, <2>2
<1> QED BY <1>1, <1>2, <1>3 DEF ClaimInv, RedeemedOnce, Settled, Issued, Token

\* An answer and a dropped answer claim nothing.
LEMMA AnswerClaims ==
  ASSUME TypeOK, NEW r0, NEW p, Answer(r0, p)
  PROVE  \A r \in Request, c \in Token : Claims(r, c)' => Claims(r, c) /\ r # r0
BY DEF TypeOK, Answer, Goto, Reply, Idle, Claims

LEMMA DropClaims ==
  ASSUME TypeOK, NEW rs, DropAnswers(rs)
  PROVE  \A r \in Request, c \in Token : Claims(r, c)' => Claims(r, c)
BY DEF TypeOK, DropAnswers, Idle, Claims

LEMMA GotoClaims ==
  ASSUME TypeOK, NEW r0 \in Request, NEW op, NEW u, NEW c0,
         Goto(r0, [op |-> op, user |-> u, from |-> c0])
  PROVE  \A r \in Request, c \in Token :
           Claims(r, c)' => Claims(r, c) \/ (r = r0 /\ c = c0)
BY DEF TypeOK, Goto, Claims

LEMMA RotateClaims ==
  ASSUME TypeOK, ClaimInv, NEW r0 \in Request, NEW p \in Pair, Rotate(r0, p)
  PROVE  ClaimInv'
<1>1. Settled
  BY DEF Rotate, Settled, TypeOK, pairVars
<1>2. CASE Redeemable(p)
  <2>1. hash[owner[p]] = p /\ owner[p] \in User /\ Issued(p)
    BY <1>2 DEF Rotate, Redeemable, Issued, TypeOK
  <2>2. Free(p)
    BY <2>1, SessionAssumption DEF ClaimInv
  <2>3. \A u \in User : hash'[u] # p
    BY <1>2, <2>1, SessionAssumption DEF Rotate, ClaimInv, TypeOK
  <2>4. \A r \in Request, c \in Token :
          Claims(r, c)' => Claims(r, c) \/ (r = r0 /\ c = p)
    BY <1>2, GotoClaims DEF Rotate, Issuing
  <2> QED BY <1>1, <2>1, <2>2, <2>3, <2>4, FreeTaken, SessionAssumption DEF Token
<1>3. CASE ~Redeemable(p)
  BY <1>1, <1>3, NothingTaken, AnswerClaims DEF Rotate, Refuse
<1> QED BY <1>2, <1>3

LEMMA ExchangeClaims ==
  ASSUME TypeOK, ClaimInv, NEW r0 \in Request, NEW s \in Sso, NEW matches \in BOOLEAN,
         Exchange(r0, s, matches)
  PROVE  ClaimInv'
<1>1. Settled
  BY DEF Exchange, Settled, TypeOK, tokenVars, pairVars
<1>2. CASE sso[s].status = "unused" /\ matches
  <2>1. Free(s)
    BY <1>2 DEF ClaimInv
  <2>2. \A u \in User : hash'[u] = NoPair \/ hash'[u] # s
    BY SessionAssumption DEF Exchange, ClaimInv, TypeOK, tokenVars
  <2>3. \A v \in Sso : sso'[v].status # "used" => v # s
    BY <1>2 DEF Exchange, TypeOK, SsoState, NoSso
  <2>4. \A r \in Request, c \in Token :
          Claims(r, c)' => Claims(r, c) \/ (r = r0 /\ c = s)
    BY <1>2, GotoClaims DEF Exchange
  <2> QED BY <1>1, <2>1, <2>2, <2>3, <2>4, FreeTaken, SessionAssumption DEF Token
<1>3. CASE ~(sso[s].status = "unused" /\ matches)
  BY <1>1, <1>3, NothingTaken, AnswerClaims DEF Exchange, Refuse
<1> QED BY <1>2, <1>3

LEMMA GeneratePairClaims ==
  ASSUME TypeOK, ClaimInv, NEW r0 \in Request, GeneratePair(r0)
  PROVE  ClaimInv'
<1> DEFINE c0 == req[r0].from
           u0 == req[r0].user
<1>1. PICK p \in Pair : /\ ~Issued(p)
                        /\ owner' = [owner EXCEPT ![p] = u0]
                        /\ origin' = [origin EXCEPT ![p] = c0]
                        /\ hash' = [hash EXCEPT ![u0] = p]
                        /\ Answer(r0, p)
                        /\ sso' = sso
  BY DEF GeneratePair
<1>2. u0 \in User /\ c0 \in Credential /\ Claims(r0, c0)
  BY ClaimType DEF GeneratePair, Claims
<1>3. /\ \A q \in Pair : Issued(q)' <=> q = p \/ Issued(q)
      /\ \A q \in Pair \ {p} : owner'[q] = owner[q] /\ origin'[q] = origin[q]
      /\ owner'[p] = u0 /\ origin'[p] = c0
  BY <1>1, <1>2, SessionAssumption DEF TypeOK, Issued
<1>4. \A c : Spent(c)' => Spent(c) \/ c = c0
  BY <1>3 DEF Spent
<1>5. \A r \in Request, c \in Token : Claims(r, c)' => Claims(r, c) /\ r # r0
  BY <1>1, AnswerClaims
<1>6. \A c \in Token : Free(c) => Free(c)'
  BY <1>2, <1>4, <1>5 DEF Free
<1>7. Pair \subseteq Token /\ Sso \subseteq Token
  BY DEF Token
<1>8. RedeemedOnce'
  BY <1>2, <1>3 DEF ClaimInv, RedeemedOnce, Spent, Token, Credential
<1>9. \A r, q \in Request, c \in Token :
        Claims(r, c)' => ~Spent(c)' /\ (Claims(q, c)' => q = r)
  BY <1>2, <1>4, <1>5 DEF ClaimInv
<1>10. (\A u \in User : hash[u] # NoPair =>
          Issued(hash[u]) /\ owner[hash[u]] = u /\ Free(hash[u]))'
  <2>1. Issued(p)' /\ Free(p)' /\ owner'[p] = u0
    BY <1>1, <1>3, <1>6, <1>7 DEF ClaimInv
  <2>2. \A u \in User : hash'[u] = IF u = u0 THEN p ELSE hash[u]
    BY <1>1 DEF TypeOK
  <2>3. \A u \in User : hash[u] # NoPair =>
          hash[u] \in Pair \ {p} /\ Issued(hash[u]) /\ Free(hash[u]) /\ owner[hash[u]] = u
    BY <1>1 DEF ClaimInv, TypeOK
  <2>4. \A q \in Pair \ {p} : Issued(q) /\ Free(q) =>
          Issued(q)' /\ Free(q)' /\ owner'[q] = owner[q]
    BY <1>3, <1>6, <1>7
  <2> QED BY <2>1, <2>2, <2>3, <2>4
<1>11. \A s \in Sso : sso'[s].status # "used" => Free(s)'
  BY <1>1, <1>6, <1>7 DEF ClaimInv
<1>12. \A q \in Pair : ~Issued(q)' => Free(q)'
  BY <1>3, <1>6, <1>7 DEF ClaimInv
<1> QED BY <1>8, <1>9, <1>10, <1>11, <1>12 DEF ClaimInv

\* The other steps of requests: none takes a credential.
LEMMA RequestClaims ==
  ASSUME TypeOK, ClaimInv, NEW r0 \in Request,
         \/ ReadSsoUser(r0)
         \/ \E u \in User : Login(r0, u)
         \/ \E p \in Pair : Logout(r0, p) \/ BeginDeletion(r0, p)
         \/ \E part \in {"refresh", "access"} : Revoke(r0, part)
         \/ DeleteAccount(r0)
  PROVE  ClaimInv'
<1>1. CASE ReadSsoUser(r0)
  <2>1. Settled
    BY <1>1 DEF ReadSsoUser, Settled, tokenVars, pairVars
  <2>2. Claims(r0, req[r0].from)
    BY <1>1 DEF ReadSsoUser, Claims
  <2>3. CASE Active(req[r0].user)
    <3>1. \A r \in Request, c \in Token : Claims(r, c)' => Claims(r, c)
      BY <1>1, <2>2, <2>3, GotoClaims DEF ReadSsoUser, Issuing
    <3> QED BY <2>1, <3>1, NothingTaken
  <2>4. CASE ~Active(req[r0].user)
    BY <1>1, <2>1, <2>4, NothingTaken, AnswerClaims DEF ReadSsoUser, Refuse
  <2> QED BY <2>3, <2>4
<1>2. CASE \E u \in User : Login(r0, u)
  <2>1. Settled
    BY <1>2 DEF Login, Settled, tokenVars, pairVars
  <2>2. \A r \in Request, c \in Token : Claims(r, c)' => Claims(r, c)
    BY <1>2, GotoClaims, SessionAssumption DEF Login, Issuing, Token
  <2> QED BY <2>1, <2>2, NothingTaken
<1>3. CASE \E p \in Pair : Logout(r0, p) \/ BeginDeletion(r0, p)
  <2>1. Settled
    BY <1>3 DEF Logout, BeginDeletion, Settled, tokenVars, pairVars
  <2>2. \A r \in Request, c \in Token : Claims(r, c)' => Claims(r, c)
    BY <1>3 DEF Logout, BeginDeletion, Goto, Claims, TypeOK
  <2> QED BY <2>1, <2>2, NothingTaken
<1>4. CASE \E part \in {"refresh", "access"} : Revoke(r0, part)
  <2>1. Settled
    BY <1>4 DEF Revoke, Settled, TypeOK, pairVars
  <2>2. \A r \in Request, c \in Token : Claims(r, c)' => Claims(r, c)
    <3>1. req[r0].op = "revoke"
      BY <1>4 DEF Revoke
    <3>2. \E next : req' = [req EXCEPT ![r0] = next] /\ next.op \in {"idle", "revoke"}
      <4>1. req[r0] \in [op : {"revoke"}, user : User, pair : Pair,
                         left : SUBSET {"refresh", "access"}]
        BY <3>1 DEF TypeOK, RequestState, Idle, Reply
      <4>2. \A left : [req[r0] EXCEPT !.left = left].op = "revoke"
        BY <4>1
      <4> QED BY <1>4, <4>2 DEF Revoke, Goto, Idle
    <3> QED BY <3>2 DEF Claims, TypeOK
  <2> QED BY <2>1, <2>2, NothingTaken
<1>5. CASE DeleteAccount(r0)
  <2>1. Settled
    BY <1>5 DEF DeleteAccount, Settled, TypeOK, pairVars
  <2>2. \A r \in Request, c \in Token : Claims(r, c)' => Claims(r, c)
    BY <1>5 DEF DeleteAccount, Goto, Idle, Claims, TypeOK
  <2> QED BY <2>1, <2>2, NothingTaken
<1> QED BY <1>1, <1>2, <1>3, <1>4, <1>5

\* Steps that change no request.
LEMMA QuietClaims ==
  ASSUME TypeOK, ClaimInv, UNCHANGED <<hash, owner, origin, req>>,
         \A s \in Sso : sso'[s].status # "used" => sso[s].status # "used"
  PROVE  ClaimInv'
<1>1. Settled
  BY DEF Settled
<1>2. \A r \in Request, c \in Token : Claims(r, c)' => Claims(r, c)
  BY DEF Claims
<1> QED BY <1>1, <1>2, NothingTaken

LEMMA AccountClaims ==
  ASSUME TypeOK, ClaimInv,
         \/ \E u \in User, new \in Assignable : WriteRole(u, new)
         \/ \E p \in Pair : ExpireAccess(p)
         \/ \E s \in Sso : ExpireSso(s)
         \/ \E s \in Sso, p \in Pair, for \in Surface : GenerateSso(s, p, for)
         \/ UNCHANGED sessionVars
  PROVE  ClaimInv'
<1>1. UNCHANGED <<hash, owner, origin, req>>
  BY DEF WriteRole, ExpireAccess, ExpireSso, GenerateSso, sessionVars, tokenVars, pairVars
<1>2. \A s \in Sso : sso'[s].status # "used" => sso[s].status # "used"
  BY DEF WriteRole, ExpireAccess, ExpireSso, GenerateSso, sessionVars, TypeOK
<1> QED BY <1>1, <1>2, QuietClaims

LEMMA DropKeepsClaims ==
  ASSUME TypeOK, ClaimInv, NEW rs, DropAnswers(rs)
  PROVE  ClaimInv'
BY NothingTaken, DropClaims DEF DropAnswers, Settled, tokenVars, pairVars

LEMMA NextClaims ==
  ASSUME DesktopTypeOK, ClaimInv, Next
  PROVE  ClaimInv'
<1>1. TypeOK
  BY DEF DesktopTypeOK
<1>2. CASE Others
  <2>1. CASE ServerStep
    BY <1>1, <2>1, RequestClaims, GeneratePairClaims, AccountClaims DEF ServerStep
  <2>2. CASE BrowserStep
    BY <1>1, <2>2, RequestClaims, RotateClaims, ExchangeClaims, AccountClaims
    DEF BrowserStep, Refresh
  <2>3. CASE \E p \in Pair : TokenExpires(p)
    BY <1>1, <2>3, AccountClaims DEF TokenExpires
  <2> QED BY <1>2, <2>1, <2>2, <2>3 DEF Others
<1>3. CASE \E t \in Thread : NeedToken(t)
  BY <1>1, <1>3, AccountClaims DEF NeedToken
<1>4. CASE \E t \in Thread : RefreshAccessToken(t)
  BY <1>1, <1>4, AccountClaims, RotateClaims DEF RefreshAccessToken, DesktopTypeOK
<1>5. CASE \E t \in Thread : SignIn(t)
  BY <1>1, <1>5, ExchangeClaims DEF SignIn
<1>6. CASE \E t \in Thread : ApplyTokens(t) \/ TimeOut(t)
  BY <1>1, <1>6, DropKeepsClaims DEF ApplyTokens, TimeOut
<1>7. CASE \E t \in Thread : Refused(t)
  BY <1>1, <1>7, DropKeepsClaims, RotateClaims DEF Refused, DesktopTypeOK
<1>8. CASE NavigateToMain \/ ClearSession \/ Restart
  BY <1>1, <1>8, AccountClaims, DropKeepsClaims DEF NavigateToMain, ClearSession, Restart
<1> QED BY <1>2, <1>3, <1>4, <1>5, <1>6, <1>7, <1>8 DEF Next, DesktopStep

\* Whatever requests present a refresh token or an SSO token at the same time,
\* it gives at most one pair (token.service.ts:62-95, auth.service.ts:222-230).
THEOREM TokensAreSingleUse == Spec => []RedeemedOnce
<1>1. Init => ClaimInv
  BY SessionAssumption DEF Init, SessionInit, ClaimInv, RedeemedOnce, Free, Spent, Issued,
                          Claims, Idle
<1>2. DesktopTypeOK /\ ClaimInv /\ [Next]_vars => ClaimInv'
  <2>1. CASE UNCHANGED vars
    BY <2>1, AccountClaims DEF vars, DesktopTypeOK
  <2> QED BY <2>1, NextClaims
<1>3. ClaimInv => RedeemedOnce
  BY DEF ClaimInv
<1> QED BY <1>1, <1>2, <1>3, TypeCorrect, PTL DEF Spec

-----------------------------------------------------------------------------
(* The threads of the desktop application.                                   *)

\* One thread at a time is in refreshAccessToken, and no two threads wait for
\* the same request, which still has to answer.
ThreadInv ==
  /\ \A t \in Thread : at[t] = "refreshing" <=> monitor = t
  /\ \A t \in Thread : Calling(t) => req[call[t]].op \in {"issue", "exchange", "reply"}
  /\ \A t, u \in Thread : Calling(t) /\ Calling(u) /\ call[t] = call[u] => t = u

OnDesktop(p) == Issued(p) /\ surface[p] = "desktop"

\* The pair that a thread is answered with, or NoPair.
Answered(t) ==
  IF Calling(t) /\ req[call[t]].op = "reply" THEN req[call[t]].pair ELSE NoPair

\* What the desktop holds and asks for was asked for on the desktop: no browser
\* presents it.
SurfaceInv ==
  /\ refresh # NoPair => OnDesktop(refresh)
  /\ \A r \in Request : req[r].op = "exchange" => req[r].from \in Sso
  /\ \A t \in Thread :
       /\ Answered(t) # NoPair => OnDesktop(Answered(t))
       /\ Calling(t) /\ req[call[t]].op \in {"issue", "exchange"} =>
            AskedOn(req[call[t]].from) = "desktop"

\* A pair is on its way to one thread.
ApartInv ==
  \A t \in Thread : Answered(t) # NoPair =>
    /\ Answered(t) # refresh
    /\ \A u \in Thread \ {t} : Answered(u) # Answered(t)

\* A thread has presented the refresh token, and waits for what replaces it.
Redeeming(t) ==
  /\ at[t] = "refreshing"
  /\ \/ req[call[t]].op = "issue" /\ req[call[t]].from = refresh
     \/ Answered(t) # NoPair /\ origin[Answered(t)] = refresh

\* As long as no answer is lost, the refresh token is redeemed only while a
\* thread is about to replace it, and what replaces it never is.
HeldInv ==
  ~torn => /\ refresh # NoPair /\ Redeemed(refresh) => \E t \in Thread : Redeeming(t)
           /\ \A t \in Thread : Answered(t) # NoPair => ~Redeemed(Answered(t))

DeskInv == ThreadInv /\ SurfaceInv /\ ApartInv /\ HeldInv

Takes(r, c) == req[r].op = "issue" /\ req[r].from = c

LEMMA FreeIsUnredeemed == ASSUME NEW p, Free(p) PROVE ~Redeemed(p)
BY DEF Free, Spent, Claims, Redeemed

LEMMA AnsweredType ==
  ASSUME DesktopTypeOK, NEW t \in Thread, Answered(t) # NoPair
  PROVE  Answered(t) \in Pair /\ Calling(t) /\ call[t] \in Request
BY DEF DesktopTypeOK, TypeOK, Answered, RequestState, Idle, Reply

\* A step of the API that answers no thread, takes no pair of the desktop and
\* issues none.
LEMMA ThreadsRest ==
  ASSUME DesktopTypeOK, ClaimInv, DeskInv,
         UNCHANGED <<pairVars, call, at, monitor, refresh, torn>>,
         \A s \in Sso : sso[s].status = "used" => sso'[s].surface = sso[s].surface,
         \A r \in Request :
           \/ req'[r] = req[r]
           \/ /\ req[r].op \notin {"issue", "exchange", "reply"}
              /\ req'[r].op = "issue" => ~OnDesktop(req'[r].from)
              /\ req'[r].op = "exchange" => req'[r].from \in Sso
  PROVE  DeskInv'
<1>1. \A t \in Thread : /\ Calling(t)' <=> Calling(t)
                        /\ Calling(t) => call[t] \in Request /\ req'[call[t]] = req[call[t]]
  BY DEF DeskInv, ThreadInv, Calling, DesktopTypeOK
<1>2. ThreadInv'
  BY <1>1 DEF DeskInv, ThreadInv
<1>3. /\ \A p : OnDesktop(p)' <=> OnDesktop(p)
      /\ \A p : OnDesktop(p) /\ Redeemed(p)' => Redeemed(p)
  BY DEF OnDesktop, Issued, Redeemed, pairVars
<1>4. \A t \in Thread : Answered(t)' = Answered(t)
  BY <1>1 DEF Answered
<1>5. ASSUME NEW t \in Thread, Calling(t), req[call[t]].op \in {"issue", "exchange"}
      PROVE  AskedOn(req[call[t]].from)' = "desktop"
  <2>1. AskedOn(req[call[t]].from) = "desktop" /\ Claims(call[t], req[call[t]].from)
    BY <1>5 DEF DeskInv, SurfaceInv, Claims
  <2>2. req[call[t]].from \in Sso => sso[req[call[t]].from].status = "used"
    BY <1>1, <1>5, <2>1 DEF ClaimInv, Free
  <2> QED BY <1>1, <1>5, <2>1, <2>2 DEF AskedOn, pairVars
<1>6. SurfaceInv'
  <2>1. \A r \in Request : req'[r].op = "exchange" => req'[r].from \in Sso
    BY DEF DeskInv, SurfaceInv
  <2>2. \A t \in Thread : Calling(t)' /\ req'[call'[t]].op \in {"issue", "exchange"} =>
                            AskedOn(req[call[t]].from)' = "desktop"
    BY <1>1, <1>5
  <2>3. \A t \in Thread : Calling(t)' => req'[call'[t]].from = req[call[t]].from
    BY <1>1
  <2>4. \A t \in Thread : Calling(t)' /\ req'[call'[t]].op \in {"issue", "exchange"} =>
                            AskedOn(req[call[t]].from)' = "desktop"
                            /\ req'[call'[t]] = req[call[t]]
    BY <1>1, <2>2
  <2> QED BY <1>1, <1>3, <1>4, <2>1, <2>4 DEF DeskInv, SurfaceInv, AskedOn
<1>7. ApartInv'
  BY <1>4 DEF DeskInv, ApartInv
<1>8. HeldInv'
  <2>1. \A t \in Thread : Redeeming(t) => Redeeming(t)'
    BY <1>1, <1>4 DEF Redeeming, Calling, pairVars
  <2> QED BY <1>3, <1>4, <2>1 DEF DeskInv, HeldInv, SurfaceInv
<1> QED BY <1>2, <1>6, <1>7, <1>8 DEF DeskInv

\* An SSO token of a thread has been read: the request goes on with it.
LEMMA SsoRead ==
  ASSUME DesktopTypeOK, ClaimInv, DeskInv, NEW r \in Request, ReadSsoUser(r),
         UNCHANGED <<call, desktopVars>>
  PROVE  DeskInv'
<1> DEFINE c == req[r].from
<1>1. /\ req[r].op = "exchange" /\ c \in Sso
      /\ UNCHANGED <<pairVars, sso, at, monitor, refresh, torn>>
      /\ \/ req' = [req EXCEPT ![r] = Issuing(req[r].user, c)]
         \/ req' = [req EXCEPT ![r] = IF \E t \in Thread : call[t] = r THEN Reply(NoPair)
                                      ELSE Idle]
  BY DEF ReadSsoUser, DeskInv, SurfaceInv, Goto, Refuse, Answer, tokenVars, desktopVars
<1>2. /\ \A q \in Request \ {r} : req'[q] = req[q]
      /\ \/ req'[r].op = "issue" /\ req'[r].from = c
         \/ req'[r].op = "reply" /\ req'[r].pair = NoPair
         \/ req'[r].op = "idle" /\ \A t \in Thread : call[t] # r
  BY <1>1 DEF DesktopTypeOK, TypeOK, Issuing, Reply, Idle
<1> HIDE DEF c
<1>3. \A t \in Thread : /\ Calling(t)' <=> Calling(t)
                        /\ Calling(t) => call[t] \in Request
  BY <1>1 DEF Calling, DesktopTypeOK
<1>4. ThreadInv'
  BY <1>1, <1>2, <1>3 DEF DeskInv, ThreadInv
<1>5. /\ \A p : OnDesktop(p)' <=> OnDesktop(p)
      /\ \A p \in Pair : Redeemed(p)' => Redeemed(p)
      /\ \A d : AskedOn(d)' = AskedOn(d)
  BY <1>1, <1>2, SessionAssumption DEF OnDesktop, Issued, Redeemed, AskedOn, pairVars
<1>6. \A t \in Thread : Answered(t)' = Answered(t)
  BY <1>1, <1>2, <1>3 DEF Answered
<1>7. SurfaceInv'
  <2>1. \A q \in Request : req'[q].op = "exchange" => req'[q].from \in Sso
    BY <1>2 DEF DeskInv, SurfaceInv
  <2>2. \A t \in Thread : Calling(t) /\ req'[call[t]].op \in {"issue", "exchange"} =>
                            req[call[t]].op \in {"issue", "exchange"}
                            /\ req'[call[t]].from = req[call[t]].from
    BY <1>1, <1>2, <1>3 DEF c
  <2> QED BY <1>1, <1>3, <1>5, <1>6, <2>1, <2>2 DEF DeskInv, SurfaceInv
<1>8. ApartInv'
  BY <1>1, <1>6 DEF DeskInv, ApartInv
<1>9. HeldInv'
  <2>1. \A t \in Thread : Redeeming(t) => Redeeming(t)'
    BY <1>1, <1>2, <1>3, <1>6 DEF Redeeming, Calling, pairVars
  <2>2. \A p : OnDesktop(p) => p \in Pair
    BY DEF OnDesktop, Issued
  <2> QED BY <1>1, <1>5, <1>6, <2>1, <2>2 DEF DeskInv, HeldInv, SurfaceInv
<1> QED BY <1>4, <1>7, <1>8, <1>9 DEF DeskInv

\* A pair is issued for what a request took: it replaces it.
LEMMA PairIssued ==
  ASSUME DesktopTypeOK, ClaimInv, DeskInv, NEW r \in Request, GeneratePair(r),
         UNCHANGED <<call, desktopVars>>
  PROVE  DeskInv'
<1> DEFINE c == req[r].from
           u0 == req[r].user
<1>1. PICK p \in Pair : /\ ~Issued(p)
                        /\ owner' = [owner EXCEPT ![p] = u0]
                        /\ origin' = [origin EXCEPT ![p] = c]
                        /\ surface' = [surface EXCEPT ![p] = AskedOn(c)]
                        /\ req' = [req EXCEPT ![r] = IF \E t \in Thread : call[t] = r
                                                     THEN Reply(p) ELSE Idle]
                        /\ req[r].op = "issue"
                        /\ UNCHANGED <<sso, at, monitor, refresh, torn>>
  BY DEF GeneratePair, Answer, Goto, desktopVars
<1>2. u0 \in User /\ Claims(r, c) /\ Takes(r, c)
  BY <1>1, ClaimType DEF Claims, Takes, DesktopTypeOK
<1>3. /\ \A q \in Request \ {r} : req'[q] = req[q]
      /\ \/ req'[r].op = "reply" /\ req'[r].pair = p
         \/ req'[r].op = "idle" /\ \A t \in Thread : call[t] # r
  BY <1>1 DEF DesktopTypeOK, TypeOK, Reply, Idle
<1>4. /\ \A q \in Pair : Issued(q)' <=> q = p \/ Issued(q)
      /\ \A q \in Pair \ {p} : owner'[q] = owner[q] /\ origin'[q] = origin[q]
                               /\ surface'[q] = surface[q]
      /\ owner'[p] = u0 /\ origin'[p] = c /\ surface'[p] = AskedOn(c)
  BY <1>1, <1>2, SessionAssumption DEF DesktopTypeOK, TypeOK, Issued
<1>5. Free(p)
  BY <1>1 DEF ClaimInv
<1> HIDE DEF c, u0
<1>6. \A q \in Pair : Redeemed(q)' => Redeemed(q)
  <2> SUFFICES ASSUME NEW q \in Pair, Redeemed(q)' PROVE Redeemed(q)
    OBVIOUS
  <2>1. CASE \E o \in Pair : Issued(o)' /\ origin'[o] = q
    BY <1>2, <1>4, <2>1 DEF Redeemed, Takes
  <2>2. CASE \E o \in Request : req'[o].op = "issue" /\ req'[o].from = q
    BY <1>3, <2>2 DEF Redeemed
  <2> QED BY <2>1, <2>2 DEF Redeemed
<1>7. ~Redeemed(p)'
  BY <1>5, <1>6, FreeIsUnredeemed
<1>8. \A q : OnDesktop(q) => q \in Pair \ {p} /\ OnDesktop(q)'
  BY <1>1, <1>4 DEF OnDesktop, Issued
<1>9. \A t \in Thread : /\ Calling(t)' <=> Calling(t)
                        /\ Calling(t) => call[t] \in Request
  BY <1>1 DEF Calling, DesktopTypeOK
<1>10. ThreadInv'
  BY <1>1, <1>3, <1>9 DEF DeskInv, ThreadInv
<1>11. \A t \in Thread : Answered(t)' = IF Calling(t) /\ call[t] = r THEN p ELSE Answered(t)
  BY <1>1, <1>3, <1>9 DEF Answered
<1>12. \A t \in Thread : Calling(t) /\ call[t] = r => OnDesktop(p)' /\ Answered(t) = NoPair
  <2> SUFFICES ASSUME NEW t \in Thread, Calling(t), call[t] = r
               PROVE  OnDesktop(p)' /\ Answered(t) = NoPair
    OBVIOUS
  <2>1. AskedOn(c) = "desktop"
    BY <1>1 DEF DeskInv, SurfaceInv, c
  <2> QED BY <1>1, <1>4, <2>1 DEF OnDesktop, Answered
<1>13. SurfaceInv'
  <2>1. \A q \in Request : req'[q].op = "exchange" => req'[q].from \in Sso
    BY <1>3 DEF DeskInv, SurfaceInv
  <2>2. ASSUME NEW t \in Thread, Calling(t), req'[call[t]].op \in {"issue", "exchange"}
        PROVE  AskedOn(req[call[t]].from)' = "desktop" /\ req'[call[t]] = req[call[t]]
    <3> DEFINE d == req[call[t]].from
    <3>1. call[t] # r /\ req'[call[t]] = req[call[t]]
      BY <1>3, <1>9, <2>2
    <3>2. AskedOn(d) = "desktop" /\ Claims(call[t], d)
      BY <2>2, <3>1 DEF DeskInv, SurfaceInv, Claims
    <3> HIDE DEF d
    <3>3. d # p
      BY <1>5, <1>9, <2>2, <3>2 DEF Free
    <3> QED BY <1>1, <1>4, <3>1, <3>2, <3>3 DEF AskedOn, d
  <2>3. \A t \in Thread : Answered(t)' # NoPair => OnDesktop(Answered(t))'
    BY <1>8, <1>11, <1>12 DEF DeskInv, SurfaceInv
  <2>4. refresh' # NoPair => OnDesktop(refresh)'
    BY <1>1, <1>8 DEF DeskInv, SurfaceInv
  <2> QED BY <1>1, <1>9, <2>1, <2>2, <2>3, <2>4 DEF SurfaceInv
<1>14. ApartInv'
  <2>1. \A t, u \in Thread : Calling(t) /\ Calling(u) /\ call[t] = r /\ call[u] = r => t = u
    BY DEF DeskInv, ThreadInv
  <2>2. refresh # p /\ \A t \in Thread : Answered(t) # p
    BY <1>1, <1>8, SessionAssumption DEF DeskInv, SurfaceInv
  <2> QED BY <1>1, <1>11, <2>1, <2>2 DEF DeskInv, ApartInv
<1>15. HeldInv'
  <2>1. ASSUME NEW t \in Thread, Redeeming(t) PROVE Redeeming(t)'
    <3>1. at[t] = "refreshing" /\ Calling(t)
      BY <2>1 DEF Redeeming, Calling
    <3>2. CASE call[t] = r
      BY <1>1, <1>4, <1>11, <1>12, <2>1, <3>1, <3>2, SessionAssumption DEF Redeeming, c
    <3>3. CASE call[t] # r
      <4>1. Answered(t)' = Answered(t) /\ req'[call[t]] = req[call[t]]
        BY <1>3, <1>9, <1>11, <3>1, <3>3
      <4>2. Answered(t) # NoPair => origin'[Answered(t)] = origin[Answered(t)]
        BY <1>4, <1>8 DEF DeskInv, SurfaceInv
      <4> QED BY <1>1, <2>1, <4>1, <4>2 DEF Redeeming
    <3> QED BY <3>2, <3>3
  <2>2. \A t \in Thread : Answered(t) # NoPair => Answered(t) \in Pair
    BY AnsweredType
  <2>3. refresh # NoPair => refresh \in Pair
    BY DEF DesktopTypeOK
  <2> QED BY <1>1, <1>6, <1>7, <1>11, <2>1, <2>2, <2>3 DEF DeskInv, HeldInv
<1> QED BY <1>10, <1>13, <1>14, <1>15 DEF DeskInv

\* A step of the API or of a browser.
LEMMA OthersDesk ==
  ASSUME DesktopTypeOK, ClaimInv, DeskInv, Others PROVE DeskInv'
<1>1. /\ UNCHANGED <<call, at, monitor, refresh, torn>>
      /\ req \in [Request -> RequestState] /\ sso \in [Sso -> SsoState]
  BY DEF Others, desktopVars, DesktopTypeOK, TypeOK
\* What a request that no thread waits for does.
<1>2. ASSUME NEW r \in Request, NEW next, req' = [req EXCEPT ![r] = next],
             req[r].op \notin {"issue", "exchange", "reply"},
             next.op = "issue" => ~OnDesktop(next.from),
             next.op = "exchange" => next.from \in Sso,
             UNCHANGED pairVars,
             \A s \in Sso : sso[s].status = "used" => sso'[s].surface = sso[s].surface
      PROVE  DeskInv'
  <2>1. req'[r] = next /\ \A q \in Request \ {r} : req'[q] = req[q]
    BY <1>1, <1>2
  <2> QED BY <1>1, <1>2, <2>1, ThreadsRest
<1>3. ASSUME NEW r \in Request, NEW p, Answer(r, p),
             req[r].op \notin {"issue", "exchange", "reply"}, UNCHANGED pairVars,
             \A s \in Sso : sso[s].status = "used" => sso'[s].surface = sso[s].surface
      PROVE  DeskInv'
  <2> DEFINE next == IF \E t \in Thread : call'[t] = r THEN Reply(p) ELSE Idle
  <2>1. req' = [req EXCEPT ![r] = next] /\ next.op \in {"idle", "reply"}
    BY <1>3 DEF Answer, Goto, Reply, Idle
  <2> HIDE DEF next
  <2> QED BY <1>2, <1>3, <2>1
<1>4. ASSUME NEW r \in Request, ReadSsoUser(r) \/ GeneratePair(r) PROVE DeskInv'
  BY <1>4, SsoRead, PairIssued DEF Others
<1>5. ASSUME NEW r \in Request, DeleteAccount(r) PROVE DeskInv'
  BY <1>2, <1>5 DEF DeleteAccount, Goto, Idle
<1>6. ASSUME NEW r \in Request, NEW part \in {"refresh", "access"}, Revoke(r, part)
      PROVE  DeskInv'
  <2>1. req[r] \in [op : {"revoke"}, user : User, pair : Pair,
                    left : SUBSET {"refresh", "access"}]
    BY <1>1, <1>6 DEF Revoke, RequestState, Idle, Reply
  <2>2. PICK next : req' = [req EXCEPT ![r] = next] /\ next.op \in {"idle", "revoke"}
    <3> DEFINE left == req[r].left \ {part}
               done == IF left = {} THEN Idle ELSE [req[r] EXCEPT !.left = left]
    <3>1. req' = [req EXCEPT ![r] = done]
      BY <1>6 DEF Revoke, Goto
    <3>2. [req[r] EXCEPT !.left = left].op = "revoke"
      BY <2>1
    <3>3. done.op \in {"idle", "revoke"}
      BY <3>2 DEF Idle
    <3> QED BY <3>1, <3>3
  <2> QED BY <1>2, <1>6, <2>1, <2>2 DEF Revoke
<1>7. ASSUME UNCHANGED <<req, pairVars>>,
             \A s \in Sso : sso[s].status = "used" => sso'[s].surface = sso[s].surface
      PROVE  DeskInv'
  BY <1>1, <1>7, ThreadsRest
<1>8. ASSUME NEW s \in Sso, ExpireSso(s) PROVE DeskInv'
  BY <1>1, <1>7, <1>8 DEF ExpireSso, tokenVars
<1>9. ASSUME NEW p \in Pair, TokenExpires(p) PROVE DeskInv'
  BY <1>7, <1>9 DEF TokenExpires, ExpireAccess, tokenVars
<1>10. ASSUME NEW r \in Request, NEW u \in User, Login(r, u) PROVE DeskInv'
  <2>1. ~OnDesktop(Password)
    BY SessionAssumption DEF OnDesktop, Issued
  <2>2. /\ req[r].op = "idle" /\ req' = [req EXCEPT ![r] = Issuing(u, Password)]
        /\ UNCHANGED <<pairVars, sso>>
    BY <1>10 DEF Login, Goto, Idle, tokenVars
  <2>3. Issuing(u, Password).op = "issue" /\ Issuing(u, Password).from = Password
    BY DEF Issuing
  <2> QED BY <1>2, <2>1, <2>2, <2>3
<1>11. ASSUME NEW r \in Request, NEW p \in Pair, InBrowser(p), Refresh(r, p) PROVE DeskInv'
  <2>1. req[r].op = "idle" /\ ~OnDesktop(p) /\ UNCHANGED <<pairVars, sso>>
    BY <1>11 DEF Refresh, Rotate, Idle, InBrowser, OnDesktop
  <2>2. CASE Redeemable(p)
    BY <1>2, <1>11, <2>1, <2>2 DEF Refresh, Rotate, Goto, Issuing
  <2>3. CASE ~Redeemable(p)
    BY <1>3, <1>11, <2>1, <2>3 DEF Refresh, Rotate, Refuse
  <2> QED BY <2>2, <2>3
<1>12. ASSUME NEW r \in Request, NEW p \in Pair, Logout(r, p) \/ BeginDeletion(r, p)
       PROVE  DeskInv'
  BY <1>2, <1>12 DEF Logout, BeginDeletion, Goto, Idle, tokenVars
<1>13. ASSUME NEW u \in User, NEW new \in Assignable, WriteRole(u, new) PROVE DeskInv'
  BY <1>7, <1>13 DEF WriteRole, tokenVars
<1>14. ASSUME NEW s \in Sso, NEW p \in Pair, NEW for \in Surface, GenerateSso(s, p, for)
       PROVE  DeskInv'
  BY <1>1, <1>7, <1>14 DEF GenerateSso, tokenVars
<1>15. ASSUME NEW r \in Request, NEW s \in Sso, NEW matches \in BOOLEAN,
              req[r] = Idle, Exchange(r, s, matches)
       PROVE  DeskInv'
  <2>1. /\ req[r].op = "idle" /\ UNCHANGED pairVars
        /\ \A v \in Sso : sso'[v].surface = sso[v].surface
    BY <1>1, <1>15 DEF Exchange, Idle, tokenVars, SsoState, NoSso
  <2>2. CASE sso[s].status = "unused" /\ matches
    BY <1>2, <1>15, <2>1, <2>2 DEF Exchange, Goto
  <2>3. CASE ~(sso[s].status = "unused" /\ matches)
    BY <1>3, <1>15, <2>1, <2>3 DEF Exchange, Refuse
  <2> QED BY <2>2, <2>3
<1> QED
  BY <1>4, <1>5, <1>6, <1>8, <1>9, <1>10, <1>11, <1>12, <1>13, <1>14, <1>15
     DEF Others, ServerStep, BrowserStep

\* A thread that waits for nothing any longer: it takes its answer, or leaves
\* the refresh token where no thread has presented it.
LEMMA ThreadLeaves ==
  ASSUME DesktopTypeOK, DeskInv, NEW t \in Thread, NEW pc \in {"idle", "wants"},
         at' = [at EXCEPT ![t] = pc],
         \A u \in Thread \ {t} : call'[u] = call[u],
         monitor' = IF monitor = t THEN NoThread ELSE monitor,
         \A r \in Request : \/ req'[r] = req[r]
                            \/ r = call[t] /\ Calling(t) /\ req'[r] = Idle,
         UNCHANGED <<pairVars, sso>>,
         refresh' = refresh \/ (Answered(t) # NoPair /\ refresh' = Answered(t)),
         torn => torn',
         torn' \/ refresh' = Answered(t) \/ ~Redeeming(t)
  PROVE  DeskInv'
<1>1. /\ ~Calling(t)' /\ at'[t] # "refreshing"
      /\ \A u \in Thread \ {t} : /\ Calling(u)' <=> Calling(u)
                                 /\ at'[u] = at[u] /\ call'[u] = call[u]
                                 /\ Calling(u) => call[u] \in Request
                                                  /\ req'[call[u]] = req[call[u]]
  BY DEF DesktopTypeOK, DeskInv, ThreadInv, Calling
<1>2. ThreadInv'
  BY <1>1, DesktopAssumption DEF DeskInv, ThreadInv
<1>3. /\ Answered(t)' = NoPair
      /\ \A u \in Thread \ {t} : Answered(u)' = Answered(u)
  BY <1>1 DEF Answered
<1>4. /\ \A p : OnDesktop(p)' <=> OnDesktop(p)
      /\ \A p : Redeemed(p)' => Redeemed(p)
      /\ \A c : AskedOn(c)' = AskedOn(c)
  BY DEF OnDesktop, Issued, Redeemed, AskedOn, pairVars, Idle
<1>5. SurfaceInv'
  <2>1. \A r \in Request : req'[r].op = "exchange" => req'[r].from \in Sso
    BY DEF DeskInv, SurfaceInv, Idle
  <2> QED BY <1>1, <1>3, <1>4, <2>1 DEF DeskInv, SurfaceInv
<1>6. ApartInv'
  BY <1>3 DEF DeskInv, ApartInv
<1>7. HeldInv'
  <2> SUFFICES ASSUME ~torn'
               PROVE  /\ refresh' # NoPair /\ Redeemed(refresh)' =>
                           \E u \in Thread : Redeeming(u)'
                      /\ \A u \in Thread : Answered(u)' # NoPair => ~Redeemed(Answered(u))'
    BY DEF HeldInv
  <2>1. \A u \in Thread \ {t} : refresh' = refresh /\ Redeeming(u) => Redeeming(u)'
    BY <1>1, <1>3 DEF Redeeming, Calling, pairVars
  <2>2. \A u \in Thread : Answered(u)' # NoPair => ~Redeemed(Answered(u))'
    BY <1>3, <1>4 DEF DeskInv, HeldInv
  <2>3. ASSUME refresh' # NoPair, Redeemed(refresh)' PROVE \E u \in Thread : Redeeming(u)'
    <3>1. Redeemed(refresh')
      BY <1>4, <2>3
    <3>2. refresh' = refresh /\ ~Redeeming(t)
      BY <2>3, <3>1 DEF DeskInv, HeldInv
    <3> QED BY <2>1, <2>3, <3>1, <3>2 DEF DeskInv, HeldInv
  <2> QED BY <2>2, <2>3
<1> QED BY <1>2, <1>5, <1>6, <1>7 DEF DeskInv

\* A thread in refreshAccessToken presents the refresh token, which nobody has.
LEMMA ThreadRotates ==
  ASSUME DesktopTypeOK, ClaimInv, DeskInv, NEW t \in Thread, NEW r \in Request,
         at' = [at EXCEPT ![t] = "refreshing"],
         call'[t] = r, \A u \in Thread \ {t} : call'[u] = call[u],
         monitor \in {NoThread, t}, monitor' = t,
         \/ req[r] = Idle /\ at[t] = "wants"
         \/ Calling(t) /\ call[t] = r /\ req[r] = Reply(NoPair),
         refresh # NoPair, Rotate(r, refresh), UNCHANGED <<refresh, torn>>
  PROVE  DeskInv'
<1>1. /\ Calling(t)' /\ at'[t] = "refreshing"
      /\ \A u \in Thread \ {t} : /\ Calling(u)' <=> Calling(u)
                                 /\ at'[u] = at[u] /\ call'[u] = call[u]
                                 /\ Calling(u) => call[u] \in Request /\ call[u] # r
  BY DEF DesktopTypeOK, DeskInv, ThreadInv, Calling, Idle
<1>2. UNCHANGED <<pairVars, sso>> /\ refresh \in Pair /\ OnDesktop(refresh)
  BY DEF Rotate, DeskInv, SurfaceInv, DesktopTypeOK
<1>3. /\ \A q \in Request \ {r} : req'[q] = req[q]
      /\ \/ req'[r].op = "issue" /\ req'[r].from = refresh
         \/ req'[r].op = "reply" /\ req'[r].pair = NoPair
  BY DEF Rotate, Refuse, Answer, Goto, Issuing, Reply, DesktopTypeOK, TypeOK
<1>4. ThreadInv'
  BY <1>1, <1>3, DesktopAssumption DEF DeskInv, ThreadInv
<1>5. /\ Answered(t)' = NoPair
      /\ \A u \in Thread \ {t} : Answered(u)' = Answered(u)
  BY <1>1, <1>3 DEF Answered
<1>6. /\ \A p : OnDesktop(p)' <=> OnDesktop(p)
      /\ \A p : Redeemed(p)' => Redeemed(p) \/ (p = refresh /\ req'[r].op = "issue")
      /\ \A c : AskedOn(c)' = AskedOn(c)
  BY <1>2, <1>3 DEF OnDesktop, Issued, Redeemed, AskedOn, pairVars
<1>7. SurfaceInv'
  <2>1. \A q \in Request : req'[q].op = "exchange" => req'[q].from \in Sso
    BY <1>3 DEF DeskInv, SurfaceInv
  <2>2. AskedOn(refresh) = "desktop"
    BY <1>2, SessionAssumption DEF AskedOn, OnDesktop
  <2>3. \A u \in Thread \ {t} : Calling(u) => req'[call'[u]] = req[call[u]]
    BY <1>1, <1>3
  <2> QED BY <1>1, <1>2, <1>3, <1>5, <1>6, <2>1, <2>2, <2>3 DEF DeskInv, SurfaceInv
<1>8. ApartInv'
  BY <1>5 DEF DeskInv, ApartInv
<1>9. HeldInv'
  <2> SUFFICES ASSUME ~torn
               PROVE  /\ Redeemed(refresh)' => \E u \in Thread : Redeeming(u)'
                      /\ \A u \in Thread : Answered(u)' # NoPair => ~Redeemed(Answered(u))'
    BY DEF HeldInv
  <2>1. \A u \in Thread : ~Redeeming(u)
    BY DesktopAssumption DEF DeskInv, ThreadInv, Redeeming, Answered, Reply, Idle
  <2>2. ~Redeemed(refresh)
    BY <2>1 DEF DeskInv, HeldInv
  <2>3. Redeemed(refresh)' => Redeeming(t)'
    <3>1. Redeemed(refresh)' => req'[r].op = "issue"
      BY <1>6, <2>2
    <3> QED BY <1>1, <1>3, <3>1 DEF Redeeming
  <2>4. \A u \in Thread : Answered(u)' # NoPair => ~Redeemed(Answered(u))'
    BY <1>5, <1>6 DEF DeskInv, HeldInv, ApartInv
  <2> QED BY <2>3, <2>4
<1> QED BY <1>4, <1>7, <1>8, <1>9 DEF DeskInv

\* A thread signs in with an SSO token that was asked for on the desktop.
LEMMA ThreadSignsIn ==
  ASSUME DesktopTypeOK, ClaimInv, DeskInv, NEW t \in Thread, SignIn(t) PROVE DeskInv'
<1>1. PICK r \in Request, s \in Sso :
        /\ req[r] = Idle /\ at' = [at EXCEPT ![t] = "signing"]
        /\ call' = [call EXCEPT ![t] = r]
        /\ sso[s].surface = "desktop" /\ Exchange(r, s, TRUE)
  BY DEF SignIn, Call
<1>2. /\ at[t] = "idle" /\ UNCHANGED <<refresh, monitor, torn, pairVars>>
      /\ sso \in [Sso -> SsoState]
  BY <1>1 DEF SignIn, Exchange, tokenVars, DesktopTypeOK, TypeOK
<1>3. /\ Calling(t)' /\ at'[t] = "signing" /\ call'[t] = r /\ ~Calling(t)
      /\ \A u \in Thread \ {t} : /\ Calling(u)' <=> Calling(u)
                                 /\ at'[u] = at[u] /\ call'[u] = call[u]
                                 /\ Calling(u) => call[u] \in Request /\ call[u] # r
  BY <1>1, <1>2 DEF DesktopTypeOK, TypeOK, DeskInv, ThreadInv, Calling, Idle
<1>4. /\ \A q \in Request \ {r} : req'[q] = req[q]
      /\ \/ req'[r].op = "exchange" /\ req'[r].from = s
         \/ req'[r].op = "reply" /\ req'[r].pair = NoPair
  <2>1. req \in [Request -> RequestState]
    BY DEF DesktopTypeOK, TypeOK
  <2> QED BY <1>1, <1>3, <2>1 DEF Exchange, Refuse, Answer, Goto, Reply
<1>5. \A v \in Sso : sso'[v].surface = sso[v].surface
  BY <1>1, <1>2 DEF Exchange, SsoState, NoSso
<1>6. ThreadInv'
  BY <1>2, <1>3, <1>4 DEF DeskInv, ThreadInv
<1>7. /\ Answered(t)' = NoPair /\ Answered(t) = NoPair
      /\ \A u \in Thread \ {t} : Answered(u)' = Answered(u)
  BY <1>3, <1>4 DEF Answered
<1>8. /\ \A p : OnDesktop(p)' <=> OnDesktop(p)
      /\ \A p : Redeemed(p)' => Redeemed(p)
      /\ \A c : AskedOn(c)' = AskedOn(c)
  BY <1>2, <1>4, <1>5 DEF OnDesktop, Issued, Redeemed, AskedOn, pairVars
<1>9. SurfaceInv'
  <2>1. \A q \in Request : req'[q].op = "exchange" => req'[q].from \in Sso
    BY <1>4 DEF DeskInv, SurfaceInv
  <2>2. AskedOn(s) = "desktop"
    BY <1>1 DEF AskedOn
  <2>3. \A u \in Thread \ {t} : Calling(u) => req'[call'[u]] = req[call[u]]
    BY <1>3, <1>4
  <2> QED BY <1>2, <1>3, <1>4, <1>7, <1>8, <2>1, <2>2, <2>3 DEF DeskInv, SurfaceInv
<1>10. ApartInv'
  BY <1>2, <1>7 DEF DeskInv, ApartInv
<1>11. HeldInv'
  <2>1. \A u \in Thread : Redeeming(u) => Redeeming(u)'
    BY <1>2, <1>3, <1>4, <1>7 DEF Redeeming, Calling, pairVars
  <2> QED BY <1>2, <1>7, <1>8, <2>1 DEF DeskInv, HeldInv
<1> QED BY <1>6, <1>9, <1>10, <1>11 DEF DeskInv

LEMMA RestartDesk == ASSUME DesktopTypeOK, DeskInv, Restart PROVE DeskInv'
<1>1. /\ \A t \in Thread : ~Calling(t)' /\ at'[t] = "idle"
      /\ monitor' = NoThread /\ UNCHANGED <<refresh, pairVars, sso>>
      /\ torn' = (torn \/ \E t \in Thread : Calling(t))
      /\ \A r \in Request : req'[r] = req[r] \/ req'[r].op = "idle"
  BY DEF Restart, DropAnswers, Calling, Idle, tokenVars, pairVars
<1>2. \A t \in Thread : Answered(t)' = NoPair
  BY <1>1 DEF Answered
<1>3. /\ \A p : OnDesktop(p)' <=> OnDesktop(p)
      /\ \A p : Redeemed(p)' => Redeemed(p)
  BY <1>1 DEF OnDesktop, Issued, Redeemed, pairVars
<1>4. ThreadInv' /\ ApartInv'
  BY <1>1, <1>2, DesktopAssumption DEF ThreadInv, ApartInv
<1>5. SurfaceInv'
  BY <1>1, <1>2, <1>3 DEF DeskInv, SurfaceInv
<1>6. HeldInv'
  BY <1>1, <1>2, <1>3 DEF DeskInv, HeldInv, Redeeming, Calling
<1> QED BY <1>4, <1>5, <1>6 DEF DeskInv

LEMMA DesktopDesk ==
  ASSUME DesktopTypeOK, ClaimInv, DeskInv, DesktopStep PROVE DeskInv'
<1>t. /\ req \in [Request -> RequestState] /\ at \in [Thread -> {"idle", "wants", "signing", "refreshing"}]
      /\ call \in [Thread -> Request \cup {NoRequest}]
      /\ \A t \in Thread : Calling(t) => call[t] \in Request
  BY DEF DesktopTypeOK, TypeOK
<1>1. ASSUME NEW t \in Thread, NeedToken(t) PROVE DeskInv'
  <2>1. /\ monitor # t /\ ~Redeeming(t)
        /\ at' = [at EXCEPT ![t] = "wants"]
        /\ UNCHANGED <<call, monitor, req, pairVars, sso, refresh, torn>>
    BY <1>1 DEF NeedToken, sessionVars, pairVars, DeskInv, ThreadInv, Redeeming
  <2> QED BY <2>1, ThreadLeaves
<1>2. ASSUME NEW t \in Thread, RefreshAccessToken(t) PROVE DeskInv'
  <2>1. at[t] = "wants" /\ monitor = NoThread /\ UNCHANGED <<refresh, torn>>
    BY <1>2 DEF RefreshAccessToken, MayEnter
  <2>2. CASE refresh = NoPair \/ Fresh(access)
    <3>1. /\ at' = [at EXCEPT ![t] = "idle"] /\ call' = [call EXCEPT ![t] = NoRequest]
          /\ monitor' = IF monitor = t THEN NoThread ELSE monitor
          /\ UNCHANGED <<req, pairVars, sso>> /\ ~Redeeming(t)
      BY <1>2, <2>1, <2>2 DEF RefreshAccessToken, Return, sessionVars, pairVars, Redeeming
    <3> QED BY <1>t, <2>1, <3>1, ThreadLeaves
  <2>3. CASE ~(refresh = NoPair \/ Fresh(access))
    <3>1. PICK r \in Request : Call(t, r, "refreshing") /\ Rotate(r, refresh) /\ monitor' = t
      BY <1>2, <2>3 DEF RefreshAccessToken
    <3>2. /\ req[r] = Idle /\ at' = [at EXCEPT ![t] = "refreshing"]
          /\ call'[t] = r /\ \A u \in Thread \ {t} : call'[u] = call[u]
      BY <1>t, <3>1 DEF Call
    <3> QED BY <2>1, <2>3, <3>1, <3>2, ThreadRotates
  <2> QED BY <2>2, <2>3
<1>3. ASSUME NEW t \in Thread, SignIn(t) PROVE DeskInv'
  BY <1>3, ThreadSignsIn
<1>4. ASSUME NEW t \in Thread, DropAnswers({call[t]}), Return(t), Calling(t),
             refresh' = refresh \/ (Answered(t) # NoPair /\ refresh' = Answered(t)),
             torn => torn',
             torn' \/ refresh' = Answered(t) \/ ~Redeeming(t)
      PROVE  DeskInv'
  <2>1. /\ at' = [at EXCEPT ![t] = "idle"] /\ \A u \in Thread \ {t} : call'[u] = call[u]
        /\ monitor' = IF monitor = t THEN NoThread ELSE monitor
        /\ UNCHANGED <<pairVars, sso>>
        /\ \A r \in Request : req'[r] = req[r] \/ (r = call[t] /\ req'[r] = Idle)
    BY <1>4, <1>t DEF Return, DropAnswers, tokenVars, pairVars
  <2> QED BY <1>4, <2>1, ThreadLeaves
<1>5. ASSUME NEW t \in Thread, ApplyTokens(t) PROVE DeskInv'
  <2>1. Answered(t) # NoPair /\ refresh' = Answered(t)
    BY <1>5 DEF ApplyTokens, Answered
  <2> QED BY <1>4, <1>5, <2>1 DEF ApplyTokens
<1>6. ASSUME NEW t \in Thread, Refused(t) PROVE DeskInv'
  <2>1. ~Redeeming(t) /\ Calling(t) /\ req[call[t]] = Reply(NoPair) /\ UNCHANGED <<refresh, torn>>
    BY <1>6 DEF Refused, Redeeming, Answered, Reply
  <2>2. CASE DropAnswers({call[t]}) /\ Return(t)
    BY <1>4, <2>1, <2>2
  <2>3. CASE /\ refresh # NoPair /\ (MayEnter(t) \/ monitor = t)
             /\ UNCHANGED call /\ Rotate(call[t], refresh)
             /\ at' = [at EXCEPT ![t] = "refreshing"] /\ monitor' = t
    BY <1>t, <2>1, <2>3, ThreadRotates DEF MayEnter
  <2> QED BY <1>6, <2>2, <2>3 DEF Refused
<1>7. ASSUME NEW t \in Thread, TimeOut(t) PROVE DeskInv'
  BY <1>4, <1>7 DEF TimeOut
<1>8. CASE NavigateToMain
  BY <1>8 DEF NavigateToMain, sessionVars, pairVars, DeskInv, ThreadInv, SurfaceInv, ApartInv,
    HeldInv, Redeeming, Redeemed, Answered, OnDesktop, Issued, AskedOn, Calling
<1>9. CASE ClearSession
  <2>1. refresh' = NoPair /\ UNCHANGED <<sessionVars, monitor, at, call, torn>>
    BY <1>9 DEF ClearSession
  <2> QED
    BY <2>1 DEF sessionVars, pairVars, DeskInv, ThreadInv, SurfaceInv, ApartInv,
      HeldInv, Redeemed, Answered, OnDesktop, Issued, AskedOn, Calling
<1>10. CASE Restart
  BY <1>10, RestartDesk
<1> QED BY <1>1, <1>2, <1>3, <1>5, <1>6, <1>7, <1>8, <1>9, <1>10 DEF DesktopStep

\* As long as no answer is lost, the threads of a desktop present no refresh
\* token that was redeemed: one of them is in refreshAccessToken at a time, and
\* what it has presented is replaced before another one enters, for any threads,
\* users and requests (AuthService.java:68-91).
THEOREM NothingIsReplayed == Spec => NeverReplays
<1> DEFINE Inv == DesktopTypeOK /\ ClaimInv /\ DeskInv
           Enters == \A t \in Thread :
                       at'[t] = "refreshing" /\ monitor' = t /\ monitor # t
                         => torn \/ ~Redeemed(refresh)
<1>1. Init => ClaimInv /\ DeskInv
  <2>1. Init => ClaimInv
    BY SessionAssumption DEF Init, SessionInit, ClaimInv, RedeemedOnce, Free, Spent, Issued,
                          Claims, Idle
  <2>2. Init => DeskInv
    BY DesktopAssumption
       DEF Init, SessionInit, DeskInv, ThreadInv, SurfaceInv, ApartInv, HeldInv, Answered,
           Calling, Idle
  <2> QED BY <2>1, <2>2
<1>2. Inv /\ [Next]_vars => ClaimInv' /\ DeskInv'
  <2>1. CASE UNCHANGED vars
    <3>1. Inv => ClaimInv'
      BY <2>1, AccountClaims DEF vars, DesktopTypeOK
    <3>2. Inv => DeskInv'
      BY <2>1 DEF vars, desktopVars, sessionVars, pairVars, DeskInv, ThreadInv, SurfaceInv,
        ApartInv, HeldInv, Redeeming, Redeemed, Answered, OnDesktop, Issued, AskedOn, Calling
    <3> QED BY <3>1, <3>2
  <2> QED BY <2>1, NextClaims, OthersDesk, DesktopDesk DEF Next
<1>3. Inv /\ [Next]_vars => [Enters]_vars
  <2> SUFFICES ASSUME Inv, Next, NEW t \in Thread,
                      at'[t] = "refreshing", monitor' = t, monitor # t
               PROVE  torn \/ ~Redeemed(refresh)
    OBVIOUS
  <2>1. \/ \E u \in Thread : RefreshAccessToken(u)
        \/ \E u \in Thread : Refused(u)
    BY DesktopAssumption DEF Next, Others, desktopVars, DesktopStep, NeedToken, SignIn, ApplyTokens,
      TimeOut, Return, NavigateToMain, ClearSession, Restart
  <2>2. monitor = NoThread /\ refresh # NoPair
    <3>1. CASE \E u \in Thread : RefreshAccessToken(u)
      BY <3>1, DesktopAssumption DEF RefreshAccessToken, MayEnter, Return
    <3>2. CASE \E u \in Thread : Refused(u)
      BY <3>2, DesktopAssumption DEF Refused, MayEnter, Return
    <3> QED BY <2>1, <3>1, <3>2
  <2>3. \A u \in Thread : ~Redeeming(u)
    BY <2>2, DesktopAssumption DEF DeskInv, ThreadInv, Redeeming
  <2> QED BY <2>2, <2>3 DEF DeskInv, HeldInv
<1>4. Spec => []Inv
  BY <1>1, <1>2, TypeCorrect, PTL DEF Spec
<1> QED BY <1>3, <1>4, PTL DEF Spec, NeverReplays

-----------------------------------------------------------------------------
(* One-time codes.                                                           *)

\* A code that was accepted is either remembered past its window or too old.
SpentCodeIsKnown ==
  \A c \in Code :
    acceptances[c] > 0 =>
      \/ \E entry \in usedCodes :
           entry.code = c /\ entry.until >= c[2] + 2 * Period
      \/ time >= c[2] + 2 * Period

TotpInv == TotpTypeOK /\ SpentCodeIsKnown /\ CodeIsUsedOnce

\* The purge keeps only entries that were there.
LEMMA RememberedIsUsed == Remembered \subseteq usedCodes
  BY DEF Remembered

\* A code that was accepted and is not remembered any more is out of its
\* window: verify cannot accept it again.
LEMMA ForgottenIsTooOld ==
  ASSUME TotpInv, NEW c \in Code, acceptances[c] > 0,
         \A entry \in Remembered : entry.code # c
  PROVE  time >= c[2] + 2 * Period
<1>1. c[2] \in Nat /\ Period \in Nat /\ time \in Nat
  BY TotpConstants DEF TotpInv, TotpTypeOK, Code
<1>2. CASE \E entry \in usedCodes :
             entry.code = c /\ entry.until >= c[2] + 2 * Period
  <2>1. PICK entry \in usedCodes :
          entry.code = c /\ entry.until >= c[2] + 2 * Period
    BY <1>2
  <2>2. entry.until \in Nat /\ ~(entry.until >= time)
    BY <2>1 DEF Remembered, TotpInv, TotpTypeOK
  <2>3. QED
    BY <1>1, <2>1, <2>2
<1>3. QED
  BY <1>2 DEF TotpInv, SpentCodeIsKnown

\* The purge loses no code that could still be accepted.
LEMMA PurgeKeepsSpentCodes ==
  ASSUME TotpInv, NEW c \in Code, acceptances[c] > 0
  PROVE  \/ \E entry \in Remembered :
              entry.code = c /\ entry.until >= c[2] + 2 * Period
         \/ time >= c[2] + 2 * Period
<1>1. c[2] \in Nat /\ Period \in Nat /\ time \in Nat
  BY TotpConstants DEF TotpInv, TotpTypeOK, Code
<1>2. CASE \E entry \in usedCodes :
             entry.code = c /\ entry.until >= c[2] + 2 * Period
  <2>1. PICK entry \in usedCodes :
          entry.code = c /\ entry.until >= c[2] + 2 * Period
    BY <1>2
  <2>2. entry.until \in Nat
    BY <2>1 DEF TotpInv, TotpTypeOK
  <2>3. entry \in Remembered \/ ~(entry.until >= time)
    BY <2>1 DEF Remembered
  <2>4. QED
    BY <1>1, <2>1, <2>2, <2>3
<1>3. QED
  BY <1>2 DEF TotpInv, SpentCodeIsKnown

LEMMA TotpInvInit == TotpInit => TotpInv
  BY DEF TotpInit, TotpInv, TotpTypeOK, SpentCodeIsKnown, CodeIsUsedOnce

LEMMA AcceptCodeKeeps ==
  ASSUME TotpInv, NEW c \in Code, AcceptCode(c)
  PROVE  TotpInv'
<1>1. /\ c[2] \in Nat /\ Period \in Nat /\ time \in Nat /\ ReplayTtl \in Nat
      /\ ReplayTtl >= 3 * Period
      /\ acceptances \in [Code -> Nat]
  BY TotpConstants DEF TotpInv, TotpTypeOK, Code
<1>2. acceptances[c] = 0
  <2>1. ~(time >= c[2] + 2 * Period)
    BY <1>1 DEF AcceptCode, InWindow
  <2>2. ~(acceptances[c] > 0)
    BY <2>1, ForgottenIsTooOld DEF AcceptCode
  <2>3. QED
    BY <1>1, <2>2
<1>3. TotpTypeOK'
  <2>1. [code |-> c, until |-> time + ReplayTtl] \in [code : Code, until : Nat]
    BY <1>1
  <2>2. usedCodes' \subseteq [code : Code, until : Nat]
    BY <2>1, RememberedIsUsed DEF AcceptCode, TotpInv, TotpTypeOK
  <2>3. QED
    BY <1>1, <2>2 DEF AcceptCode, TotpTypeOK
<1>4. SpentCodeIsKnown'
  <2>1. SUFFICES ASSUME NEW d \in Code, acceptances'[d] > 0
                 PROVE  \/ \E entry \in usedCodes' :
                             entry.code = d /\ entry.until >= d[2] + 2 * Period
                        \/ time >= d[2] + 2 * Period
    BY DEF SpentCodeIsKnown, AcceptCode
  <2>2. CASE d = c
    <3>1. time + ReplayTtl >= c[2] + 2 * Period
      BY <1>1 DEF AcceptCode, InWindow
    <3>2. [code |-> c, until |-> time + ReplayTtl] \in usedCodes'
      BY DEF AcceptCode
    <3>3. QED
      BY <2>2, <3>1, <3>2
  <2>3. CASE d # c
    <3>1. acceptances[d] > 0
      BY <1>1, <2>1, <2>3 DEF AcceptCode
    <3>2. QED
      BY <3>1, PurgeKeepsSpentCodes DEF AcceptCode
  <2>4. QED
    BY <2>2, <2>3
<1>5. CodeIsUsedOnce'
  BY <1>1, <1>2 DEF CodeIsUsedOnce, TotpInv, AcceptCode
<1>6. QED
  BY <1>3, <1>4, <1>5 DEF TotpInv

LEMMA RefuseCodeKeeps ==
  ASSUME TotpInv, NEW c \in Code, RefuseCode(c)
  PROVE  TotpInv'
<1>1. TotpTypeOK'
  BY RememberedIsUsed DEF RefuseCode, TotpInv, TotpTypeOK
<1>2. SpentCodeIsKnown'
  BY PurgeKeepsSpentCodes DEF SpentCodeIsKnown, RefuseCode
<1>3. CodeIsUsedOnce'
  BY DEF CodeIsUsedOnce, TotpInv, RefuseCode
<1>4. QED
  BY <1>1, <1>2, <1>3 DEF TotpInv

LEMMA TotpTickKeeps ==
  ASSUME TotpInv, TotpTick
  PROVE  TotpInv'
<1>1. TotpTypeOK'
  BY DEF TotpTick, TotpInv, TotpTypeOK
<1>2. SpentCodeIsKnown'
  <2>1. \A c \in Code : c[2] \in Nat
    BY TotpConstants DEF Code
  <2>2. Period \in Nat /\ time \in Nat /\ time' = time + 1
    BY TotpConstants DEF TotpInv, TotpTypeOK, TotpTick
  <2>3. \A c \in Code : time >= c[2] + 2 * Period => time' >= c[2] + 2 * Period
    BY <2>1, <2>2
  <2>4. QED
    BY <2>3 DEF SpentCodeIsKnown, TotpInv, TotpTick
<1>3. CodeIsUsedOnce'
  BY DEF CodeIsUsedOnce, TotpInv, TotpTick
<1>4. QED
  BY <1>1, <1>2, <1>3 DEF TotpInv

LEMMA TotpRestartKeeps ==
  ASSUME TotpInv, TotpRestart
  PROVE  TotpInv'
  BY DEF TotpInv, TotpTypeOK, SpentCodeIsKnown, CodeIsUsedOnce, TotpRestart

\* Between two restarts no code is accepted twice, whatever the period and for
\* every time to live of three periods or more. totp.service.ts:37-61.
THEOREM CodesAreUsedOnce == TotpSpec => []CodeIsUsedOnce
<1>1. TotpInv /\ [TotpNext]_totpVars => TotpInv'
  <2>1. SUFFICES ASSUME TotpInv, [TotpNext]_totpVars PROVE TotpInv'
    OBVIOUS
  <2>2. CASE UNCHANGED totpVars
    BY <2>1, <2>2 DEF totpVars, TotpInv, TotpTypeOK, SpentCodeIsKnown,
                      CodeIsUsedOnce
  <2>3. QED
    BY <2>1, <2>2, AcceptCodeKeeps, RefuseCodeKeeps, TotpTickKeeps,
       TotpRestartKeeps DEF TotpNext
<1>2. TotpInv => CodeIsUsedOnce
  BY DEF TotpInv
<1>3. QED
  BY <1>1, <1>2, TotpInvInit, PTL DEF TotpSpec
=============================================================================
