------------------------------ MODULE Sessions ------------------------------
(***************************************************************************)
(* The sessions of api/src/auth: login, the rotation of refresh tokens,    *)
(* logout, the single-use SSO token, and the changes of an account that    *)
(* end a session (api/src/users).  A pair is an access and a refresh token *)
(* issued together; PostgreSQL keeps one refresh token hash per user.      *)
(* Signatures, passwords and TOTP codes are taken as verified.             *)
(***************************************************************************)
EXTENDS FiniteSets

CONSTANTS
  User,
  Pair,        \* the pairs that may be issued
  Sso,         \* the SSO tokens that may be issued
  Request,     \* the requests that may be in flight at the same time
  InitialRole, \* the roles users have at first
  Assignable,  \* the roles administrators give (moderators are residents here)
  Thread,      \* the threads of the desktop application
  Nobody, NoPair, NoRequest, Password

ASSUME SessionAssumption ==
  /\ Nobody \notin User /\ NoPair \notin Pair /\ NoRequest \notin Request
  /\ Pair \cap Sso = {} /\ Password \notin Pair \cup Sso
  /\ InitialRole \in [User -> {"resident", "admin"}]
  /\ Assignable \subseteq {"resident", "admin", "banned"}

VARIABLES
  role,            \* users.role
  erased,          \* users whose password and TOTP secret are erased
  hash,            \* users.refreshTokenHash: the pair whose refresh token it is
  owner,           \* the user a pair was issued to
  origin,          \* what a pair was issued for: a password, an SSO token, a pair
  surface,         \* where a pair was asked for (a history variable)
  expired,         \* pairs whose access token has expired
  revoked,         \* revoked_tokens: pairs whose access token is revoked
  sso,             \* ssoTokens: [user, surface, status]
  req,             \* what a request has read and has still to do
  call             \* the request whose answer a thread of the desktop waits for

sessionVars == <<role, erased, hash, owner, origin, surface, expired, revoked,
                 sso, req>>
accountVars == <<role, erased>>
pairVars == <<owner, origin, surface>>
tokenVars == <<hash, pairVars, revoked>>

Role == {"resident", "admin", "banned", "deleted"}
Credential == {Password} \cup Sso \cup Pair
Surface == {"browser", "desktop"}

Idle == [op |-> "idle"]
Reply(p) == [op |-> "reply", pair |-> p]
Issuing(u, c) == [op |-> "issue", user |-> u, from |-> c]

RequestState ==
  {Idle} \cup {Reply(p) : p \in Pair \cup {NoPair}}
  \cup [op : {"issue", "exchange"}, user : User, from : Credential]
  \cup [op : {"revoke"}, user : User, pair : Pair, left : SUBSET {"refresh", "access"}]
  \cup [op : {"delete"}, user : User]

NoSso == [user |-> Nobody, surface |-> "browser", status |-> "none"]

SsoState ==
  {NoSso} \cup [user : User, surface : Surface, status : {"unused", "used", "expired"}]

TypeOK ==
  /\ role \in [User -> Role]
  /\ erased \subseteq User
  /\ hash \in [User -> Pair \cup {NoPair}]
  /\ owner \in [Pair -> User \cup {Nobody}]
  /\ origin \in [Pair -> Credential \cup {NoPair}]
  /\ surface \in [Pair -> Surface]
  /\ expired \subseteq Pair /\ revoked \subseteq Pair
  /\ sso \in [Sso -> SsoState]
  /\ req \in [Request -> RequestState]
  /\ call \in [Thread -> Request \cup {NoRequest}]

SessionInit ==
  /\ role = InitialRole /\ erased = {}
  /\ hash = [u \in User |-> NoPair]
  /\ owner = [p \in Pair |-> Nobody]
  /\ origin = [p \in Pair |-> NoPair]
  /\ surface = [p \in Pair |-> "browser"]
  /\ expired = {} /\ revoked = {}
  /\ sso = [s \in Sso |-> NoSso]
  /\ req = [r \in Request |-> Idle]

-----------------------------------------------------------------------------
Issued(p) == p \in Pair /\ owner[p] # Nobody
Active(u) == role[u] \notin {"banned", "deleted"}

\* JwtStrategy.validate lets the bearer of the access token of p in.
Valid(p) ==
  /\ Issued(p) /\ p \notin expired \cup revoked
  /\ Active(owner[p])

Goto(r, next) == req' = [req EXCEPT ![r] = next]

\* The answer for a browser, or for a caller that has given up, is not kept.
Answer(r, p) == Goto(r, IF \E t \in Thread : call'[t] = r THEN Reply(p) ELSE Idle)
Refuse(r) == Answer(r, NoPair)

-----------------------------------------------------------------------------
(* login, SSO and rotation end in generatePair, which writes the hash in a   *)
(* statement of its own.                                                     *)
Login(r, u) ==
  /\ req[r] = Idle /\ Active(u) /\ u \notin erased
  /\ Goto(r, Issuing(u, Password))
  /\ UNCHANGED <<accountVars, tokenVars, expired, sso>>

Redeemable(p) == hash[owner[p]] = p /\ Active(owner[p])

\* Mutant of Rotate: the hash stays until generatePair replaces it.
RotateLater(r, p) ==
  /\ Issued(p)
  /\ IF Redeemable(p) THEN Goto(r, Issuing(owner[p], p)) ELSE Refuse(r)
  /\ UNCHANGED <<accountVars, tokenVars, expired, sso>>

\* The transaction of rotateRefreshToken, which holds the row of the user.
Rotate(r, p) ==
  /\ Issued(p)
  /\ IF Redeemable(p)
     THEN /\ hash' = [hash EXCEPT ![owner[p]] = NoPair]
          /\ Goto(r, Issuing(owner[p], p))
     ELSE Refuse(r) /\ UNCHANGED hash
  /\ UNCHANGED <<accountVars, pairVars, expired, revoked, sso>>

Refresh(r, p) == req[r] = Idle /\ Rotate(r, p)

GenerateSso(s, p, for) ==
  /\ sso[s].status = "none" /\ Valid(p)
  /\ for = "desktop" => role[owner[p]] = "admin"
  /\ sso' = [sso EXCEPT ![s] = [user |-> owner[p], surface |-> for, status |-> "unused"]]
  /\ UNCHANGED <<accountVars, tokenVars, expired, req>>

\* findOneAndUpdate claims the token before its state is compared.
Exchange(r, s, matches) ==
  /\ sso[s].status # "none"
  /\ IF sso[s].status = "unused"
     THEN /\ sso' = [sso EXCEPT ![s].status = "used"]
          /\ IF matches THEN Goto(r, [op |-> "exchange", user |-> sso[s].user, from |-> s])
                        ELSE Refuse(r)
     ELSE Refuse(r) /\ UNCHANGED sso
  /\ UNCHANGED <<accountVars, tokenVars, expired>>

ReadSsoUser(r) ==
  /\ req[r].op = "exchange"
  /\ IF Active(req[r].user) THEN Goto(r, Issuing(req[r].user, req[r].from)) ELSE Refuse(r)
  /\ UNCHANGED <<accountVars, tokenVars, expired, sso>>

AskedOn(c) == IF c \in Sso THEN sso[c].surface ELSE IF c \in Pair THEN surface[c] ELSE "browser"

GeneratePair(r) ==
  /\ req[r].op = "issue"
  /\ \E p \in Pair :
       /\ ~Issued(p)
       /\ owner' = [owner EXCEPT ![p] = req[r].user]
       /\ origin' = [origin EXCEPT ![p] = req[r].from]
       /\ surface' = [surface EXCEPT ![p] = AskedOn(req[r].from)]
       /\ hash' = [hash EXCEPT ![req[r].user] = p]
       /\ Answer(r, p)
  /\ UNCHANGED <<accountVars, expired, revoked, sso>>

\* Answers taken, or dropped because their callers are gone.
DropAnswers(rs) ==
  /\ req' = [r \in Request |-> IF r \in rs /\ req[r].op = "reply" THEN Idle ELSE req[r]]
  /\ UNCHANGED <<accountVars, tokenVars, expired, sso>>

-----------------------------------------------------------------------------
(* What ends a session.  changeEmail clears and revokes as logout does.      *)
Logout(r, p) ==
  /\ req[r] = Idle /\ Valid(p)
  /\ Goto(r, [op |-> "revoke", user |-> owner[p], pair |-> p,
              left |-> {"refresh", "access"}])
  /\ UNCHANGED <<accountVars, tokenVars, expired, sso>>

\* One of the two writes that logout awaits together.
Revoke(r, part) ==
  /\ req[r].op = "revoke" /\ part \in req[r].left
  /\ hash' = IF part = "refresh" THEN [hash EXCEPT ![req[r].user] = NoPair] ELSE hash
  /\ revoked' = IF part = "access" THEN revoked \cup {req[r].pair} ELSE revoked
  /\ LET left == req[r].left \ {part}
     IN Goto(r, IF left = {} THEN Idle ELSE [req[r] EXCEPT !.left = left])
  /\ UNCHANGED <<accountVars, pairVars, expired, sso>>

BeginDeletion(r, p) ==
  /\ req[r] = Idle /\ Valid(p) /\ owner[p] \notin erased
  /\ Goto(r, [op |-> "delete", user |-> owner[p]])
  /\ UNCHANGED <<accountVars, tokenVars, expired, sso>>

DeleteAccount(r) ==
  /\ req[r].op = "delete"
  /\ role' = [role EXCEPT ![req[r].user] = "deleted"]
  /\ erased' = erased \cup {req[r].user}
  /\ hash' = [hash EXCEPT ![req[r].user] = NoPair]
  /\ Goto(r, Idle)
  /\ UNCHANGED <<pairVars, expired, revoked, sso>>

\* The write of updateRole (users.controller.ts), whose choice of the role is
\* not modelled here.
WriteRole(u, new) ==
  /\ role[u] # new
  /\ role' = [role EXCEPT ![u] = new]
  /\ UNCHANGED <<erased, tokenVars, expired, sso, req>>

ExpireAccess(p) ==
  /\ Issued(p) /\ p \notin expired
  /\ expired' = expired \cup {p}
  /\ UNCHANGED <<accountVars, tokenVars, sso, req>>

ExpireSso(s) ==
  /\ sso[s].status = "unused"
  /\ sso' = [sso EXCEPT ![s].status = "expired"]
  /\ UNCHANGED <<accountVars, tokenVars, expired, req>>

-----------------------------------------------------------------------------
ServerStep ==
  \/ \E r \in Request : ReadSsoUser(r) \/ GeneratePair(r) \/ DeleteAccount(r)
  \/ \E r \in Request, part \in {"refresh", "access"} : Revoke(r, part)
  \/ \E s \in Sso : ExpireSso(s)

\* A pair of some browser; two tabs may use it at the same time.
InBrowser(p) == Issued(p) /\ surface[p] = "browser"

\* Requests of browsers and of administrators.
BrowserStep ==
  \/ \E r \in Request, u \in User : Login(r, u)
  \/ \E r \in Request, p \in Pair :
       /\ InBrowser(p)
       /\ Refresh(r, p) \/ Logout(r, p) \/ BeginDeletion(r, p)
  \/ \E u \in User, new \in Assignable : WriteRole(u, new)
  \/ \E s \in Sso, p \in Pair, for \in Surface : InBrowser(p) /\ GenerateSso(s, p, for)
  \/ \E r \in Request, s \in Sso, matches \in BOOLEAN :
       req[r] = Idle /\ sso[s].surface = "browser" /\ Exchange(r, s, matches)

-----------------------------------------------------------------------------
\* A refresh token or an SSO token gives at most one pair, whatever requests
\* present it at the same time (auth.service.ts 222, token.service.ts 62-95).
RedeemedOnce ==
  \A p, q \in Pair : Issued(p) /\ Issued(q) /\ origin[p] = origin[q] /\ origin[p] # Password
                       => p = q
=============================================================================
