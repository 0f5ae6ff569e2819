--------------------------- MODULE DesktopSession ---------------------------
(***************************************************************************)
(* The session of the desktop application (desktop-app services/           *)
(* AuthService, ApiService, TokenVault) against the API of Sessions.       *)
(* Several threads share one AuthService: the poll, the views and the sign *)
(* in.  refreshAccessToken is synchronized; signing in and clearing the    *)
(* session are not.  The keychain is available.                            *)
(***************************************************************************)
EXTENDS Sessions

CONSTANT NoThread

ASSUME DesktopAssumption == NoThread \notin Thread

VARIABLES
  access, refresh,  \* AuthService.accessToken, AuthService.refreshToken,
                    \* which are also the two passwords in the keychain
  mainView,         \* MainView is shown, not LoginView
  monitor,          \* the thread inside refreshAccessToken
  at,               \* where a thread is
  torn              \* an answer was lost, or the application died on one

desktopVars == <<access, refresh, mainView, monitor, at, torn>>
vars == <<sessionVars, call, desktopVars>>

Calling(t) == at[t] \in {"signing", "refreshing"}

DesktopTypeOK ==
  /\ TypeOK
  /\ {access, refresh} \subseteq Pair \cup {NoPair}
  /\ mainView \in BOOLEAN /\ torn \in BOOLEAN
  /\ monitor \in Thread \cup {NoThread}
  /\ at \in [Thread -> {"idle", "wants", "signing", "refreshing"}]
  /\ \A t \in Thread : Calling(t) => call[t] \in Request

Init ==
  /\ SessionInit
  /\ access = NoPair /\ refresh = NoPair
  /\ mainView = FALSE /\ torn = FALSE
  /\ monitor = NoThread
  /\ at = [t \in Thread |-> "idle"]
  /\ call = [t \in Thread |-> NoRequest]

-----------------------------------------------------------------------------
Fresh(p) == p # NoPair /\ p \notin expired

\* A thread returns from its call, and from refreshAccessToken if it is in it.
Return(t) ==
  /\ at' = [at EXCEPT ![t] = "idle"]
  /\ call' = [call EXCEPT ![t] = NoRequest]
  /\ monitor' = IF monitor = t THEN NoThread ELSE monitor

\* The poll finds the access token expired, or a call is answered with 401.
NeedToken(t) ==
  /\ at[t] = "idle" /\ refresh # NoPair
  /\ ~Fresh(access) \/ ~Valid(access)
  /\ at' = [at EXCEPT ![t] = "wants"]
  /\ UNCHANGED <<sessionVars, access, refresh, mainView, monitor, call, torn>>

\* Mutant of MayEnter: refreshAccessToken is not synchronized.
EnterAnyway(t) == t \in Thread

MayEnter(t) == monitor = NoThread

Call(t, r, as) ==
  /\ req[r] = Idle
  /\ at' = [at EXCEPT ![t] = as]
  /\ call' = [call EXCEPT ![t] = r]

RefreshAccessToken(t) ==
  /\ at[t] = "wants" /\ MayEnter(t)
  /\ IF refresh = NoPair \/ Fresh(access)
     THEN Return(t) /\ UNCHANGED sessionVars
     ELSE \E r \in Request : Call(t, r, "refreshing") /\ Rotate(r, refresh) /\ monitor' = t
  /\ UNCHANGED <<access, refresh, mainView, torn>>

\* The button is disabled while a sign in waits.
SignIn(t) ==
  /\ at[t] = "idle" /\ ~mainView
  /\ \A u \in Thread : at[u] # "signing"
  /\ \E r \in Request, s \in Sso :
       /\ Call(t, r, "signing")
       /\ sso[s].surface = "desktop" /\ Exchange(r, s, TRUE)
  /\ UNCHANGED <<access, refresh, mainView, monitor, torn>>

\* applyTokens: the fields, then the two passwords of the keychain.
ApplyTokens(t) ==
  /\ Calling(t) /\ req[call[t]].op = "reply" /\ req[call[t]].pair # NoPair
  /\ access' = req[call[t]].pair /\ refresh' = req[call[t]].pair
  /\ DropAnswers({call[t]})
  /\ Return(t)
  /\ UNCHANGED <<mainView, torn>>

\* ApiService answers a 401 with refreshAccessToken, the 401 of a refresh or of
\* an exchange too: the thread, whose monitor is reentrant, presents the token
\* again, until it is refused for another reason (429) or there is none.
Refused(t) ==
  /\ Calling(t) /\ req[call[t]] = Reply(NoPair)
  /\ \/ /\ DropAnswers({call[t]}) /\ Return(t)
     \/ /\ refresh # NoPair /\ ~Fresh(access) /\ (MayEnter(t) \/ monitor = t)
        /\ UNCHANGED call /\ Rotate(call[t], refresh)
        /\ at' = [at EXCEPT ![t] = "refreshing"] /\ monitor' = t
  /\ UNCHANGED <<access, refresh, mainView, torn>>

\* The call fails after 15 seconds; the API may still work on it.
TimeOut(t) ==
  /\ Calling(t)
  /\ DropAnswers({call[t]})
  /\ Return(t)
  /\ torn' = TRUE
  /\ UNCHANGED <<access, refresh, mainView>>

\* After a sign in, a refresh at startup or the choice to go on off line.
NavigateToMain ==
  /\ ~mainView /\ refresh # NoPair /\ \A t \in Thread : ~Calling(t)
  /\ mainView' = TRUE
  /\ UNCHANGED <<sessionVars, access, refresh, monitor, at, call, torn>>

ClearSession ==
  /\ mainView
  /\ access' = NoPair /\ refresh' = NoPair
  /\ mainView' = FALSE
  /\ UNCHANGED <<sessionVars, monitor, at, call, torn>>

\* The application is closed or dies, and resumes from the keychain.
Restart ==
  /\ torn' = (torn \/ \E t \in Thread : Calling(t))
  /\ access' = IF Fresh(access) THEN access ELSE NoPair
  /\ mainView' = FALSE /\ monitor' = NoThread
  /\ at' = [t \in Thread |-> "idle"]
  /\ call' = [t \in Thread |-> NoRequest]
  /\ DropAnswers(Request)
  /\ UNCHANGED refresh

-----------------------------------------------------------------------------
DesktopStep ==
  \/ \E t \in Thread : \/ NeedToken(t) \/ RefreshAccessToken(t) \/ SignIn(t)
                        \/ ApplyTokens(t) \/ Refused(t) \/ TimeOut(t)
  \/ NavigateToMain \/ ClearSession \/ Restart

\* An access token lives for 15 minutes, longer than it takes to receive
\* and to store it.  A browser refreshes whether its token has expired or not.
TokenExpires(p) ==
  /\ surface[p] = "desktop"
  /\ \A r \in Request : req[r] # Reply(p)
  /\ ExpireAccess(p)

Others ==
  /\ UNCHANGED <<call, desktopVars>>
  /\ ServerStep \/ BrowserStep \/ \E p \in Pair : TokenExpires(p)

Next == DesktopStep \/ Others

Spec == Init /\ [][Next]_vars

-----------------------------------------------------------------------------
Redeemed(p) ==
  \/ \E q \in Pair : Issued(q) /\ origin[q] = p
  \/ \E r \in Request : req[r].op = "issue" /\ req[r].from = p

\* Unless an answer was lost, no thread of the desktop presents a refresh token
\* that has been redeemed: it would be refused and the session dropped
\* (AuthService.java 68-91: "Rotating refresh tokens are single-use").
NeverReplays ==
  [][\A t \in Thread :
       at'[t] = "refreshing" /\ monitor' = t /\ monitor # t => torn \/ ~Redeemed(refresh)]_vars
=============================================================================
