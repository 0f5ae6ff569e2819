---------------------------- MODULE BrowserSession ----------------------------
(* The session of the web applications: the tabs of one browser, the access  *)
(* token in localStorage and the refresh cookie they share, and the calls of *)
(* api.ts (apiFetch, refreshTokens, ensureAuthenticated) across their        *)
(* awaits. The API answers each call in one step: Sessions has its inside.   *)
EXTENDS FiniteSets

CONSTANTS
  Tab,       \* tabs of the browser
  Fetch,     \* calls of apiFetch or ensureAuthenticated in flight at once
  Pair,      \* bound: pairs of tokens the API issues
  NoPair,    \* no token
  NoTab,     \* the tab of a call that is not in flight
  NoFetch,   \* no refresh is in flight
  Lossy      \* whether a pair may be lost on its way to the browser

ASSUME BrowserConstants ==
  /\ NoPair \notin Pair /\ NoTab \notin Tab /\ NoFetch \notin Fetch
  /\ Lossy \in BOOLEAN

VARIABLES
  stored,           \* access token in localStorage
  jar,              \* refresh token in the cookie qc_rt
  atLogin,          \* tabs on the login page, or on their way to it
  unloading,        \* tabs that leave their page by window.location
  signing,          \* pair a tab's sign-in was answered with
  fetch,            \* calls of the tabs
  refresh,          \* the call to /auth/refresh that a fetch started
  refreshInFlight,  \* whose refresh the fetches of a tab share
  live,             \* pair whose refresh token the API has the hash of
  expired,          \* pairs whose access token expired
  revoked,          \* pairs whose access token a logout revoked
  issued,           \* pairs issued
  redeemed          \* history: pairs exchanged for another one

tabVars == <<stored, jar, atLogin, unloading, signing, fetch, refresh,
             refreshInFlight>>
apiVars == <<live, expired, revoked, issued, redeemed>>
browserVars == <<tabVars, apiVars>>

FetchPc == {"idle", "sent", "ok", "unauthorized", "waiting"}
RefreshPc == {"idle", "asked", "granted", "refused"}
Kind == {"read", "logout", "guard"}

NoCall == [pc |-> "idle", tab |-> NoTab, kind |-> "read", token |-> NoPair,
           retry |-> FALSE, on |-> NoFetch]
NoRefresh == [pc |-> "idle", shown |-> NoPair, pair |-> NoPair]

BrowserTypeOK ==
  /\ stored \in Pair \cup {NoPair} /\ jar \in Pair \cup {NoPair}
  /\ atLogin \subseteq Tab /\ unloading \subseteq Tab
  /\ signing \in [Tab -> Pair \cup {NoPair}]
  /\ fetch \in [Fetch -> [pc : FetchPc, tab : Tab \cup {NoTab}, kind : Kind,
                          token : Pair \cup {NoPair}, retry : BOOLEAN,
                          on : Fetch \cup {NoFetch}]]
  /\ refresh \in [Fetch -> [pc : RefreshPc, shown : Pair \cup {NoPair},
                            pair : Pair \cup {NoPair}]]
  /\ refreshInFlight \in [Tab -> Fetch \cup {NoFetch}]
  /\ live \in Pair \cup {NoPair}
  /\ expired \subseteq Pair /\ revoked \subseteq Pair
  /\ issued \subseteq Pair /\ redeemed \subseteq Pair

\* The browser has no session, and its tabs show the login page.
BrowserInit ==
  /\ stored = NoPair /\ jar = NoPair /\ live = NoPair
  /\ atLogin = Tab /\ unloading = {}
  /\ signing = [t \in Tab |-> NoPair]
  /\ fetch = [f \in Fetch |-> NoCall]
  /\ refresh = [f \in Fetch |-> NoRefresh]
  /\ refreshInFlight = [t \in Tab |-> NoFetch]
  /\ expired = {} /\ revoked = {} /\ issued = {} /\ redeemed = {}

Unexpired(token) == token \in issued \ expired

\* What a tab has to do with a call that is over.
Waiting(g) == {f \in Fetch : fetch[f].pc = "waiting" /\ fetch[f].on = g}

(* ------------------------------- signing in ------------------------------ *)

\* POST /auth/login: the API has one refresh hash per user. Who types a password
\* and a code outlasts the calls of the page before.
SignIn(t) ==
  /\ t \in atLogin \ unloading /\ signing[t] = NoPair
  /\ \A f \in Fetch : fetch[f].tab # t
  /\ \E p \in Pair \ issued :
       /\ signing' = [signing EXCEPT ![t] = p]
       /\ live' = p /\ issued' = issued \cup {p}
  /\ UNCHANGED <<stored, jar, atLogin, unloading, fetch, refresh,
                 refreshInFlight, expired, revoked, redeemed>>

\* Its answer: the cookie, and setTokens.
SignedIn(t) ==
  /\ signing[t] # NoPair
  /\ jar' = signing[t] /\ stored' = signing[t]
  /\ signing' = [signing EXCEPT ![t] = NoPair]
  /\ atLogin' = atLogin \ {t}
  /\ UNCHANGED <<unloading, fetch, refresh, refreshInFlight, apiVars>>

(* --------------------------------- calls --------------------------------- *)

\* apiFetch reads the token when it sends; a first attempt may be retried.
Send(f, t, kind) ==
  /\ fetch[f].pc = "idle" /\ t \in Tab \ atLogin
  /\ kind \in {"read", "logout"}
  /\ fetch' = [fetch EXCEPT ![f] =
       [NoCall EXCEPT !.pc = "sent", !.tab = t, !.kind = kind,
                      !.token = stored, !.retry = TRUE]]
  /\ UNCHANGED <<stored, jar, atLogin, unloading, signing, refresh,
                 refreshInFlight, apiVars>>

\* The JWT guard, and the handler behind it. A logout drops the hash and
\* revokes the access token.
Serve(f) ==
  /\ fetch[f].pc = "sent"
  /\ LET good == Unexpired(fetch[f].token) /\ fetch[f].token \notin revoked
         leaves == good /\ fetch[f].kind = "logout" IN
     /\ fetch' = [fetch EXCEPT ![f].pc = IF good THEN "ok" ELSE "unauthorized"]
     /\ live' = IF leaves THEN NoPair ELSE live
     /\ revoked' = IF leaves THEN revoked \cup {fetch[f].token} ELSE revoked
  /\ UNCHANGED <<stored, jar, atLogin, unloading, signing, refresh,
                 refreshInFlight, expired, issued, redeemed>>

\* Any outcome of a logout clears the token and shows the login page; the API
\* clears the cookie only when it accepted the call.
Receive(f) ==
  /\ fetch[f].pc = "ok" \/ (fetch[f].pc = "unauthorized" /\ ~fetch[f].retry)
  /\ fetch' = [fetch EXCEPT ![f] = NoCall]
  /\ IF fetch[f].kind = "logout"
     THEN /\ stored' = NoPair
          /\ jar' = IF fetch[f].pc = "ok" THEN NoPair ELSE jar
          /\ atLogin' = atLogin \cup {fetch[f].tab}
     ELSE UNCHANGED <<stored, jar, atLogin>>
  /\ UNCHANGED <<unloading, signing, refresh, refreshInFlight, apiVars>>

(* -------------------------------- refresh -------------------------------- *)

\* Mutant of AskRefresh: every fetch refreshes for itself.
AskAlone(f, t, call) ==
  /\ fetch' = [fetch EXCEPT ![f] = [call EXCEPT !.pc = "waiting", !.on = f]]
  /\ refresh' = [refresh EXCEPT ![f] =
       [pc |-> "asked", shown |-> jar, pair |-> NoPair]]
  /\ refreshInFlight' = [refreshInFlight EXCEPT ![t] = f]

\* refreshTokens: the fetches of a tab share the refresh in flight; the cookie
\* goes with the request.
AskRefresh(f, t, call) ==
  IF refreshInFlight[t] # NoFetch
  THEN /\ fetch' = [fetch EXCEPT ![f] =
            [call EXCEPT !.pc = "waiting", !.on = refreshInFlight[t]]]
       /\ UNCHANGED <<refresh, refreshInFlight>>
  ELSE /\ fetch' = [fetch EXCEPT ![f] = [call EXCEPT !.pc = "waiting", !.on = f]]
       /\ refresh' = [refresh EXCEPT ![f] =
            [pc |-> "asked", shown |-> jar, pair |-> NoPair]]
       /\ refreshInFlight' = [refreshInFlight EXCEPT ![t] = f]

\* A 401 to a first attempt.
Unauthorized(f) ==
  /\ fetch[f].pc = "unauthorized" /\ fetch[f].retry
  /\ AskRefresh(f, fetch[f].tab, fetch[f])
  /\ UNCHANGED <<stored, jar, atLogin, unloading, signing, apiVars>>

\* ensureAuthenticated before a route is shown, from the login page too: a token
\* that has not expired is enough, be it revoked.
Guard(f, t) ==
  /\ fetch[f].pc = "idle" /\ t \in Tab \ unloading /\ signing[t] = NoPair
  /\ IF Unexpired(stored)
     THEN /\ atLogin' = atLogin \ {t}
          /\ UNCHANGED <<fetch, refresh, refreshInFlight>>
     ELSE /\ AskRefresh(f, t, [NoCall EXCEPT !.tab = t, !.kind = "guard"])
          /\ UNCHANGED atLogin
  /\ UNCHANGED <<stored, jar, unloading, signing, apiVars>>

\* POST /auth/refresh rotates the pair that the API has the hash of.
ServeRefresh(g) ==
  /\ refresh[g].pc = "asked"
  /\ IF refresh[g].shown # NoPair /\ refresh[g].shown = live
     THEN \E p \in Pair \ issued :
            /\ refresh' = [refresh EXCEPT ![g].pc = "granted", ![g].pair = p]
            /\ live' = p /\ issued' = issued \cup {p}
            /\ redeemed' = redeemed \cup {refresh[g].shown}
     ELSE /\ refresh' = [refresh EXCEPT ![g].pc = "refused"]
          /\ UNCHANGED <<live, issued, redeemed>>
  /\ UNCHANGED <<stored, jar, atLogin, unloading, signing, fetch,
                 refreshInFlight, expired, revoked>>

\* The promise settles (finally): nothing is in flight, and whoever awaited it
\* goes on at once.
Settle(g) ==
  /\ refresh' = [refresh EXCEPT ![g] = NoRefresh]
  /\ refreshInFlight' = [t \in Tab |->
       IF refreshInFlight[t] = g THEN NoFetch ELSE refreshInFlight[t]]

\* ok: the cookie and setTokens; each fetch is sent once more, each route shown.
Granted(g) ==
  /\ refresh[g].pc = "granted"
  /\ Settle(g)
  /\ jar' = refresh[g].pair /\ stored' = refresh[g].pair
  /\ fetch' = [f \in Fetch |->
       IF f \notin Waiting(g) THEN fetch[f]
       ELSE IF fetch[f].kind = "guard" THEN NoCall
       ELSE [fetch[f] EXCEPT !.pc = "sent", !.token = refresh[g].pair,
                             !.retry = FALSE, !.on = NoFetch]]
  /\ atLogin' = atLogin \
       {fetch[f].tab : f \in {w \in Waiting(g) : fetch[w].kind = "guard"}}
  /\ UNCHANGED <<unloading, signing, apiVars>>

\* Any answer but ok: clearTokens; a route goes to the login page, a fetch
\* loads it anew.
Refused(g) ==
  /\ refresh[g].pc = "refused"
  /\ Settle(g)
  /\ stored' = NoPair
  /\ fetch' = [f \in Fetch |-> IF f \in Waiting(g) THEN NoCall ELSE fetch[f]]
  /\ atLogin' = atLogin \cup {fetch[f].tab : f \in Waiting(g)}
  /\ unloading' = unloading \cup
       {fetch[f].tab : f \in {w \in Waiting(g) : fetch[w].kind # "guard"}}
  /\ UNCHANGED <<jar, signing, apiVars>>

\* fetch throws, for a request that was lost, a refusal or (Lossy) a new pair:
\* whoever awaited it fails, and nothing is cleared.
Lost(g) ==
  /\ refresh[g].pc \in {"asked", "refused"} \cup IF Lossy THEN {"granted"} ELSE {}
  /\ Settle(g)
  /\ fetch' = [f \in Fetch |-> IF f \in Waiting(g) THEN NoCall ELSE fetch[f]]
  /\ UNCHANGED <<stored, jar, atLogin, unloading, signing, apiVars>>

\* The page of the tab is gone, with its calls and its refreshInFlight.
Unload(t) ==
  /\ t \in unloading
  /\ unloading' = unloading \ {t}
  /\ fetch' = [f \in Fetch |-> IF fetch[f].tab = t THEN NoCall ELSE fetch[f]]
  /\ refresh' = [f \in Fetch |->
       IF refreshInFlight[t] = f THEN NoRefresh ELSE refresh[f]]
  /\ refreshInFlight' = [refreshInFlight EXCEPT ![t] = NoFetch]
  /\ UNCHANGED <<stored, jar, atLogin, signing, apiVars>>

\* Fifteen minutes pass.
Expire(p) ==
  /\ Unexpired(p)
  /\ expired' = expired \cup {p}
  /\ UNCHANGED <<tabVars, live, revoked, issued, redeemed>>

BrowserNext ==
  \/ \E t \in Tab : SignIn(t) \/ SignedIn(t) \/ Unload(t)
  \/ \E f \in Fetch, t \in Tab : Guard(f, t) \/ \E kind \in Kind : Send(f, t, kind)
  \/ \E f \in Fetch : Serve(f) \/ Receive(f) \/ Unauthorized(f)
  \/ \E g \in Fetch : ServeRefresh(g) \/ Granted(g) \/ Refused(g) \/ Lost(g)
  \/ \E p \in Pair : Expire(p)

BrowserSpec == BrowserInit /\ [][BrowserNext]_browserVars

(* The fetches of a tab whose token expired share one rotation, so that no   *)
(* refresh shows a token that was already exchanged, and nobody is put out   *)
(* because another call was faster.                                          *)
NeverReplayed ==
  \A g \in Fetch : refresh[g].pc \in {"asked", "refused"}
                     => refresh[g].shown \notin redeemed
=============================================================================
