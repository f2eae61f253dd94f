------------------------------ MODULE Session ------------------------------
(***************************************************************************)
(* A browser's session with the API server: services/api.service.ts,       *)
(* services/auth.service.ts, contexts/auth.context.tsx, the login page and *)
(* middleware.ts under src/apps/web/src, and services/auth.service.ts,     *)
(* middleware/auth.middleware.ts, optionalAuth.middleware.ts and           *)
(* rateLimiter.middleware.ts under src/api/src.                            *)
(*                                                                         *)
(* The tabs of a browser share localStorage and the cookie.  A tab has one *)
(* call under way; two calls at once are two tabs.  What the server        *)
(* answers depends on the call, the time and the quota, so that serving a  *)
(* call and reading its answer are one step.  Tokens are not kept anywhere *)
(* on the server: they are good until they expire.                         *)
(***************************************************************************)
EXTENDS Naturals

CONSTANTS
  Users,
  Tabs,
  MaxTime,  \* the clock's bound
  Quota     \* logins that authLimiter lets through per window

ASSUME BoundsAssumption == MaxTime \in Nat /\ Quota \in Nat /\ "nobody" \notin Users

\* An access token is good for one tick, a refresh token and the cookie for two.
AccessLife == 1
RefreshLife == 2
Ticks == 0 .. MaxTime + RefreshLife

Token == [user : Users \cup {"nobody"}, exp : Ticks]
NoToken == [user |-> "nobody", exp |-> 0]

VARIABLES
  now,
  quota,    \* what is left of Quota in this window
  access,   \* localStorage accessToken
  refresh,  \* localStorage refreshToken
  cookie,   \* when the accessToken cookie expires, 0 without one
  tab,      \* tab[t]: the page, and the call under way or just ended
  excused,  \* history: the calls that could not be renewed throughout
  stray,    \* history: a refresh of tokens already gone or replaced was stored
  failed    \* history: the tokens last went because a refresh failed

storage == <<access, refresh, cookie>>
history == <<excused, stray, failed>>
vars == <<now, quota, storage, tab, history>>

Kind == {"login", "data", "execute"}
Outcome == {"none", "ok", "refused", "limited", "lost"}

\* `auth` is the Authorization header, `with` the refresh token a refresh sends,
\* `user` and `right` whom a login is for and whether its password is right.
Tab == [page : {"app", "login", "playground"}, at : {"idle", "sent", "refresh"},
        kind : Kind, auth : Token, with : Token, user : Users \cup {"nobody"},
        right : BOOLEAN, outcome : Outcome]

NewTab == [page |-> "playground", at |-> "idle", kind |-> "data", auth |-> NoToken,
           with |-> NoToken, user |-> "nobody", right |-> FALSE, outcome |-> "none"]

Init ==
  /\ now = 0
  /\ quota = Quota
  /\ access = NoToken /\ refresh = NoToken /\ cookie = 0
  /\ tab = [t \in Tabs |-> NewTab]
  /\ excused = {} /\ stray = FALSE /\ failed = FALSE

Valid(token) == token # NoToken /\ now < token.exp
HasCookie == now < cookie

Access(u) == [user |-> u, exp |-> now + AccessLife]
Refresh(u) == [user |-> u, exp |-> now + RefreshLife]

-----------------------------------------------------------------------------
(***************************************************************************)
(* The pages.  middleware.ts answers every navigation, by the cookie.      *)
(***************************************************************************)

Landing(page) ==
  IF page = "login" /\ HasCookie THEN "app"
  ELSE IF page = "app" /\ ~HasCookie THEN "playground"
  ELSE page

\* A reload, which drops the call under way.
Visit(t, page) ==
  /\ tab' = [tab EXCEPT ![t] = [NewTab EXCEPT !.page = Landing(page)]]
  /\ UNCHANGED <<now, quota, storage, stray, failed>>

\* Faulty variant: the cookie stays.
LogoutKeepsCookie(t) ==
  /\ tab[t].page = "app"
  /\ access' = NoToken /\ refresh' = NoToken
  /\ stray' = FALSE /\ failed' = FALSE
  /\ UNCHANGED <<now, quota, cookie, tab>>

\* Faulty variant: only the access token goes.
LogoutKeepsRefresh(t) ==
  /\ tab[t].page = "app"
  /\ access' = NoToken /\ cookie' = 0
  /\ stray' = FALSE /\ failed' = FALSE
  /\ UNCHANGED <<now, quota, refresh, tab>>

\* The page stays, and so do the calls under way.
Logout(t) ==
  /\ tab[t].page = "app"
  /\ access' = NoToken /\ refresh' = NoToken /\ cookie' = 0
  /\ stray' = FALSE /\ failed' = FALSE
  /\ UNCHANGED <<now, quota, tab>>

-----------------------------------------------------------------------------
(***************************************************************************)
(* A call.  The request interceptor adds the token in storage, which the   *)
(* server may find expired.                                                *)
(***************************************************************************)

Start(t, kind) ==
  /\ tab[t].at = "idle"
  /\ tab[t].page \in CASE kind = "login" -> {"login"}
                       [] kind = "data" -> {"app"}
                       [] kind = "execute" -> {"app", "playground"}
  /\ \E u \in Users, right \in BOOLEAN :
       /\ kind # "login" => right /\ u = CHOOSE v \in Users : TRUE
       /\ tab' = [tab EXCEPT ![t] = [NewTab EXCEPT !.page = tab[t].page,
                    !.at = "sent", !.kind = kind, !.auth = access,
                    !.user = IF kind = "login" THEN u ELSE "nobody", !.right = right]]
  /\ UNCHANGED <<now, quota, storage, stray, failed>>

Ended(t, page, outcome) ==
  tab' = [tab EXCEPT ![t] = [NewTab EXCEPT !.page = page, !.kind = tab[t].kind,
                                           !.outcome = outcome]]

Finish(t, outcome) == Ended(t, tab[t].page, outcome)

\* The network, globalLimiter or executeLimiter, or an error of the handler.
Lose(t) ==
  /\ tab[t].at = "sent"
  /\ Finish(t, "lost")
  /\ UNCHANGED <<now, quota, storage, stray, failed>>

\* Faulty variant: while another tab refreshes, a 401 is passed on.
Refused401Busy(t) ==
  IF refresh = NoToken \/ \E s \in Tabs : tab[s].at = "refresh"
    THEN Finish(t, "refused")
    ELSE tab' = [tab EXCEPT ![t].at = "refresh", ![t].with = refresh]

\* The response interceptor on a 401.
Refused401(t) ==
  IF refresh = NoToken
    THEN Finish(t, "refused")
    ELSE tab' = [tab EXCEPT ![t].at = "refresh", ![t].with = refresh]

\* authenticate and optionalAuthenticate: a request is executed for a guest when
\* its token does not verify, and then leaves no history.
Serve(t) ==
  /\ tab[t].at = "sent" /\ tab[t].kind # "login"
  /\ IF tab[t].kind = "execute" \/ Valid(tab[t].auth)
       THEN Finish(t, "ok")
       ELSE Refused401(t)
  /\ UNCHANGED <<now, quota, storage, stray, failed>>

\* login and register, and what the client keeps of the answer.
LogIn(t) ==
  /\ tab[t].at = "sent" /\ tab[t].kind = "login"
  /\ quota > 0 /\ tab[t].right
  /\ quota' = quota - 1
  /\ access' = Access(tab[t].user)
  /\ refresh' = Refresh(tab[t].user)
  /\ cookie' = now + RefreshLife
  /\ Ended(t, "app", "ok")
  /\ stray' = FALSE /\ failed' = FALSE
  /\ UNCHANGED now

\* Faulty variant: wrong passwords are not counted.
LogInRefusedUncounted(t) ==
  /\ tab[t].at = "sent" /\ tab[t].kind = "login"
  /\ quota > 0 /\ ~tab[t].right
  /\ Refused401(t)
  /\ UNCHANGED <<now, quota, storage, stray, failed>>

\* Faulty variant: wrong passwords are counted and never limited.
LogInRefusedUnlimited(t) ==
  /\ tab[t].at = "sent" /\ tab[t].kind = "login" /\ ~tab[t].right
  /\ quota' = quota - 1
  /\ Refused401(t)
  /\ UNCHANGED <<now, storage, stray, failed>>

\* A wrong password is a 401 like any other.
LogInRefused(t) ==
  /\ tab[t].at = "sent" /\ tab[t].kind = "login"
  /\ quota > 0 /\ ~tab[t].right
  /\ quota' = quota - 1
  /\ Refused401(t)
  /\ UNCHANGED <<now, storage, stray, failed>>

LogInLimited(t) ==
  /\ tab[t].at = "sent" /\ tab[t].kind = "login"
  /\ quota = 0
  /\ Finish(t, "limited")
  /\ UNCHANGED <<now, quota, storage, stray, failed>>

\* The new token is stored, whatever is in storage by now, and the call retried.
RefreshOk(t) ==
  /\ tab[t].at = "refresh" /\ Valid(tab[t].with)
  /\ access' = Access(tab[t].with.user)
  /\ tab' = [tab EXCEPT ![t].at = "sent", ![t].auth = access', ![t].with = NoToken]
  /\ stray' = (stray \/ refresh # tab[t].with)
  /\ UNCHANGED <<now, quota, refresh, cookie, failed>>

\* The refresh token has expired, or the call fails: both tokens go, though
\* newer ones may be there by now, and the tab is sent to /login.
RefreshFails(t) ==
  /\ tab[t].at = "refresh"
  /\ access' = NoToken /\ refresh' = NoToken
  /\ Ended(t, Landing("login"), "refused")
  /\ stray' = FALSE /\ failed' = TRUE
  /\ UNCHANGED <<now, quota, cookie>>

Tick ==
  /\ now < MaxTime
  /\ now' = now + 1
  /\ quota' = Quota
  /\ UNCHANGED <<storage, tab, stray, failed>>

Answer(t) ==
  \/ Lose(t) \/ Serve(t) \/ LogIn(t) \/ LogInRefused(t) \/ LogInLimited(t)
  \/ RefreshOk(t) \/ RefreshFails(t)

Renewable == Valid(refresh)

\* History: a call is excused once it could not be renewed at some moment.
Excuse ==
  excused' = {t \in Tabs : \/ ~Renewable'
                           \/ t \in excused /\ ~(tab[t].at = "idle" /\ tab'[t].at = "sent")}

Next ==
  /\ \/ Tick
     \/ \E t \in Tabs :
          \/ Logout(t) \/ Answer(t)
          \/ \E page \in {"app", "login", "playground"} : Visit(t, page)
          \/ \E kind \in Kind : Start(t, kind)
  /\ Excuse

\* Every call is answered, if only by an error.
Fairness == \A t \in Tabs : WF_vars(Answer(t) /\ Excuse)

Spec == Init /\ [][Next]_vars /\ Fairness

-----------------------------------------------------------------------------
TypeOK ==
  /\ now \in 0 .. MaxTime
  /\ quota \in 0 .. Quota
  /\ access \in Token /\ refresh \in Token
  /\ cookie \in Ticks
  /\ tab \in [Tabs -> Tab]
  /\ excused \subseteq Tabs
  /\ stray \in BOOLEAN /\ failed \in BOOLEAN

\* The two tokens in storage are of one user, and come and go together, unless
\* the answer to a refresh was stored after its refresh token had been removed or
\* replaced (api.service.ts: setItem after the await).
TokensTogether ==
  stray \/ (access # NoToken /\ refresh # NoToken /\ access.user = refresh.user)
        \/ (access = NoToken /\ refresh = NoToken)

\* Whoever has no token can get to the login page: the cookie that keeps
\* middleware.ts from showing it has gone too, unless the tokens were removed by
\* a refresh that failed.
LoginReachable == (access = NoToken /\ HasCookie) => failed

\* An expired access token is never the user's problem: a call for data that is
\* refused found no valid refresh token in storage at some moment.
SilentRenewal ==
  \A t \in Tabs :
    (tab[t].kind = "data" /\ tab[t].outcome = "refused") => t \in excused

\* Every call ends, also a login with a wrong password while a refresh token is
\* in storage, which refreshes and tries again until authLimiter refuses it.
CallsEnd == \A t \in Tabs : (tab[t].at # "idle") ~> (tab[t].at = "idle")

=============================================================================
