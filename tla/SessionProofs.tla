--------------------------- MODULE SessionProofs ---------------------------
(***************************************************************************)
(* Theorems about Session, for any number of users and tabs, any length of *)
(* time and any quota, and about the request editor that MCWebClient puts  *)
(* beside it, for any number of sends under way.                           *)
(*                                                                         *)
(* Each property is inductive together with the types: those say that a    *)
(* token that is issued or good is not NoToken.                            *)
(***************************************************************************)
EXTENDS MCWebClient, TLAPS

USE BoundsAssumption

-----------------------------------------------------------------------------
(***************************************************************************)
(* Tokens and tabs.                                                        *)
(***************************************************************************)
LEMMA NoTokenIsToken == NoToken \in Token
<1>1. 0 \in Ticks
  BY DEF Ticks, RefreshLife
<1> QED BY <1>1 DEF NoToken, Token

LEMMA NewTabIsTab == NewTab \in Tab
BY NoTokenIsToken DEF NewTab, Tab, Kind, Outcome

\* What is issued is a token of its user, and expires later than NoToken.
LEMMA IssuedIsToken ==
  ASSUME now \in 0 .. MaxTime, NEW u \in Users \cup {"nobody"}
  PROVE  /\ Access(u) \in Token /\ Access(u) # NoToken /\ Access(u).user = u
         /\ Refresh(u) \in Token /\ Refresh(u) # NoToken /\ Refresh(u).user = u
         /\ now + RefreshLife \in Ticks
<1>1. now + 1 \in Ticks \ {0} /\ now + 2 \in Ticks \ {0}
  BY DEF Ticks, RefreshLife
<1>2. Access(u) \in Token /\ Refresh(u) \in Token
  BY <1>1 DEF Access, Refresh, AccessLife, RefreshLife, Token
<1>3. Access(u).user = u /\ Refresh(u).user = u
  BY DEF Access, Refresh
<1>4. Access(u).exp # 0 /\ Refresh(u).exp # 0
  BY <1>1 DEF Access, Refresh, AccessLife, RefreshLife
<1>5. NoToken.exp = 0
  BY DEF NoToken
<1> QED BY <1>1, <1>2, <1>3, <1>4, <1>5 DEF RefreshLife

\* A call that ends leaves a tab.
LEMMA EndedIsTab ==
  ASSUME TypeOK, NEW t \in Tabs, NEW page \in {"app", "login", "playground"},
         NEW outcome \in Outcome, Ended(t, page, outcome)
  PROVE  tab' \in [Tabs -> Tab]
BY NewTabIsTab DEF TypeOK, Ended, Tab, NewTab

\* A 401 is passed on, or the tab refreshes with the token in storage.
LEMMA Refused401IsTab ==
  ASSUME TypeOK, NEW t \in Tabs, Refused401(t)
  PROVE  tab' \in [Tabs -> Tab]
<1>1. CASE refresh = NoToken
  <2>1. tab[t].page \in {"app", "login", "playground"}
    BY DEF TypeOK, Tab
  <2> QED BY <1>1, <2>1, EndedIsTab DEF Refused401, Finish, Outcome
<1>2. CASE refresh # NoToken
  BY <1>2 DEF TypeOK, Refused401, Tab
<1> QED BY <1>1, <1>2

-----------------------------------------------------------------------------
(***************************************************************************)
(* Types.                                                                  *)
(***************************************************************************)
LEMMA InitType == Init => TypeOK
<1> SUFFICES ASSUME Init PROVE TypeOK
  OBVIOUS
<1>1. now \in 0 .. MaxTime /\ quota \in 0 .. Quota /\ cookie \in Ticks
  BY DEF Init, Ticks, RefreshLife
<1>2. access \in Token /\ refresh \in Token
  BY NoTokenIsToken DEF Init
<1>3. tab \in [Tabs -> Tab]
  BY NewTabIsTab DEF Init
<1> QED BY <1>1, <1>2, <1>3 DEF Init, TypeOK

LEMMA NextType ==
  ASSUME TypeOK, Next
  PROVE  TypeOK'
<1>1. excused' \subseteq Tabs
  BY DEF Next, Excuse
<1>2. CASE Tick
  <2>1. now' \in 0 .. MaxTime /\ quota' \in 0 .. Quota
    BY <1>2 DEF TypeOK, Tick
  <2> QED BY <1>1, <1>2, <2>1 DEF TypeOK, Tick, storage
<1>3. ASSUME NEW t \in Tabs, Logout(t) PROVE TypeOK'
  <2>1. cookie' \in Ticks
    BY <1>3 DEF Logout, Ticks, RefreshLife
  <2> QED BY <1>1, <1>3, <2>1, NoTokenIsToken DEF TypeOK, Logout
<1>4. ASSUME NEW t \in Tabs, NEW page \in {"app", "login", "playground"}, Visit(t, page)
      PROVE  TypeOK'
  <2>1. Landing(page) \in {"app", "login", "playground"}
    BY DEF Landing
  <2>2. tab' \in [Tabs -> Tab]
    BY <1>4, <2>1, NewTabIsTab DEF TypeOK, Visit, Tab, NewTab
  <2> QED BY <1>1, <1>4, <2>2 DEF TypeOK, Visit, storage
<1>5. ASSUME NEW t \in Tabs, NEW kind \in Kind, Start(t, kind)
      PROVE  TypeOK'
  <2>1. tab' \in [Tabs -> Tab]
    <3>1. PICK u \in Users, right \in BOOLEAN :
            tab' = [tab EXCEPT ![t] = [NewTab EXCEPT !.page = tab[t].page,
                      !.at = "sent", !.kind = kind, !.auth = access,
                      !.user = IF kind = "login" THEN u ELSE "nobody", !.right = right]]
      BY <1>5 DEF Start
    <3>2. tab[t].page \in {"app", "login", "playground"} /\ access \in Token
      BY DEF TypeOK, Tab
    <3> QED BY <3>1, <3>2, NewTabIsTab DEF TypeOK, Tab, NewTab
  <2> QED BY <1>1, <1>5, <2>1 DEF TypeOK, Start, storage
<1>6. ASSUME NEW t \in Tabs, Answer(t) PROVE TypeOK'
  <2>1. tab[t].page \in {"app", "login", "playground"} /\ tab[t] \in Tab
    BY DEF TypeOK, Tab
  <2>2. CASE Lose(t)
    BY <1>1, <2>1, <2>2, EndedIsTab DEF Lose, Finish, Outcome, TypeOK, storage
  <2>3. CASE Serve(t)
    <3>1. tab' \in [Tabs -> Tab]
      BY <2>1, <2>3, EndedIsTab, Refused401IsTab DEF Serve, Finish, Outcome
    <3> QED BY <1>1, <2>3, <3>1 DEF Serve, TypeOK, storage
  <2>4. CASE LogIn(t)
    <3>1. tab[t].user \in Users \cup {"nobody"}
      BY <2>1 DEF Tab
    <3>2. access' \in Token /\ refresh' \in Token /\ cookie' \in Ticks
      BY <2>4, <3>1, IssuedIsToken DEF LogIn, TypeOK
    <3>3. tab' \in [Tabs -> Tab]
      BY <2>4, EndedIsTab DEF LogIn, Outcome
    <3>4. quota' \in 0 .. Quota
      BY <2>4 DEF LogIn, TypeOK
    <3> QED BY <1>1, <2>4, <3>2, <3>3, <3>4 DEF LogIn, TypeOK
  <2>5. CASE LogInRefused(t)
    <3>1. quota' \in 0 .. Quota
      BY <2>5 DEF LogInRefused, TypeOK
    <3> QED BY <1>1, <2>5, <3>1, Refused401IsTab DEF LogInRefused, TypeOK, storage
  <2>6. CASE LogInLimited(t)
    BY <1>1, <2>1, <2>6, EndedIsTab DEF LogInLimited, Finish, Outcome, TypeOK, storage
  <2>7. CASE RefreshOk(t)
    <3>1. tab[t].with \in Token /\ tab[t].with.user \in Users \cup {"nobody"}
      BY <2>1 DEF Tab, Token
    <3>2. access' \in Token
      BY <2>7, <3>1, IssuedIsToken DEF RefreshOk, TypeOK
    <3>3. tab' \in [Tabs -> Tab]
      BY <2>1, <2>7, <3>2, NoTokenIsToken DEF RefreshOk, TypeOK, Tab
    <3> QED BY <1>1, <2>7, <3>2, <3>3 DEF RefreshOk, TypeOK
  <2>8. CASE RefreshFails(t)
    <3>1. Landing("login") \in {"app", "login", "playground"}
      BY DEF Landing
    <3>2. tab' \in [Tabs -> Tab]
      BY <2>8, <3>1, EndedIsTab DEF RefreshFails, Outcome
    <3> QED BY <1>1, <2>8, <3>2, NoTokenIsToken DEF RefreshFails, TypeOK
  <2> QED BY <1>6, <2>2, <2>3, <2>4, <2>5, <2>6, <2>7, <2>8 DEF Answer
<1> QED BY <1>2, <1>3, <1>4, <1>5, <1>6 DEF Next

LEMMA StepType == TypeOK /\ [Next]_vars => TypeOK'
<1>1. ASSUME TypeOK, UNCHANGED vars PROVE TypeOK'
  BY <1>1 DEF TypeOK, vars, storage, history
<1> QED BY <1>1, NextType

\* Storage, clock and every tab hold values of their types, whatever tabs do.
THEOREM TypeCorrect == Spec => []TypeOK
BY InitType, StepType, PTL DEF Spec

-----------------------------------------------------------------------------
(***************************************************************************)
(* The steps that touch the storage, and all others.                       *)
(***************************************************************************)
LEMMA StorageSteps ==
  ASSUME TypeOK, Next
  PROVE  \/ \E t \in Tabs : Logout(t) \/ LogIn(t) \/ RefreshOk(t) \/ RefreshFails(t)
         \/ UNCHANGED <<storage, stray, failed>> /\ (UNCHANGED now \/ Tick)
BY DEF Next, Answer, Lose, Serve, LogInRefused, LogInLimited, Visit, Start, Tick

LEMMA StepTogether == TypeOK /\ TokensTogether /\ [Next]_vars => TokensTogether'
<1> SUFFICES ASSUME TypeOK, TokensTogether, [Next]_vars PROVE TokensTogether'
  OBVIOUS
<1>1. CASE UNCHANGED vars
  BY <1>1 DEF TokensTogether, vars, storage, history
<1>2. CASE Next
  <2>1. ASSUME NEW t \in Tabs, Logout(t) PROVE TokensTogether'
    BY <2>1 DEF Logout, TokensTogether
  <2>2. ASSUME NEW t \in Tabs, LogIn(t) PROVE TokensTogether'
    <3>1. tab[t].user \in Users \cup {"nobody"} /\ now \in 0 .. MaxTime
      BY DEF TypeOK, Tab
    <3> QED BY <2>2, <3>1, IssuedIsToken DEF LogIn, TokensTogether
  <2>3. ASSUME NEW t \in Tabs, RefreshOk(t) PROVE TokensTogether'
    <3>1. tab[t].with.user \in Users \cup {"nobody"} /\ now \in 0 .. MaxTime
      BY DEF TypeOK, Tab, Token
    <3>2. access' # NoToken /\ access'.user = tab[t].with.user
      BY <2>3, <3>1, IssuedIsToken DEF RefreshOk
    <3>3. refresh' = refresh /\ tab[t].with # NoToken
      BY <2>3 DEF RefreshOk, Valid
    <3> QED BY <2>3, <3>2, <3>3 DEF RefreshOk, TokensTogether
  <2>4. ASSUME NEW t \in Tabs, RefreshFails(t) PROVE TokensTogether'
    BY <2>4 DEF RefreshFails, TokensTogether
  <2>5. CASE UNCHANGED <<storage, stray, failed>>
    BY <2>5 DEF TokensTogether, storage
  <2> QED BY <1>2, <2>1, <2>2, <2>3, <2>4, <2>5, StorageSteps
<1> QED BY <1>1, <1>2

\* The two tokens in storage are of one user and come and go together, however many
\* tabs log in, refresh, retry and log out, unless the answer of a refresh is stored
\* after its token was removed or replaced.
THEOREM TokensStayTogether == Spec => []TokensTogether
<1>1. Init => TokensTogether
  BY DEF Init, TokensTogether
<1> QED BY <1>1, StepTogether, TypeCorrect, PTL DEF Spec

LEMMA StepReachable == TypeOK /\ LoginReachable /\ [Next]_vars => LoginReachable'
<1> SUFFICES ASSUME TypeOK, LoginReachable, [Next]_vars PROVE LoginReachable'
  OBVIOUS
<1>1. CASE UNCHANGED vars
  BY <1>1 DEF LoginReachable, HasCookie, vars, storage, history
<1>2. CASE Next
  <2> USE DEF LoginReachable, HasCookie
  <2>1. ASSUME NEW t \in Tabs, Logout(t) PROVE LoginReachable'
    BY <2>1 DEF Logout, TypeOK
  <2>2. ASSUME NEW t \in Tabs, LogIn(t) PROVE LoginReachable'
    <3>1. tab[t].user \in Users \cup {"nobody"} /\ now \in 0 .. MaxTime
      BY DEF TypeOK, Tab
    <3> QED BY <2>2, <3>1, IssuedIsToken DEF LogIn
  <2>3. ASSUME NEW t \in Tabs, RefreshOk(t) PROVE LoginReachable'
    <3>1. tab[t].with.user \in Users \cup {"nobody"} /\ now \in 0 .. MaxTime
      BY DEF TypeOK, Tab, Token
    <3> QED BY <2>3, <3>1, IssuedIsToken DEF RefreshOk
  <2>4. ASSUME NEW t \in Tabs, RefreshFails(t) PROVE LoginReachable'
    BY <2>4 DEF RefreshFails
  <2>5. CASE UNCHANGED <<storage, stray, failed>> /\ UNCHANGED now
    BY <2>5 DEF storage
  <2>6. CASE UNCHANGED <<storage, stray, failed>> /\ Tick
    BY <2>6 DEF storage, Tick, TypeOK, Ticks, RefreshLife
  <2> QED BY <1>2, <2>1, <2>2, <2>3, <2>4, <2>5, <2>6, StorageSteps
<1> QED BY <1>1, <1>2

\* A browser without an access token is not kept from /login by the cookie, unless a
\* refresh that failed took the tokens.
THEOREM LoginStaysReachable == Spec => []LoginReachable
<1>1. Init => LoginReachable
  BY DEF Init, LoginReachable, HasCookie
<1> QED BY <1>1, StepReachable, TypeCorrect, PTL DEF Spec

-----------------------------------------------------------------------------
(***************************************************************************)
(* Renewal.                                                                *)
(***************************************************************************)

\* A call that is not refused, or not for data, needs no excuse.
Covered(t) == (tab[t].kind = "data" /\ tab[t].outcome = "refused") => t \in excused

\* An excuse lasts until the next call begins.
LEMMA ExcuseLasts ==
  ASSUME NEW t \in Tabs, Excuse, t \in excused, tab[t].at # "idle" \/ tab'[t].at # "sent"
  PROVE  t \in excused'
BY DEF Excuse

LEMMA NoTokenExcuses ==
  ASSUME NEW t \in Tabs, Excuse, refresh' = NoToken
  PROVE  t \in excused'
BY DEF Excuse, Renewable, Valid

\* What a call that ends leaves of its tab.
LEMMA EndedTabs ==
  ASSUME TypeOK, NEW t \in Tabs, NEW page, NEW outcome, Ended(t, page, outcome)
  PROVE  /\ tab'[t].outcome = outcome /\ tab'[t].at = "idle" /\ tab'[t].kind = tab[t].kind
         /\ \A s \in Tabs \ {t} : tab'[s] = tab[s]
BY DEF TypeOK, Ended, NewTab

LEMMA StepRenewal == TypeOK /\ SilentRenewal /\ [Next]_vars => SilentRenewal'
<1> SUFFICES ASSUME TypeOK, SilentRenewal, [Next]_vars, NEW s \in Tabs PROVE Covered(s)'
  BY DEF SilentRenewal, Covered
<1>1. Covered(s)
  BY DEF SilentRenewal, Covered
<1>2. CASE UNCHANGED vars
  BY <1>1, <1>2 DEF Covered, vars, history
<1>3. CASE Next
  <2>1. Excuse
    BY <1>3 DEF Next
  <2>2. CASE tab'[s] = tab[s]
    BY <1>1, <2>1, <2>2, ExcuseLasts DEF Covered
  <2>3. ASSUME NEW outcome \in Outcome \ {"refused"}, NEW page, Ended(s, page, outcome)
        PROVE  Covered(s)'
    BY <2>3, EndedTabs DEF Covered
  <2>4. ASSUME Refused401(s), refresh' = refresh PROVE Covered(s)'
    <3>1. CASE refresh = NoToken
      BY <2>1, <2>4, <3>1, NoTokenExcuses DEF Covered
    <3>2. CASE refresh # NoToken
      <4>1. tab'[s].at = "refresh" /\ tab'[s].kind = tab[s].kind
              /\ tab'[s].outcome = tab[s].outcome
        BY <2>4, <3>2 DEF Refused401, TypeOK, Tab
      <4> QED BY <1>1, <2>1, <4>1, ExcuseLasts DEF Covered
    <3> QED BY <3>1, <3>2
  <2>5. ASSUME NEW t \in Tabs, Answer(t) PROVE Covered(s)'
    <3>1. CASE t # s
      <4>1. tab'[s] = tab[s]
        BY <2>5, <3>1, EndedTabs
           DEF Answer, Lose, Serve, LogIn, LogInRefused, LogInLimited, RefreshOk,
               RefreshFails, Finish, Refused401, TypeOK
      <4> QED BY <2>2, <4>1
    <3>2. CASE t = s
      <4>1. CASE Lose(s)
        BY <2>3, <4>1 DEF Lose, Finish, Outcome
      <4>2. CASE Serve(s)
        BY <2>3, <2>4, <4>2 DEF Serve, Finish, Outcome, storage
      <4>3. CASE LogIn(s)
        BY <2>3, <4>3 DEF LogIn, Outcome
      <4>4. CASE LogInRefused(s)
        BY <2>4, <4>4 DEF LogInRefused, storage
      <4>5. CASE LogInLimited(s)
        BY <2>3, <4>5 DEF LogInLimited, Finish, Outcome
      <4>6. CASE RefreshOk(s)
        <5>1. tab[s].at = "refresh" /\ tab'[s].kind = tab[s].kind
                /\ tab'[s].outcome = tab[s].outcome
          BY <4>6 DEF RefreshOk, TypeOK, Tab
        <5> QED BY <1>1, <2>1, <5>1, ExcuseLasts DEF Covered
      <4>7. CASE RefreshFails(s)
        BY <2>1, <4>7, NoTokenExcuses DEF RefreshFails, Covered
      <4> QED BY <2>5, <3>2, <4>1, <4>2, <4>3, <4>4, <4>5, <4>6, <4>7 DEF Answer
    <3> QED BY <3>1, <3>2
  <2>6. ASSUME NEW t \in Tabs, NEW page \in {"app", "login", "playground"}, Visit(t, page)
        PROVE  Covered(s)'
    <3>1. tab'[s] = tab[s] \/ tab'[s].outcome = "none"
      BY <2>6 DEF Visit, NewTab, TypeOK
    <3> QED BY <2>2, <3>1 DEF Covered
  <2>7. ASSUME NEW t \in Tabs, NEW kind \in Kind, Start(t, kind) PROVE Covered(s)'
    <3>1. tab'[s] = tab[s] \/ tab'[s].outcome = "none"
      BY <2>7 DEF Start, NewTab, TypeOK
    <3> QED BY <2>2, <3>1 DEF Covered
  <2>8. CASE tab' = tab
    BY <2>2, <2>8
  <2> QED BY <1>3, <2>5, <2>6, <2>7, <2>8 DEF Next, Tick, Logout
<1> QED BY <1>2, <1>3

\* A call for data is refused only if at some moment of it there was no good refresh
\* token in storage: two tabs that refresh at once do not refuse each other.
THEOREM RenewalIsSilent == Spec => []SilentRenewal
<1>1. Init => SilentRenewal
  BY DEF Init, SilentRenewal, NewTab
<1> QED BY <1>1, StepRenewal, TypeCorrect, PTL DEF Spec

-----------------------------------------------------------------------------
(***************************************************************************)
(* The request editor.                                                     *)
(***************************************************************************)

\* A draft is saved only by a send under way, and there is none.
BuilderInv ==
  /\ Builder!TypeOK
  /\ fresh => draft = {} /\ Builder!Idle

LEMMA BuilderStart == Builder!Init => BuilderInv
<1> SUFFICES ASSUME Builder!Init PROVE BuilderInv
  OBVIOUS
<1>1. Builder!defaultState \in Builder!Editor
  BY DEF Builder!defaultState, Builder!Editor
<1>2. Builder!NoSend \in Builder!Send
  BY <1>1 DEF Builder!NoSend, Builder!Send
<1>3. draft \in {{}} \cup {{e} : e \in Builder!Editor}
  BY DEF Builder!Init
<1> QED BY <1>1, <1>2, <1>3
        DEF Builder!Init, BuilderInv, Builder!TypeOK, Builder!Idle, Builder!NoSend

LEMMA LoadingIsEditor ==
  ASSUME Builder!TypeOK, NEW s \in Sends, Builder!StopLoading(s)
  PROVE  editor' \in Builder!Editor /\ restored' \in BOOLEAN
BY DEF Builder!TypeOK, Builder!StopLoading, Builder!Editor

LEMMA MovesAreSends ==
  ASSUME Builder!TypeOK, NEW s \in Sends, NEW n \in {"execute", "test"},
         send' = [send EXCEPT ![s].at = n]
  PROVE  send' \in [Sends -> Builder!Send]
BY DEF Builder!TypeOK, Builder!Send

LEMMA EndedIsSend ==
  ASSUME Builder!TypeOK, NEW s \in Sends, send' = [send EXCEPT ![s] = Builder!NoSend]
  PROVE  send' \in [Sends -> Builder!Send]
BY DEF Builder!TypeOK, Builder!Send, Builder!NoSend, Builder!Editor, Builder!defaultState

LEMMA SavedIsDraft ==
  ASSUME Builder!TypeOK, NEW s \in Sends, Builder!Persist(s)
  PROVE  /\ draft' \in {{}} \cup {{e} : e \in Builder!Editor}
         /\ send' \in [Sends -> Builder!Send]
BY EndedIsSend DEF Builder!TypeOK, Builder!Send, Builder!Persist

LEMMA FunctionOf ==
  ASSUME NEW S, NEW T, NEW f, f = [x \in S |-> f[x]], \A x \in S : f[x] \in T
  PROVE  f \in [S -> T]
OBVIOUS

LEMMA MountKeeps ==
  ASSUME BuilderInv, NEW reload \in BOOLEAN, Builder!Mount(reload)
  PROVE  BuilderInv'
<1>1. editor' \in Builder!Editor
  <2>1. CASE draft = {}
    BY <2>1 DEF Builder!Mount, Builder!defaultState, Builder!Editor
  <2>2. CASE draft # {}
    <3>1. PICK e \in Builder!Editor : draft = {e}
      BY <2>2 DEF BuilderInv, Builder!TypeOK
    <3> QED BY <2>2, <3>1 DEF Builder!Mount
  <2> QED BY <2>1, <2>2
<1>2. restored' \in BOOLEAN
  BY <1>1 DEF Builder!Mount, Builder!Editor
<1>3. \A s \in Sends : /\ send'[s] \in Builder!Send
                       /\ send[s].at = "idle" => send'[s].at = "idle"
  BY DEF Builder!Mount, BuilderInv, Builder!TypeOK, Builder!Send, Builder!NoSend,
         Builder!Editor, Builder!defaultState
<1>4. send' \in [Sends -> Builder!Send]
  <2>1. send' = [s \in Sends |-> send'[s]]
    BY DEF Builder!Mount
  <2>2. \A s \in Sends : send'[s] \in Builder!Send
    BY <1>3
  <2> QED BY <2>1, <2>2, FunctionOf
<1>5. UNCHANGED <<draft, fresh>>
  BY DEF Builder!Mount
<1> QED BY <1>1, <1>2, <1>3, <1>4, <1>5 DEF BuilderInv, Builder!TypeOK, Builder!Idle

\* A send that goes on is one of a send, so that the editor is not fresh.
LEMMA ProceedKeeps ==
  ASSUME BuilderInv, NEW s \in Sends, Builder!Proceed(s)
  PROVE  BuilderInv'
<1>1. send[s].at # "idle" /\ UNCHANGED fresh
  BY DEF Builder!Proceed, Builder!PreScript, Builder!TestScript, Builder!Fail,
         Builder!Answered
<1>2. ~fresh
  BY <1>1 DEF BuilderInv, Builder!Idle
<1>3. CASE Builder!PreScript(s)
  <2>1. send' \in [Sends -> Builder!Send]
    BY <1>3, MovesAreSends DEF BuilderInv, Builder!PreScript
  <2> QED BY <1>1, <1>2, <1>3, <2>1 DEF BuilderInv, Builder!TypeOK, Builder!PreScript
<1>4. CASE Builder!TestScript(s)
  <2>1. /\ draft' \in {{}} \cup {{e} : e \in Builder!Editor}
        /\ send' \in [Sends -> Builder!Send]
    BY <1>4, SavedIsDraft DEF BuilderInv, Builder!TestScript
  <2> QED BY <1>1, <1>2, <1>4, <2>1 DEF BuilderInv, Builder!TypeOK, Builder!TestScript
<1>5. CASE Builder!Fail(s)
  <2>1. /\ send' \in [Sends -> Builder!Send]
        /\ editor' \in Builder!Editor /\ restored' \in BOOLEAN
    BY <1>5, EndedIsSend, LoadingIsEditor DEF BuilderInv, Builder!Fail
  <2> QED BY <1>1, <1>2, <1>5, <2>1 DEF BuilderInv, Builder!TypeOK, Builder!Fail
<1>6. ASSUME NEW test \in BOOLEAN, Builder!Answered(s, test) PROVE BuilderInv'
  <2>1. CASE test
    BY <1>1, <1>2, <1>6, <2>1, MovesAreSends, LoadingIsEditor
       DEF BuilderInv, Builder!TypeOK, Builder!Answered
  <2>2. CASE ~test
    BY <1>1, <1>2, <1>6, <2>2, SavedIsDraft, LoadingIsEditor
       DEF BuilderInv, Builder!TypeOK, Builder!Answered
  <2> QED BY <2>1, <2>2
<1> QED BY <1>3, <1>4, <1>5, <1>6 DEF Builder!Proceed

LEMMA BuilderKeeps ==
  ASSUME BuilderInv, [Builder!Next]_(Builder!vars)
  PROVE  BuilderInv'
<1>1. CASE UNCHANGED Builder!vars
  BY <1>1 DEF Builder!vars, BuilderInv, Builder!TypeOK, Builder!Idle
<1>2. CASE Builder!Edit
  BY <1>2 DEF Builder!Edit, BuilderInv, Builder!TypeOK, Builder!Editor, Builder!Idle
<1>3. CASE Builder!ResetAll
  BY <1>3 DEF Builder!ResetAll, BuilderInv, Builder!TypeOK, Builder!Editor,
              Builder!defaultState, Builder!Idle
<1>4. ASSUME NEW s \in Sends, NEW next \in {"pre", "execute"}, Builder!SendRequest(s, next)
      PROVE  BuilderInv'
  <2>1. editor' \in Builder!Editor /\ send' \in [Sends -> Builder!Send]
    BY <1>4 DEF Builder!SendRequest, BuilderInv, Builder!TypeOK, Builder!Editor, Builder!Send
  <2> QED BY <1>4, <2>1 DEF Builder!SendRequest, BuilderInv, Builder!TypeOK
<1> QED BY <1>1, <1>2, <1>3, <1>4, MountKeeps, ProceedKeeps DEF Builder!Next

\* However sends, visits to other pages and reloads come between, a reset leaves no
\* draft behind that only a later send could have saved (useRequestBuilder.ts:
\* resetAll, sendRequest).
THEOREM ResetsStay == WebSpec => []ResetStays
<1>1. WebInit => BuilderInv
  BY BuilderStart DEF WebInit
<1>2. [SessionStep \/ BuilderStep]_<<part, vars, builderVars>> => [Builder!Next]_(Builder!vars)
  BY DEF SessionStep, BuilderStep, builderVars, Builder!vars
<1>3. BuilderInv /\ [Builder!Next]_(Builder!vars) => BuilderInv'
  BY BuilderKeeps
<1>4. BuilderInv => ResetStays
  BY DEF BuilderInv, ResetStays, Builder!ResetStays
<1> QED BY <1>1, <1>2, <1>3, <1>4, PTL DEF WebSpec

=============================================================================
