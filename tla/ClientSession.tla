----------------------------- MODULE ClientSession ------------------------------
(***************************************************************************)
(* The browser's side of a session, over Sessions: what lib/auth.ts keeps  *)
(* in localStorage for all tabs, the refresh cookie, the AuthProvider of   *)
(* each tab, and apiFetch, which meets a 401 by one refresh and one more   *)
(* attempt.  A call that is given up goes on at the server.                *)
(***************************************************************************)
EXTENDS Sessions

CONSTANTS Tabs

VARIABLES store,    \* localStorage: account of the access token, whether it is
                    \* unexpired, refresh token, account of the stored user
          cookie,   \* the refresh token in the httpOnly cookie
          shown,    \* shown[t]: the user in the state of tab t
          loading,  \* loading[t]: AuthProvider has not yet asked who is signed in
          call      \* call[c]: a call of apiFetch

(* Observed, never read by an action's guard. *)
VARIABLES calm,    \* no session began or ended beside another call, and every
                   \* logout was confirmed to the client
          ended,   \* the last session ended by a confirmed logout with no refresh
                   \* under way, and nobody has signed in since
          outs     \* accounts that were ever logged out at the server

serverVars == <<issued, hash, job>>
storeVars == <<store, cookie, shown>>
watched == <<calm, ended, outs>>
sessionVars == <<serverVars, storeVars, loading, call, watched>>

Who == Accounts \cup {Nobody}

Empty == [access |-> Nobody, live |-> FALSE, refresh |-> NoToken, user |-> Nobody]

Idle == [op |-> "api", pc |-> "idle", tab |-> Nobody, retry |-> FALSE]

SessionInit ==
  /\ ServerInit
  /\ store = Empty
  /\ cookie = NoToken
  /\ shown = [t \in Tabs |-> Nobody]
  /\ loading = [t \in Tabs |-> FALSE]
  /\ call = [c \in Calls |-> Idle]
  /\ calm = TRUE /\ ended = FALSE /\ outs = {}

-----------------------------------------------------------------------------
(* lib/auth.ts.  The event reaches the AuthProvider of the same tab only.  *)
Show(t, a) == shown' = [shown EXCEPT ![t] = a]

SetAuth(t, token) ==
  /\ store' = [access |-> token.acct, live |-> TRUE, refresh |-> token, user |-> token.acct]
  /\ Show(t, token.acct)

ClearAuth(t) == store' = Empty /\ Show(t, Nobody)

UpdateStoredUser(t, a) == store' = [store EXCEPT !.user = a] /\ Show(t, a)

Busy(c) == call[c].pc # "idle" \/ job[c].pc # "none"

(* A session begins or ends: no other call is under way.                   *)
Alone(c) == \A d \in Calls \ {c} : ~Busy(d)

-----------------------------------------------------------------------------
(* apiFetch: the access token is read when the call begins.                *)
Attempt(c, t, op, a, live, retry) ==
  /\ call' = [call EXCEPT ![c] = [op |-> op, pc |-> "waiting", tab |-> t, retry |-> retry]]
  /\ job' = [job EXCEPT ![c] =
       [op |-> IF op \in SignIns \cup {"logout"} THEN op ELSE "read",
        pc |-> "arrived", token |-> [acct |-> a, n |-> 0], live |-> live]]

Idling(c) == call[c].pc = "idle" /\ job[c].pc = "none"

(* A page of tab t uses the API with its token, or asks to log out.  Logout *)
(* is offered to whom the tab takes for signed in.                         *)
Request(c, t, op) ==
  /\ Idling(c) /\ ~loading[t]
  /\ op \in {"api", "profile", "logout"}
  /\ op # "api" => shown[t] # Nobody
  /\ Attempt(c, t, op, store.access, store.live, TRUE)
  /\ UNCHANGED <<issued, hash, storeVars, loading, watched>>

(* login, register, Google: "login"; passkeyLogin: "passkey".              *)
SignIn(c, t, op, a) ==
  /\ Idling(c) /\ ~loading[t] /\ shown[t] = Nobody
  /\ op \in SignIns
  /\ Attempt(c, t, op, a, FALSE, TRUE)
  /\ UNCHANGED <<issued, hash, storeVars, loading, watched>>

(* A page is opened or loaded again: the calls of its predecessor are      *)
(* dropped, AuthProvider shows the stored user and asks for /me.           *)
OpenPage(c, t) ==
  /\ Idling(c)
  /\ Show(t, store.user)
  /\ loading' = [loading EXCEPT ![t] = store.access # Nobody]
  /\ LET kept == [d \in Calls |-> IF call[d].tab = t THEN Idle ELSE call[d]] IN
     IF store.access = Nobody
     THEN call' = kept /\ UNCHANGED job
     ELSE /\ call' = [kept EXCEPT ![c] = [op |-> "me", pc |-> "waiting", tab |-> t, retry |-> TRUE]]
          /\ job' = [job EXCEPT ![c] = [op |-> "read", pc |-> "arrived", live |-> store.live,
                                        token |-> [acct |-> store.access, n |-> 0]]]
  /\ calm' = (calm /\ \A d \in Calls : call[d].tab = t => call[d].op # "logout")
  /\ UNCHANGED <<issued, hash, store, cookie, ended, outs>>

(* The answer to a call that was given up or whose page is gone.           *)
Forget(c) ==
  /\ call[c].pc = "idle" /\ job[c].pc \in {"ok", "denied", "captcha", "error"}
  /\ job' = [job EXCEPT ![c] = NoJob]
  /\ UNCHANGED <<issued, hash, storeVars, loading, call, watched>>
-----------------------------------------------------------------------------
End(c) == call' = [call EXCEPT ![c] = Idle] /\ job' = [job EXCEPT ![c] = NoJob]

Answered(c, pcs) == call[c].pc = "waiting" /\ job[c].pc \in pcs

(* login and its kin: setAuth.  A passkey's answer sets no cookie.         *)
TakeSession(c) ==
  /\ Answered(c, {"ok"}) /\ call[c].op \in SignIns
  /\ SetAuth(call[c].tab, job[c].token)
  /\ cookie' = IF call[c].op = "login" THEN job[c].token ELSE cookie
  /\ End(c) /\ calm' = (calm /\ Alone(c)) /\ ended' = FALSE
  /\ UNCHANGED <<issued, hash, loading, outs>>

(* init of AuthProvider and refreshProfile.                                *)
TakeUser(c) ==
  /\ Answered(c, {"ok"}) /\ call[c].op \in {"me", "profile"}
  /\ UpdateStoredUser(call[c].tab, job[c].token.acct)
  /\ loading' = IF call[c].op = "me" THEN [loading EXCEPT ![call[c].tab] = FALSE] ELSE loading
  /\ End(c)
  /\ UNCHANGED <<issued, hash, cookie, watched>>

TakeData(c) ==
  /\ Answered(c, {"ok"}) /\ call[c].op = "api"
  /\ End(c)
  /\ UNCHANGED <<issued, hash, storeVars, loading, watched>>

RefreshUnderWay(c) == \E d \in Calls \ {c} : call[d].pc = "refreshing"

(* Mutant: the cookie stays.                                               *)
TakeLogoutKeepingCookie(c) ==
  /\ Answered(c, {"ok"}) /\ call[c].op = "logout"
  /\ ClearAuth(call[c].tab)
  /\ End(c) /\ calm' = (calm /\ Alone(c)) /\ ended' = ~RefreshUnderWay(c)
  /\ UNCHANGED <<issued, hash, cookie, loading, outs>>

TakeLogout(c) ==
  /\ Answered(c, {"ok"}) /\ call[c].op = "logout"
  /\ ClearAuth(call[c].tab) /\ cookie' = NoToken
  /\ End(c) /\ calm' = (calm /\ Alone(c)) /\ ended' = ~RefreshUnderWay(c)
  /\ UNCHANGED <<issued, hash, loading, outs>>

(* What a call that failed leaves: AuthProvider.init takes every failure   *)
(* for the end of the session, logout clears in finally, the rest report.  *)
AfterFailure(c) ==
  LET t == call[c].tab IN
  CASE call[c].op = "me" ->
         /\ ClearAuth(t) /\ loading' = [loading EXCEPT ![t] = FALSE]
         /\ calm' = (calm /\ Alone(c)) /\ UNCHANGED ended
    [] call[c].op = "logout" ->
         /\ ClearAuth(t) /\ calm' = FALSE /\ ended' = FALSE
         /\ UNCHANGED loading
    [] OTHER -> UNCHANGED <<store, shown, loading, calm, ended>>

MayRefresh(c) == /\ Answered(c, {"denied"})
                 /\ call[c].op \notin SignIns /\ call[c].retry

MayAskAgain(c) == Answered(c, {"captcha"}) /\ call[c].retry

(* 401: refreshTokens, once.  The body carries the stored token, the       *)
(* cookie goes along and is used when the body has none.                   *)
StartRefresh(c) ==
  /\ MayRefresh(c)
  /\ call' = [call EXCEPT ![c].pc = "refreshing"]
  /\ job' = [job EXCEPT ![c] =
       [op |-> "refresh", pc |-> "arrived", live |-> FALSE,
        token |-> IF store.refresh # NoToken THEN store.refresh ELSE cookie]]
  /\ UNCHANGED <<issued, hash, storeVars, loading, watched>>

(* The new tokens are stored whatever has happened meanwhile, then the     *)
(* call is repeated.                                                       *)
(* Mutant: the cookie that the refresh set is taken for the session.       *)
TakeCookie(c) ==
  /\ call[c].pc = "refreshing" /\ job[c].pc = "ok"
  /\ SetAuth(call[c].tab, IF cookie # NoToken THEN cookie ELSE job[c].token)
  /\ cookie' = job[c].token
  /\ Attempt(c, call[c].tab, call[c].op, job[c].token.acct, TRUE, FALSE)
  /\ UNCHANGED <<issued, hash, loading, watched>>

TakeTokens(c) ==
  /\ call[c].pc = "refreshing" /\ job[c].pc = "ok"
  /\ SetAuth(call[c].tab, job[c].token) /\ cookie' = job[c].token
  /\ Attempt(c, call[c].tab, call[c].op, job[c].token.acct, TRUE, FALSE)
  /\ IF store.access = job[c].token.acct THEN UNCHANGED calm ELSE calm' = (calm /\ Alone(c))
  /\ UNCHANGED <<issued, hash, loading, ended, outs>>

(* login and register ask reCAPTCHA once more when it was refused.         *)
(* Mutant: as often as it is refused.                                      *)
AskAgainAndAgain(c) ==
  /\ MayAskAgain(c)
  /\ Attempt(c, call[c].tab, call[c].op, job[c].token.acct, FALSE, TRUE)
  /\ UNCHANGED <<issued, hash, storeVars, loading, watched>>

AskAgain(c) ==
  /\ MayAskAgain(c)
  /\ Attempt(c, call[c].tab, call[c].op, job[c].token.acct, FALSE, FALSE)
  /\ UNCHANGED <<issued, hash, storeVars, loading, watched>>

(* Every other answer is an error of the call.                             *)
Refused(c) ==
  /\ \/ Answered(c, {"denied", "error", "captcha"}) /\ ~MayRefresh(c) /\ ~MayAskAgain(c)
     \/ call[c].pc = "refreshing" /\ job[c].pc \in {"denied", "error"}
  /\ AfterFailure(c) /\ End(c)
  /\ UNCHANGED <<issued, hash, cookie, outs>>

(* The time-out of apiFetch or a broken connection: the call fails, its    *)
(* job was never begun, goes on, or has been answered.                     *)
GiveUp(c) ==
  /\ call[c].pc # "idle"
  /\ AfterFailure(c)
  /\ call' = [call EXCEPT ![c] = Idle]
  /\ job' \in {job, [job EXCEPT ![c] = NoJob]}
  /\ job' # job => job[c].pc = "arrived"
  /\ UNCHANGED <<issued, hash, cookie, outs>>

(* Fifteen minutes are longer than the second attempt of a call.           *)
Expire ==
  /\ store.live /\ \A c \in Calls : call[c].pc # "idle" => call[c].retry
  /\ store' = [store EXCEPT !.live = FALSE]
  /\ UNCHANGED <<serverVars, cookie, shown, loading, call, watched>>

Serve(c) ==
  /\ ServerStep(c) \/ ServerFails(c)
  /\ outs' = outs \cup {a \in Accounts : hash[a] # 0 /\ hash'[a] = 0}
  /\ UNCHANGED <<storeVars, loading, call, calm, ended>>

TakeAnswer(c) == \/ TakeSession(c) \/ TakeUser(c) \/ TakeData(c) \/ TakeLogout(c)
                 \/ StartRefresh(c) \/ TakeTokens(c) \/ AskAgain(c) \/ Refused(c)

SessionNext ==
  \/ Expire
  \/ \E c \in Calls :
       \/ Serve(c) \/ TakeAnswer(c) \/ Forget(c) \/ GiveUp(c)
       \/ \E t \in Tabs :
            \/ OpenPage(c, t)
            \/ \E op \in {"api", "profile", "logout"} : Request(c, t, op)
            \/ \E a \in Accounts, op \in SignIns : SignIn(c, t, op, a)

SessionSpec == SessionInit /\ [][SessionNext]_sessionVars

(* Node resumes a handler whose call was answered, the browser a fetch.    *)
FairSessionSpec ==
  SessionSpec /\ \A c \in Calls : /\ WF_sessionVars(Serve(c))
                                  /\ WF_sessionVars(TakeAnswer(c))

-----------------------------------------------------------------------------
SessionTypeOK ==
  /\ issued \in 0..MaxIssued
  /\ hash \in [Accounts -> 0..MaxIssued]
  /\ job \in [Calls -> [op : JobOps, live : BOOLEAN, token : [acct : Who, n : 0..MaxIssued],
                        pc : {"none", "arrived", "checked", "ok", "denied", "captcha", "error"}]]
  /\ store \in [access : Who, live : BOOLEAN, refresh : Tokens \cup {NoToken}, user : Who]
  /\ cookie \in Tokens \cup {NoToken}
  /\ shown \in [Tabs -> Who]
  /\ loading \in [Tabs -> BOOLEAN]
  /\ call \in [Calls -> [op : SignIns \cup {"api", "me", "profile", "logout"}, retry : BOOLEAN,
                         tab : Tabs \cup {Nobody}, pc : {"idle", "waiting", "refreshing"}]]
  /\ calm \in BOOLEAN /\ ended \in BOOLEAN /\ outs \subseteq Accounts

(* Calls that meet an expired token refresh side by side, each replacing   *)
(* the hash the others rely on: none of them is turned away by the hash,   *)
(* unless the account was logged out.                                      *)
RefreshesSideBySide ==
  \A c \in Calls :
    job[c].op = "refresh" /\ job[c].pc = "denied" /\ job[c].token # NoToken
      => job[c].token.acct \in outs

(* After a logout that the server confirmed while no refresh was under     *)
(* way, nothing signs the browser in again but a sign-in: not the calls    *)
(* that were waiting, not the cookie.                                      *)
LogoutLasts == ended => store.access = Nobody /\ cookie = NoToken

(* When no session began or ended beside another call, and every logout    *)
(* was confirmed, the four copies of "who is signed in" agree: the tokens, *)
(* the user that pages show, and the row at the server.                    *)
CopiesAgree ==
  calm =>
    /\ store.user = store.access /\ store.refresh.acct = store.access
    /\ \A a \in {store.access, cookie.acct} \ {Nobody} :
         hash[a] = 0 => \E c \in Calls : call[c].op = "logout" /\ call[c].pc = "waiting"

(* Only a sign-in makes a browser that holds one account's session hold    *)
(* another's: a refresh renews the session it belongs to.                  *)
SwitchBySignIn ==
  [][store'.access \notin {store.access, Nobody} /\ store.access # Nobody
       => ~calm \/ \E c \in Calls : Answered(c, {"ok"}) /\ call[c].op \in SignIns]_sessionVars

(* A page that shows nothing until it knows who is signed in has asked,    *)
(* and its question has not been dropped or answered.                      *)
LoadingIsAsked ==
  \A t \in Tabs : loading[t] => \E c \in Calls : /\ call[c].op = "me" /\ call[c].tab = t
                                               /\ call[c].pc # "idle"

(* What must hold of one browser's session in every state.                  *)
SessionInv == SessionTypeOK /\ LoadingIsAsked /\ RefreshesSideBySide /\ LogoutLasts

(* Every call comes to an end: refreshing and asking again do not go on    *)
(* for ever.                                                               *)
CallsEnd == \A c \in Calls : call[c].pc # "idle" ~> call[c].pc = "idle"
=============================================================================
