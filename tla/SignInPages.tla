------------------------------ MODULE SignInPages ------------------------------
(***************************************************************************)
(* The pages of signing in and up: a form with a reCAPTCHA, Google with a  *)
(* code that the server redeems, and a passkey.  An attempt goes on when   *)
(* its page is left, and its answer then signs in and redirects.           *)
(***************************************************************************)
EXTENDS Naturals, Recaptcha

CONSTANTS Attempts,    \* attempts of signing in, a bound
          Visitors,    \* the accounts of those who use the browser
          Anyone,      \* nobody signed in
          DashboardOf, \* DashboardOf[v]: the dashboard of the role of v
          MaxExchanges \* maxAttempts of googleLoginWithCode

VARIABLES page,    \* "login", "signup", "home" or a dashboard
          session, \* the account signed in, Anyone
          attempt  \* attempt[i]

signInVars == <<page, session, attempt, captchaVars>>

AuthPages == {"login", "signup"}
Dashboards == {DashboardOf[v] : v \in Visitors}

ASSUME VisitorsAssumption ==
  Anyone \notin Visitors /\ Dashboards \cap (AuthPages \cup {"home"}) = {}

(* How a page signs in: its form, Google, or a passkey.                    *)
Buttons(p) == IF p = "login" THEN {"form", "google", "passkey"} ELSE {"form", "google"}

(* here: its page is still open; retried: a second token was asked for;    *)
(* tries: exchanges of the code begun; redeemed: at Google; lost: answers  *)
(* of Google that did not arrive.                                          *)
Unused == [by |-> "form", at |-> "unused", on |-> "login", who |-> Anyone, here |-> FALSE,
           waits |-> NoLoad, retried |-> FALSE, tries |-> 0, redeemed |-> FALSE, lost |-> FALSE]

Ends == {"unused", "ended", "refused"}
Underway(i) == attempt[i].at \notin Ends

SignInInit ==
  /\ CaptchaInit
  /\ page = "home" /\ session = Anyone
  /\ attempt = [i \in Attempts |-> Unused]

(* The button of an attempt is disabled while it goes on, of whichever     *)
(* account; and for good when Google's window was closed ("closed").       *)
Spinning(by) == \E i \in Attempts : attempt[i].here /\ attempt[i].by = by /\ Underway(i)

At(i, stage) == attempt' = [attempt EXCEPT ![i].at = stage]

(* What is shown of a page that is left is gone; the attempts go on.       *)
Left(attempts) ==
  [i \in Attempts |-> [attempts[i] EXCEPT !.here = FALSE,
                         !.at = IF @ = "closed" THEN "ended" ELSE @]]

GoTo(p, attempts) ==
  /\ page' = p
  /\ attempt' = IF p = page THEN attempts ELSE Left(attempts)
  /\ IF p \in AuthPages \/ p = page THEN UNCHANGED captchaVars
     ELSE Unload(\E i \in Attempts : attempts[i].at \notin Ends)

(* Whoever is signed in is sent on to the dashboard.                       *)
Visit(p) ==
  /\ p \in AuthPages \cup {"home"} /\ p # page
  /\ GoTo(IF p \in AuthPages /\ session # Anyone THEN DashboardOf[session] ELSE p, attempt)
  /\ UNCHANGED session

Press(i, by, v) ==
  /\ page \in AuthPages /\ by \in Buttons(page) /\ ~Spinning(by)
  /\ attempt[i].at = "unused" /\ \A j \in Attempts : j < i => attempt[j].at # "unused"
  /\ attempt' = [attempt EXCEPT ![i] =
       [Unused EXCEPT !.by = by, !.on = page, !.who = v, !.here = TRUE,
          !.at = CASE by = "form" -> "executing" [] by = "google" -> "window" [] by = "passkey" -> "asked"]]
  /\ UNCHANGED <<page, session, captchaVars>>

(* executeRecaptcha.                                                       *)
AskToken(i) ==
  /\ attempt[i].at = "executing"
  /\ \/ api = "ready" /\ At(i, "sent") /\ UNCHANGED captchaVars
     \/ /\ api # "ready"
        /\ \/ current # NoLoad /\ UNCHANGED captchaVars
           \/ current = NoLoad /\ \E l \in Loads : BeginLoad(l)
        /\ attempt' = [attempt EXCEPT ![i].at = "waiting", ![i].waits = current']
  /\ UNCHANGED <<page, session>>

LoadEnded(i) ==
  /\ attempt[i].at = "waiting" /\ load[attempt[i].waits].at \in {"done", "failed"}
  /\ At(i, IF load[attempt[i].waits].at = "done" /\ api = "ready" THEN "sent" ELSE "ended")
  /\ UNCHANGED <<page, session, captchaVars>>

(* What Google says of a token (RecaptchaService.verify), if it answers;   *)
(* passed by policy: an error of the browser's, where those are allowed.   *)
TokenAnswers == [answered : BOOLEAN, success : BOOLEAN, action : BOOLEAN, scored : BOOLEAN, policy : BOOLEAN]

Verified(answer) ==
  answer.answered /\ IF answer.success THEN answer.action /\ answer.scored ELSE answer.policy

(* A token that does not pass is followed by another one, once.            *)
CheckToken(i, answer) ==
  /\ attempt[i].at = "sent"
  /\ attempt' = [attempt EXCEPT
       ![i].at = CASE Verified(answer) -> "asked"
                   [] ~Verified(answer) /\ ~attempt[i].retried -> "executing"
                   [] ~Verified(answer) /\ attempt[i].retried -> "ended",
       ![i].retried = @ \/ ~Verified(answer)]
  /\ UNCHANGED <<page, session, captchaVars>>

(* Google's window: a code, an error, or closed, of which the page is not  *)
(* told.                                                                   *)
WindowEnds(i) ==
  /\ attempt[i].at = "window"
  /\ \E stage \in {"exchange", "ended"} \cup (IF attempt[i].here THEN {"closed"} ELSE {}) : At(i, stage)
  /\ UNCHANGED <<page, session, captchaVars>>

(* One exchange of the code.  Google redeems it once; an error of the      *)
(* network before or after that is followed by another exchange if its     *)
(* code is one of those to be retried, and maxAttempts allows.             *)
Exchange(i) ==
  /\ attempt[i].at = "exchange"
  /\ \E arrives, answered, retryable \in BOOLEAN :
       attempt' = [attempt EXCEPT
         ![i].tries = @ + 1,
         ![i].redeemed = @ \/ arrives,
         ![i].lost = @ \/ (arrives /\ ~answered),
         ![i].at = CASE arrives /\ answered -> IF attempt[i].redeemed THEN "refused" ELSE "asked"
                     [] ~(arrives /\ answered) /\ retryable /\ attempt[i].tries + 1 < MaxExchanges -> "exchange"
                     [] OTHER -> "ended"]
  /\ UNCHANGED <<page, session, captchaVars>>

(* Refused, lost, or too late: the page shows an error and nothing else.   *)
AttemptFails(i) ==
  /\ attempt[i].at \in {"executing", "sent", "asked"} /\ At(i, "ended")
  /\ UNCHANGED <<page, session, captchaVars>>

(* The answer: the account is signed in and its dashboard shown, wherever  *)
(* the person is by then; after signing up by the form, the start page is  *)
(* loaded anew, which ends all other attempts.                             *)
(* Mutant: only the pages of signing in redirect.                          *)
SignedInByPage(i) ==
  /\ attempt[i].at = "asked" /\ session' = attempt[i].who
  /\ GoTo(IF page \in AuthPages THEN DashboardOf[attempt[i].who] ELSE page, [attempt EXCEPT ![i].at = "ended"])

SignedIn(i) ==
  /\ attempt[i].at = "asked" /\ session' = attempt[i].who
  /\ IF attempt[i].by = "form" /\ attempt[i].on = "signup"
     THEN /\ page' = "home"
          /\ attempt' = [j \in Attempts |-> IF attempt[j].at = "unused" THEN attempt[j]
                                             ELSE [attempt[j] EXCEPT !.at = "ended", !.here = FALSE]]
          /\ api' = "none" /\ tag' = NoLoad /\ current' = NoLoad /\ coming' = {}
          /\ load' = [l \in Loads |-> IF Loading(l) THEN [load[l] EXCEPT !.at = "failed"] ELSE load[l]]
          /\ UNCHANGED parted
     ELSE GoTo(DashboardOf[attempt[i].who], [attempt EXCEPT ![i].at = "ended"])

SignInNext ==
  \/ CaptchaStep /\ UNCHANGED <<page, session, attempt>>
  \/ \E p \in AuthPages \cup {"home"} : Visit(p)
  \/ \E i \in Attempts :
       \/ \E by \in {"form", "google", "passkey"}, v \in Visitors : Press(i, by, v)
       \/ AskToken(i) \/ LoadEnded(i) \/ WindowEnds(i) \/ Exchange(i) \/ AttemptFails(i) \/ SignedIn(i)
       \/ \E answer \in TokenAnswers : CheckToken(i, answer)

SignInSpec == SignInInit /\ [][SignInNext]_signInVars

(* A dashboard is that of the account signed in, however many attempts and *)
(* of whichever account were under way; elsewhere than on the pages of     *)
(* signing in there is no reCAPTCHA, unless they were left with something  *)
(* under way; a code of Google's is refused only after an answer that was  *)
(* lost.                                                                   *)
SignInInv ==
  /\ LoadsShared
  /\ page \in Dashboards => session # Anyone /\ page = DashboardOf[session]
  /\ page \in AuthPages => session = Anyone
  /\ page \notin AuthPages /\ ~parted => api = "none" /\ tag = NoLoad
  /\ \A i \in Attempts : attempt[i].at = "refused" => attempt[i].lost
=============================================================================
