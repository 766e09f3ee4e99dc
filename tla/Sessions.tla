------------------------------- MODULE Sessions --------------------------------
(***************************************************************************)
(* The server's side of a session: AuthService and AuthController.         *)
(*                                                                         *)
(* An access token is accepted by its signature and age alone.  A refresh  *)
(* token is compared with the one hash that the row of its account holds;  *)
(* signing in, by whatever means, and refreshing replace the hash, logging *)
(* out removes it.  A request is served in steps, one for each awaited     *)
(* call that reads or writes the row.                                      *)
(***************************************************************************)
EXTENDS Naturals

CONSTANTS Accounts, Nobody,  \* rows of User; no account
          Calls,             \* calls of the clients, each with its job at the server
          MaxIssued          \* bound: refresh tokens told apart, later ones share a number

ASSUME SessionsAssumption == Nobody \notin Accounts /\ MaxIssued \in Nat \ {0}

VARIABLES issued,  \* refresh tokens issued so far: they are numbered
          hash,    \* hash[a]: the token whose hash the row of a holds, 0: null
          job      \* job[c]: what the server does for call c

Tokens == [acct : Accounts, n : 1..MaxIssued]
NoToken == [acct |-> Nobody, n |-> 0]

(* Sign-ins that set the refresh cookie with their answer, and the one     *)
(* that does not.                                                          *)
SignIns == {"login", "passkey"}

(* "read" stands for the GETs of the signed-in pages, "me" and "profile".  *)
JobOps == SignIns \cup {"refresh", "logout", "read"}

NoJob == [op |-> "read", pc |-> "none", token |-> NoToken, live |-> FALSE]

ServerInit ==
  /\ issued = 0
  /\ hash = [a \in Accounts |-> 0]
  /\ job = [c \in Calls |-> NoJob]

(* What bcrypt looks at: the first 72 bytes, in which a refresh token has  *)
(* the header and the account but not the times that make it unique.       *)
Compared(token) == token.acct

Stored(a) == [acct |-> a, n |-> hash[a]]

Answer(c, pc) == job' = [job EXCEPT ![c].pc = pc]

(* A route behind JwtAuthGuard that only reads.                            *)
ServeRead(c) ==
  /\ job[c].op = "read" /\ job[c].pc = "arrived"
  /\ Answer(c, IF job[c].live THEN "ok" ELSE "denied")
  /\ UNCHANGED <<issued, hash>>

(* login, register, Google and passkey sign-ins up to issueTokens.  They   *)
(* refuse for many reasons; one of them, reCAPTCHA, makes the client try   *)
(* again.                                                                  *)
CheckSignIn(c) ==
  /\ job[c].op \in SignIns /\ job[c].pc = "arrived"
  /\ \E pc \in {"checked", "denied"} \cup (IF job[c].op = "login" THEN {"captcha"} ELSE {}) :
       Answer(c, pc)
  /\ UNCHANGED <<issued, hash>>

(* refresh up to issueTokens: the hash decides, "denied" is its refusal.   *)
(* A token that is older than seven days, or whose account was deleted, is *)
(* refused before that: "error", like every other failure of a refresh.    *)
CheckRefresh(c) ==
  LET token == job[c].token IN
  /\ job[c].op = "refresh" /\ job[c].pc = "arrived"
  /\ \/ token # NoToken /\ Answer(c, "error")
     \/ Answer(c, IF /\ token # NoToken
                     /\ hash[token.acct] # 0
                     /\ Compared(token) = Compared(Stored(token.acct))
                  THEN "checked" ELSE "denied")
  /\ UNCHANGED <<issued, hash>>

Later(n) == IF n < MaxIssued THEN n + 1 ELSE n

(* issueTokens: the answer carries the token whose hash is stored.         *)
(* Mutant: the update of the row is forgotten.                             *)
IssueTokensUnstored(c) ==
  /\ job[c].pc = "checked"
  /\ issued' = Later(issued)
  /\ job' = [job EXCEPT ![c].pc = "ok", ![c].token.n = issued']
  /\ UNCHANGED hash

IssueTokens(c) ==
  /\ job[c].pc = "checked"
  /\ issued' = Later(issued)
  /\ hash' = [hash EXCEPT ![job[c].token.acct] = issued']
  /\ job' = [job EXCEPT ![c].pc = "ok", ![c].token.n = issued']

(* AuthController.logout: the hash goes whatever token the browser keeps.  *)
ServeLogout(c) ==
  /\ job[c].op = "logout" /\ job[c].pc = "arrived"
  /\ Answer(c, IF job[c].live THEN "ok" ELSE "denied")
  /\ hash' = IF job[c].live THEN [hash EXCEPT ![job[c].token.acct] = 0] ELSE hash
  /\ UNCHANGED issued

(* A database call of the job fails: an answer other than 401, except from *)
(* refresh, where the client tells no failure from another.                *)
ServerFails(c) ==
  /\ job[c].pc \in {"arrived", "checked"}
  /\ Answer(c, "error")
  /\ UNCHANGED <<issued, hash>>

ServerStep(c) == \/ ServeRead(c) \/ CheckSignIn(c) \/ CheckRefresh(c)
                 \/ IssueTokens(c) \/ ServeLogout(c)
=============================================================================
