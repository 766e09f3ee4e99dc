------------------------------ MODULE MCAccounts ------------------------------
(***************************************************************************)
(* A behaviour has two users who sign up and edit; or one whom owner and   *)
(* administrators edit; or one who is removed while booking and editing;   *)
(* or is one of a browser on the pages of signing in and up: a form to     *)
(* sign in and one to sign up, or at most one form beside another way of   *)
(* signing in.  Requests on two users, or on an edited one, are of         *)
(* different operations when they overlap, registrations excepted.         *)
(***************************************************************************)
EXTENDS Accounts, SignInPages, TLC

CONSTANTS u1, u2, r1, r2

VARIABLE focus

Init == AccountInit /\ SignInInit /\ focus \in {"two", "edited", "removed", "forms", "ways"}

Operations == {work'[r].op : r \in Requests}
Differ == work'[r1] # Rest => work'[r1].op # work'[r2].op
Removals == {"deleteUser", "rejectUser", "deleteDriver"}

ServerNext ==
  /\ AccountNext /\ UNCHANGED signInVars
  /\ focus \in {"edited", "removed"} => role'[u2] = "none"
  /\ focus \in {"two", "edited"} =>
       /\ Operations \cap (Removals \cup {"approveUser"}) = {}
       /\ broken' = {} /\ \A u \in Users : ~booked'[u]
  /\ focus \in {"two", "removed"} => moved' = {} /\ "google" \notin Operations
  /\ focus = "edited" => role'[u1] # "ADMIN" /\ "register" \notin Operations
  /\ focus = "two" => Differ \/ "register" \in Operations
  /\ focus = "edited" => Differ

BrowserNext ==
  /\ SignInNext /\ UNCHANGED accountVars
  /\ attempt'[1].who # u2 /\ attempt'[2].who # u1 /\ ~attempt'[2].retried
  /\ focus = "forms" => attempt'[1].on = "login" /\ \A i \in Attempts : attempt'[i].by = "form"
  /\ focus = "forms" => attempt'[2].on = "signup" \/ attempt'[2].at = "unused"
  /\ focus = "ways" => attempt'[2].by # "form" \/ attempt'[2].at = "unused"
  /\ focus = "ways" => load'[2].at = "unused"

Next ==
  /\ UNCHANGED focus
  /\ IF focus \in {"forms", "ways"} THEN BrowserNext ELSE ServerNext

Spec == Init /\ [][Next]_<<accountVars, signInVars, focus>>

(* u2 is a driver.                                                         *)
Shown == (u1 :> "users" @@ u2 :> "driver")

Interchangeable == Permutations({r1, r2})
=============================================================================
