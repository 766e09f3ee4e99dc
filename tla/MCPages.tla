------------------------------- MODULE MCPages -------------------------------
(***************************************************************************)
(* The tables of bookings of an administrator or a customer; the pages of  *)
(* a driver; a profile or settings page, seen as its account, its passkeys *)
(* or its preferences; or the chat assistant, asked in several languages   *)
(* or while models come and go.  A behaviour is about one of them.         *)
(***************************************************************************)
EXTENDS DriverPages, SettingsPages, ChatAnswers, TLC

VARIABLE focus

settingsVars == <<accountVars, passkeyVars, prefVars>>
vars == <<pageVars, driverVars, screen, settingsVars, toolVars, answerVars, focus>>

Settings == {"account", "passkeys", "preferences"}
Chats == {"history", "models"}
Nobody == [role |-> "GUEST", signals |-> {"how"}]
Untouched == [b \in Pickups |-> [status |-> "CREATED", customer |-> "c", driver |-> "none"]]
Foci == {"table", "driver", "tools"} \cup Settings \cup Chats

Init ==
  /\ focus \in Foci
  /\ asked \in IF focus = "tools" THEN Askings ELSE {Nobody}
  /\ table \in IF focus = "tools" /\ asked = Nobody THEN Tables ELSE {Untouched}
  /\ screen \in IF focus = "preferences" THEN {"profile", "admin", "driver"}
                 ELSE IF focus = "account" THEN {"profile", "admin"}
                 ELSE IF focus = "passkeys" THEN {"profile"} ELSE {"admin"}
  /\ AccountInit /\ (focus # "account" => Len(person.name) = 2)
  /\ PasskeysInit /\ (focus # "passkeys" => passkeys = {} /\ loading[1] = Waiting)
  /\ PrefsInit /\ (focus # "preferences" => kept = 0 /\ ~notify)
  /\ AnswersInit
  /\ focus # "models" => offered = {Primary}
  /\ focus # "history" => preference = "SI"
  /\ TableInit
  /\ IF focus = "table" THEN rows = [b \in Bookings |-> IF b = 1 THEN "CREATED" ELSE "COLLECTED"]
     ELSE viewer = "admin" /\ \A b \in Bookings : rows[b] = "CREATED"
  /\ DriverInit
  /\ focus = "table" => page = "list" /\ book[1].status = "ASSIGNED"
  /\ focus \notin {"table", "driver"} =>
       page = "list" /\ \A b \in Bookings : book[b].status = "ASSIGNED" /\ book[b].waste = 1

(* A bound: others change booking 1 only; booking 2 is completed or        *)
(* deleted; an administrator deletes no other; of the filters one at most  *)
(* is without a fresh fetch.                                               *)
FewChanges ==
  /\ \A f, g \in excused' : f = g
  /\ rows'[2] # rows[2] => calls' # calls
  /\ \A k \in calls' : IF k.b = 2 THEN k.op = "delete" \/ k.to = "COMPLETED"
                        ELSE k.op = "delete" => viewer = "customer"

Next ==
  /\ UNCHANGED <<focus, screen, toolVars>>
  /\ IF focus = "table" THEN TableNext /\ FewChanges ELSE UNCHANGED pageVars
  /\ IF focus = "driver" THEN DriverNext ELSE UNCHANGED driverVars
  /\ IF focus = "account" THEN AccountPageNext ELSE UNCHANGED accountVars
  /\ IF focus = "passkeys" THEN PasskeysNext ELSE UNCHANGED passkeyVars
  /\ IF focus = "preferences" THEN PrefsNext ELSE UNCHANGED prefVars
  /\ IF focus \in Chats THEN AnswersNext ELSE UNCHANGED answerVars
  /\ focus = "history" => UNCHANGED offered
  /\ focus = "models" => \A t \in Turns : turn'[t].question = "short"

Spec == Init /\ [][Next]_vars

Names == {<<"a", "b">>, <<"a", "b", "c">>}
=============================================================================
