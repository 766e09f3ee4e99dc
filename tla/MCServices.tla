------------------------------ MODULE MCServices ------------------------------
(***************************************************************************)
(* Parts of the server, and pages of an administrator, side by side: a     *)
(* behaviour is one of a single part, while the others rest.               *)
(***************************************************************************)
EXTENDS PushSubscriptions, StatusAvailability, LaunchNotify, ChatRateLimit, CursorPages,
        UsersPanel, SmsPanel, PricesPanel, Screening, TLC

CONSTANTS u1, u2, r1, r2, r3

VARIABLE focus

ServicesInit ==
  /\ PushInit /\ StatusInit /\ LaunchInit /\ RateInit /\ Init
  /\ UsersPanelInit /\ SmsInit /\ PricesInit /\ ScreenInit
  /\ focus \in {"push", "status", "launch", "rate", "pages", "users", "sms", "prices", "photos"}
  /\ focus # "status" => stored = {}
  /\ focus # "launch" => \A r \in Notifiers : address[r] = "e"
  /\ focus # "push" => me = u1
  /\ focus # "prices" => exists = {}
  /\ focus # "photos" => enabled

ServicesNext ==
  /\ UNCHANGED focus
  /\ IF focus = "push" THEN PushNext ELSE UNCHANGED pushVars
  /\ IF focus = "status" THEN StatusNext ELSE UNCHANGED statusVars
  /\ IF focus = "launch" THEN LaunchNext ELSE UNCHANGED launchVars
  /\ IF focus = "rate" THEN RateNext ELSE UNCHANGED rateVars
  /\ IF focus = "pages" THEN Next ELSE UNCHANGED vars
  /\ IF focus = "users" THEN UsersPanelNext ELSE UNCHANGED panelVars
  /\ IF focus = "sms" THEN SmsNext ELSE UNCHANGED smsVars
  /\ IF focus = "prices" THEN PricesNext ELSE UNCHANGED pricesVars
  /\ IF focus = "photos" THEN ScreenNext ELSE UNCHANGED screenVars

ServicesSpec == ServicesInit /\ [][ServicesNext]_<<pushVars, statusVars, launchVars, rateVars, vars, panelVars,
                                        smsVars, pricesVars, screenVars, focus>>

(* Phones 1 and 2 are one number written in two ways; 3 is a foreign one.  *)
DialledAs == [p \in 1 .. 3 |-> IF p < 3 THEN 9 ELSE 0]

(* The first pickup has a photo of its own, both have that of the order.   *)
Photos == [p \in 1 .. 2 |-> IF p = 1 THEN {1, 2} ELSE {2}]

(* The confidences of the code, and no others set.                         *)
AlertAt == [v \in {"NON_WASTE", "WASTE_BUT_DIFFERENT", "UNCERTAIN"} |->
              CASE v = "NON_WASTE" -> 45 [] v = "WASTE_BUT_DIFFERENT" -> 55 [] v = "UNCERTAIN" -> 70]

Interchangeable == Permutations({r1, r2, r3})
=============================================================================
