--------------------------- MODULE PushSubscriptions ---------------------------
(***************************************************************************)
(* Push notifications: the browser's subscription (an endpoint of the push *)
(* service), the switch that shows it, the row PushSubscription of the     *)
(* server, and notifications sent meanwhile.                               *)
(***************************************************************************)
EXTENDS FiniteSets

CONSTANTS Subscribers,  \* users who sign in to this browser
          Endpoints,    \* subscriptions the push service may give out
          Notices,      \* notifications being sent
          Tickets,      \* bound: requests on their way at a time
          NoEndpoint, Nobody

ASSUME PushAssumption == NoEndpoint \notin Endpoints /\ Nobody \notin Subscribers

VARIABLES sub,    \* the browser's subscription
          old,    \* endpoints of which the push service says "gone"
          me,     \* the user signed in
          shown,  \* isSubscribed
          hook,   \* what the page does: mounting, rest, or waits for an answer
          asked,  \* requests on their way to the server or back
          row,    \* row[e]: the user of the row of e, Nobody: none
          notice  \* notice[n]: the rows it is still to be sent to

(* Observed only. *)
VARIABLES by,     \* the user who switched on last
          unsure, \* a request was given up, or the rows of a user deleted
          stuck   \* the browser refused to give up a subscription, or lost one

pushHistory == <<by, unsure, stuck>>
pushVars == <<sub, old, me, shown, hook, asked, row, notice, pushHistory>>
browser == <<sub, old, shown>>

PushInit ==
  /\ sub = NoEndpoint /\ old = {} /\ me \in Subscribers
  /\ shown = FALSE /\ hook = "mounting" /\ asked = {}
  /\ row = [e \in Endpoints |-> Nobody]
  /\ notice = [n \in Notices |-> {}]
  /\ by = Nobody /\ unsure = FALSE /\ stuck = FALSE

-----------------------------------------------------------------------------
(* The page. *)
Ready ==
  /\ hook = "mounting" /\ hook' = "rest"
  /\ shown' = (sub # NoEndpoint)
  /\ UNCHANGED <<sub, old, me, asked, row, notice, pushHistory>>

Unused == Tickets \ {q.n : q \in asked}

(* A request of the page, which waits for its answer ("out").              *)
Ask(kind, e) ==
  /\ Unused # {}
  /\ asked' = asked \cup {[n |-> CHOOSE n \in Unused : TRUE, kind |-> kind, user |-> me,
                           endpoint |-> e, at |-> "out"]}

(* The browser answers with the subscription it has, or a new one. *)
Subscribe ==
  /\ hook \in {"mounting", "rest"} /\ ~shown
  /\ sub' \in (IF sub = NoEndpoint THEN Endpoints \ old ELSE {sub})
  /\ shown' = TRUE /\ hook' = "subscribing"
  /\ Ask("subscribe", sub') /\ by' = me
  /\ UNCHANGED <<old, me, row, notice, unsure, stuck>>

Unsubscribe ==
  /\ hook = "rest" /\ shown /\ shown' = FALSE
  /\ IF sub = NoEndpoint THEN UNCHANGED <<hook, asked>>
     ELSE hook' = "unsubscribing" /\ Ask("unsubscribe", sub)
  /\ UNCHANGED <<sub, old, me, row, notice, pushHistory>>

GiveUpSubscription == sub' = NoEndpoint /\ old' = old \cup {sub}

(* Requests that the page gave up go on.                                   *)
GivenUp == {[q EXCEPT !.at = "late"] : q \in {p \in asked : p.at # "answered"}}
Served == {q \in asked : q.at = "answered"}

TakeSubscribed ==
  /\ hook = "subscribing" /\ Served # {}
  /\ asked' = asked \ Served /\ hook' = "rest"
  /\ UNCHANGED <<browser, me, row, notice, pushHistory>>

(* No answer, or an error: the subscription is undone, if the browser does *)
(* it.                                                                     *)
SubscribeFails ==
  /\ hook = "subscribing" /\ hook' = "rest"
  /\ shown' = FALSE
  /\ \/ GiveUpSubscription /\ UNCHANGED <<stuck, unsure>>
     \/ UNCHANGED <<sub, old>> /\ stuck' = TRUE /\ unsure' = TRUE
  /\ asked' = GivenUp
  /\ UNCHANGED <<me, row, notice, by>>

TakeUnsubscribed ==
  /\ hook = "unsubscribing" /\ Served # {}
  /\ asked' = asked \ Served /\ hook' = "rest"
  /\ \/ GiveUpSubscription /\ UNCHANGED <<shown, unsure>>
     \/ UNCHANGED <<sub, old>> /\ shown' = TRUE /\ unsure' = TRUE
  /\ UNCHANGED <<me, row, notice, by, stuck>>

(* 401: the browser's subscription is given up although the row stays.     *)
(* Another failure: the switch is set back.                                *)
UnsubscribeFails ==
  /\ hook = "unsubscribing" /\ hook' = "rest"
  /\ \/ GiveUpSubscription /\ UNCHANGED <<shown, unsure, stuck>>
     \/ UNCHANGED <<sub, old, shown>> /\ stuck' = TRUE /\ unsure' = TRUE
     \/ shown' = TRUE /\ unsure' = TRUE /\ UNCHANGED <<sub, old, stuck>>
  /\ asked' = GivenUp
  /\ UNCHANGED <<me, row, notice, by>>

(* The page is loaded again, perhaps by another user; requests go on.      *)
Reload ==
  /\ me' \in Subscribers
  /\ hook' = "mounting" /\ shown' = FALSE
  /\ unsure' = (unsure \/ hook \in {"subscribing", "unsubscribing"})
  /\ asked' = GivenUp
  /\ UNCHANGED <<sub, old, row, notice, by, stuck>>

(* The push service lets the subscription lapse.  The browser goes on with *)
(* it, or drops it: a bound, while the page waits for no answer.           *)
Lapse ==
  /\ sub # NoEndpoint /\ old' = old \cup {sub}
  /\ \/ sub \notin old /\ UNCHANGED <<sub, unsure, stuck>>
     \/ /\ hook \in {"mounting", "rest"} /\ sub' = NoEndpoint
        /\ unsure' = (unsure \/ hook = "rest") /\ stuck' = (stuck \/ hook = "rest")
  /\ UNCHANGED <<me, shown, hook, asked, row, notice, by>>

-----------------------------------------------------------------------------
(* The answer, if the page still waits for it. *)
Answer(q) == asked' = (asked \ {q}) \cup (IF q.at = "out" THEN {[q EXCEPT !.at = "answered"]} ELSE {})

LateAbout(e) == \E q \in asked : q.at = "late" /\ q.endpoint = e

(* The server: one statement per request.  A row that is created is none   *)
(* of those a notification has read.  Mutant: a row there is stays with    *)
(* its user.                                                               *)
ServeSubscribeKeepingUser(q) ==
  /\ q \in asked /\ q.kind = "subscribe" /\ q.at # "answered"
  /\ row' = [row EXCEPT ![q.endpoint] = IF @ = Nobody THEN q.user ELSE @]
  /\ Answer(q)
  /\ unsure' = (unsure /\ (q.at = "late" \/ LateAbout(sub)))
  /\ UNCHANGED <<browser, me, hook, notice, by, stuck>>

ServeSubscribe(q) ==
  /\ q \in asked /\ q.kind = "subscribe" /\ q.at # "answered"
  /\ row' = [row EXCEPT ![q.endpoint] = q.user]
  /\ notice' = IF row[q.endpoint] # Nobody THEN notice
               ELSE [n \in Notices |-> notice[n] \ {q.endpoint}]
  /\ Answer(q)
  /\ unsure' = (unsure /\ (q.at = "late" \/ LateAbout(sub)))
  /\ UNCHANGED <<browser, me, hook, by, stuck>>

(* Only the user's own row; the answer is the same. *)
ServeUnsubscribe(q) ==
  /\ q \in asked /\ q.kind = "unsubscribe" /\ q.at # "answered"
  /\ row' = [row EXCEPT ![q.endpoint] = IF @ = q.user THEN Nobody ELSE @]
  /\ Answer(q)
  /\ UNCHANGED <<browser, me, hook, notice, pushHistory>>

(* A request or its answer is lost. *)
Lose(q) ==
  /\ q \in asked /\ asked' = asked \ {q}
  /\ UNCHANGED <<browser, me, hook, row, notice, pushHistory>>

(* deleteMe and the removal of a user take the user's rows with them.      *)
DeleteRows(u) ==
  /\ row' = [e \in Endpoints |-> IF row[e] = u THEN Nobody ELSE row[e]]
  /\ unsure' = TRUE
  /\ UNCHANGED <<browser, me, hook, asked, notice, by, stuck>>

(* notify to one user, broadcast to all: the rows are read ...             *)
Notify(n, users) ==
  /\ notice[n] = {}
  /\ notice' = [notice EXCEPT ![n] = {e \in Endpoints : row[e] \in users}]
  /\ UNCHANGED <<browser, me, hook, asked, row, pushHistory>>

(* ... and tried side by side: a row whose endpoint is gone is deleted, an *)
(* endpoint that fails otherwise keeps its row.                            *)
Tried(n, e, rows) ==
  /\ row' = rows
  /\ notice' = [m \in Notices |-> IF m = n \/ rows[e] # row[e] THEN notice[m] \ {e} ELSE notice[m]]
  /\ UNCHANGED <<browser, me, hook, asked, pushHistory>>

Send(n, e) ==
  /\ e \in notice[n]
  /\ IF e \in old THEN Tried(n, e, [row EXCEPT ![e] = Nobody]) ELSE Tried(n, e, row)

PushNext ==
  \/ Ready \/ Subscribe \/ Unsubscribe \/ Reload \/ Lapse
  \/ TakeSubscribed \/ SubscribeFails \/ TakeUnsubscribed \/ UnsubscribeFails
  \/ \E q \in asked : ServeSubscribe(q) \/ ServeUnsubscribe(q) \/ Lose(q)
  \/ \E u \in Subscribers : DeleteRows(u)
  \/ \E n \in Notices : \/ \E u \in Subscribers : Notify(n, {u})
                        \/ Notify(n, Subscribers)
                        \/ \E e \in Endpoints : Send(n, e)

PushSpec == PushInit /\ [][PushNext]_pushVars

-----------------------------------------------------------------------------
PushTypeOK ==
  /\ sub \in Endpoints \cup {NoEndpoint} /\ old \subseteq Endpoints
  /\ me \in Subscribers /\ shown \in BOOLEAN
  /\ hook \in {"mounting", "rest", "subscribing", "unsubscribing"}
  /\ \A q \in asked : q.kind \in {"subscribe", "unsubscribe"} /\ q.at \in {"out", "late", "answered"}
  /\ row \in [Endpoints -> Subscribers \cup {Nobody}]
  /\ notice \in [Notices -> SUBSET Endpoints]

(* A switch that is on has a row behind it at the server, of the user who  *)
(* switched on last, whatever was clicked, sent and notified meanwhile,    *)
(* unless a request was given up, rows of a user were deleted, or the push *)
(* service let the subscription lapse: then a notification takes the row,  *)
(* and the switch stays on.                                                *)
ShownIsStored ==
  hook = "rest" /\ shown /\ ~unsure =>
    row[sub] = by \/ (sub \in old /\ row[sub] = Nobody)

(* A switch at rest tells what the browser has, unless the browser refused *)
(* to give a subscription up or dropped one while the page was open.       *)
ShownIsSubscribed == hook = "rest" /\ ~stuck => (shown <=> sub # NoEndpoint)

(* The switch, the browser's subscription and the server's row agree.      *)
PushInv == PushTypeOK /\ ShownIsStored /\ ShownIsSubscribed
=============================================================================
