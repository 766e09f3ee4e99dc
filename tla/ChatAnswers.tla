----------------------------- MODULE ChatAnswers -----------------------------
(***************************************************************************)
(* What the chat assistant answers outside a booking flow: the tools a     *)
(* question makes it run and what they count, the routes it suggests, the  *)
(* history and the language it keeps per session, and the model it found   *)
(* when the configured one is gone.  A question is the set of the signals  *)
(* its regular expressions look for, or, for the language, what it shows.  *)
(***************************************************************************)
EXTENDS BookingStatus, Naturals, Sequences

CONSTANTS Models,      \* models of the provider, in the order it lists them
          Flash, Pro,  \* those named so
          Primary,     \* the model configured
          NoModel,     \* none resolved, none found
          NoMemory,    \* no session stored
          Turns,       \* slots for requests the server works on
          MaxMessages, \* cap on a history (20 in the code)
          DriverTake,  \* rows of the driver's tool (15 in the code)
          Pickups,     \* bookings the tools read
          MaxOffers,  \* bound: changes of the models offered
          MaxAsked     \* bound: questions asked

ASSUME ChatAssumption ==
  /\ Models \subseteq Nat /\ Primary \in Nat /\ NoModel \notin Nat \cup Turns
  /\ MaxMessages \in Nat /\ MaxMessages > 1 /\ DriverTake \in Nat
  /\ Pickups \subseteq Nat /\ IsFiniteSet(Pickups)

Requesters == {"GUEST", "CUSTOMER", "DRIVER", "ADMIN", "SUPER_ADMIN"}
isAdminRole(role) == role \in {"ADMIN", "SUPER_ADMIN"}

-----------------------------------------------------------------------------
(* Signals of a question, and the expressions they satisfy.                *)

Signals == {"my", "profile", "my profile", "bookings", "my points", "rewards",
            "pending pickups", "notifications", "assigned bookings", "unassigned",
            "dashboard summary", "price", "waste", "reward rules", "how"}

Personal == {"my", "my profile", "my points"}
Entity == {"profile", "my profile", "bookings", "my points", "rewards", "reward rules",
           "pending pickups", "notifications", "assigned bookings", "dashboard summary"}
AdminScope == {"unassigned", "dashboard summary"}

Mode(q) ==
  LET data == \/ q \cap Personal # {} /\ q \cap Entity # {}
              \/ q \cap (AdminScope \cup {"my points", "pending pickups", "assigned bookings"}) # {}
  IN IF ~data THEN "knowledge" ELSE IF "how" \in q THEN "mixed" ELSE "data"

isProfileQuery(q) == "my profile" \in q
isBookingsQuery(q) == q \cap {"bookings", "assigned bookings"} # {}
isRewardsQuery(q) == q \cap {"my points", "rewards", "reward rules"} # {}
isNotificationsQuery(q) == "notifications" \in q
isPendingPickupsQuery(q) == "pending pickups" \in q
isAssignedBookingsQuery(q) == "assigned bookings" \in q
wantsBookings(q) == isBookingsQuery(q) \/ isPendingPickupsQuery(q)

asksPrivateData(q) ==
  q \cap (Personal \cup {"pending pickups", "assigned bookings"}) # {}
asksAdminSummary(q) == q \cap AdminScope # {}

(* Mutant: rewards are looked up for whoever is signed in.                 *)
ToolsUnchecked(q, role) ==
  IF Mode(q) # "knowledge" /\ isRewardsQuery(q) /\ role # "GUEST" THEN {"getUserRewards"} ELSE {}

(* The tools run with the rights of the person who asks.                   *)
DataTools(q, role) ==
  IF Mode(q) = "knowledge" \/ (asksPrivateData(q) /\ role = "GUEST") THEN {}
  ELSE {tool \in {"getCurrentUserProfile", "getUserBookings", "getUserRewards",
                  "getUserNotifications", "getDriverAssignedBookings", "getAdminBookingSummary"} :
          CASE tool = "getCurrentUserProfile" -> isProfileQuery(q) /\ role # "GUEST"
            [] tool = "getUserBookings"       -> wantsBookings(q) /\ role = "CUSTOMER"
            [] tool = "getUserRewards"        -> isRewardsQuery(q) /\ role = "CUSTOMER"
            [] tool = "getUserNotifications"  -> isNotificationsQuery(q) /\ role # "GUEST"
            [] tool = "getDriverAssignedBookings" ->
                 (isAssignedBookingsQuery(q) \/ wantsBookings(q)) /\ role = "DRIVER"
            [] tool = "getAdminBookingSummary" ->
                 (asksAdminSummary(q) \/ isPendingPickupsQuery(q)) /\ isAdminRole(role)}

KnowledgeTools(q) ==
  (IF "price" \in q THEN {"getWasteTypesAndRates"} ELSE {})
    \cup (IF "reward rules" \in q THEN {"getRewardRules"} ELSE {})

(* requireAuth and requireRole: who may run a tool.                        *)
MayRun(tool) ==
  CASE tool \in {"getUserBookings", "getUserRewards"} -> {"CUSTOMER"}
    [] tool = "getDriverAssignedBookings" -> {"DRIVER"}
    [] tool = "getAdminBookingSummary" -> {"ADMIN", "SUPER_ADMIN"}
    [] tool \in {"getCurrentUserProfile", "getUserNotifications"} -> Requesters \ {"GUEST"}
    [] OTHER -> Requesters

(* The routes suggested with what the tools found, where they found it,    *)
(* and by the words of the question; without any, the first four of the    *)
(* site's map for the role.                                                *)
ToolRoute(tool, q, role) ==
  CASE tool = "getUserBookings" ->
         {IF isPendingPickupsQuery(q) THEN "/users/pending-pickups" ELSE "/users/bookings"}
    [] tool = "getUserRewards" -> {"/users/rewards"}
    [] tool = "getUserNotifications" ->
         {CASE role = "DRIVER" -> "/driver/notifications"
            [] isAdminRole(role) -> "/admin/notifications"
            [] OTHER -> "/users/notifications"}
    [] tool = "getDriverAssignedBookings" -> {"/driver/bookings"}
    [] tool = "getAdminBookingSummary" -> {"/admin/bookings"}
    [] tool = "getWasteTypesAndRates" -> {"/admin/waste"}
    [] tool = "getRewardRules" -> {"/users/rewards"}
    [] OTHER -> {}

RefusalRoute(q, role) ==
  CASE asksPrivateData(q) /\ role = "GUEST" -> {"/login"}
    [] asksAdminSummary(q) /\ role = "CUSTOMER" -> {"/users/bookings"}
    [] asksAdminSummary(q) /\ role = "DRIVER" -> {"/driver/bookings"}
    [] OTHER -> {}

PendingRoute(role) ==
  CASE role = "CUSTOMER" -> {"/users/pending-pickups"}
    [] role = "DRIVER" -> {"/driver/bookings"}
    [] isAdminRole(role) -> {"/admin/bookings"}
    [] OTHER -> {}

WordRoutes(q, role) ==
  (IF role = "CUSTOMER" /\ isBookingsQuery(q) THEN {"/users/bookings"} ELSE {})
    \cup (IF role = "CUSTOMER" /\ isRewardsQuery(q) THEN {"/users/rewards"} ELSE {})
    \cup (IF isPendingPickupsQuery(q) THEN PendingRoute(role) ELSE {})
    \cup (IF isNotificationsQuery(q) THEN ToolRoute("getUserNotifications", q, role) ELSE {})
    \cup (IF "waste" \notin q THEN {}
          ELSE IF isAdminRole(role) THEN {"/admin/waste"} ELSE {"/users/bookings/new"})

DefaultRoutes(role) ==
  CASE role = "GUEST" -> {}
    [] role = "DRIVER" -> {"/driver/bookings", "/driver/notifications"}
    [] OTHER -> {"/users/dashboard", "/users/bookings", "/users/rewards", "/users/notifications"}

Tools(q, role) == DataTools(q, role) \cup KnowledgeTools(q)

Suggested(q, role, found) ==
  LET routes == (UNION {ToolRoute(tool, q, role) : tool \in found})
                  \cup (IF Mode(q) = "knowledge" THEN {} ELSE RefusalRoute(q, role))
                  \cup WordRoutes(q, role)
  IN IF routes = {} THEN DefaultRoutes(role) ELSE routes

(* Who may open a route: WEBSITE_ROUTE_MAP, and the layout of the booking  *)
(* form, which the map does not list.                                      *)
AllowedRoles(route) ==
  CASE route \in {"/users/dashboard", "/users/bookings", "/users/rewards",
                  "/users/notifications", "/users/pending-pickups", "/users/bookings/new"} ->
         {"CUSTOMER", "ADMIN", "SUPER_ADMIN"}
    [] route \in {"/driver/bookings", "/driver/notifications"} -> {"DRIVER"}
    [] OTHER -> {"ADMIN", "SUPER_ADMIN"}

-----------------------------------------------------------------------------
(* What the tools count.  A table gives each booking its status, its       *)
(* customer and its driver, "none" for no driver; bookings are numbered in *)
(* the order of their dates.                                               *)

Tables == [Pickups -> [status: AllStatuses, customer: {"c", "d"}, driver: {"none", "v"}]]

CUSTOMER_PENDING_STATUSES == {"CREATED", "SCHEDULED", "ASSIGNED", "IN_PROGRESS"}
DRIVER_ACTIVE_STATUSES == {"ASSIGNED", "IN_PROGRESS"}

VARIABLES asked,      \* who asks what of the tools
          table       \* the bookings they find

toolVars == <<asked, table>>

Askings == [role: Requesters, signals: {{a, b, c} : a, b, c \in Signals}]
ToolsInit == asked \in Askings /\ table \in Tables

pendingCount(customer) ==
  Cardinality({b \in Pickups : table[b].customer = customer
                               /\ table[b].status \in CUSTOMER_PENDING_STATUSES})

countsByStatus(status) ==
  Cardinality({b \in Pickups : NormalizeBookingStatus(table[b].status) = status})

pendingPickups ==
  countsByStatus("CREATED") + countsByStatus("ASSIGNED") + countsByStatus("IN_PROGRESS")

unassignedBookings ==
  Cardinality({b \in Pickups : table[b].driver = "none"
                               /\ table[b].status \in {"CREATED", "SCHEDULED"}})

Taken(driver) ==
  {b \in Pickups : /\ table[b].driver = driver
                   /\ Cardinality({c \in Pickups : c < b /\ table[c].driver = driver}) < DriverTake}

activeCount(driver) ==
  Cardinality({b \in Taken(driver) :
                 NormalizeBookingStatus(table[b].status) \in DRIVER_ACTIVE_STATUSES})

-----------------------------------------------------------------------------
(* Sessions.                                                               *)

VARIABLES box,        \* the messages the chat box shows
          awaited,    \* the request the box waits for, or NoModel
          session,    \* what is stored under the session's key
          preference, \* the language chosen in the box
          turn,       \* turn[t]: a request the server works on
          resolvedModel, \* the model found in place of the configured one
          offered,    \* the models the provider serves
          offers,     \* changes of offered so far
          said        \* questions asked so far

answerVars == <<box, awaited, session, preference, turn, resolvedModel, offered, offers,
                said>>

Says(q) == [by |-> "user", text |-> q]
Tells(q) == [by |-> "assistant", text |-> q]
Failed == [by |-> "assistant", text |-> "error"]

(* slice(-n)                                                               *)
LastOf(messages, n) ==
  IF Len(messages) <= n THEN messages ELSE SubSeq(messages, Len(messages) - n + 1, Len(messages))

(* The language a question shows; a short one shows none.                  *)
Questions == {"EN", "SI", "short"}

LastShown(messages) ==
  LET shows == {i \in DOMAIN messages : messages[i].by = "user" /\ messages[i].text # "short"}
  IN IF shows = {} THEN "none" ELSE messages[CHOOSE i \in shows : \A j \in shows : j <= i].text

Language(q, payload) ==
  CASE preference # "AUTO" -> preference
    [] preference = "AUTO" /\ q # "short" -> q
    [] preference = "AUTO" /\ q = "short" /\ session # NoMemory -> session.language
    [] OTHER -> IF LastShown(payload) = "none" THEN "EN" ELSE LastShown(payload)

(* The stored history, or the one sent, up to the question.                *)
History(payload, q) ==
  IF session # NoMemory THEN session.history
  ELSE LET same == {i \in DOMAIN payload : payload[i] = Says(q)}
           last == CHOOSE i \in same : \A j \in same : j <= i
       IN SubSeq(payload, 1, last - 1)

Quiet == [pc |-> "free", history |-> <<>>, question |-> "short", language |-> "EN",
          model |-> NoModel, disturbed |-> FALSE]

AnswersInit ==
  /\ box = <<>> /\ awaited = NoModel /\ session = NoMemory
  /\ preference \in {"AUTO", "SI"}
  /\ turn = [t \in Turns |-> Quiet]
  /\ resolvedModel = NoModel
  /\ offered \in SUBSET Models
  /\ offers = 0 /\ said = 0

(* sendMessage, and the part of handleChat before the language model is    *)
(* asked.                                                                  *)
SendMessage(t, q) ==
  /\ awaited = NoModel /\ turn[t].pc = "free"
  /\ said < MaxAsked /\ said' = said + 1
  /\ box' = LastOf(Append(box, Says(q)), MaxMessages)
  /\ awaited' = t
  /\ LET payload == Append(LastOf(box, MaxMessages - 1), Says(q))
     IN turn' = [turn EXCEPT ![t] =
                   [pc |-> "posted", history |-> History(payload, q), question |-> q,
                    language |-> Language(q, payload),
                    model |-> IF resolvedModel = NoModel THEN Primary ELSE resolvedModel,
                    disturbed |-> FALSE]]
  /\ UNCHANGED <<session, preference, resolvedModel, offered, offers>>

(* What the box shows of an answer it still waits for.                     *)
Show(t, message) ==
  IF awaited = t THEN /\ box' = LastOf(Append(box, message), MaxMessages)
                      /\ awaited' = NoModel
  ELSE UNCHANGED <<box, awaited>>

Reply(t) ==
  /\ LET was == turn[t]
     IN session' = [history |-> LastOf(was.history \o <<Says(was.question), Tells(was.question)>>,
                                       MaxMessages),
                    language |-> was.language]
  /\ Show(t, Tells(turn[t].question))
  /\ turn' = [turn EXCEPT ![t] = Quiet]

Refuse(t, why) ==
  /\ Show(t, Failed)
  /\ turn' = [turn EXCEPT ![t] = [Quiet EXCEPT !.pc = why, !.disturbed = turn[t].disturbed]]
  /\ UNCHANGED session

(* The first resolvable model: a flash one, else a pro one, else any.      *)
Pick ==
  LET best == IF offered \cap Flash # {} THEN offered \cap Flash
              ELSE IF offered \cap Pro # {} THEN offered \cap Pro ELSE offered
  IN IF best = {} THEN NoModel ELSE CHOOSE m \in best : \A n \in best : m <= n

Generate(t) ==
  /\ turn[t].pc = "posted"
  /\ IF turn[t].model \in offered THEN Reply(t)
     ELSE /\ turn' = [turn EXCEPT ![t].pc = "discovering"]
          /\ UNCHANGED <<box, awaited, session>>
  /\ UNCHANGED <<preference, resolvedModel, offered, offers, said>>

Discover(t) ==
  /\ turn[t].pc = "discovering"
  /\ IF Pick # NoModel /\ Pick # turn[t].model
     THEN /\ turn' = [turn EXCEPT ![t].pc = "retrying", ![t].model = Pick]
          /\ UNCHANGED <<box, awaited, session>>
     ELSE Refuse(t, "refused")
  /\ UNCHANGED <<preference, resolvedModel, offered, offers, said>>

GenerateAgain(t) ==
  /\ turn[t].pc = "retrying"
  /\ IF turn[t].model \in offered
     THEN Reply(t) /\ resolvedModel' = turn[t].model
     ELSE Refuse(t, "refused") /\ UNCHANGED resolvedModel
  /\ UNCHANGED <<preference, offered, offers, said>>

(* The provider, or the way to it, fails otherwise.                        *)
ProviderFails(t) ==
  /\ turn[t].pc \in {"posted", "discovering", "retrying"}
  /\ Refuse(t, "failed")
  /\ UNCHANGED <<preference, resolvedModel, offered, offers, said>>

Settled(t) ==
  /\ turn[t].pc \in {"refused", "failed"}
  /\ turn' = [turn EXCEPT ![t] = Quiet]
  /\ UNCHANGED <<box, awaited, session, preference, resolvedModel, offered, offers, said>>

(* apiFetch gives up; the server goes on.                                  *)
TimesOut ==
  /\ awaited # NoModel
  /\ box' = LastOf(Append(box, Failed), MaxMessages)
  /\ awaited' = NoModel
  /\ UNCHANGED <<session, preference, turn, resolvedModel, offered, offers, said>>

(* A session expires six hours after its last answer.                      *)
cleanupExpiredSessions ==
  /\ session # NoMemory
  /\ \A t \in Turns : turn[t].pc = "free"
  /\ session' = NoMemory
  /\ UNCHANGED <<box, awaited, preference, turn, resolvedModel, offered, offers, said>>

ModelsChange ==
  /\ offers < MaxOffers
  /\ \E models \in SUBSET Models : models # offered /\ offered' = models
  /\ offers' = offers + 1
  /\ turn' = [t \in Turns |-> [turn[t] EXCEPT !.disturbed = turn[t].pc # "free"]]
  /\ UNCHANGED <<box, awaited, session, preference, resolvedModel, said>>

AnswersNext ==
  \/ TimesOut \/ cleanupExpiredSessions \/ ModelsChange
  \/ \E t \in Turns :
       \/ Generate(t) \/ Discover(t) \/ GenerateAgain(t) \/ ProviderFails(t) \/ Settled(t)
       \/ \E q \in Questions : SendMessage(t, q)

AnswersSpec ==
  /\ ToolsInit /\ AnswersInit
  /\ [][AnswersNext /\ UNCHANGED toolVars]_<<toolVars, answerVars>>

-----------------------------------------------------------------------------
(* Properties.                                                             *)

(* Routes that go with a topic, whoever asks about it: with the price      *)
(* list, with the reward rules and with the word waste.                    *)
Topical(q) ==
  {route \in {"/admin/waste", "/users/rewards", "/users/bookings/new"} :
     CASE route = "/admin/waste" -> "price" \in q
       [] route = "/users/rewards" -> "reward rules" \in q
       [] route = "/users/bookings/new" -> "waste" \in q}

(* No question makes the assistant run a tool that would refuse the person *)
(* who asked, and someone signed in is suggested no route they may not     *)
(* open but those that go with a topic, whichever of the tools fail.       *)
ToolsAccept ==
  LET q == asked.signals
      role == asked.role
  IN /\ \A tool \in Tools(q, role) : role \in MayRun(tool)
     /\ role # "GUEST" =>
          \A found \in SUBSET Tools(q, role) : \A route \in Suggested(q, role, found) :
            role \in AllowedRoles(route) \/ route \in Topical(q)

(* Asked about the same bookings, the tools tell customers, drivers and    *)
(* administrators numbers that agree, legacy statuses included.            *)
CountsAgree ==
  /\ pendingPickups = pendingCount("c") + pendingCount("d")
  /\ unassignedBookings <= pendingPickups
  /\ /\ Cardinality({b \in Pickups : table[b].driver = "v"}) <= DriverTake
     /\ \A b \in Pickups : table[b].status \in DRIVER_ACTIVE_STATUSES => table[b].driver = "v"
     => activeCount("v") + countsByStatus("CREATED") = pendingPickups

(* A history that is kept is one of questions with their own answers, and  *)
(* the language is the one its last telling question showed.               *)
Paired(messages) ==
  \A i \in DOMAIN messages :
    /\ i > 1 => messages[i].by # messages[i - 1].by
    /\ i > 1 /\ messages[i].by = "assistant" =>
         messages[i].text \in {messages[i - 1].text, "error"}

SessionConsistent ==
  /\ session # NoMemory => Paired(session.history)
  /\ \A t \in Turns : Paired(turn[t].history)
  /\ session # NoMemory /\ preference = "AUTO" =>
       LastShown(session.history) \in {"none", session.language}

(* A request is refused for want of a model only if none is offered or the *)
(* offer changed while it was served: a model that has gone is replaced.   *)
ModelHeals ==
  \A t \in Turns : turn[t].pc = "refused" => turn[t].disturbed \/ offered = {}

(* The four together.                                                      *)
ChatInv == ToolsAccept /\ CountsAgree /\ SessionConsistent /\ ModelHeals
=============================================================================
